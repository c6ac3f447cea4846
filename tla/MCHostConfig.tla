---------------------------- MODULE MCHostConfig ----------------------------
(***************************************************************************)
(* HostConfig for TLC: two Hosts on one agents.yaml, the first with an id  *)
(* file (--id-file, as both Hosts of docker-compose.yml have it), the      *)
(* second with an id in its environment (MYCOAGENT_AGENT_ID), both started *)
(* with --executor echo; no file, the committed example, and one whose     *)
(* second agent is incomplete.                                             *)
(***************************************************************************)
EXTENDS HostConfig

CONSTANTS ollama, envId

MCHostName == <<"alpha", "beta">>
MCNewNames == {"gamma"}
MCUrls     == {ollama}
MCEnvId    == <<NoId, envId>>
MCIdFiles  == {1}

Example    == [h \in 1..2 |-> [name |-> MCHostName[h], mode |-> "auto", url |-> ollama,
                               tags |-> "given"]]
Incomplete == [Example EXCEPT ![2].url = NoUrl]
MCFiles    == {NoFile, Example, Incomplete}

\* This deployment is one of those that HostConfigProofs takes for granted where
\* it proves BehindIsWarned and CatalogFollows.
ASSUME DeploymentAssumption == Catalogued /\ Plain /\ Named
=============================================================================
