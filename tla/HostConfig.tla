------------------------------ MODULE HostConfig ------------------------------
(***************************************************************************)
(* The configuration of Hosts that run one agent each: agents.yaml and the *)
(* init command that writes it and posts it to the running Hosts (cli.py,  *)
(* local_config.py), what a Host makes of it when it boots (node in        *)
(* cli.py) and when it is told (apply_config in runtime.py), the file with *)
(* its catalog id (identity.py), and the rows its registrations write.     *)
(*                                                                         *)
(* Grain of atomicity.  init is a process of its own: it opens the file    *)
(* for writing, which empties it, writes it, and posts to one Host after   *)
(* the other.  A boot reads the yaml and the id file, writes the id file   *)
(* the same way, registers, and listens once that is answered.  A          *)
(* /configure changes the agent at once and awaits its registration.       *)
(* Either process may be killed between any two of these.                  *)
(*                                                                         *)
(* Abstractions.  One init runs at a time and nobody else edits the file.  *)
(* Of the skills, tools and models only this is kept: whether they include *)
(* what discover_opencode_catalog found on the machine (`tags`).  What the *)
(* agent's executor is, is its kind and the LLM it talks to.               *)
(***************************************************************************)
EXTENDS Naturals, Sequences, FiniteSets, FiniteSetsExt

CONSTANTS HostName,     \* --name of each Host; default_agents writes the same
          NewNames,     \* names the wizard may give instead
          Urls,         \* LLM URLs
          NoUrl,        \* llm_url is ""
          NotGiven,     \* no --llm-url and no --provider
          NoFile,       \* the file does not exist
          FirstFiles,   \* what the yaml file may be at first
          HostExecutor, \* --executor of the Hosts
          EnvUrl,       \* MYCOAGENT_LLM_BASE_URL of the Hosts, or NoUrl
          EnvId,        \* per Host: MYCOAGENT_AGENT_ID, or NoId
          HasIdFile,    \* the Hosts with --id-file
          NoId,
          MaxInits,     \* bound on the init commands explored
          MaxFaults     \* bound on the kills (of Hosts, of init) and failed boots

Hosts == DOMAIN HostName
Names == NewNames \union {HostName[h] : h \in Hosts}
Modes == {"auto", "echo", "agent", "opencode"}
Tags  == {"given", "discovered"}
Entries == [name : Names, mode : Modes, url : Urls \union {NoUrl}, tags : Tags]

ASSUME ConfigAssumption ==
    /\ HostName \in Seq(STRING) /\ HostName # <<>>
    /\ NoUrl \notin Urls /\ NotGiven \notin Urls \union {NoUrl}
    /\ HostExecutor \in Modes /\ EnvUrl \in Urls \union {NoUrl}
    /\ HostExecutor = "agent" => EnvUrl # NoUrl
    /\ DOMAIN EnvId = Hosts /\ HasIdFile \subseteq Hosts
    /\ NoId \notin Nat /\ \A h \in Hosts : EnvId[h] \notin Nat    \* no uuid
    /\ NoFile \notin Seq(Entries)
    /\ \A f \in FirstFiles : f = NoFile \/ f \in Seq(Entries)
    /\ {MaxInits, MaxFaults} \subseteq Nat

VARIABLES
    file,       \* agents.yaml: its entries (a file that is empty has none)
    init,       \* the init command
    hosts,      \* per Host: its process and what its agent is
    idFile,     \* per Host: the id in its id file, 0 if that is empty, or NoId
    wire,       \* registrations on their way to the manager
    rows,       \* the manager's rows, by id
    lastId,     \* ids of uuid4 are told apart by number
    lastSend,   \* history: registrations are numbered as they are sent
    doubt,      \* history: the Hosts that have neither read the file since it
                \* was written nor were reported as applied by init
    tears,      \* history, per Host: kills that left its id file empty
    inits, faults \* bounds

vars == <<file, init, hosts, idFile, wire, rows, lastId, lastSend, doubt, tears, inits, faults>>

IdleInit == [pc |-> "idle", plan |-> <<>>, urls |-> 0, next |-> 0, settles |-> FALSE]
NoAgent  == [name |-> HostName[1], tags |-> "given", kind |-> "none", url |-> NoUrl, planner |-> NoUrl]
DownHost == [pc |-> "down", agent |-> NoAgent, id |-> NoId, reg |-> "none", seq |-> 0]

Init == /\ file \in FirstFiles
        /\ init = IdleInit
        /\ hosts = [h \in Hosts |-> DownHost]
        /\ idFile = [h \in Hosts |-> NoId]
        /\ wire = {} /\ rows = <<>>
        /\ lastId = 0 /\ lastSend = 0
        /\ doubt = {}
        /\ tears = [h \in Hosts |-> 0]
        /\ inits = 0 /\ faults = 0

-----------------------------------------------------------------------------
(* What an entry makes of an agent.                                        *)

\* _executor_and_planner: the executor of an agent that brings none.
Worker == CASE HostExecutor = "opencode" -> [kind |-> "opencode", url |-> NoUrl]
            [] HostExecutor = "echo" \/ (HostExecutor = "auto" /\ EnvUrl = NoUrl)
                 -> [kind |-> "echo", url |-> NoUrl]
            [] OTHER -> [kind |-> "agent", url |-> EnvUrl]

Agent(name, tags, executor, planner) ==
    [name |-> name, tags |-> tags, kind |-> executor.kind, url |-> executor.url,
     planner |-> planner]

\* attach_spec_llms.
LlmLoop(url) == [kind |-> "agent", url |-> url]

\* spec_from_local, and the executor and planner node() gives the runtime.
Boots(e) ==
    CASE e.mode = "opencode" ->
            Agent(e.name, "discovered", [kind |-> "opencode", url |-> NoUrl], EnvUrl)
      [] e.mode = "echo" -> Agent(e.name, e.tags, [kind |-> "echo", url |-> NoUrl], EnvUrl)
      [] e.mode \in {"auto", "agent"} /\ e.url # NoUrl ->
            Agent(e.name, e.tags, LlmLoop(e.url), e.url)
      [] OTHER -> Agent(e.name, e.tags, Worker, EnvUrl)

\* A Host without the file: its own flags.
BootsBare(h) ==
    Agent(HostName[h], IF HostExecutor = "opencode" THEN "discovered" ELSE "given", Worker, EnvUrl)

\* apply_config, of the body that apply_config_to_hosts makes of an entry.
Applies(e) ==
    CASE e.mode = "opencode" -> Agent(e.name, e.tags, [kind |-> "opencode", url |-> NoUrl], NoUrl)
      [] e.mode = "echo" \/ (e.mode # "opencode" /\ e.url = NoUrl) ->
            Agent(e.name, e.tags, [kind |-> "echo", url |-> NoUrl], NoUrl)
      [] OTHER -> Agent(e.name, e.tags, LlmLoop(e.url), e.url)

-----------------------------------------------------------------------------
(* What init makes of its flags.  --provider opencode is the executor      *)
(* opencode, --provider echo the empty URL.                                *)

Flags == [executor : Modes \union {"none"}, url : Urls \union {NoUrl, NotGiven}]

\* agent_is_configured; is_configured.
Configured(e) == e.mode \in {"opencode", "echo"} \/ e.url # NoUrl
Complete(f) == f # NoFile /\ f # <<>> /\ \A i \in DOMAIN f : Configured(f[i])

\* Mutant: an empty URL leaves the mode alone.
FlagEntryKeepsMode(e, x) ==
    LET mode == IF x.executor = "none" THEN e.mode ELSE x.executor
        found == x.executor = "opencode"
        own == [e EXCEPT !.mode = mode, !.url = IF found THEN NoUrl ELSE @,
                         !.tags = IF found THEN "discovered" ELSE @]
    IN  IF x.url = NotGiven \/ mode = "opencode" THEN own
        ELSE [own EXCEPT !.url = x.url, !.mode = IF x.url = NoUrl THEN @ ELSE "auto"]

\* apply_flags, of one agent.
FlagEntry(e, x) ==
    LET mode == IF x.executor = "none" THEN e.mode ELSE x.executor
        found == x.executor = "opencode"
        own == [e EXCEPT !.mode = mode, !.url = IF found THEN NoUrl ELSE @,
                         !.tags = IF found THEN "discovered" ELSE @]
    IN  IF x.url = NotGiven \/ mode = "opencode" THEN own
        ELSE [own EXCEPT !.url = x.url, !.mode = IF x.url = NoUrl THEN "echo" ELSE "auto"]

\* default_agents.
DefaultAgents(x) ==
    LET mode == IF x.executor # "none" THEN x.executor
                ELSE IF x.url \in Urls THEN "auto" ELSE "echo"
        found == mode = "opencode"
    IN  [h \in Hosts |-> [name |-> HostName[h], mode |-> mode,
                          url |-> IF found \/ x.url = NotGiven THEN NoUrl ELSE x.url,
                          tags |-> IF found THEN "discovered" ELSE "given"]]

\* init --yes.  A file without agents gets defaults that apply_flags never sees.
FromFlags(x) ==
    IF file = <<>> THEN DefaultAgents(x)
    ELSE LET seeds == IF file = NoFile THEN DefaultAgents(x) ELSE file
         IN  [i \in DOMAIN seeds |-> FlagEntry(seeds[i], x)]

\* _init_wizard, of one agent, its skills and tools taken as offered: opencode;
\* echo, or a URL left empty; a URL.
WizardEntries(e) ==
    LET names == NewNames \union {e.name}
    IN  [name : names, mode : {"opencode"}, url : {NoUrl}, tags : {"discovered"}]
        \union [name : names, mode : {"echo"}, url : {NoUrl}, tags : {e.tags}]
        \union [name : names, mode : {"auto"}, url : Urls, tags : {e.tags}]

WizardPlans ==
    LET bare == [executor |-> "none", url |-> NotGiven]
        seeds == IF file \in {NoFile, <<>>} THEN DefaultAgents(bare) ELSE file
        any == UNION {WizardEntries(seeds[i]) : i \in DOMAIN seeds}
    IN  {plan \in [DOMAIN seeds -> any] :
            \A i \in DOMAIN seeds : plan[i] \in WizardEntries(seeds[i])}

-----------------------------------------------------------------------------
(* The init command.                                                       *)

\* `urls` is the number of Hosts to post to: --host-url, or 0 for --no-apply.
Plan(plan, urls, settles) ==
    /\ inits' = inits + 1
    /\ init' = [pc |-> "planned", plan |-> plan, urls |-> urls, next |-> 1, settles |-> settles]
    /\ UNCHANGED <<file, hosts, idFile, wire, rows, lastId, lastSend, doubt, tears, faults>>

\* The flags leave nothing open: an executor that needs no URL, a URL, or none.
Settles(x) == \/ x.executor \in {"echo", "opencode"} \/ x.url \in Urls
              \/ (x.executor = "none" /\ x.url = NoUrl)

\* A complete file without --force ends init before it does anything.
MayStart(force) == init.pc = "idle" /\ inits < MaxInits /\ (force \/ ~Complete(file))

InitYes(x, urls, force) == /\ MayStart(force)
                           /\ Plan(FromFlags(x), urls, Settles(x))

InitWizard(urls, force) == /\ MayStart(force)
                           /\ \E plan \in WizardPlans : Plan(plan, urls, TRUE)

\* save_local_config: write_text opens the file, which empties it, and writes.
OpenFile ==
    /\ init.pc = "planned"
    /\ file' = <<>>
    /\ init' = [init EXCEPT !.pc = "opened"]
    /\ UNCHANGED <<hosts, idFile, wire, rows, lastId, lastSend, doubt, tears, inits, faults>>

WriteFile ==
    /\ init.pc = "opened"
    /\ file' = init.plan
    /\ doubt' = Hosts
    /\ init' = [init EXCEPT !.pc = "applying"]
    /\ UNCHANGED <<hosts, idFile, wire, rows, lastId, lastSend, tears, inits, faults>>

Registration(h, agent, id) ==
    [host |-> h, id |-> id, name |-> agent.name, tags |-> agent.tags, seq |-> lastSend + 1]

\* reregister, up to its await.
Reregister(h, pc, agent, id) ==
    /\ lastSend' = lastSend + 1
    /\ wire' = wire \union {Registration(h, agent, id)}
    /\ hosts' = [hosts EXCEPT ![h] = [pc |-> pc, agent |-> agent, id |-> id,
                                      reg |-> "sent", seq |-> lastSend + 1]]

Target == init.next
HasTarget == init.pc = "applying" /\ Target <= init.urls /\ Target \in DOMAIN init.plan \intersect Hosts

\* POST /configure reaches the Host: apply_config.
Post(h) ==
    /\ HasTarget /\ h = Target
    /\ hosts[h].pc = "up"
    /\ Reregister(h, "up", Applies(init.plan[h]), hosts[h].id)
    /\ init' = [init EXCEPT !.pc = "posted"]
    /\ UNCHANGED <<file, idFile, rows, lastId, doubt, tears, inits, faults>>

NextHost == init' = [init EXCEPT !.pc = "applying", !.next = @ + 1]

\* Mutant: /configure answers before its registration does.
PostDoneEarly ==
    /\ init.pc = "posted"
    /\ hosts[Target].pc = "up" /\ hosts[Target].reg \in {"sent", "answered"}
    /\ doubt' = doubt \ {Target}
    /\ NextHost
    /\ UNCHANGED <<file, hosts, idFile, wire, rows, lastId, lastSend, tears, inits, faults>>

\* Its registration was answered, and so is the POST.
PostDone ==
    /\ init.pc = "posted"
    /\ hosts[Target].pc = "up" /\ hosts[Target].reg = "answered"
    /\ hosts' = [hosts EXCEPT ![Target].reg = "none"]
    /\ doubt' = doubt \ {Target}
    /\ NextHost
    /\ UNCHANGED <<file, idFile, wire, rows, lastId, lastSend, tears, inits, faults>>

\* Mutant: a Host that cannot be reached counts as applied.
PostFailsQuietly ==
    /\ HasTarget \/ init.pc = "posted"
    /\ doubt' = doubt \ {Target}
    /\ NextHost
    /\ UNCHANGED <<file, hosts, idFile, wire, rows, lastId, lastSend, tears, inits, faults>>

\* No connection, no answer in time, or an error of the registration: a warning,
\* and on to the next Host.
PostFails ==
    /\ HasTarget \/ init.pc = "posted"
    /\ NextHost
    /\ UNCHANGED <<file, hosts, idFile, wire, rows, lastId, lastSend, doubt, tears, inits, faults>>

EndInit ==
    /\ init.pc = "applying" /\ ~HasTarget
    /\ init' = IdleInit
    /\ UNCHANGED <<file, hosts, idFile, wire, rows, lastId, lastSend, doubt, tears, inits, faults>>

KillInit ==
    /\ init.pc # "idle" /\ faults < MaxFaults
    /\ faults' = faults + 1
    /\ init' = IdleInit
    /\ UNCHANGED <<file, hosts, idFile, wire, rows, lastId, lastSend, doubt, tears, inits>>

-----------------------------------------------------------------------------
(* A Host.                                                                 *)

\* select_agent: the first entry of the Host's name.
EntryOf(h) == {i \in DOMAIN file : /\ file[i].name = HostName[h]
                                   /\ \A k \in 1..(i - 1) : file[k].name # HostName[h]}

\* Mutant: a new id whatever the file says.
ResolvedIdAnew(h) == IF EnvId[h] # NoId THEN EnvId[h] ELSE lastId + 1

\* Mutant: an empty id file is taken at its word.
ResolvedIdEmpty(h) == IF EnvId[h] # NoId THEN EnvId[h]
                      ELSE IF idFile[h] # NoId THEN idFile[h]
                      ELSE lastId + 1

\* resolve_agent_id: the environment, then the file, then a new id.
ResolvedId(h) == IF EnvId[h] # NoId THEN EnvId[h]
                 ELSE IF idFile[h] \notin {NoId, 0} THEN idFile[h]
                 ELSE lastId + 1

\* node(), up to the id file, which is opened and so emptied.  A yaml that does
\* not name the Host ends it (BadParameter): then it stays down.
BootReads(h) ==
    /\ hosts[h].pc = "down"
    /\ IF file = NoFile
       THEN hosts' = [hosts EXCEPT ![h] = [DownHost EXCEPT !.pc = "booting", !.id = ResolvedId(h),
                                                           !.agent = BootsBare(h)]]
       ELSE \E i \in EntryOf(h) :
               hosts' = [hosts EXCEPT ![h] = [DownHost EXCEPT !.pc = "booting", !.id = ResolvedId(h),
                                                              !.agent = Boots(file[i])]]
    /\ lastId' = IF ResolvedId(h) = lastId + 1 THEN lastId + 1 ELSE lastId
    /\ idFile' = IF h \in HasIdFile THEN [idFile EXCEPT ![h] = 0] ELSE idFile
    /\ doubt' = doubt \ {h}
    /\ UNCHANGED <<file, init, wire, rows, lastSend, tears, inits, faults>>

\* The id is written, and AgentRuntime.start registers.
BootRegisters(h) ==
    /\ hosts[h].pc = "booting"
    /\ idFile' = IF h \in HasIdFile THEN [idFile EXCEPT ![h] = hosts[h].id] ELSE idFile
    /\ Reregister(h, "registering", hosts[h].agent, hosts[h].id)
    /\ UNCHANGED <<file, init, rows, lastId, doubt, tears, inits, faults>>

\* Registered: the application has started, and listens.
BootEnds(h) ==
    /\ hosts[h].pc = "registering" /\ hosts[h].reg = "answered"
    /\ hosts' = [hosts EXCEPT ![h].pc = "up", ![h].reg = "none"]
    /\ UNCHANGED <<file, init, idFile, wire, rows, lastId, lastSend, doubt, tears, inits, faults>>

\* The registration of a boot fails: the application does not start.
BootFails(h) ==
    /\ hosts[h].pc = "registering" /\ faults < MaxFaults
    /\ faults' = faults + 1
    /\ hosts' = [hosts EXCEPT ![h] = DownHost]
    /\ UNCHANGED <<file, init, idFile, wire, rows, lastId, lastSend, doubt, tears, inits>>

KillHost(h) ==
    /\ hosts[h].pc # "down" /\ faults < MaxFaults
    /\ faults' = faults + 1
    /\ hosts' = [hosts EXCEPT ![h] = DownHost]
    /\ tears' = IF hosts[h].pc = "booting" /\ h \in HasIdFile
                THEN [tears EXCEPT ![h] = @ + 1] ELSE tears
    /\ UNCHANGED <<file, init, idFile, wire, rows, lastId, lastSend, doubt, inits>>

-----------------------------------------------------------------------------
(* The manager.                                                            *)

\* register_node: a row of its own for a new id, else the row is overwritten.
\* `newest` is history: the latest sent of those taken for this id.
ManagerTakes(r) ==
    /\ r \in wire
    /\ wire' = wire \ {r}
    /\ LET before == IF r.id \in DOMAIN rows THEN rows[r.id].newest ELSE 0
           row == [host |-> r.host, name |-> r.name, tags |-> r.tags, seq |-> r.seq,
                   newest |-> Max({before, r.seq})]
       IN  rows' = [id \in DOMAIN rows \union {r.id} |-> IF id = r.id THEN row ELSE rows[id]]
    /\ hosts' = [hosts EXCEPT ![r.host].reg =
                    IF hosts[r.host].seq = r.seq /\ @ = "sent" THEN "answered" ELSE @]
    /\ UNCHANGED <<file, init, idFile, lastId, lastSend, doubt, tears, inits, faults>>

\* It is refused or lost.
LoseRegistration(r) ==
    /\ r \in wire
    /\ wire' = wire \ {r}
    /\ UNCHANGED <<file, init, hosts, idFile, rows, lastId, lastSend, doubt, tears, inits, faults>>

-----------------------------------------------------------------------------
InitCommand ==
    \/ \E urls \in 0..Len(HostName), force \in BOOLEAN :
          \/ \E x \in Flags : InitYes(x, urls, force)
          \/ InitWizard(urls, force)
    \/ OpenFile \/ WriteFile \/ (\E h \in Hosts : Post(h)) \/ PostDone \/ PostFails
    \/ EndInit \/ KillInit

Host(h) == \/ BootReads(h) \/ BootRegisters(h) \/ BootEnds(h) \/ BootFails(h)
           \/ KillHost(h)

Next == \/ InitCommand
        \/ \E h \in Hosts : Host(h)
        \/ \E r \in wire : ManagerTakes(r) \/ LoseRegistration(r)

Spec == Init /\ [][Next]_vars
-----------------------------------------------------------------------------
(* Properties.                                                             *)

Agents == [name : Names, tags : Tags, kind : {"none", "echo", "agent", "opencode"},
           url : Urls \union {NoUrl}, planner : Urls \union {NoUrl}]
Ids == 1..lastId \union ({EnvId[h] : h \in Hosts} \ {NoId})

TypeOK ==
    /\ file = NoFile \/ file \in Seq(Entries)
    /\ init.plan \in Seq(Entries) /\ init.urls \in 0..Len(HostName)
    /\ init.pc \in {"idle", "planned", "opened", "applying", "posted"}
    /\ \A h \in Hosts :
          /\ hosts[h].pc \in {"down", "booting", "registering", "up"}
          /\ hosts[h].agent \in Agents
          /\ hosts[h].id \in IF hosts[h].pc = "down" THEN {NoId} ELSE Ids
          /\ hosts[h].reg \in {"none", "sent", "answered"} /\ hosts[h].seq \in 0..lastSend
          /\ idFile[h] \in Ids \union {0, NoId}
    /\ wire \subseteq [host : Hosts, id : Ids, name : Names, tags : Tags, seq : 1..lastSend]
    /\ DOMAIN rows \subseteq Ids
    /\ \A id \in DOMAIN rows :
          rows[id] \in [host : Hosts, name : Names, tags : Tags, seq : 1..lastSend,
                        newest : rows[id].seq..lastSend]
    /\ doubt \subseteq Hosts /\ tears \in [Hosts -> 0..faults]
    /\ inits \in 0..MaxInits /\ faults \in 0..MaxFaults

\* What the next two take for granted of a deployment: the first files name what
\* was discovered, as init does; the environment and the flags of the Hosts give no
\* LLM; and every Host has a name and an id of its own, and its entry at its own
\* place.
Catalogued == \A f \in FirstFiles : f # NoFile =>
                 \A i \in DOMAIN f : f[i].mode = "opencode" => f[i].tags = "discovered"
Plain == EnvUrl = NoUrl /\ HostExecutor \in {"auto", "echo"}
Named ==
    /\ \A h, k \in Hosts : HostName[h] = HostName[k] => h = k
    /\ \A h, k \in Hosts : EnvId[h] # NoId /\ EnvId[h] = EnvId[k] => h = k
    /\ \A h \in Hosts : HostName[h] \notin NewNames
    /\ \A f \in FirstFiles : f # NoFile =>
          \A i \in DOMAIN f, h \in Hosts : f[i].name = HostName[h] => i = h

\* A Host is never out of date in silence: one that runs something else than a
\* restart would give it was named in a warning of init, or not reported as
\* applied because init was killed or told not to apply (apply_config_to_hosts
\* keeps the yaml whatever fails).  By extension /configure and a boot make the
\* same agent of an entry.  An entry must be where its name is: init goes by
\* the order, a boot by the name.
BehindIsWarned ==
    \A h \in Hosts \ doubt :
        hosts[h].pc = "up" /\ file # NoFile /\ h \in DOMAIN file /\ EntryOf(h) = {h}
            => hosts[h].agent = Boots(file[h])

\* Nor does the catalog: once a boot or /configure is over without a warning the
\* Host's row says what its agent is, unless a registration sent earlier came
\* later (reregister; nothing registers again until the next of these, and while
\* that is on its way it says the same of a Host that is not in doubt).
CatalogFollows ==
    \A h \in Hosts \ doubt :
        hosts[h].pc = "up"
            => /\ hosts[h].id \in DOMAIN rows
               /\ LET row == rows[hosts[h].id]
                  IN  \/ row.seq < row.newest
                      \/ row.name = hosts[h].agent.name /\ row.tags = hosts[h].agent.tags

\* A Host with an id file keeps one row over all restarts ("to reuse the row
\* after a restart: --id-file", docs/reference/faq.md:25), but for the kills that
\* caught it between emptying the file and writing it.
OneRowPerHost ==
    \A h \in HasIdFile :
        Cardinality({id \in DOMAIN rows : rows[id].host = h}) <= 1 + tears[h]

\* What init --yes makes of flags that leave nothing open, and the wizard of any
\* answers, is a complete file: the next init finds nothing left to do
\* (apply_flags and default_agents against is_configured).
SettledIsComplete ==
    init.pc = "planned" /\ init.settles => Complete(init.plan)
=============================================================================
