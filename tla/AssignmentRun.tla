---------------------------- MODULE AssignmentRun ----------------------------
(***************************************************************************)
(* What a runner of ChildMailbox does between the start and the report of  *)
(* an assignment (_run_child in src/mycoagent/node/runtime.py): it makes a *)
(* workspace (workspace.py), lets the agent's executor work in it (the     *)
(* loop of LLM steps and tool calls in executor.py, one opencode process   *)
(* in opencode.py, or the echo), uploads the files one by one              *)
(* (artifacts.py), and removes the workspace before the report.            *)
(*                                                                         *)
(* Grain of atomicity.  The loop awaits each LLM answer and the upload     *)
(* each put; the tool calls of one answer, the opencode process and the    *)
(* removal of the workspace block the event loop, so each is part of one   *)
(* action.  Processes that the tools leave behind run beside all of them:  *)
(* run_shell waits for, or kills, the shell only.                          *)
(*                                                                         *)
(* Abstractions.  A file is its name, the conversation is the number of    *)
(* steps taken, and a tool call whatever it may do to the files: its own   *)
(* errors are answers to the model, and leave no other trace.              *)
(***************************************************************************)
EXTENDS ChildMailbox, FiniteSets

CONSTANTS Files,        \* names a workspace may hold
          Keys,         \* names in the store, below group, job and subtask
          KeyOf,        \* artifact_key of each file name
          Refused,      \* the name has a '..' in it: artifact_key raises
          Executors,    \* what the agent's executor is, or is configured to be
          MaxSteps      \* max_steps

ASSUME RunAssumption ==
    /\ Refused \notin Keys
    /\ KeyOf \in [Files -> Keys \union {Refused}]
    /\ Executors \subseteq {"echo", "agent", "opencode"}
    /\ MaxSteps \in Nat \ {0}

VARIABLES
    dirs,       \* the messages whose workspace is on disk
    uses,       \* per message: the executor at work, which was self.executor
    step,       \* per message: LLM answers taken in its loop
    files,      \* per message: the files that rglob finds in its workspace
    due,        \* per message, history: those its executor left
    sent,       \* per message: those iter_files yielded and put stored
    strays,     \* messages whose tools left a process at work in the workspace
    stuck,      \* messages whose tools left there what the Host cannot remove
    objects,    \* the store: <<message, key>> -> the file it holds
    reported    \* per message: artifact_ids of its result

runtimeVars == <<uses, step>>
storeVars   == <<objects, reported>>
workVars == <<dirs, files, due, sent, strays, stuck, runtimeVars, storeVars>>
runVars  == <<vars, workVars>>

RunInit ==
    /\ Init
    /\ dirs = {} /\ strays = {} /\ stuck = {}
    /\ uses = [m \in Messages |-> "none"]
    /\ step = [m \in Messages |-> 0]
    /\ files = [m \in Messages |-> {}]
    /\ due = [m \in Messages |-> {}]
    /\ sent = [m \in Messages |-> {}]
    /\ objects = <<>>
    /\ reported = [m \in Messages |-> {}]

-----------------------------------------------------------------------------
(* The workspace.                                                          *)

\* assignment_workspace, whose mkdtemp may raise (the run then fails), and the
\* executor as it is now: a later /configure leaves this run alone.
BeginRun(m) ==
    /\ StartRunner(m)
    /\ dirs' \in {dirs, dirs \union {m}}
    /\ \E e \in Executors : uses' = [uses EXCEPT ![m] = e]
    /\ UNCHANGED <<step, files, due, sent, strays, stuck, storeVars>>

\* Tools and opencode may leave behind them a process at work, and directories
\* that are read-only, not the Host's own, or mounted.
LeaveBehind(m) == /\ strays' \in {strays, strays \union {m}}
                  /\ stuck' \in {stuck, stuck \union {m}}

\* What they may do to the files.
WorkIn(m) == /\ \E present \in SUBSET Files : files' = [files EXCEPT ![m] = present]
             /\ LeaveBehind(m)

\* The executor returned, or raised.
EndExecutor(m) == /\ uses' = [uses EXCEPT ![m] = "none"]
                  /\ step' = [step EXCEPT ![m] = 0]

\* Mutant: the workspace is kept when the run fails.
CleanUpIfCompleted(m) ==
    /\ sent' = [sent EXCEPT ![m] = {}]
    /\ IF result'[m] = "COMPLETED"
       THEN dirs' = dirs \ {m} /\ files' = [files EXCEPT ![m] = {}]
       ELSE UNCHANGED <<dirs, files>>

\* rmtree(ignore_errors) removes what it can and says nothing of the rest: what
\* it may not remove, or what a process puts there meanwhile.
CleanUp(m) ==
    /\ sent' = [sent EXCEPT ![m] = {}]
    /\ \/ dirs' = dirs \ {m} /\ files' = [files EXCEPT ![m] = {}]
       \/ /\ m \in strays' \union stuck'
          /\ \E rest \in SUBSET files[m] : files' = [files EXCEPT ![m] = rest]
          /\ UNCHANGED dirs

-----------------------------------------------------------------------------
(* The executors.                                                          *)

InExecutor(m, kind) == pc[m] = "running" /\ m \in dirs /\ uses[m] = kind

\* Mutant: answers with tool calls do not count as steps.
ToolStepUncounted(m) ==
    /\ InExecutor(m, "agent")
    /\ step[m] + 1 < MaxSteps
    /\ WorkIn(m)
    /\ UNCHANGED <<vars, dirs, runtimeVars, due, sent, storeVars>>

\* An LLM answer with tool calls, which are carried out, or an empty one; the
\* loop asks again.
ToolStep(m) ==
    /\ InExecutor(m, "agent")
    /\ step[m] + 1 < MaxSteps
    /\ step' = [step EXCEPT ![m] = @ + 1]
    /\ WorkIn(m)
    /\ UNCHANGED <<vars, dirs, uses, due, sent, storeVars>>

\* The same at the last step: the loop ends, and raises "exceeded max_steps".
StepsExhausted(m) ==
    /\ InExecutor(m, "agent")
    /\ step[m] + 1 = MaxSteps
    /\ EndExecutor(m)
    /\ RunRaises(m)
    /\ LeaveBehind(m)
    /\ CleanUp(m)
    /\ UNCHANGED <<due, storeVars>>

\* An LLM answer with text and no tool calls, or the echo: the executor returns.
AnswerText(m) ==
    /\ InExecutor(m, "agent") \/ InExecutor(m, "echo")
    /\ EndExecutor(m)
    /\ ExecutorReturns(m)
    /\ due' = [due EXCEPT ![m] = files[m]]
    /\ UNCHANGED <<dirs, files, sent, strays, stuck, storeVars>>

\* opencode ran to its end, with exit code 0 and some output.
OpenCodeReturns(m) ==
    /\ InExecutor(m, "opencode")
    /\ EndExecutor(m)
    /\ ExecutorReturns(m)
    /\ WorkIn(m)
    /\ due' = [due EXCEPT ![m] = files'[m]]
    /\ UNCHANGED <<dirs, sent, storeVars>>

\* mkdtemp failed; or the LLM did not answer; or opencode is missing, fails, says
\* nothing or is killed at opencode_timeout, with what it had done.
RunFails(m) ==
    /\ pc[m] = "running" /\ (m \notin dirs \/ uses[m] # "echo")
    /\ EndExecutor(m)
    /\ RunRaises(m)
    /\ IF InExecutor(m, "opencode") THEN LeaveBehind(m) ELSE UNCHANGED <<strays, stuck>>
    /\ CleanUp(m)
    /\ UNCHANGED <<due, storeVars>>

-----------------------------------------------------------------------------
(* upload_workspace_files.                                                 *)

Stored(m, f) == [o \in DOMAIN objects \union {<<m, KeyOf[f]>>} |->
                    IF o = <<m, KeyOf[f]>> THEN f ELSE objects[o]]

Uploadable(m) == {f \in files[m] \ sent[m] : KeyOf[f] # Refused}

PutFile(m, f) ==
    /\ pc[m] = "uploading" /\ f \in Uploadable(m)
    /\ objects' = Stored(m, f)
    /\ sent' = [sent EXCEPT ![m] = @ \union {f}]
    /\ UNCHANGED <<vars, dirs, runtimeVars, files, due, strays, stuck, reported>>

\* Mutant: the report of a failed run names what it has stored.
UploadRaisesReporting(m) ==
    /\ pc[m] = "uploading"
    /\ \/ (\E f \in Uploadable(m) : objects' = Stored(m, f))
       \/ files[m] \ sent[m] # {} /\ UNCHANGED objects
       \/ due[m] \ files[m] # {} /\ UNCHANGED objects
    /\ RunRaises(m)
    /\ reported' = [reported EXCEPT ![m] = {KeyOf[f] : f \in sent[m]}]
    /\ UNCHANGED <<due, strays, stuck, runtimeVars>>
    /\ CleanUp(m)

\* put raises, though the object may be stored; or a name is refused; or a file
\* that was listed is gone when it is read.
UploadRaises(m) ==
    /\ pc[m] = "uploading"
    /\ \/ (\E f \in Uploadable(m) : objects' = Stored(m, f))
       \/ files[m] \ sent[m] # {} /\ UNCHANGED objects
       \/ due[m] \ files[m] # {} /\ UNCHANGED objects
    /\ RunRaises(m)
    /\ UNCHANGED <<due, strays, stuck, runtimeVars, reported>>
    /\ CleanUp(m)

\* Mutant: a file that cannot be stored is skipped.
UploadEndsSkipping(m) ==
    /\ UploadDone(m)
    /\ reported' = [reported EXCEPT ![m] = {KeyOf[f] : f \in sent[m]}]
    /\ UNCHANGED <<due, strays, stuck, runtimeVars, objects>>
    /\ CleanUp(m)

\* All that iter_files yields is stored: whatever was there throughout, and
\* perhaps what appeared meanwhile.
UploadEnds(m) ==
    /\ due[m] \intersect files[m] \subseteq sent[m]
    /\ UploadDone(m)
    /\ reported' = [reported EXCEPT ![m] = {KeyOf[f] : f \in sent[m]}]
    /\ UNCHANGED <<due, strays, stuck, runtimeVars, objects>>
    /\ CleanUp(m)

-----------------------------------------------------------------------------
(* Processes left behind, and restarts.                                    *)

\* A process left behind that has ended, or works elsewhere, takes no such step;
\* what it does after the upload reaches nobody.
StrayWrites(m) ==
    /\ m \in strays \intersect dirs
    /\ pc[m] \in {"running", "uploading"}
    /\ \E present \in SUBSET Files : files' = [files EXCEPT ![m] = present]
    /\ UNCHANGED <<vars, dirs, runtimeVars, due, sent, strays, stuck, storeVars>>

\* The process is killed: workspaces and the objects of the S3 store stay; the
\* objects of a MemoryArtifactStore would be gone.
RestartHost == Restart /\ UNCHANGED workVars

-----------------------------------------------------------------------------
Work(m) == \/ BeginRun(m)
           \/ ToolStep(m) \/ StepsExhausted(m) \/ AnswerText(m)
           \/ OpenCodeReturns(m) \/ RunFails(m)
           \/ (\E f \in Files : PutFile(m, f)) \/ UploadRaises(m) \/ UploadEnds(m)

Reports(m) == (ReportOk(m) \/ ReportFails(m) \/ RetryReport(m)) /\ UNCHANGED workVars

RunNext == \/ \E m \in Messages : \/ Work(m) \/ Reports(m)
                                  \/ Mailbox(m) /\ UNCHANGED workVars
                                  \/ StrayWrites(m)
           \/ RestartHost

(* An LLM call, a put and a report end (their HTTP clients time out), and  *)
(* the subprocesses are killed after shell_timeout and opencode_timeout.   *)
RunSpec == /\ RunInit /\ [][RunNext]_runVars
           /\ \A m \in Messages : WF_runVars(Work(m) \/ Reports(m))

-----------------------------------------------------------------------------
(* Properties.                                                             *)

StoredFor(m) == {k \in Keys : <<m, k>> \in DOMAIN objects}

\* What a parent is told to fetch is there, and what is there of a completed
\* subtask it is told: the ids of a COMPLETED result are the objects of the
\* subtask, each holding a file of that name, and a FAILED result has none,
\* however far its upload came (upload_workspace_files).
ReportedAreStored ==
    \A m \in Messages :
        /\ result[m] = "COMPLETED" => /\ reported[m] = StoredFor(m)
                                      /\ \A k \in reported[m] : KeyOf[objects[<<m, k>>]] = k
        /\ result[m] # "COMPLETED" => reported[m] = {}

\* Nothing is lost in silence: if no process was left behind, a COMPLETED result
\* names every file the executor left, or rather its key; a file that could not
\* be stored fails the subtask.
CompletedIsWhole ==
    \A m \in Messages \ strays :
        result[m] = "COMPLETED" => reported[m] = {KeyOf[f] : f \in due[m]}

\* Once the parent can hear of a subtask its workspace is gone, whatever way its
\* run ended, and a workspace on disk is that of the runner at work, unless the
\* Host was killed or the tools left a process in it, or what the Host cannot
\* remove: there "always deleted at its end" (docs/concepts/overview.md:38) is
\* more than rmtree(ignore_errors) does.
WorkspaceIsGone ==
    \A m \in dirs : m \in strays \union stuck \/ pc[m] \in {"running", "uploading", "lost"}

\* The runner of ChildMailbox, with the fairness assumed there: max_steps, and
\* the bounded upload, keep any run from going on for ever.
ImplementsMailbox == FairSpec
=============================================================================
