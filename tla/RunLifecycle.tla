---------------------------- MODULE RunLifecycle ----------------------------
(***************************************************************************)
(* One run of the RunCoordinator and the RunSupervisor: the RunRecord in    *)
(* the Project, the launch intent, launch receipt and exit marker on disk,  *)
(* the operating-system process, and everything that races over them: the   *)
(* submission, the output collector, the completion, the timeout, callers   *)
(* of run_status and run_cancel, operation recovery, and the restart of the *)
(* Host with the reconciliation it starts.                                  *)
(***************************************************************************)
EXTENDS Naturals

CONSTANTS
    Submitters,     \* submissions that name this run
    Callers,        \* status, cancel and recovery calls, and
    Startup,        \* the reconciliation a starting Host runs, one of Callers
    MaxCrashes,     \* bound: Host crashes
    MaxFailures     \* bound: failed writes, lost commits, failed inspections

ASSUME RunAssumption == Startup \in Callers /\ MaxCrashes \in Nat /\ MaxFailures \in Nat

VARIABLES
    record,         \* the state of the RunRecord in the Project, or none
    intent, receipt, marker,    \* the run's files
    process, doomed, exitCode,  \* the process; doomed: it was told to end
    up,             \* the Host runs
    step,           \* each submission's progress
    active, reason, \* supervisor.active has the run; its terminationReason
    collector, built, completion, \* collect(): progress, marker built, what it resolved to
    finalizer,      \* the tracked completion; none: pending has no entry for the run
    at, kind, view, sawReceipt, sawMarker, \* each caller's progress and what it read
    crashes, failures

files == <<intent, receipt, marker>>
os == <<process, doomed, exitCode>>
collecting == <<collector, built, completion>>
supervisor == <<active, reason, collecting>>
calls == <<at, kind, view, sawReceipt, sawMarker>>
vars == <<record, files, os, up, step, supervisor, finalizer, calls, crashes, failures>>

Finished == {"succeeded", "failed", "cancelled"}
Terminal == Finished \cup {"recovery-required"}
RunStates == {"starting", "running", "collecting"} \cup Terminal
Reasons == {"none", "cancelled", "timeout"}
NoMarker == [code |-> "none", reason |-> "none"]
Markers == [code : {"zero", "nonzero"}, reason : Reasons]
Rejected == [code |-> "rejected", reason |-> "none"]

Init ==
    /\ record = "none"
    /\ intent = FALSE /\ receipt = "absent" /\ marker = NoMarker
    /\ process = "none" /\ doomed = FALSE /\ exitCode = "none"
    /\ up = TRUE
    /\ step = [s \in Submitters |-> "idle"]
    /\ active = FALSE /\ reason = "none"
    /\ collector = "none" /\ built = NoMarker /\ completion = NoMarker
    /\ finalizer = "none"
    /\ at = [c \in Callers |-> "idle"] /\ kind = [c \in Callers |-> "status"]
    /\ view = [c \in Callers |-> "none"]
    /\ sawReceipt = [c \in Callers |-> "absent"]
    /\ sawMarker = [c \in Callers |-> NoMarker]
    /\ crashes = 0 /\ failures = 0

Fails == failures < MaxFailures /\ failures' = failures + 1
Works == UNCHANGED failures

Tracked == finalizer # "none"

-----------------------------------------------------------------------------
(* transition(): a compare-and-swap loop over the RunRecord                 *)

Rank(s) == CASE s = "starting" -> 0 [] s = "running" -> 1 [] s = "collecting" -> 2 [] OTHER -> 3

\* Nothing is written over a record that reached the target, passed it, or is terminal.
Settled(target) == record = target \/ record \in Terminal \/ Rank(record) > Rank(target)

ValidRunTransition(target) ==
    CASE record = "starting" -> target \in {"running", "collecting", "recovery-required"}
      [] record = "running" -> target \in {"collecting", "recovery-required"}
      [] record = "collecting" -> target \in Terminal
      [] OTHER -> FALSE

LastWriterWins(target) == target

\* The record transition() leaves and returns.
After(target) == IF ~Settled(target) /\ ValidRunTransition(target) THEN target ELSE record

\* Eight lost generation races, a failed commit, or an event that was committed before
\* the copy of the record could be written make it throw.
Transition(target) == record' = After(target)
TransitionFails(target) == Fails /\ record' \in {record, After(target)}

VerdictByExitCode(m) == IF m.code = "zero" THEN "succeeded" ELSE "failed"

\* completionFailure and the state it leads to.
Verdict(m) ==
    IF m.reason = "cancelled" THEN "cancelled"
    ELSE IF m.reason = "none" /\ m.code = "zero" THEN "succeeded" ELSE "failed"

-----------------------------------------------------------------------------
(* submitFormalRun, runLocalTest: record the run, launch it, track it       *)

Goto(s, next) == step' = [step EXCEPT ![s] = next]

\* An initial RunRecord is refused when the run exists.
NewRunId == record = "none"

Submit(s) ==
    /\ up /\ step[s] = "idle" /\ NewRunId
    /\ record' = "starting"
    /\ \/ Works /\ Goto(s, "intent")
       \/ Fails /\ UNCHANGED step
    /\ UNCHANGED <<files, os, up, supervisor, finalizer, calls, crashes>>

\* The intent is created with 'wx' before anything is spawned.
WriteIntent(s) ==
    /\ step[s] = "intent"
    /\ intent' = TRUE
    /\ \/ Works /\ Goto(s, IF intent THEN "fail" ELSE "spawn")
       \/ Fails /\ Goto(s, "fail")
    /\ UNCHANGED <<record, receipt, marker, os, up, supervisor, finalizer, calls, crashes>>

Spawn(s) ==
    /\ step[s] = "spawn"
    /\ \/ Works /\ process' = "live" /\ Goto(s, "identify")
       \/ Fails /\ UNCHANGED process /\ Goto(s, "fail")
    /\ UNCHANGED <<record, files, doomed, exitCode, up, supervisor, finalizer, calls, crashes>>

KeptRunning == doomed

\* What terminateAndJoinSpawnedProcess does to the process of a launch that fails.
Reclaimed == TRUE

\* The creation time of a process that has gone, or that cannot be inspected.
Identify(s) ==
    /\ step[s] = "identify"
    /\ \/ Works /\ Goto(s, "receipt") /\ UNCHANGED doomed
       \/ /\ IF process = "exited" THEN Works ELSE Fails
          /\ Goto(s, "join") /\ doomed' = Reclaimed
    /\ UNCHANGED <<record, files, process, exitCode, up, supervisor, finalizer, calls, crashes>>

JoinAtOnce(s) == TRUE

Joined(s) == process # "live"

\* The launch waits for the process to end; it goes on without that when terminate or
\* waitForExit throws, or waitForExit says that the process is still there.
Join(s) ==
    /\ step[s] = "join"
    /\ (Works /\ Joined(s)) \/ Fails
    /\ Goto(s, "fail")
    /\ UNCHANGED <<record, files, os, up, supervisor, finalizer, calls, crashes>>

WriteReceipt(s) ==
    /\ step[s] = "receipt"
    /\ \/ Works /\ receipt' = "written" /\ Goto(s, "activate") /\ UNCHANGED doomed
       \/ Fails /\ receipt' \in {receipt, "torn", "written"} /\ Goto(s, "join") /\ doomed' = Reclaimed
    /\ UNCHANGED <<record, intent, marker, process, exitCode, up, supervisor, finalizer, calls, crashes>>

\* Back from the write, the run becomes active and its output is collected.
Activate(s) ==
    /\ step[s] = "activate"
    /\ active' = TRUE /\ reason' = "none" /\ collector' = "waiting"
    /\ Goto(s, "promote")
    /\ UNCHANGED <<record, files, os, up, built, completion, finalizer, calls, crashes, failures>>

\* A launch that finds its record terminal returns it and tracks nothing.
Promote(s) ==
    /\ step[s] = "promote"
    /\ \/ /\ Works /\ Transition("running")
          /\ Goto(s, IF After("running") \in Terminal THEN "idle" ELSE "track")
       \/ TransitionFails("running") /\ Goto(s, "idle")
    /\ UNCHANGED <<files, os, up, supervisor, finalizer, calls, crashes>>

Track(s) ==
    /\ step[s] = "track"
    /\ finalizer' = "waiting"
    /\ Goto(s, "idle")
    /\ UNCHANGED <<record, files, os, up, supervisor, calls, crashes, failures>>

\* failLaunch: collecting, then failed.
FailLaunch(s) ==
    /\ \/ /\ step[s] = "fail" /\ Works /\ Transition("collecting")
          /\ Goto(s, IF After("collecting") \in Terminal THEN "idle" ELSE "failed")
       \/ /\ step[s] = "failed" /\ Works /\ Transition("failed") /\ Goto(s, "idle")
       \/ /\ step[s] \in {"fail", "failed"}
          /\ TransitionFails(IF step[s] = "fail" THEN "collecting" ELSE "failed")
          /\ Goto(s, "idle")
    /\ UNCHANGED <<files, os, up, supervisor, finalizer, calls, crashes>>

-----------------------------------------------------------------------------
(* The process, its collector and its completion                            *)

Exit(code) ==
    /\ process = "live"
    /\ process' = "exited" /\ exitCode' = code
    /\ UNCHANGED <<record, files, doomed, up, step, supervisor, finalizer, calls, crashes, failures>>

Reject == completion' = Rejected /\ collector' = "done" /\ active' = FALSE

OutputNotAwaited == process # "none"

OutputComplete == process = "exited"

\* The outputs are stored, then the marker is made of what is known now.
BuildMarker ==
    /\ collector = "waiting" /\ OutputComplete
    /\ \/ /\ Works
          /\ built' = [code |-> exitCode, reason |-> reason]
          /\ collector' = "marker" /\ UNCHANGED <<completion, active>>
       \/ Fails /\ Reject /\ UNCHANGED built
    /\ UNCHANGED <<record, files, os, up, step, reason, finalizer, calls, crashes>>

WriteMarker ==
    /\ collector = "marker"
    /\ \/ Works /\ marker' = built /\ collector' = "complete" /\ UNCHANGED <<completion, active>>
       \/ Fails /\ marker' \in {marker, built} /\ Reject
    /\ UNCHANGED <<record, intent, receipt, os, up, step, reason, built, finalizer, calls, crashes>>

\* The reason is read once more after the write.
Complete ==
    /\ collector = "complete"
    /\ completion' = [code |-> built.code, reason |-> reason]
    /\ collector' = "done" /\ active' = FALSE
    /\ UNCHANGED <<record, files, os, up, step, reason, built, finalizer, calls, crashes, failures>>

\* finalize, and markRecoveryRequired when it throws; the entry of pending goes last.
Finalize ==
    /\ \/ /\ finalizer = "waiting" /\ completion = Rejected
          /\ Works /\ finalizer' = "give-up" /\ UNCHANGED record
       \/ /\ finalizer = "waiting" /\ completion \in Markers
          /\ \/ /\ Works /\ Transition("collecting")
                /\ finalizer' = IF After("collecting") \in Terminal THEN "none" ELSE "verdict"
             \/ TransitionFails("collecting") /\ finalizer' = "give-up"
       \/ /\ finalizer = "verdict"
          /\ \/ Works /\ Transition(Verdict(completion)) /\ finalizer' = "none"
             \/ TransitionFails(Verdict(completion)) /\ finalizer' = "give-up"
       \/ /\ finalizer = "give-up"
          /\ \/ Works /\ Transition("recovery-required")
             \/ TransitionFails("recovery-required")
          /\ finalizer' = "none"
    /\ UNCHANGED <<files, os, up, step, supervisor, calls, crashes>>

\* supervisor.cancel: the first reason stays; without an active entry the process is
\* found by its receipt.
Cancel(why) ==
    /\ reason' = IF active /\ reason = "none" THEN why ELSE reason
    /\ doomed' = (doomed \/ (process = "live" /\ (active \/ receipt = "written")))

TimeoutUnarmed == FALSE /\ UNCHANGED vars

Timeout ==
    /\ up /\ Tracked
    /\ Cancel("timeout")
    /\ UNCHANGED <<record, files, process, exitCode, up, step, active, collecting,
                   finalizer, calls, crashes, failures>>

-----------------------------------------------------------------------------
(* run_status, run_cancel, operation recovery, startup                      *)

To(c, next) == at' = [at EXCEPT ![c] = next]
Reads == <<kind, view, sawReceipt, sawMarker>>

\* A call loads the record; a terminal one, or one whose completion is tracked, is
\* returned to run_status as it is.
Call(c, k) ==
    /\ up /\ at[c] = "idle" /\ c # Startup /\ record # "none"
    /\ kind' = [kind EXCEPT ![c] = k]
    /\ view' = [view EXCEPT ![c] = record]
    /\ To(c, IF record \in Terminal THEN "idle"
             ELSE IF k = "cancel" THEN "cancel"
             ELSE IF k = "status" /\ Tracked THEN "idle"
             ELSE "receipt")
    /\ UNCHANGED <<record, files, os, up, step, supervisor, finalizer, sawReceipt, sawMarker,
                   crashes, failures>>

CancelCall(c) ==
    /\ at[c] = "cancel"
    /\ Cancel("cancelled")
    /\ To(c, IF ~active /\ receipt = "torn" THEN "idle" ELSE "await")
    /\ UNCHANGED <<record, files, process, exitCode, up, step, active, collecting,
                   finalizer, Reads, crashes, failures>>

\* The process is joined, or that fails: supervisor.cancel throws, or returns false, which
\* nobody looks at.  Then the tracked completion answers, or a reconciliation.
AwaitExit(c) ==
    /\ at[c] = "await"
    /\ \/ Works /\ (doomed => process # "live") /\ To(c, IF Tracked THEN "idle" ELSE "receipt")
       \/ Fails /\ \E next \in {"idle", IF Tracked THEN "idle" ELSE "receipt"} : To(c, next)
    /\ UNCHANGED <<record, files, os, up, step, supervisor, finalizer, Reads, crashes>>

\* reconcile: a receipt that cannot be parsed makes the call throw.
ReadReceipt(c) ==
    /\ at[c] = "receipt"
    /\ sawReceipt' = [sawReceipt EXCEPT ![c] = receipt]
    /\ To(c, IF receipt = "torn" THEN "idle" ELSE "marker")
    /\ UNCHANGED <<record, files, os, up, step, supervisor, finalizer, kind, view, sawMarker,
                   crashes, failures>>

ReadMarker(c) ==
    /\ at[c] = "marker"
    /\ sawMarker' = [sawMarker EXCEPT ![c] = marker]
    /\ To(c, IF sawReceipt[c] = "absent" THEN "give-up"
             ELSE IF marker = NoMarker THEN "inspect"
             ELSE IF view[c] = "starting" THEN "promote"
             ELSE IF view[c] = "collecting" THEN "verdict"
             ELSE "collect")
    /\ UNCHANGED <<record, files, os, up, step, supervisor, finalizer, kind, view, sawReceipt,
                   crashes, failures>>

\* A live process that nobody collects any more is terminated.
Inspect(c) ==
    /\ at[c] = "inspect"
    /\ \/ /\ Works /\ process = "live" /\ active
          /\ To(c, IF view[c] = "starting" THEN "promote" ELSE "idle") /\ UNCHANGED doomed
       \/ /\ Works /\ process = "live" /\ ~active
          /\ To(c, "give-up") /\ doomed' = TRUE
       \/ /\ IF process = "exited" THEN Works ELSE Fails
          /\ To(c, "give-up") /\ UNCHANGED doomed
    /\ UNCHANGED <<record, files, process, exitCode, up, step, supervisor, finalizer, Reads, crashes>>

\* The transitions a reconciliation makes, one after the other.
Reconcile(c) ==
    /\ \/ /\ at[c] = "promote" /\ Works /\ Transition("running")
          /\ To(c, IF sawMarker[c] = NoMarker \/ After("running") \in Terminal THEN "idle"
                   ELSE IF After("running") = "collecting" THEN "verdict" ELSE "collect")
       \/ /\ at[c] = "collect" /\ Works /\ Transition("collecting")
          /\ To(c, IF After("collecting") \in Terminal THEN "idle" ELSE "verdict")
       \/ /\ at[c] = "verdict" /\ Works /\ Transition(Verdict(sawMarker[c])) /\ To(c, "idle")
       \/ /\ at[c] = "give-up" /\ Works /\ Transition("recovery-required") /\ To(c, "idle")
       \/ /\ \/ at[c] = "promote" /\ TransitionFails("running")
             \/ at[c] = "collect" /\ TransitionFails("collecting")
             \/ at[c] = "verdict" /\ TransitionFails(Verdict(sawMarker[c]))
             \/ at[c] = "give-up" /\ TransitionFails("recovery-required")
          /\ To(c, "idle")
    /\ UNCHANGED <<files, os, up, step, supervisor, finalizer, Reads, crashes>>

-----------------------------------------------------------------------------
(* The Host                                                                 *)

\* Everything in memory is lost; the process lives on; a receipt that was being written
\* in place may be torn.
Crash ==
    /\ up /\ crashes < MaxCrashes
    /\ crashes' = crashes + 1 /\ up' = FALSE
    /\ receipt' \in IF \E s \in Submitters : step[s] = "receipt"
                    THEN {receipt, "torn", "written"} ELSE {receipt}
    /\ step' = [s \in Submitters |-> "idle"]
    /\ active' = FALSE /\ reason' = "none"
    /\ collector' = "none" /\ built' = NoMarker /\ completion' = NoMarker
    /\ finalizer' = "none"
    /\ at' = [c \in Callers |-> "idle"]
    /\ UNCHANGED <<record, intent, marker, os, Reads, failures>>

\* reconcileAll considers every record that is not terminal.
Restart ==
    /\ ~up
    /\ up' = TRUE
    /\ kind' = [kind EXCEPT ![Startup] = "recover"]
    /\ view' = [view EXCEPT ![Startup] = record]
    /\ To(Startup, IF record \in Terminal \cup {"none"} THEN "idle" ELSE "receipt")
    /\ UNCHANGED <<record, files, os, step, supervisor, finalizer, sawReceipt, sawMarker,
                   crashes, failures>>

Launch(s) ==
    \/ WriteIntent(s) \/ Spawn(s) \/ Identify(s) \/ Join(s) \/ WriteReceipt(s)
    \/ Activate(s) \/ Promote(s) \/ Track(s) \/ FailLaunch(s)

Collect == BuildMarker \/ WriteMarker \/ Complete

Continue(c) ==
    \/ CancelCall(c) \/ AwaitExit(c) \/ ReadReceipt(c) \/ ReadMarker(c)
    \/ Inspect(c) \/ Reconcile(c)

Next ==
    \/ \E s \in Submitters : Submit(s) \/ Launch(s)
    \/ \E code \in {"zero", "nonzero"} : Exit(code)
    \/ Collect \/ Finalize \/ Timeout
    \/ \E c \in Callers, k \in {"status", "cancel", "recover"} : Call(c, k)
    \/ \E c \in Callers : Continue(c)
    \/ Crash \/ Restart

Spec == Init /\ [][Next]_vars

\* Promises of a running Host are continued, timers fire, a process that was told to end
\* ends, and a Host that went down is started again.  No process has to end by itself.
FairSpec ==
    /\ Spec
    /\ \A s \in Submitters : WF_vars(Launch(s))
    /\ WF_vars(Collect) /\ WF_vars(Finalize) /\ WF_vars(Timeout)
    /\ \A c \in Callers : WF_vars(Continue(c))
    /\ WF_vars(doomed /\ \E code \in {"zero", "nonzero"} : Exit(code))
    /\ WF_vars(Restart)

-----------------------------------------------------------------------------
(* Properties *)

\* The values the variables range over.
TypeOK ==
    /\ record \in RunStates \cup {"none"}
    /\ intent \in BOOLEAN /\ receipt \in {"absent", "torn", "written"}
    /\ marker \in Markers \cup {NoMarker}
    /\ process \in {"none", "live", "exited"} /\ doomed \in BOOLEAN
    /\ exitCode \in {"none", "zero", "nonzero"} /\ up \in BOOLEAN
    /\ step \in [Submitters -> {"idle", "intent", "spawn", "identify", "join", "receipt",
                               "activate", "promote", "track", "fail", "failed"}]
    /\ active \in BOOLEAN /\ reason \in Reasons
    /\ collector \in {"none", "waiting", "marker", "complete", "done"}
    /\ built \in Markers \cup {NoMarker} /\ completion \in Markers \cup {NoMarker, Rejected}
    /\ finalizer \in {"none", "waiting", "verdict", "give-up"}
    /\ at \in [Callers -> {"idle", "cancel", "await", "receipt", "marker", "inspect",
                           "promote", "collect", "verdict", "give-up"}]
    /\ kind \in [Callers -> {"status", "cancel", "recover"}]
    /\ view \in [Callers -> RunStates \cup {"none"}]
    /\ sawReceipt \in [Callers -> {"absent", "torn", "written"}]
    /\ sawMarker \in [Callers -> Markers \cup {NoMarker}]
    /\ crashes \in Nat /\ failures \in Nat

\* A terminal RunRecord never changes, whoever still works on the run.
TerminalIsFinal == [][(record \in Terminal) => UNCHANGED record]_vars

\* A run is reported succeeded or cancelled only on the evidence of an exit marker, and
\* succeeded only if that marker shows an exit with code 0 that nobody caused.
VerdictsHaveEvidence ==
    /\ record = "succeeded" => marker = [code |-> "zero", reason |-> "none"]
    /\ record = "cancelled" => marker # NoMarker

\* A run with a verdict has no process left, in whatever way its launch failed; only
\* where both the launch and the reclaiming of its process fail is the run failed with
\* the process, which was told to end, perhaps still there.
NoProcessBehindVerdict ==
    record \in Finished /\ process = "live" => record = "failed" /\ doomed /\ failures >= 2

\* Whichever step of a launch fails, the process it spawned is told to end unless its
\* receipt identifies it; only a crash can lose an unidentified process.
SpawnedProcessesAreIdentified ==
    (process = "live" /\ ~doomed /\ receipt # "written" /\ crashes = 0)
    => \E s \in Submitters : step[s] \in {"identify", "receipt"}

\* Every recorded run becomes terminal, across crashes of the Host, without a call of
\* run_status; only a failure that leaves its run to the next Host, or a receipt torn by a
\* crash, keeps it from being reconciled.
RunsFinish ==
    (record = "starting") ~> (record \in Terminal \/ receipt = "torn" \/ failures > 0)

\* docs/phase2-gate.md:49 "Formal runs bind ... resource limits": a live process of a
\* Host that never went down has its timeout armed once its launch is over.
LiveRunsAreTimed ==
    (up /\ crashes = 0 /\ process = "live" /\ ~doomed /\ \A s \in Submitters : step[s] = "idle")
    => Tracked
=============================================================================
