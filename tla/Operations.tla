----------------------------- MODULE Operations -----------------------------
(***************************************************************************)
(* One operation key of one Project: ProjectFileStore.executeOperation and  *)
(* the sweep of operation records that recoverLocked makes.  Callers in     *)
(* several processes retry the operation, the processes crash, any write    *)
(* may fail, and a sweep runs beside them under the project mutex.          *)
(* The action of the operation commits one event under the project mutex;   *)
(* its recovery, under the same mutex, commits it unless what the event is  *)
(* to bring about stands in the Project: others may have undone it since.   *)
(***************************************************************************)
EXTENDS Naturals

CONSTANTS
    Clients, Procs, ProcOf,   \* callers and the process each lives in
    Digests,                  \* request digests callers use with this key
    Nobody,                   \* no holder of a lock, no value
    Platforms,                \* what an operation mutex may be: see reentrant
    MaxVersion,               \* bound: how often the Project changes meanwhile
    MaxCrashes                \* bound: process crashes

ASSUME OperationsAssumption ==
    /\ ProcOf \in [Clients -> Procs]
    /\ Clients \cap Procs = {} /\ Nobody \notin Clients \cup Procs \cup Digests \cup Nat
    /\ Platforms \subseteq BOOLEAN /\ MaxVersion \in Nat /\ MaxCrashes \in Nat

VARIABLES
    reentrant,    \* TRUE: a Windows mutex, owned by the thread of a process;
                  \* FALSE: a POSIX socket, owned by one acquisition
    recoverable,  \* the operation the key belongs to comes with a recovery
    record,       \* the operation record on disk
    active,       \* the processes whose ACTIVE_OPERATION_LEASES has the key
    owner, depth, \* the operation mutex and how often its owner acquired it
    project,      \* who is inside the project mutex: a caller, or the process that sweeps
    sweep, swept, \* the sweep's progress, and the record it read
    pc, digest,   \* each call's progress and request
    held, value,  \* the record a call read, and the result it holds (Nobody: none)
    applied,      \* how many events the operation committed
    stands,       \* the Project shows what they bring about: the Artifact is current
    version,      \* the Project's state otherwise: what a result depends on
    answers,      \* every result a caller was given
    crashes

lockVars == <<active, owner, depth, project>>
sweepVars == <<sweep, swept>>
callVars == <<pc, digest, held, value>>
worldVars == <<applied, stands, version>>
vars == <<record, lockVars, sweepVars, callVars, worldVars, answers, crashes>>

\* torn: the file exists, but the first write to it has not completed.
RecordStates == {"absent", "torn", "in-progress", "committed", "recovery-required", "failed-final"}
Records == [state : RecordStates, digest : Digests \cup {Nobody}, result : Nat \cup {Nobody}]
NoRecord == [state |-> "absent", digest |-> Nobody, result |-> Nobody]

Init ==
    /\ reentrant \in Platforms /\ recoverable \in BOOLEAN
    /\ record = NoRecord
    /\ active = {} /\ owner = Nobody /\ depth = 0 /\ project = Nobody
    /\ sweep = "idle" /\ swept = NoRecord
    /\ pc = [c \in Clients |-> "idle"]
    /\ digest = [c \in Clients |-> Nobody]
    /\ held = [c \in Clients |-> NoRecord]
    /\ value = [c \in Clients |-> Nobody]
    /\ applied = 0 /\ stands = FALSE /\ version = 0 /\ answers = {} /\ crashes = 0

-----------------------------------------------------------------------------
(* The operation mutex, and the process's own set of live keys              *)

Available(p) == owner = Nobody \/ (reentrant /\ owner = p)

Take(p) == owner' = p /\ depth' = depth + 1
Drop == depth' = depth - 1 /\ owner' = IF depth = 1 THEN Nobody ELSE owner

Goto(c, step) == pc' = [pc EXCEPT ![c] = step]

\* The calls of cs are over, and what they held is gone.
Over(cs) ==
    /\ pc' = [c \in Clients |-> IF c \in cs THEN "idle" ELSE pc[c]]
    /\ digest' = [c \in Clients |-> IF c \in cs THEN Nobody ELSE digest[c]]
    /\ held' = [c \in Clients |-> IF c \in cs THEN NoRecord ELSE held[c]]
    /\ value' = [c \in Clients |-> IF c \in cs THEN Nobody ELSE value[c]]

\* A key that is live in this process is refused with OPERATION_IN_PROGRESS.
NotCheckedForLive(c) == TRUE

NotLive(c) == ProcOf[c] \notin active

Begin(c, d) ==
    /\ pc[c] = "idle" /\ NotLive(c)
    /\ active' = active \cup {ProcOf[c]}
    /\ digest' = [digest EXCEPT ![c] = d]
    /\ Goto(c, "lock")
    /\ UNCHANGED <<record, owner, depth, project, sweepVars, held, value, worldVars, answers, crashes>>

Lock(c) ==
    /\ pc[c] = "lock" /\ Available(ProcOf[c])
    /\ Take(ProcOf[c])
    /\ Goto(c, "open")
    /\ UNCHANGED <<record, active, project, sweepVars, digest, held, value,
                   worldVars, answers, crashes>>

\* The mutex is tried with no timeout: the key is live in another process.
Refused(c) ==
    /\ pc[c] = "lock" /\ ~Available(ProcOf[c])
    /\ active' = active \ {ProcOf[c]}
    /\ Over({c})
    /\ UNCHANGED <<record, owner, depth, project, sweepVars, worldVars, answers, crashes>>

AnsweredEvenIfFailed(c) == {[digest |-> digest[c], result |-> value[c]]}

\* A call without a result throws.
Answered(c) ==
    IF value[c] = Nobody THEN {} ELSE {[digest |-> digest[c], result |-> value[c]]}

\* The finally blocks; only now is the caller given the result.
Unlock(c) ==
    /\ pc[c] = "unlock"
    /\ Drop
    /\ active' = active \ {ProcOf[c]}
    /\ answers' = answers \cup Answered(c)
    /\ Over({c})
    /\ UNCHANGED <<record, project, sweepVars, worldVars, crashes>>

-----------------------------------------------------------------------------
(* executeOperationLocked: the record                                       *)

\* open(path, 'wx'): exactly one caller ever creates the record.
MayCreate == record.state = "absent"

Open(c) ==
    /\ pc[c] = "open" /\ MayCreate
    /\ record' = [NoRecord EXCEPT !.state = "torn"]
    /\ Goto(c, "initial")
    /\ UNCHANGED <<lockVars, sweepVars, digest, held, value, worldVars, answers, crashes>>

\* The initial record is written in place; a failed write leaves the torn file, a
\* failed sync the whole record.
WriteInitial(c) ==
    /\ pc[c] = "initial"
    /\ \/ /\ record' = [state |-> "in-progress", digest |-> digest[c], result |-> Nobody]
          /\ Goto(c, "act")
       \/ /\ record' \in {record, [state |-> "in-progress", digest |-> digest[c], result |-> Nobody]}
          /\ Goto(c, "unlock")
    /\ UNCHANGED <<lockVars, sweepVars, digest, held, value, worldVars, answers, crashes>>

AnyDigest(c) == TRUE

\* Reusing the key with another request is an IDEMPOTENCY_CONFLICT.
SameRequest(c) == record.digest = digest[c]

AfterReading(c) ==
    CASE record.state = "in-progress" -> "interrupted"
      [] record.state = "recovery-required" -> IF recoverable THEN "recover" ELSE "unlock"
      [] OTHER -> "unlock"

\* readOperation throws on a torn record; a committed one is replayed.
ReadExisting(c) ==
    /\ pc[c] = "open" /\ record.state # "absent"
    /\ held' = [held EXCEPT ![c] = record]
    /\ IF record.state = "torn" THEN Goto(c, "unlock") /\ UNCHANGED value
       ELSE IF ~SameRequest(c) THEN Goto(c, "unlock") /\ UNCHANGED value
       ELSE /\ Goto(c, AfterReading(c))
            /\ value' = [value EXCEPT ![c] =
                  IF record.state = "committed" THEN record.result ELSE Nobody]
    /\ UNCHANGED <<record, lockVars, sweepVars, digest, worldVars, answers, crashes>>

\* The owner of the record is gone: it is marked before anything else happens.
MarkInterrupted(c) ==
    /\ pc[c] = "interrupted"
    /\ \/ /\ record' = [held[c] EXCEPT !.state = "recovery-required"]
          /\ Goto(c, IF recoverable THEN "recover" ELSE "unlock")
       \/ record' \in {record, [held[c] EXCEPT !.state = "recovery-required"]} /\ Goto(c, "unlock")
    /\ UNCHANGED <<lockVars, sweepVars, digest, held, value, worldVars, answers, crashes>>

-----------------------------------------------------------------------------
(* The action, its recovery, and the final record                           *)

\* The process whose call or sweep is inside the project mutex.
ProjectOwner == IF project \in Clients THEN ProcOf[project] ELSE project

\* Both run under a project mutation lease.  Waiting for another process may time out,
\* with a GeoResearchError; the calls of one process queue without a timeout.
EnterProject(c) ==
    /\ pc[c] \in {"act", "recover"}
    /\ \/ /\ project = Nobody
          /\ project' = c
          /\ Goto(c, IF pc[c] = "act" THEN "commit" ELSE "complete")
       \/ /\ project # Nobody /\ ProjectOwner # ProcOf[c] /\ UNCHANGED project
          /\ Goto(c, IF pc[c] = "act" THEN "final" ELSE "unlock")
    /\ UNCHANGED <<record, active, owner, depth, sweepVars, digest, held, value,
                   worldVars, answers, crashes>>

AppliesAgain == applied' = applied + 1 /\ stands' = TRUE

\* An event is committed unless the Project shows its effect already: publishDeliverable
\* asks whether the Artifact is current, not whether its own event is in the log.
Applies == applied' = (IF stands THEN applied ELSE applied + 1) /\ stands' = TRUE

LeavesAsItWas == UNCHANGED <<applied, stands>>

\* The action takes effect, or is refused (a GeoResearchError), or fails before or
\* after the event is in the log.
Commit(c) ==
    /\ pc[c] = "commit"
    /\ project' = Nobody
    /\ \/ Applies /\ value' = [value EXCEPT ![c] = version] /\ Goto(c, "result")
       \/ LeavesAsItWas /\ UNCHANGED value /\ Goto(c, "final")
       \/ (Applies \/ LeavesAsItWas) /\ UNCHANGED value /\ Goto(c, "unsure")
    /\ UNCHANGED <<record, active, owner, depth, sweepVars, digest, held, version,
                   answers, crashes>>

\* The recovery does the same on the state it finds, whatever was committed before.
Complete(c) ==
    /\ pc[c] = "complete"
    /\ project' = Nobody
    /\ \/ Applies /\ value' = [value EXCEPT ![c] = version] /\ Goto(c, "recovered")
       \/ (Applies \/ LeavesAsItWas) /\ UNCHANGED value /\ Goto(c, "unlock")
    /\ UNCHANGED <<record, active, owner, depth, sweepVars, digest, held, version,
                   answers, crashes>>

Committed(c) == [state |-> "committed", digest |-> digest[c], result |-> value[c]]

\* atomicWriteJson of the committed record; if it throws, the error is classified as
\* uncertain although the record may have reached the disk.
WriteResult(c) ==
    /\ pc[c] = "result"
    /\ \/ record' = Committed(c) /\ Goto(c, "unlock") /\ UNCHANGED value
       \/ /\ record' \in {record, Committed(c)}
          /\ Goto(c, "unsure")
          /\ value' = [value EXCEPT ![c] = Nobody]
    /\ UNCHANGED <<lockVars, sweepVars, digest, held, worldVars, answers, crashes>>

WriteRecovered(c) ==
    /\ pc[c] = "recovered"
    /\ \/ record' = Committed(c) /\ UNCHANGED value
       \/ record' \in {record, Committed(c)} /\ value' = [value EXCEPT ![c] = Nobody]
    /\ Goto(c, "unlock")
    /\ UNCHANGED <<lockVars, sweepVars, digest, held, worldVars, answers, crashes>>

Failed(c) ==
    [state |-> IF pc[c] = "final" THEN "failed-final" ELSE "recovery-required",
     digest |-> digest[c], result |-> Nobody]

\* The classified error is stored; if that write fails too, what was there stays.
WriteError(c) ==
    /\ pc[c] \in {"final", "unsure"}
    /\ record' \in {record, Failed(c)}
    /\ Goto(c, "unlock")
    /\ UNCHANGED <<lockVars, sweepVars, digest, held, value, worldVars, answers, crashes>>

-----------------------------------------------------------------------------
(* recoverOperations, inside the project mutex                              *)

\* The directory is listed: a record that does not exist yet has no entry.
SweepBegin(p) ==
    /\ sweep = "idle" /\ project = Nobody /\ record.state # "absent"
    /\ project' = p /\ sweep' = "check"
    /\ UNCHANGED <<record, active, owner, depth, swept, callVars, worldVars, answers, crashes>>

SweepEnd == sweep' = "idle" /\ project' = Nobody

SweepAnyway(p) == TRUE

SweepableIn(p) == p \notin active

SweepCheck(p) ==
    /\ sweep = "check" /\ project = p
    /\ IF SweepableIn(p) THEN sweep' = "take" /\ UNCHANGED project ELSE SweepEnd
    /\ UNCHANGED <<record, active, owner, depth, swept, callVars, worldVars, answers, crashes>>

\* A mutex held elsewhere means a live operation: it is skipped, never waited for.
SweepWaitsForIt(p) ==
    /\ sweep = "take" /\ project = p /\ Available(p)
    /\ Take(p) /\ sweep' = "read" /\ UNCHANGED project
    /\ UNCHANGED <<record, active, swept, callVars, worldVars, answers, crashes>>

SweepTake(p) ==
    /\ sweep = "take" /\ project = p
    /\ IF Available(p)
       THEN Take(p) /\ sweep' = "read" /\ UNCHANGED project
       ELSE SweepEnd /\ UNCHANGED <<owner, depth>>
    /\ UNCHANGED <<record, active, swept, callVars, worldVars, answers, crashes>>

\* readOperation throws on a torn record: the mutex is released, and the Recovery
\* Scan fails as a whole.
SweepRead(p) ==
    /\ sweep = "read" /\ project = p
    /\ swept' = record
    /\ sweep' = CASE record.state = "in-progress" -> "mark"
                  [] record.state = "torn" -> "throw"
                  [] OTHER -> "release"
    /\ UNCHANGED <<record, lockVars, callVars, worldVars, answers, crashes>>

SweepMark(p) ==
    /\ sweep = "mark" /\ project = p
    /\ \/ record' = [swept EXCEPT !.state = "recovery-required"] /\ sweep' = "release"
       \/ record' \in {record, [swept EXCEPT !.state = "recovery-required"]} /\ sweep' = "throw"
    /\ UNCHANGED <<lockVars, swept, callVars, worldVars, answers, crashes>>

\* The finally block; what was thrown ends the whole scan.
SweepRelease(p) ==
    /\ sweep \in {"release", "throw"} /\ project = p
    /\ Drop /\ SweepEnd
    /\ swept' = NoRecord
    /\ UNCHANGED <<record, active, callVars, worldVars, answers, crashes>>

-----------------------------------------------------------------------------
(* Everything else                                                          *)

\* Another operation changes the Project; among others it may stale or supersede what
\* this one published, or publish the very same Artifact.
Advance ==
    /\ version < MaxVersion /\ project = Nobody
    /\ version' = version + 1
    /\ stands' \in BOOLEAN
    /\ UNCHANGED <<record, lockVars, sweepVars, callVars, applied, answers, crashes>>

Crash(p) ==
    /\ crashes < MaxCrashes
    /\ crashes' = crashes + 1
    /\ active' = active \ {p}
    /\ IF owner = p THEN owner' = Nobody /\ depth' = 0 ELSE UNCHANGED <<owner, depth>>
    /\ project' = IF project \in {p} \cup {c \in Clients : ProcOf[c] = p} THEN Nobody ELSE project
    /\ IF project = p THEN sweep' = "idle" /\ swept' = NoRecord ELSE UNCHANGED sweepVars
    /\ Over({c \in Clients : ProcOf[c] = p})
    /\ UNCHANGED <<record, worldVars, answers>>

Call(c) ==
    \/ Lock(c) \/ Refused(c) \/ Unlock(c)
    \/ Open(c) \/ WriteInitial(c) \/ ReadExisting(c) \/ MarkInterrupted(c)
    \/ EnterProject(c) \/ Commit(c) \/ Complete(c)
    \/ WriteResult(c) \/ WriteRecovered(c) \/ WriteError(c)

Sweep(p) ==
    \/ SweepCheck(p) \/ SweepTake(p) \/ SweepRead(p) \/ SweepMark(p) \/ SweepRelease(p)

Next ==
    /\ \/ \E c \in Clients, d \in Digests : Begin(c, d)
       \/ \E c \in Clients : Call(c)
       \/ \E p \in Procs : SweepBegin(p) \/ Sweep(p) \/ Crash(p)
       \/ Advance
    /\ UNCHANGED <<reentrant, recoverable>>

Spec == Init /\ [][Next]_<<reentrant, recoverable, vars>>

\* A live process keeps running the calls and the sweep it has begun, and its promise
\* chain lets the calls that wait for the Project in one after the other.
FairSpec ==
    /\ Spec
    /\ \A c \in Clients : WF_vars(Call(c)) /\ SF_vars(EnterProject(c))
    /\ \A p \in Procs : WF_vars(Sweep(p))

-----------------------------------------------------------------------------
(* Properties *)

Steps == {"idle", "lock", "open", "initial", "interrupted", "act", "recover", "commit",
          "complete", "result", "recovered", "final", "unsure", "unlock"}

\* The values the variables range over.
TypeOK ==
    /\ reentrant \in BOOLEAN /\ recoverable \in BOOLEAN /\ record \in Records /\ swept \in Records
    /\ active \subseteq Procs /\ owner \in Procs \cup {Nobody} /\ depth \in Nat
    /\ project \in Clients \cup Procs \cup {Nobody}
    /\ sweep \in {"idle", "check", "take", "read", "mark", "release", "throw"}
    /\ pc \in [Clients -> Steps] /\ digest \in [Clients -> Digests \cup {Nobody}]
    /\ held \in [Clients -> Records] /\ value \in [Clients -> Nat \cup {Nobody}]
    /\ applied \in Nat /\ stands \in BOOLEAN
    /\ version \in Nat /\ crashes \in Nat
    /\ answers \subseteq [digest : Digests, result : Nat]

\* Exact replay: every caller that is ever given a result for this key is given the
\* same one, for the same request.
ExactReplay == \A a, b \in answers : a = b

\* What was answered is what the record keeps.
AnswersAreRecorded ==
    \A a \in answers : record = [state |-> "committed", digest |-> a.digest, result |-> a.result]

\* At most one call works on the key: a process that marked the key live has exactly
\* one call running, and that call has the mutex once it reads the record.
OneLiveCall ==
    /\ \A p \in active : \E c \in Clients : ProcOf[c] = p /\ pc[c] # "idle"
    /\ \A c, d \in Clients :
          pc[c] \notin {"idle", "lock"} /\ pc[d] \notin {"idle", "lock"} => c = d

\* Callers hold the operation mutex and want the project mutex, the sweep holds the
\* project mutex and tries the operation mutex: neither ever waits for the other.
CallsReturn == \A c \in Clients : (pc[c] # "idle") ~> (pc[c] = "idle")

\* The result is in the record, or with a call that has not returned yet.
ResultAtHand == record.state = "committed" \/ \E c \in Clients : value[c] # Nobody

\* The record, the mutex, the retries, the recoveries and the sweep implement a key
\* that belongs to one request and has one result.  Its event is committed again only
\* where others undid what it brought about, and never once a caller was answered.
Once == INSTANCE IdempotentOperation WITH
    Requests <- Digests, Results <- 0..MaxVersion, Nothing <- Nobody,
    bound <- record.digest, ready <- ResultAtHand

RefinesOnce == Once!OnceSpec
=============================================================================
