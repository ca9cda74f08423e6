---------------------------- MODULE ProjectStore ----------------------------
(***************************************************************************)
(* The authority of one Project: ProjectFileStore over events.jsonl and     *)
(* state.json.  Calls of one operating-system process queue on a promise    *)
(* chain; the head of the chain takes the named project mutex, reads the    *)
(* log and the snapshot (repairing both), and may append one event and then *)
(* publish the snapshot it leads to.  Processes crash between any two disk  *)
(* steps, and a write may fail part way.                                    *)
(***************************************************************************)
EXTENDS Naturals, Sequences

CONSTANTS
    Clients,      \* concurrent callers of the store
    Procs,        \* operating-system processes
    ProcOf,       \* the process a caller lives in
    NoProc,       \* nobody holds the mutex
    NoState,      \* no state file was read, or there is none
    MaxEvents,    \* bound: events ever digested, torn ones included
    MaxCrashes    \* bound: process crashes

ASSUME StoreAssumption ==
    /\ ProcOf \in [Clients -> Procs]
    /\ NoProc \notin Procs \cup Clients
    /\ MaxEvents \in Nat
    /\ MaxCrashes \in Nat

VARIABLES
    events,       \* the whole lines of events.jsonl
    tail,         \* what follows them: see Tails
    snapshot,     \* state.json, or NoState
    minted,       \* how many event digests were ever computed
    owner,        \* the process that owns the project mutex
    abandoned,    \* the next acquirer is told the last owner died
    chain,        \* chain[p]: the calls of p in order, the head running
    pc, request, recovering, current, outcome, \* each call's progress
    seen,         \* seen[c]: the state file the store last returned to c
    crashes

disk == <<events, tail, snapshot, minted>>
locks == <<owner, abandoned, chain>>
calls == <<pc, request, recovering, current, outcome, seen>>
vars == <<disk, locks, calls, crashes>>

Requests == {"create", "load", "commit", "lease", "recover"}
\* newline: the last line is terminated.  open: it is whole JSON without its
\* newline.  torn: part of a line of JSON follows it.  corrupt: such a part was
\* followed by more text, so that a complete line is no JSON.
Tails == {"newline", "open", "torn", "corrupt"}
Outcomes == {"none", "ok", "IO_ERROR", "PROJECT_BINDING_MISMATCH",
             "PROJECT_GENERATION_CONFLICT", "PROJECT_RECOVERY_REQUIRED",
             "PROJECT_EVENT_LOG_CORRUPT", "PROJECT_SNAPSHOT_INCONSISTENT"}
Holding == {"check", "scan", "rebuild", "sweep", "decide", "append", "publish", "release"}

Positive == Nat \ {0}
Event == [seq : Positive, previousHash : Nat, hash : Positive]
StateFile == [generation : Positive, lastEventSeq : Positive, lastEventHash : Positive,
              state : Seq(Nat)]

\* The missing state is no state file.
ASSUME NoStateAssumption == NoState \notin StateFile

\* The reducer's state is a function of the events: their digests, in order.
Replay(log) == [i \in 1..Len(log) |-> log[i].hash]

RebuiltOnOldDigest(log) ==
    [generation |-> Len(log), lastEventSeq |-> log[Len(log)].seq,
     lastEventHash |-> log[Len(log)].previousHash, state |-> Replay(log)]

Rebuilt(log) ==
    [generation |-> Len(log), lastEventSeq |-> log[Len(log)].seq,
     lastEventHash |-> log[Len(log)].hash, state |-> Replay(log)]

\* The event a commit on the state file base creates; 0 stands for no digest.
NewEvent(base) ==
    IF base = NoState
    THEN [seq |-> 1, previousHash |-> 0, hash |-> minted + 1]
    ELSE [seq |-> base.lastEventSeq + 1, previousHash |-> base.lastEventHash, hash |-> minted + 1]

\* The state file that event leads to.
Reduced(base, e) ==
    IF base = NoState
    THEN [generation |-> 1, lastEventSeq |-> e.seq, lastEventHash |-> e.hash, state |-> <<e.hash>>]
    ELSE [generation |-> base.generation + 1, lastEventSeq |-> e.seq, lastEventHash |-> e.hash,
          state |-> Append(base.state, e.hash)]

Init ==
    /\ events = <<>> /\ tail = "newline" /\ snapshot = NoState /\ minted = 0
    /\ owner = NoProc /\ abandoned = FALSE
    /\ chain = [p \in Procs |-> <<>>]
    /\ pc = [c \in Clients |-> "idle"]
    /\ request = [c \in Clients |-> "load"]
    /\ recovering = [c \in Clients |-> FALSE]
    /\ current = [c \in Clients |-> NoState]
    /\ outcome = [c \in Clients |-> "none"]
    /\ seen = [c \in Clients |-> NoState]
    /\ crashes = 0

-----------------------------------------------------------------------------
(* The promise chain of a process and the mutex between processes.          *)

\* A caller that commits names the generation of the state file it loaded and validated.
Submit(c, r) ==
    /\ pc[c] = "idle"
    /\ r = "commit" => seen[c] # NoState
    /\ r \in {"create", "commit", "lease"} => minted < MaxEvents
    /\ chain' = [chain EXCEPT ![ProcOf[c]] = Append(@, c)]
    /\ pc' = [pc EXCEPT ![c] = "waiting"]
    /\ request' = [request EXCEPT ![c] = r]
    /\ UNCHANGED <<disk, owner, abandoned, recovering, current, outcome, seen, crashes>>

AnyPlaceInChain(c) == TRUE

IsHead(c) == chain[ProcOf[c]] # <<>> /\ Head(chain[ProcOf[c]]) = c

\* The mutex belongs to a process (the thread that runs its event loop), so it
\* never excludes two calls of one process: only the chain does.
MutexFreeToAll(c) == TRUE

MutexFree(c) == owner \in {NoProc, ProcOf[c]}

Acquire(c) ==
    /\ pc[c] = "waiting" /\ IsHead(c) /\ MutexFree(c)
    /\ owner' = ProcOf[c]
    /\ abandoned' = FALSE
    /\ recovering' = [recovering EXCEPT ![c] =
          request[c] = "recover" \/ (abandoned /\ request[c] # "create")]
    /\ pc' = [pc EXCEPT ![c] = IF request[c] = "create" THEN "check" ELSE "scan"]
    /\ UNCHANGED <<disk, chain, request, current, outcome, seen, crashes>>

\* lockTimeoutMs passes while another process owns the mutex: the call is refused with
\* PROJECT_WRITE_LOCK_TIMEOUT and the chain goes on.
StaysInChain(c) ==
    /\ pc[c] = "waiting" /\ IsHead(c) /\ ~MutexFree(c)
    /\ pc' = [pc EXCEPT ![c] = "idle"]
    /\ request' = [request EXCEPT ![c] = "load"]
    /\ UNCHANGED <<disk, locks, recovering, current, outcome, seen, crashes>>

LockTimeout(c) ==
    /\ pc[c] = "waiting" /\ IsHead(c) /\ ~MutexFree(c)
    /\ chain' = [chain EXCEPT ![ProcOf[c]] = Tail(@)]
    /\ pc' = [pc EXCEPT ![c] = "idle"]
    /\ request' = [request EXCEPT ![c] = "load"]
    /\ UNCHANGED <<disk, owner, abandoned, recovering, current, outcome, seen, crashes>>

\* The finally block: the mutex is released, then the chain's next call starts.
Release(c) ==
    /\ pc[c] = "release"
    /\ owner' = NoProc
    /\ chain' = [chain EXCEPT ![ProcOf[c]] = Tail(@)]
    /\ pc' = [pc EXCEPT ![c] = "idle"]
    /\ seen' = [seen EXCEPT ![c] =
          IF outcome[c] = "ok" /\ request[c] # "recover" THEN current[c] ELSE @]
    /\ current' = [current EXCEPT ![c] = NoState]
    /\ request' = [request EXCEPT ![c] = "load"]
    /\ outcome' = [outcome EXCEPT ![c] = "none"]
    /\ UNCHANGED <<disk, abandoned, recovering, crashes>>

Finish(c, code) ==
    /\ outcome' = [outcome EXCEPT ![c] = code]
    /\ pc' = [pc EXCEPT ![c] = "release"]

-----------------------------------------------------------------------------
(* readConsistentLocked: read the log, repair its tail and the snapshot.    *)

\* parseEvent: each line carries its own number and the digest of the line before it.
Chained(log) ==
    \A i \in 1..Len(log) :
        /\ log[i].seq = i
        /\ log[i].previousHash = IF i = 1 THEN 0 ELSE log[i-1].hash

Readable(log, t) == t # "corrupt" /\ Chained(log)

Consistent(file, log) == file # NoState /\ log # <<>> /\ file = Rebuilt(log)
BehindOnlyIfMissing(file, log) == file = NoState

Behind(file, log) == file # NoState => file.lastEventSeq < Len(log)

AfterScan(c) == IF recovering[c] THEN "sweep" ELSE "decide"

\* readEventLog with truncateTail: an incomplete last line is cut off.
RepairedTail(t) == IF t = "torn" THEN "newline" ELSE t

Scan(c) ==
    /\ pc[c] = "scan"
    /\ tail' = RepairedTail(tail)
    /\ \/ /\ tail = "corrupt"
          /\ Finish(c, "PROJECT_EVENT_LOG_CORRUPT") /\ UNCHANGED current
       \/ /\ Readable(events, tail) /\ events = <<>>
          /\ Finish(c, "PROJECT_RECOVERY_REQUIRED") /\ UNCHANGED current
       \/ /\ Readable(events, tail) /\ events # <<>> /\ Behind(snapshot, events)
          /\ pc' = [pc EXCEPT ![c] = "rebuild"] /\ UNCHANGED <<outcome, current>>
       \/ /\ Readable(events, tail) /\ Consistent(snapshot, events)
          /\ pc' = [pc EXCEPT ![c] = AfterScan(c)]
          /\ current' = [current EXCEPT ![c] = snapshot] /\ UNCHANGED outcome
       \/ /\ Readable(events, tail) /\ events # <<>>
          /\ ~Behind(snapshot, events) /\ ~Consistent(snapshot, events)
          /\ Finish(c, "PROJECT_SNAPSHOT_INCONSISTENT") /\ UNCHANGED current
    /\ UNCHANGED <<events, snapshot, minted, locks, request, recovering, seen, crashes>>

Rebuild(c) ==
    /\ pc[c] = "rebuild"
    /\ snapshot' = Rebuilt(events)
    /\ current' = [current EXCEPT ![c] = Rebuilt(events)]
    /\ pc' = [pc EXCEPT ![c] = AfterScan(c)]
    /\ UNCHANGED <<events, tail, minted, locks, request, recovering, outcome, seen, crashes>>

\* atomicWriteJson throws before its rename, or in the directory sync after it.
RebuildFails(c) ==
    /\ pc[c] = "rebuild"
    /\ snapshot' \in {snapshot, Rebuilt(events)}
    /\ Finish(c, "IO_ERROR")
    /\ UNCHANGED <<events, tail, minted, locks, request, recovering, current, seen, crashes>>

\* The rest of recoverLocked (operation records, aged files, orphan objects) does
\* not touch the log or the snapshot.  After an abandoned mutex the call goes on
\* and reads once more; recover itself returns its report.
Sweep(c) ==
    /\ pc[c] = "sweep"
    /\ recovering' = [recovering EXCEPT ![c] = FALSE]
    /\ IF request[c] = "recover"
       THEN Finish(c, "ok")
       ELSE pc' = [pc EXCEPT ![c] = "scan"] /\ UNCHANGED outcome
    /\ UNCHANGED <<disk, locks, request, current, seen, crashes>>

\* An unexpected entry or a continuation marker that is still in progress; or a torn
\* operation record, or a write, that throws an error of its own.
SweepFails(c) ==
    /\ pc[c] = "sweep"
    /\ recovering' = [recovering EXCEPT ![c] = FALSE]
    /\ \E code \in {"PROJECT_RECOVERY_REQUIRED", "IO_ERROR"} : Finish(c, code)
    /\ UNCHANGED <<disk, locks, request, current, seen, crashes>>

-----------------------------------------------------------------------------
(* What the call does once it has read a consistent state.                  *)

\* readEventLog without truncateTail refuses an incomplete last line.
WholeLines == Readable(events, tail) /\ tail # "torn"

\* createProject: the directory must hold neither a snapshot nor an event.
Check(c) ==
    /\ pc[c] = "check"
    /\ \/ /\ snapshot # NoState \/ (WholeLines /\ events # <<>>)
          /\ Finish(c, "PROJECT_BINDING_MISMATCH")
       \/ /\ snapshot = NoState /\ ~WholeLines
          /\ Finish(c, "PROJECT_EVENT_LOG_CORRUPT")
       \/ /\ snapshot = NoState /\ WholeLines /\ events = <<>>
          /\ pc' = [pc EXCEPT ![c] = "append"] /\ UNCHANGED outcome
    /\ UNCHANGED <<disk, locks, request, recovering, current, seen, crashes>>

CommitOnWhateverIsThere(c) == TRUE

\* The generation a commit expects: the lease commits on the state it was given.
ExpectedGeneration(c) ==
    IF request[c] = "lease" THEN current[c].generation ELSE seen[c].generation

GenerationMatches(c) == current[c].generation = ExpectedGeneration(c)

Decide(c) ==
    /\ pc[c] = "decide"
    /\ \/ request[c] = "load" /\ Finish(c, "ok")
       \/ /\ request[c] \in {"commit", "lease"} /\ ~GenerationMatches(c)
          /\ Finish(c, "PROJECT_GENERATION_CONFLICT")
       \/ /\ request[c] \in {"commit", "lease"} /\ GenerationMatches(c)
          /\ pc' = [pc EXCEPT ![c] = "append"] /\ UNCHANGED outcome
    /\ UNCHANGED <<disk, locks, request, recovering, current, seen, crashes>>

\* appendEvent writes a separator first when the last byte is no newline.
TailAfterAppend == IF tail = "torn" THEN "corrupt" ELSE "newline"

AppendEvent(c) ==
    /\ pc[c] = "append"
    /\ events' = Append(events, NewEvent(current[c]))
    /\ tail' = TailAfterAppend
    /\ minted' = minted + 1
    /\ current' = [current EXCEPT ![c] = Reduced(current[c], NewEvent(current[c]))]
    /\ pc' = [pc EXCEPT ![c] = "publish"]
    /\ UNCHANGED <<snapshot, locks, request, recovering, outcome, seen, crashes>>

\* The write stops part way, or the sync after it fails: nothing, the separator, a
\* part of the line, the line without its newline, or all of it is in the file.
AppendFails(c) ==
    /\ pc[c] = "append"
    /\ minted' = minted + 1
    /\ \/ UNCHANGED <<events, tail>>
       \/ tail = "open" /\ tail' = "newline" /\ UNCHANGED events
       \/ tail' = "torn" /\ UNCHANGED events
       \/ /\ events' = Append(events, NewEvent(current[c]))
          /\ tail' \in {"open", "newline"}
    /\ Finish(c, "IO_ERROR")
    /\ UNCHANGED <<snapshot, locks, request, recovering, current, seen, crashes>>

Publish(c) ==
    /\ pc[c] = "publish"
    /\ snapshot' = current[c]
    /\ Finish(c, "ok")
    /\ UNCHANGED <<events, tail, minted, locks, request, recovering, current, seen, crashes>>

PublishFails(c) ==
    /\ pc[c] = "publish"
    /\ snapshot' \in {snapshot, current[c]}
    /\ Finish(c, "IO_ERROR")
    /\ UNCHANGED <<events, tail, minted, locks, request, recovering, current, seen, crashes>>

\* Every call of the process dies with it.  A named mutex is reported abandoned when
\* another process still has it open; otherwise it is simply free again.
Crash(p) ==
    /\ crashes < MaxCrashes
    /\ crashes' = crashes + 1
    /\ IF owner = p
       THEN owner' = NoProc /\ abandoned' \in BOOLEAN
       ELSE UNCHANGED <<owner, abandoned>>
    /\ chain' = [chain EXCEPT ![p] = <<>>]
    /\ pc' = [c \in Clients |-> IF ProcOf[c] = p THEN "idle" ELSE pc[c]]
    /\ outcome' = [c \in Clients |-> IF ProcOf[c] = p THEN "none" ELSE outcome[c]]
    /\ current' = [c \in Clients |-> IF ProcOf[c] = p THEN NoState ELSE current[c]]
    /\ seen' = [c \in Clients |-> IF ProcOf[c] = p THEN NoState ELSE seen[c]]
    /\ recovering' = [c \in Clients |-> IF ProcOf[c] = p THEN FALSE ELSE recovering[c]]
    /\ request' = [c \in Clients |-> IF ProcOf[c] = p THEN "load" ELSE request[c]]
    /\ UNCHANGED disk

Step(c) ==
    \/ Acquire(c) \/ LockTimeout(c) \/ Release(c)
    \/ Scan(c) \/ Rebuild(c) \/ RebuildFails(c) \/ Sweep(c) \/ SweepFails(c)
    \/ Check(c) \/ Decide(c)
    \/ AppendEvent(c) \/ AppendFails(c) \/ Publish(c) \/ PublishFails(c)

Next ==
    \/ \E c \in Clients, r \in Requests : Submit(c, r)
    \/ \E c \in Clients : Step(c)
    \/ \E p \in Procs : Crash(p)

Spec == Init /\ [][Next]_vars

-----------------------------------------------------------------------------
(* Properties *)

\* The values the variables range over.
TypeOK ==
    /\ events \in Seq(Event) /\ tail \in Tails
    /\ snapshot \in StateFile \cup {NoState} /\ minted \in Nat
    /\ owner \in Procs \cup {NoProc} /\ abandoned \in BOOLEAN
    /\ chain \in [Procs -> Seq(Clients)]
    /\ pc \in [Clients -> Holding \cup {"idle", "waiting"}]
    /\ request \in [Clients -> Requests] /\ recovering \in [Clients -> BOOLEAN]
    /\ current \in [Clients -> StateFile \cup {NoState}]
    /\ outcome \in [Clients -> Outcomes]
    /\ seen \in [Clients -> StateFile \cup {NoState}]
    /\ crashes \in Nat

\* Whatever crashes and failed writes leave behind, every complete line of
\* events.jsonl parses and extends the line before it (readEventLog never has to
\* give the Project up): an incomplete line is cut off before anything follows it.
LogReadable == Readable(events, tail)

\* state.json is never ahead of the log, and is what some prefix of the log reduces
\* to, between any two disk steps of a commit or of a repair.
SnapshotTrailsLog ==
    snapshot # NoState =>
        \E n \in 1..Len(events) : snapshot = Rebuilt(SubSeq(events, 1, n))

\* A state the store returned to a caller is never lost: the log still begins with
\* the events it was reduced from, whoever crashes afterwards.
ReturnedStatesPersist ==
    \A c \in Clients : seen[c] # NoState =>
        \E n \in 1..Len(events) : seen[c] = Rebuilt(SubSeq(events, 1, n))

\* No call is refused because the files disagree: the two corruption errors of
\* readConsistentLocked are unreachable by crashes and failed writes.  createProject
\* alone reports a corrupt log, for the torn first line of an earlier creation.
NoFalseCorruption ==
    \A c \in Clients :
        /\ outcome[c] # "PROJECT_SNAPSHOT_INCONSISTENT"
        /\ outcome[c] = "PROJECT_EVENT_LOG_CORRUPT" => request[c] = "create"

\* Optimistic concurrency: an event committed against an expected generation is
\* appended to exactly the state its caller was given and validated.
CommitsExtendValidatedState ==
    [][\A c \in Clients :
          (pc[c] = "append" /\ request[c] = "commit" /\ events' # events /\ pc'[c] # pc[c])
          => seen[c].state = Replay(events)]_vars

\* Nobody waits for a call that is over: whatever times out, fails or dies, a chain
\* holds exactly the calls of its process that have not returned, so the one in front
\* of a waiting call is there to let it go on; and a mutex that is held is held for a
\* call that is running.
NobodyWaitsForTheGone ==
    /\ \A p \in Procs : \A i \in 1..Len(chain[p]) :
          ProcOf[chain[p][i]] = p /\ pc[chain[p][i]] # "idle"
    /\ \A c \in Clients : pc[c] # "idle" =>
          \E i \in 1..Len(chain[ProcOf[c]]) : chain[ProcOf[c]][i] = c
    /\ owner # NoProc => \E c \in Clients : ProcOf[c] = owner /\ pc[c] \in Holding

\* The caller whose withMutationLease action runs.
LeaseHolders == {c \in Clients : request[c] = "lease" /\ pc[c] \in Holding}

\* The files, the mutex and the chains implement one growing history with
\* compare-and-swap commits and an exclusive mutation lease.
History == INSTANCE ProjectHistory WITH
    Events <- Nat, Unknown <- NoState, Nobody <- NoProc,
    history <- Replay(events),
    known <- [c \in Clients |-> IF seen[c] = NoState THEN NoState ELSE seen[c].state],
    lease <- IF LeaseHolders = {} THEN NoProc ELSE CHOOSE c \in LeaseHolders : TRUE

RefinesHistory == History!HSpec
=============================================================================
