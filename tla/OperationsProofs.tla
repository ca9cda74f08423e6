-------------------------- MODULE OperationsProofs --------------------------
(***************************************************************************)
(* Proofs about Operations, for any callers, processes, requests and       *)
(* bounds.  One call at a time is past the operation mutex; the sweep can  *)
(* share the mutex only with a call of its own process that came after the *)
(* check of the live keys, and such a call finds the record there already: *)
(* it never gets to the action.                                            *)
(***************************************************************************)
EXTENDS Operations, TLAPS

-----------------------------------------------------------------------------
(* The inductive invariant *)

Busy(c) == pc[c] # "idle"
Locked(c) == pc[c] \notin {"idle", "lock"}
SweepHolds == sweep \in {"read", "mark", "release", "throw"}

\* A process has one call of the key, and knows of it.
LiveOK ==
    /\ \A c \in Clients : Busy(c) => ProcOf[c] \in active
    /\ \A p \in active : \E c \in Clients : ProcOf[c] = p /\ Busy(c)
    /\ \A c, d \in Clients : Busy(c) /\ Busy(d) /\ ProcOf[c] = ProcOf[d] => c = d

\* The mutex is counted for each of its holders.
MutexOK ==
    /\ \A c \in Clients : Locked(c) => owner = ProcOf[c]
    /\ SweepHolds => owner = project
    /\ owner = Nobody <=> depth = 0
    /\ \A c \in Clients : Locked(c) /\ SweepHolds => depth >= 2

ProjectOK ==
    /\ \A c \in Clients : pc[c] \in {"commit", "complete"} <=> project = c
    /\ sweep # "idle" <=> project \in Procs

\* What the record says at each of its states.
RecordOK ==
    /\ record.state \notin {"absent", "torn"} => record.digest \in Digests
    /\ record.state = "committed" <=> record.result # Nobody
    /\ sweep # "idle" => record.state # "absent"

\* An interrupted record as it was read: it can only have been marked since.
Interrupted(r) ==
    /\ r.state = "in-progress" /\ r.result = Nobody
    /\ r.digest = record.digest
    /\ record.state \in {"in-progress", "recovery-required"}

\* What a call knows at each of its steps.
Creating == {"initial", "act", "commit", "result", "final", "unsure"}
Recovering == {"recover", "complete", "recovered"}

CallOK(c) ==
    /\ Busy(c) => digest[c] \in Digests
    /\ value[c] # Nobody => pc[c] \in {"result", "recovered", "unlock"}
    /\ pc[c] \in {"result", "recovered"} => value[c] # Nobody
    /\ pc[c] \in Creating => answers = {}
    /\ pc[c] = "initial" => record.state = "torn"
    /\ pc[c] \in {"act", "commit", "result"} =>
           record.state = "in-progress" /\ record.digest = digest[c]
    /\ pc[c] = "interrupted" => Interrupted(held[c]) /\ record.digest = digest[c]
    /\ pc[c] \in Recovering => record.state = "recovery-required" /\ record.digest = digest[c]
    /\ pc[c] = "unlock" /\ value[c] # Nobody => record = Committed(c)

\* A call that shares the mutex with the sweep came too late to create the record.
Late == {"open", "interrupted", "recover", "unlock"}

SweepOK ==
    /\ sweep = "mark" => Interrupted(swept)
    /\ sweep \notin {"idle", "check"} =>
           \A c \in Clients : Locked(c) /\ ProcOf[c] = project => pc[c] \in Late

IInv ==
    /\ TypeOK
    /\ LiveOK /\ MutexOK /\ ProjectOK
    /\ RecordOK /\ SweepOK
    /\ \A c \in Clients : CallOK(c)
    /\ AnswersAreRecorded

-----------------------------------------------------------------------------

LEMMA Names ==
    /\ ProcOf \in [Clients -> Procs]
    /\ Clients \cap Procs = {} /\ Nobody \notin Clients \cup Procs \cup Nat
BY OperationsAssumption

\* Whoever is past the mutex is alone.
LEMMA OneLocked ==
    ASSUME LiveOK, MutexOK, NEW c \in Clients, NEW d \in Clients, Locked(c), Locked(d)
    PROVE c = d
BY DEF LiveOK, MutexOK, Locked, Busy

LEMMA InitInvariant == Init => IInv
<1> SUFFICES ASSUME Init PROVE IInv
  OBVIOUS
<1>1. TypeOK
  BY OperationsAssumption DEF Init, TypeOK, Records, RecordStates, NoRecord, Steps
<1>2. LiveOK /\ MutexOK /\ ProjectOK
  BY Names DEF Init, LiveOK, MutexOK, ProjectOK, Busy, Locked, SweepHolds
<1>3. RecordOK /\ SweepOK /\ AnswersAreRecorded
  BY DEF Init, RecordOK, SweepOK, AnswersAreRecorded, NoRecord
<1>4. \A c \in Clients : CallOK(c)
  BY DEF Init, CallOK, Busy, Creating, Recovering
<1> QED
  BY <1>1, <1>2, <1>3, <1>4 DEF IInv

-----------------------------------------------------------------------------
(* Types *)

LEMMA OverTyped ==
    ASSUME TypeOK, NEW cs, Over(cs)
    PROVE /\ pc' \in [Clients -> Steps] /\ digest' \in [Clients -> Digests \cup {Nobody}]
          /\ held' \in [Clients -> Records] /\ value' \in [Clients -> Nat \cup {Nobody}]
<1>1. NoRecord \in Records
  BY DEF NoRecord, Records, RecordStates
<1> QED
  BY <1>1 DEF TypeOK, Over, Steps

LEMMA GotoTyped ==
    ASSUME TypeOK, NEW c \in Clients, NEW step \in Steps, Goto(c, step)
    PROVE pc' \in [Clients -> Steps]
BY DEF TypeOK, Goto

LEMMA EffectTyped ==
    ASSUME TypeOK, Applies \/ LeavesAsItWas
    PROVE  applied' \in Nat /\ stands' \in BOOLEAN
<1>1. CASE Applies
  <2>1. applied' \in Nat
    BY <1>1 DEF Applies, TypeOK
  <2>2. stands' = TRUE
    BY <1>1 DEF Applies
  <2> QED
    BY <2>1, <2>2
<1>2. CASE LeavesAsItWas
  BY <1>2 DEF LeavesAsItWas, TypeOK
<1> QED
  BY <1>1, <1>2

LEMMA TypeStep ==
    ASSUME TypeOK, LiveOK, MutexOK, \A c \in Clients : CallOK(c), ProjectOK,
           [Next]_<<reentrant, recoverable, vars>>
    PROVE TypeOK'
<1> USE DEF lockVars, sweepVars, callVars, worldVars, vars
<1>0. NoRecord \in Records
  BY DEF NoRecord, Records, RecordStates
<1>1. CASE UNCHANGED <<reentrant, recoverable, vars>>
  BY <1>1 DEF TypeOK
<1>2. ASSUME NEW c \in Clients, NEW d \in Digests, Begin(c, d),
             UNCHANGED <<reentrant, recoverable>>
      PROVE TypeOK'
  BY <1>2, Names DEF TypeOK, Begin, Goto, Steps
<1>3. ASSUME NEW c \in Clients, Call(c), UNCHANGED <<reentrant, recoverable>>
      PROVE TypeOK'
  <2>0. ProcOf[c] \in Procs
    BY Names
  <2>1. CASE Lock(c)
    BY <1>3, <2>0, <2>1 DEF TypeOK, Lock, Take, Goto, Steps
  <2>2. CASE Refused(c)
    BY <1>3, <2>2, OverTyped DEF TypeOK, Refused
  <2>3. CASE Unlock(c)
    <3>1. depth' \in Nat /\ owner' \in Procs \cup {Nobody}
      BY <2>3, Names DEF TypeOK, Unlock, Drop, MutexOK, Locked
    <3>2. answers' \subseteq [digest : Digests, result : Nat]
      BY <2>3 DEF TypeOK, Unlock, Answered, CallOK, Busy
    <3> QED
      BY <1>3, <2>3, <3>1, <3>2, OverTyped DEF TypeOK, Unlock
  <2>4. CASE Open(c)
    BY <1>3, <2>4 DEF TypeOK, Open, Goto, Steps, NoRecord, Records, RecordStates
  <2>5. CASE WriteInitial(c)
    <3>1. record' \in Records
      BY <2>5 DEF TypeOK, WriteInitial, Records, RecordStates
    <3> QED
      BY <1>3, <2>5, <3>1 DEF TypeOK, WriteInitial, Goto, Steps
  <2>6. CASE ReadExisting(c)
    <3>1. AfterReading(c) \in Steps
      BY DEF AfterReading, Steps
    <3>2. pc' \in [Clients -> Steps]
      BY <2>6, <3>1, GotoTyped DEF ReadExisting, Steps
    <3>3. value' \in [Clients -> Nat \cup {Nobody}]
      BY <2>6 DEF TypeOK, ReadExisting, Records
    <3>4. held' \in [Clients -> Records]
      BY <2>6 DEF TypeOK, ReadExisting
    <3> QED
      BY <1>3, <2>6, <3>2, <3>3, <3>4 DEF TypeOK, ReadExisting
  <2>7. CASE MarkInterrupted(c)
    BY <1>3, <2>7 DEF TypeOK, MarkInterrupted, Goto, Steps, Records, RecordStates
  <2>8. CASE EnterProject(c)
    BY <1>3, <2>8 DEF TypeOK, EnterProject, Goto, Steps
  <2>9. CASE Commit(c)
    <3>1. applied' \in Nat /\ stands' \in BOOLEAN
      BY <2>9, EffectTyped DEF Commit
    <3>2. pc' \in [Clients -> Steps]
      BY <2>9, GotoTyped DEF Commit, Steps
    <3>3. value' \in [Clients -> Nat \cup {Nobody}]
      BY <2>9 DEF TypeOK, Commit
    <3>4. /\ project' = Nobody
          /\ UNCHANGED <<record, active, owner, depth, sweep, swept, digest, held, version,
                         answers, crashes>>
      BY <2>9 DEF Commit
    <3> QED
      BY <1>3, <3>1, <3>2, <3>3, <3>4 DEF TypeOK
  <2>10. CASE Complete(c)
    <3>1. applied' \in Nat /\ stands' \in BOOLEAN
      BY <2>10, EffectTyped DEF Complete
    <3>2. pc' \in [Clients -> Steps]
      BY <2>10, GotoTyped DEF Complete, Steps
    <3>3. value' \in [Clients -> Nat \cup {Nobody}]
      BY <2>10 DEF TypeOK, Complete
    <3>4. /\ project' = Nobody
          /\ UNCHANGED <<record, active, owner, depth, sweep, swept, digest, held, version,
                         answers, crashes>>
      BY <2>10 DEF Complete
    <3> QED
      BY <1>3, <3>1, <3>2, <3>3, <3>4 DEF TypeOK
  <2>11. CASE WriteResult(c)
    <3>1. Committed(c) \in Records
      BY DEF TypeOK, Committed, Records, RecordStates
    <3> QED
      BY <1>3, <2>11, <3>1 DEF TypeOK, WriteResult, Goto, Steps
  <2>12. CASE WriteRecovered(c)
    <3>1. Committed(c) \in Records
      BY DEF TypeOK, Committed, Records, RecordStates
    <3> QED
      BY <1>3, <2>12, <3>1 DEF TypeOK, WriteRecovered, Goto, Steps
  <2>13. CASE WriteError(c)
    <3>1. Failed(c) \in Records
      BY DEF TypeOK, Failed, Records, RecordStates
    <3> QED
      BY <1>3, <2>13, <3>1 DEF TypeOK, WriteError, Goto, Steps
  <2> QED
    BY <1>3, <2>1, <2>2, <2>3, <2>4, <2>5, <2>6, <2>7, <2>8, <2>9, <2>10, <2>11, <2>12, <2>13
       DEF Call
<1>4. ASSUME NEW p \in Procs, SweepBegin(p) \/ Sweep(p), UNCHANGED <<reentrant, recoverable>>
      PROVE TypeOK'
  <2>1. CASE SweepBegin(p) \/ SweepCheck(p) \/ SweepTake(p) \/ SweepRead(p) \/ SweepMark(p)
    BY <1>4, <2>1 DEF TypeOK, SweepBegin, SweepCheck, SweepTake, SweepRead, SweepMark, SweepEnd,
                      Take, Records, RecordStates
  <2>2. CASE SweepRelease(p)
    <3>1. depth' \in Nat /\ owner' \in Procs \cup {Nobody}
      BY <2>2, Names DEF TypeOK, SweepRelease, Drop, MutexOK, SweepHolds
    <3> QED
      BY <1>0, <1>4, <2>2, <3>1 DEF TypeOK, SweepRelease, SweepEnd
  <2> QED
    BY <1>4, <2>1, <2>2 DEF Sweep
<1>5. ASSUME NEW p \in Procs, Crash(p), UNCHANGED <<reentrant, recoverable>>
      PROVE TypeOK'
  BY <1>0, <1>5, OverTyped DEF TypeOK, Crash
<1>6. CASE Advance /\ UNCHANGED <<reentrant, recoverable>>
  BY <1>6 DEF TypeOK, Advance
<1> QED
  BY <1>1, <1>2, <1>3, <1>4, <1>5, <1>6 DEF Next

-----------------------------------------------------------------------------
(* What the steps of the calls do to them *)

\* A call goes on.
Goes(c) ==
    /\ Busy(c) /\ Busy(c)'
    /\ \A d \in Clients : d # c => pc'[d] = pc[d]
    /\ active' = active

\* A call is over.
Leaves(c) ==
    /\ Busy(c)
    /\ pc' = [d \in Clients |-> IF d = c THEN "idle" ELSE pc[d]]
    /\ active' = active \ {ProcOf[c]}

LEMMA CallGoes ==
    ASSUME TypeOK, NEW c \in Clients, Call(c)
    PROVE Goes(c) \/ Leaves(c)
<1> USE DEF Goes, Leaves, Busy, Goto, lockVars
<1>1. CASE Lock(c) \/ Open(c) \/ WriteInitial(c) \/ MarkInterrupted(c)
  BY <1>1 DEF TypeOK, Lock, Open, WriteInitial, MarkInterrupted
<1>2. CASE ReadExisting(c)
  <2>1. AfterReading(c) # "idle"
    BY DEF AfterReading
  <2> QED
    BY <1>2, <2>1 DEF TypeOK, ReadExisting
<1>3. CASE EnterProject(c) \/ Commit(c) \/ Complete(c)
  BY <1>3 DEF TypeOK, EnterProject, Commit, Complete
<1>4. CASE WriteResult(c) \/ WriteRecovered(c) \/ WriteError(c)
  BY <1>4 DEF TypeOK, WriteResult, WriteRecovered, WriteError
<1>5. CASE Refused(c) \/ Unlock(c)
  BY <1>5 DEF TypeOK, Refused, Unlock, Over
<1> QED
  BY <1>1, <1>2, <1>3, <1>4, <1>5 DEF Call

LEMMA LiveStep ==
    ASSUME TypeOK, LiveOK, [Next]_<<reentrant, recoverable, vars>>
    PROVE LiveOK'
<1> USE DEF LiveOK, Busy
<1>1. CASE UNCHANGED <<pc, active>>
  BY <1>1
<1>2. ASSUME NEW c \in Clients, NEW d \in Digests, Begin(c, d)
      PROVE LiveOK'
  BY <1>2, Names DEF TypeOK, Begin, NotLive, Goto
<1>3. ASSUME NEW c \in Clients, Call(c)
      PROVE LiveOK'
  <2>1. CASE Goes(c)
    BY <2>1 DEF Goes
  <2>2. CASE Leaves(c)
    BY <2>2 DEF Leaves
  <2> QED
    BY <1>3, <2>1, <2>2, CallGoes
<1>4. ASSUME NEW p \in Procs, SweepBegin(p) \/ Sweep(p)
      PROVE LiveOK'
  BY <1>1, <1>4 DEF SweepBegin, Sweep, SweepCheck, SweepTake, SweepRead, SweepMark, SweepRelease,
                    lockVars, callVars
<1>5. ASSUME NEW p \in Procs, Crash(p)
      PROVE LiveOK'
  <2>1. pc' = [c \in Clients |-> IF ProcOf[c] = p THEN "idle" ELSE pc[c]] /\ active' = active \ {p}
    BY <1>5 DEF Crash, Over
  <2> QED
    BY <2>1
<1> QED
  BY <1>1, <1>2, <1>3, <1>4, <1>5 DEF Next, Advance, vars, lockVars, callVars

-----------------------------------------------------------------------------
(* The mutexes *)

\* Calls that are and stay past the mutex, or are and stay before it.
LEMMA SameMutex ==
    ASSUME MutexOK, UNCHANGED <<owner, depth>>,
           \A c \in Clients : Locked(c)' => Locked(c),
           SweepHolds' => SweepHolds /\ project' = project
    PROVE MutexOK'
BY DEF MutexOK

LEMMA MutexStep ==
    ASSUME TypeOK, LiveOK, MutexOK, ProjectOK, [Next]_<<reentrant, recoverable, vars>>
    PROVE MutexOK'
<1> USE DEF lockVars, sweepVars, callVars, worldVars, vars
<1>1. CASE UNCHANGED <<owner, depth, pc, sweep, project>>
  BY <1>1 DEF MutexOK, Locked, SweepHolds
<1>2. ASSUME NEW c \in Clients, NEW d \in Digests, Begin(c, d)
      PROVE MutexOK'
  BY <1>2, SameMutex DEF TypeOK, Begin, Goto, Locked, SweepHolds
<1>3. ASSUME NEW c \in Clients, Call(c)
      PROVE MutexOK'
  <2>0. ProcOf[c] \in Procs /\ ProcOf[c] # Nobody
    BY Names
  <2>1. CASE Lock(c)
    <3>1. /\ \A d \in Clients : Locked(d)' <=> d = c \/ Locked(d)
          /\ SweepHolds' <=> SweepHolds
          /\ project' = project
      BY <2>1 DEF TypeOK, Lock, Goto, Locked, SweepHolds
    <3>2. owner = Nobody \/ owner = ProcOf[c]
      BY <2>1 DEF Lock, Available
    <3>3. owner' = ProcOf[c] /\ depth' = depth + 1 /\ depth \in Nat
      BY <2>1 DEF Lock, Take, TypeOK
    <3>4. \A d \in Clients : Locked(d) => d = c \/ ProcOf[d] = ProcOf[c]
      BY <3>2, Names DEF MutexOK
    <3>5. SweepHolds => owner = project /\ owner = ProcOf[c]
      BY <3>2, Names DEF MutexOK, ProjectOK, SweepHolds
    <3> QED
      BY <2>0, <3>1, <3>2, <3>3, <3>4, <3>5 DEF MutexOK
  <2>2. CASE Refused(c)
    BY <2>2, SameMutex DEF TypeOK, Refused, Over, Locked, SweepHolds
  <2>3. CASE Unlock(c)
    <3>1. /\ \A d \in Clients : ~Locked(d)'
          /\ SweepHolds' <=> SweepHolds
          /\ project' = project
      BY <2>3, OneLocked DEF TypeOK, Unlock, Over, Locked, SweepHolds
    <3>2. /\ depth' = depth - 1 /\ owner' = IF depth = 1 THEN Nobody ELSE owner
          /\ owner = ProcOf[c] /\ depth \in Nat /\ depth # 0
      BY <2>0, <2>3 DEF TypeOK, Unlock, Drop, MutexOK, Locked
    <3>3. SweepHolds => depth >= 2
      BY <2>3 DEF MutexOK, Unlock, Locked
    <3> QED
      BY <2>0, <3>1, <3>2, <3>3 DEF MutexOK
  <2>4. CASE Open(c) \/ WriteInitial(c) \/ MarkInterrupted(c)
    BY <2>4, SameMutex DEF TypeOK, Open, WriteInitial, MarkInterrupted, Goto, Locked, SweepHolds
  <2>5. CASE ReadExisting(c)
    BY <2>5, SameMutex DEF TypeOK, ReadExisting, Goto, Locked, SweepHolds
  <2>6. CASE EnterProject(c)
    BY <2>6, SameMutex, Names DEF TypeOK, EnterProject, Goto, Locked, SweepHolds, ProjectOK
  <2>7. CASE Commit(c) \/ Complete(c)
    BY <2>7, SameMutex, Names DEF TypeOK, Commit, Complete, Goto, Locked, SweepHolds, ProjectOK
  <2>8. CASE WriteResult(c) \/ WriteRecovered(c) \/ WriteError(c)
    BY <2>8, SameMutex DEF TypeOK, WriteResult, WriteRecovered, WriteError, Goto, Locked, SweepHolds
  <2> QED
    BY <1>3, <2>1, <2>2, <2>3, <2>4, <2>5, <2>6, <2>7, <2>8 DEF Call
<1>4. ASSUME NEW p \in Procs, SweepBegin(p) \/ Sweep(p)
      PROVE MutexOK'
  <2>0. p # Nobody
    BY Names
  <2>1. CASE SweepBegin(p) \/ SweepCheck(p) \/ SweepRead(p) \/ SweepMark(p)
    BY <2>1, SameMutex DEF SweepBegin, SweepCheck, SweepRead, SweepMark, SweepEnd, Locked, SweepHolds
  <2>2. CASE SweepTake(p) /\ ~Available(p)
    BY <2>2, SameMutex DEF SweepTake, SweepEnd, Locked, SweepHolds
  <2>3. CASE SweepTake(p) /\ Available(p)
    BY <2>0, <2>3, Names DEF SweepTake, Available, Take, TypeOK, Locked, SweepHolds, MutexOK
  <2>4. CASE SweepRelease(p)
    BY <2>0, <2>4, Names DEF SweepRelease, SweepEnd, Drop, TypeOK, Locked, SweepHolds, MutexOK
  <2> QED
    BY <1>4, <2>1, <2>2, <2>3, <2>4 DEF Sweep
<1>5. ASSUME NEW p \in Procs, Crash(p)
      PROVE MutexOK'
  <2>1. pc' = [c \in Clients |-> IF ProcOf[c] = p THEN "idle" ELSE pc[c]]
    BY <1>5 DEF Crash, Over
  <2>2. \A c \in Clients : Locked(c)' => Locked(c) /\ ProcOf[c] # p
    BY <2>1 DEF Locked
  <2>3. SweepHolds' => SweepHolds /\ project' = project /\ project # p
    BY <1>5, Names DEF Crash, SweepHolds, ProjectOK
  <2>4. CASE owner = p
    BY <1>5, <2>2, <2>3, <2>4 DEF Crash, MutexOK
  <2>5. CASE owner # p
    BY <1>5, <2>2, <2>3, <2>5, SameMutex DEF Crash
  <2> QED
    BY <2>4, <2>5
<1>6. CASE Advance
  BY <1>1, <1>6 DEF Advance
<1> QED
  BY <1>1, <1>2, <1>3, <1>4, <1>5, <1>6 DEF Next

LEMMA ProjectStep ==
    ASSUME TypeOK, ProjectOK, [Next]_<<reentrant, recoverable, vars>>
    PROVE ProjectOK'
<1> USE DEF lockVars, sweepVars, callVars, worldVars, vars
<1>0. \A c \in Clients : c \notin Procs /\ c # Nobody
  BY Names
<1>1. CASE UNCHANGED <<pc, sweep, project>>
  BY <1>1 DEF ProjectOK
<1>2. ASSUME NEW c \in Clients, NEW d \in Digests, Begin(c, d)
      PROVE ProjectOK'
  BY <1>2 DEF TypeOK, Begin, Goto, ProjectOK
<1>3. ASSUME NEW c \in Clients, Call(c)
      PROVE ProjectOK'
  <2>1. CASE Lock(c) \/ Open(c) \/ WriteInitial(c) \/ MarkInterrupted(c)
    BY <2>1 DEF TypeOK, Lock, Open, WriteInitial, MarkInterrupted, Goto, ProjectOK
  <2>2. CASE Refused(c) \/ Unlock(c)
    BY <2>2 DEF TypeOK, Refused, Unlock, Over, ProjectOK
  <2>3. CASE ReadExisting(c)
    BY <2>3 DEF TypeOK, ReadExisting, AfterReading, Goto, ProjectOK
  <2>4. CASE EnterProject(c)
    BY <1>0, <2>4, Names DEF TypeOK, EnterProject, Goto, ProjectOK
  <2>5. CASE Commit(c) \/ Complete(c)
    BY <1>0, <2>5, Names DEF TypeOK, Commit, Complete, Goto, ProjectOK
  <2>6. CASE WriteResult(c) \/ WriteRecovered(c) \/ WriteError(c)
    BY <2>6 DEF TypeOK, WriteResult, WriteRecovered, WriteError, Goto, ProjectOK
  <2> QED
    BY <1>3, <2>1, <2>2, <2>3, <2>4, <2>5, <2>6 DEF Call
<1>4. ASSUME NEW p \in Procs, SweepBegin(p) \/ Sweep(p)
      PROVE ProjectOK'
  BY <1>0, <1>4, Names DEF SweepBegin, Sweep, SweepCheck, SweepTake, SweepRead, SweepMark,
     SweepRelease, SweepEnd, ProjectOK
<1>5. ASSUME NEW p \in Procs, Crash(p)
      PROVE ProjectOK'
  <2>1. pc' = [c \in Clients |-> IF ProcOf[c] = p THEN "idle" ELSE pc[c]]
    BY <1>5 DEF Crash, Over
  <2> QED
    BY <1>0, <1>5, <2>1, Names DEF Crash, ProjectOK
<1>6. CASE Advance
  BY <1>1, <1>6 DEF Advance
<1> QED
  BY <1>1, <1>2, <1>3, <1>4, <1>5, <1>6 DEF Next

-----------------------------------------------------------------------------
(* The record *)

LEMMA RecordStep ==
    ASSUME TypeOK, RecordOK, SweepOK, \A c \in Clients : CallOK(c), [Next]_<<reentrant, recoverable, vars>>
    PROVE RecordOK'
<1> USE DEF lockVars, sweepVars, callVars, worldVars, vars
<1>1. CASE record' = record /\ (sweep' # "idle" => sweep # "idle")
  BY <1>1 DEF RecordOK
<1>2. ASSUME NEW c \in Clients, NEW d \in Digests, Begin(c, d)
      PROVE RecordOK'
  BY <1>1, <1>2 DEF Begin
<1>3. ASSUME NEW c \in Clients, Call(c)
      PROVE RecordOK'
  <2>0. CallOK(c)
    OBVIOUS
  <2>1. CASE Lock(c) \/ Refused(c) \/ Unlock(c) \/ ReadExisting(c) \/ EnterProject(c)
    BY <1>1, <2>1 DEF Lock, Refused, Unlock, ReadExisting, EnterProject
  <2>2. CASE Open(c)
    BY <2>2 DEF TypeOK, RecordOK, Open, MayCreate, NoRecord
  <2>3. CASE WriteInitial(c)
    BY <2>0, <2>3, Names DEF TypeOK, RecordOK, WriteInitial, CallOK, Busy
  <2>4. CASE MarkInterrupted(c)
    BY <2>0, <2>4 DEF TypeOK, RecordOK, MarkInterrupted, CallOK, Interrupted, Records
  <2>5. CASE Commit(c) \/ Complete(c)
    BY <2>0, <2>5 DEF TypeOK, RecordOK, Commit, Complete, Applies, LeavesAsItWas, CallOK, Recovering
  <2>6. CASE WriteResult(c)
    BY <2>0, <2>6 DEF TypeOK, RecordOK, WriteResult, Committed, CallOK, Busy
  <2>7. CASE WriteRecovered(c)
    BY <2>0, <2>7 DEF TypeOK, RecordOK, WriteRecovered, Committed, CallOK, Busy, Recovering
  <2>8. CASE WriteError(c)
    BY <2>0, <2>8 DEF TypeOK, RecordOK, WriteError, Failed, CallOK, Busy
  <2> QED
    BY <1>3, <2>1, <2>2, <2>3, <2>4, <2>5, <2>6, <2>7, <2>8 DEF Call
<1>4. ASSUME NEW p \in Procs, SweepBegin(p) \/ Sweep(p)
      PROVE RecordOK'
  <2>1. CASE SweepBegin(p)
    BY <2>1 DEF SweepBegin, RecordOK
  <2>2. CASE SweepMark(p)
    BY <2>2 DEF SweepMark, TypeOK, RecordOK, SweepOK, Interrupted, Records
  <2>3. CASE SweepCheck(p) \/ SweepTake(p) \/ SweepRead(p) \/ SweepRelease(p)
    BY <1>1, <2>3 DEF SweepCheck, SweepTake, SweepRead, SweepRelease, SweepEnd
  <2> QED
    BY <1>4, <2>1, <2>2, <2>3 DEF Sweep
<1>5. ASSUME NEW p \in Procs, Crash(p)
      PROVE RecordOK'
  BY <1>1, <1>5 DEF Crash
<1>6. CASE Advance
  BY <1>1, <1>6 DEF Advance
<1> QED
  BY <1>1, <1>2, <1>3, <1>4, <1>5, <1>6 DEF Next

-----------------------------------------------------------------------------
(* What each call knows *)

\* The world of a call is as it was, and so is the call.
LEMMA SameCall ==
    ASSUME NEW c \in Clients, CallOK(c), UNCHANGED <<record, answers>>,
           pc'[c] = pc[c], digest'[c] = digest[c], held'[c] = held[c], value'[c] = value[c]
    PROVE CallOK(c)'
BY DEF CallOK, Busy, Committed, Interrupted

\* A call that is not past the mutex knows nothing of the record.
LEMMA OutsideCall ==
    ASSUME NEW c \in Clients, ~Locked(c)', value'[c] = Nobody,
           Busy(c)' => digest'[c] \in Digests
    PROVE CallOK(c)'
BY DEF CallOK, Busy, Locked, Creating, Recovering

LEMMA OutsideValue ==
    ASSUME NEW c \in Clients, CallOK(c), ~Locked(c)
    PROVE value[c] = Nobody
BY DEF CallOK, Locked

\* What a call does to itself.
LEMMA OwnCall ==
    ASSUME TypeOK, RecordOK, AnswersAreRecorded, NEW c \in Clients, CallOK(c), Call(c)
    PROVE CallOK(c)'
<1> USE DEF lockVars, sweepVars, callVars, worldVars, vars
<1>1. CASE Lock(c)
  BY <1>1 DEF TypeOK, Lock, Goto, CallOK, Busy, Creating, Recovering
<1>2. CASE Refused(c) \/ Unlock(c)
  BY <1>2, OutsideCall DEF Refused, Unlock, Over, Locked, Busy
<1>3. CASE Open(c)
  <2>1. answers = {}
    BY <1>3 DEF Open, MayCreate, AnswersAreRecorded
  <2> QED
    BY <1>3, <2>1 DEF TypeOK, Open, Goto, CallOK, Busy, Creating, Recovering, NoRecord
<1>4. CASE WriteInitial(c)
  BY <1>4 DEF TypeOK, RecordOK, WriteInitial, Goto, CallOK, Busy, Creating, Recovering
<1>5. CASE ReadExisting(c)
  <2>1. /\ pc[c] = "open" /\ UNCHANGED <<record, answers, digest>>
        /\ held'[c] = record /\ digest[c] \in Digests
    BY <1>5 DEF TypeOK, ReadExisting, CallOK, Busy
  <2>2. CASE pc'[c] = "unlock" /\ value'[c] = Nobody
    BY <2>1, <2>2 DEF CallOK, Busy, Creating, Recovering
  <2>3. CASE /\ SameRequest(c) /\ pc'[c] = AfterReading(c)
             /\ value'[c] = IF record.state = "committed" THEN record.result ELSE Nobody
    <3>1. CASE record.state = "committed"
      <4>1. pc'[c] = "unlock"
        BY <2>3, <3>1 DEF AfterReading
      <4>2. record = [state |-> "committed", digest |-> digest[c], result |-> record.result]
        BY <2>3, <3>1 DEF TypeOK, Records, SameRequest
      <4>3. record' = Committed(c)'
        BY <2>1, <2>3, <3>1, <4>2 DEF Committed
      <4> QED
        BY <2>1, <4>1, <4>3 DEF CallOK, Busy, Creating, Recovering
    <3>2. CASE record.state = "in-progress"
      <4>1. pc'[c] = "interrupted"
        BY <2>3, <3>2 DEF AfterReading
      <4> QED
        BY <2>1, <2>3, <3>2, <4>1
           DEF RecordOK, CallOK, Busy, Creating, Recovering, Interrupted, SameRequest
    <3>3. CASE record.state = "recovery-required"
      <4>1. pc'[c] \in {"recover", "unlock"}
        BY <2>3, <3>3 DEF AfterReading
      <4> QED
        BY <2>1, <2>3, <3>3, <4>1 DEF CallOK, Busy, Creating, Recovering, SameRequest
    <3>4. CASE record.state \notin {"committed", "in-progress", "recovery-required"}
      <4>1. pc'[c] = "unlock"
        BY <2>3, <3>4 DEF AfterReading
      <4> QED
        BY <2>1, <2>3, <3>4, <4>1 DEF CallOK, Busy, Creating, Recovering
    <3> QED
      BY <3>1, <3>2, <3>3, <3>4
  <2>4. value[c] = Nobody
    BY <2>1 DEF CallOK
  <2>5. \/ pc'[c] = "unlock" /\ value' = value
        \/ /\ SameRequest(c) /\ pc'[c] = AfterReading(c)
           /\ value'[c] = IF record.state = "committed" THEN record.result ELSE Nobody
    BY <1>5 DEF TypeOK, ReadExisting, Goto
  <2> QED
    BY <2>2, <2>3, <2>4, <2>5
<1>6. CASE MarkInterrupted(c)
  BY <1>6 DEF TypeOK, MarkInterrupted, Goto, CallOK, Busy, Creating, Recovering, Interrupted, Records
<1>7. CASE EnterProject(c)
  BY <1>7 DEF TypeOK, EnterProject, Goto, CallOK, Busy, Creating, Recovering
<1>8. CASE Commit(c)
  BY <1>8, Names DEF TypeOK, Commit, Goto, CallOK, Busy, Creating, Recovering
<1>9. CASE Complete(c)
  BY <1>9, Names DEF TypeOK, Complete, Goto, CallOK, Busy, Creating, Recovering
<1>10. CASE WriteResult(c)
  <2>1. Committed(c)' = Committed(c) \/ value'[c] = Nobody
    BY <1>10 DEF WriteResult, Committed, TypeOK
  <2> QED
    BY <1>10, <2>1 DEF TypeOK, WriteResult, Goto, CallOK, Busy, Creating, Recovering
<1>11. CASE WriteRecovered(c)
  <2>1. Committed(c)' = Committed(c) \/ value'[c] = Nobody
    BY <1>11 DEF WriteRecovered, Committed, TypeOK
  <2> QED
    BY <1>11, <2>1 DEF TypeOK, WriteRecovered, Goto, CallOK, Busy, Creating, Recovering
<1>12. CASE WriteError(c)
  BY <1>12 DEF TypeOK, WriteError, Goto, CallOK, Busy, Creating, Recovering
<1> QED
  BY <1>1, <1>2, <1>3, <1>4, <1>5, <1>6, <1>7, <1>8, <1>9, <1>10, <1>11, <1>12 DEF Call

\* What a call leaves of the others.
LEMMA OtherCalls ==
    ASSUME TypeOK, LiveOK, MutexOK, NEW c \in Clients, NEW e \in Clients, e # c, CallOK(e),
           Call(c)
    PROVE CallOK(e)'
<1> USE DEF lockVars, sweepVars, callVars, worldVars, vars
<1>1. pc'[e] = pc[e] /\ digest'[e] = digest[e] /\ held'[e] = held[e] /\ value'[e] = value[e]
  <2>1. CASE Lock(c) \/ Open(c) \/ WriteInitial(c) \/ ReadExisting(c) \/ MarkInterrupted(c)
    BY <2>1 DEF TypeOK, Lock, Open, WriteInitial, ReadExisting, MarkInterrupted, Goto
  <2>2. CASE Refused(c) \/ Unlock(c)
    BY <2>2 DEF TypeOK, Refused, Unlock, Over
  <2>3. CASE EnterProject(c) \/ Commit(c) \/ Complete(c)
    BY <2>3 DEF TypeOK, EnterProject, Commit, Complete, Goto
  <2>4. CASE WriteResult(c) \/ WriteRecovered(c) \/ WriteError(c)
    BY <2>4 DEF TypeOK, WriteResult, WriteRecovered, WriteError, Goto
  <2> QED
    BY <2>1, <2>2, <2>3, <2>4 DEF Call
<1>2. CASE ~Locked(e)
  BY <1>1, <1>2, OutsideCall, OutsideValue DEF Locked, Busy, CallOK
<1>3. CASE Locked(e)
  <2>1. ~Locked(c)
    BY <1>3, OneLocked
  <2>2. Lock(c) \/ Refused(c)
    BY <2>1 DEF Call, Locked, Unlock, Open, WriteInitial, ReadExisting, MarkInterrupted, EnterProject,
                Commit, Complete, WriteResult, WriteRecovered, WriteError
  <2>3. UNCHANGED <<record, answers>>
    BY <2>2 DEF Lock, Refused
  <2> QED
    BY <1>1, <2>3, SameCall
<1> QED
  BY <1>2, <1>3

\* The sweep marks a record only under calls that have to read it first.
LEMMA MarkedCall ==
    ASSUME TypeOK, MutexOK, ProjectOK, SweepOK, NEW p \in Procs, SweepMark(p),
           NEW e \in Clients, CallOK(e)
    PROVE CallOK(e)'
<1> USE DEF lockVars, callVars, worldVars
<1>1. UNCHANGED <<pc, digest, held, value, answers>>
  BY DEF SweepMark
<1>2. CASE ~Locked(e)
  BY <1>1, <1>2, OutsideCall, OutsideValue DEF Locked, Busy, CallOK
<1>3. CASE Locked(e)
  <2>1. pc[e] \in Late
    BY <1>3 DEF SweepMark, SweepOK, MutexOK, SweepHolds
  <2>2. Interrupted(swept) /\ record' \in {record, [swept EXCEPT !.state = "recovery-required"]}
    BY DEF SweepMark, SweepOK
  <2>3. record'.digest = record.digest /\ record'.state \in {"in-progress", "recovery-required"}
    BY <2>2 DEF Interrupted, TypeOK, Records
  <2>4. pc[e] = "recover" => record'.state = "recovery-required"
    BY <2>2 DEF CallOK, Recovering, TypeOK, Records
  <2>5. ~(pc[e] = "unlock" /\ value[e] # Nobody)
    BY <2>2 DEF CallOK, Committed, Interrupted
  <2> QED
    BY <1>1, <2>1, <2>3, <2>4, <2>5 DEF CallOK, Late, Busy, Creating, Recovering, Interrupted
<1> QED
  BY <1>2, <1>3

LEMMA CallsStep ==
    ASSUME TypeOK, LiveOK, MutexOK, ProjectOK, RecordOK, SweepOK, AnswersAreRecorded,
           NEW e \in Clients, CallOK(e), [Next]_<<reentrant, recoverable, vars>>
    PROVE CallOK(e)'
<1> USE DEF lockVars, sweepVars, callVars, worldVars, vars
<1>1. CASE UNCHANGED <<pc, digest, held, value, record, answers>>
  BY <1>1, SameCall
<1>2. ASSUME NEW c \in Clients, NEW d \in Digests, Begin(c, d)
      PROVE CallOK(e)'
  <2>1. CASE e = c
    BY <1>2, <2>1, OutsideCall, OutsideValue DEF TypeOK, Begin, Goto, Locked
  <2>2. CASE e # c
    BY <1>2, <2>2, SameCall DEF TypeOK, Begin, Goto
  <2> QED
    BY <2>1, <2>2
<1>3. ASSUME NEW c \in Clients, Call(c)
      PROVE CallOK(e)'
  BY <1>3, OwnCall, OtherCalls
<1>4. ASSUME NEW p \in Procs, SweepBegin(p) \/ Sweep(p)
      PROVE CallOK(e)'
  <2>1. CASE SweepMark(p)
    BY <2>1, MarkedCall
  <2>2. CASE SweepBegin(p) \/ SweepCheck(p) \/ SweepTake(p) \/ SweepRead(p) \/ SweepRelease(p)
    BY <1>1, <2>2 DEF SweepBegin, SweepCheck, SweepTake, SweepRead, SweepRelease
  <2> QED
    BY <1>4, <2>1, <2>2 DEF Sweep
<1>5. ASSUME NEW p \in Procs, Crash(p)
      PROVE CallOK(e)'
  <2>1. CASE ProcOf[e] = p
    BY <1>5, <2>1, OutsideCall DEF Crash, Over, Locked, Busy
  <2>2. CASE ProcOf[e] # p
    BY <1>5, <2>2, SameCall DEF Crash, Over
  <2> QED
    BY <2>1, <2>2
<1>6. CASE Advance
  BY <1>1, <1>6 DEF Advance
<1> QED
  BY <1>1, <1>2, <1>3, <1>4, <1>5, <1>6 DEF Next

-----------------------------------------------------------------------------
(* The sweep and the answers *)

LEMMA SameSweep ==
    ASSUME SweepOK, UNCHANGED <<record, swept>>, sweep' = "mark" => sweep = "mark",
           sweep' \notin {"idle", "check"} => sweep \notin {"idle", "check"} /\ project' = project,
           \A c \in Clients : Locked(c)' => pc'[c] = pc[c] \/ pc'[c] \in Late
    PROVE SweepOK'
BY DEF SweepOK, Interrupted, Locked, Late

\* A step of a call under whose mutex the sweep is, or is not.
LEMMA SweepUnderCall ==
    ASSUME TypeOK, LiveOK, MutexOK, ProjectOK, RecordOK, SweepOK, NEW c \in Clients, CallOK(c),
           Call(c)
    PROVE SweepOK'
<1> USE DEF lockVars, sweepVars, callVars, worldVars, vars
<1>0. \A d \in Clients : d # c => pc'[d] = pc[d]
  BY CallGoes DEF Goes, Leaves
<1>1. CASE Lock(c)
  <2>1. /\ pc'[c] = "open" /\ UNCHANGED <<record, swept, sweep, project>>
        /\ \A d \in Clients : Locked(d)' => pc'[d] = pc[d] \/ pc'[d] \in Late
    BY <1>0, <1>1 DEF TypeOK, Lock, Goto, Late
  <2> QED
    BY <2>1, SameSweep
<1>2. CASE ~Lock(c) /\ sweep \in {"idle", "check"}
  <2>1. sweep' = sweep
    BY <1>2 DEF Call, Refused, Unlock, Open, WriteInitial, ReadExisting, MarkInterrupted,
                EnterProject, Commit, Complete, WriteResult, WriteRecovered, WriteError
  <2> QED
    BY <1>2, <2>1 DEF SweepOK
<1>3. CASE Refused(c)
  <2>1. /\ pc'[c] = "idle" /\ UNCHANGED <<record, swept, sweep, project>>
        /\ \A d \in Clients : Locked(d)' => pc'[d] = pc[d] \/ pc'[d] \in Late
    BY <1>0, <1>3 DEF TypeOK, Refused, Over, Late, Locked
  <2> QED
    BY <2>1, SameSweep
<1>4. CASE ~Lock(c) /\ ~Refused(c) /\ sweep \notin {"idle", "check"} /\ ProcOf[c] = project
  <2>1. Locked(c)
    BY <1>4 DEF Locked, Call, Unlock, Open, WriteInitial, ReadExisting, MarkInterrupted,
                EnterProject, Commit, Complete, WriteResult, WriteRecovered, WriteError
  <2>2. pc[c] \in Late
    BY <1>4, <2>1 DEF SweepOK
  <2>3. project \in Procs /\ project \notin Clients /\ project # Nobody /\ record.state # "absent"
    BY <1>4, Names DEF ProjectOK, RecordOK
  <2>4. Unlock(c) \/ ReadExisting(c) \/ MarkInterrupted(c)
    BY <1>4, <2>2, <2>3 DEF Call, Late, Open, MayCreate, WriteInitial, EnterProject, ProjectOwner,
                            Commit, Complete, WriteResult, WriteRecovered, WriteError
  <2>5. UNCHANGED <<swept, sweep, project>>
    BY <2>4 DEF Unlock, ReadExisting, MarkInterrupted
  <2>6. pc'[c] \in Late \/ ~Locked(c)'
    <3>1. AfterReading(c) \in Late
      BY DEF AfterReading, Late
    <3> QED
      BY <2>4, <3>1 DEF TypeOK, Unlock, Over, Locked, ReadExisting, MarkInterrupted, Goto, Late
  <2>7. \A d \in Clients : Locked(d)' => pc'[d] = pc[d] \/ pc'[d] \in Late
    BY <1>0, <2>6
  <2>8. CASE record' = record
    BY <1>4, <2>5, <2>7, <2>8, SameSweep
  <2>9. CASE MarkInterrupted(c)
    <3>1. Interrupted(held[c])
      BY <2>9 DEF MarkInterrupted, CallOK
    <3>2. record' \in {record, [held[c] EXCEPT !.state = "recovery-required"]}
      BY <2>9 DEF MarkInterrupted
    <3>3. /\ record'.digest = record.digest
          /\ record'.state \in {"in-progress", "recovery-required"}
      BY <3>1, <3>2 DEF Interrupted, TypeOK, Records
    <3> QED
      BY <2>5, <2>7, <3>3 DEF SweepOK, Interrupted, Locked, Late
  <2> QED
    BY <2>4, <2>8, <2>9 DEF Unlock, ReadExisting
<1>5. CASE ~Lock(c) /\ ~Refused(c) /\ sweep \notin {"idle", "check"} /\ ProcOf[c] # project
  <2>1. Locked(c)
    BY <1>5 DEF Locked, Call, Unlock, Open, WriteInitial, ReadExisting, MarkInterrupted,
                EnterProject, Commit, Complete, WriteResult, WriteRecovered, WriteError
  <2>2. ~SweepHolds /\ sweep = "take"
    BY <1>5, <2>1 DEF MutexOK, SweepHolds, TypeOK
  <2>3. project \in Procs /\ project \notin Clients /\ project # Nobody
    BY <1>5, Names DEF ProjectOK
  <2>4. ~Commit(c) /\ ~Complete(c)
    BY <2>3 DEF ProjectOK, Commit, Complete
  <2>5. UNCHANGED <<swept, sweep, project>>
    BY <1>5, <2>3, <2>4
       DEF Call, Unlock, Open, WriteInitial, ReadExisting, MarkInterrupted, EnterProject,
           WriteResult, WriteRecovered, WriteError
  <2>6. \A d \in Clients : d # c => ~Locked(d)'
    BY <1>0, <2>1, OneLocked DEF Locked
  <2> QED
    BY <1>5, <2>2, <2>5, <2>6 DEF SweepOK
<1> QED
  BY <1>1, <1>2, <1>3, <1>4, <1>5

LEMMA SweepStep ==
    ASSUME TypeOK, LiveOK, MutexOK, ProjectOK, RecordOK, SweepOK, \A c \in Clients : CallOK(c),
           [Next]_<<reentrant, recoverable, vars>>
    PROVE SweepOK'
<1> USE DEF lockVars, sweepVars, callVars, worldVars, vars
<1>1. CASE UNCHANGED <<record, swept, sweep, project, pc>>
  BY <1>1, SameSweep
<1>2. ASSUME NEW c \in Clients, NEW d \in Digests, Begin(c, d)
      PROVE SweepOK'
  BY <1>2, SameSweep DEF TypeOK, Begin, Goto, Locked
<1>3. ASSUME NEW c \in Clients, Call(c)
      PROVE SweepOK'
  BY <1>3, SweepUnderCall
<1>4. ASSUME NEW p \in Procs, SweepBegin(p) \/ Sweep(p)
      PROVE SweepOK'
  <2>1. CASE SweepBegin(p)
    BY <2>1 DEF SweepBegin, SweepOK
  <2>2. CASE SweepCheck(p)
    BY <2>2 DEF SweepCheck, SweepableIn, SweepEnd, SweepOK, LiveOK, Busy, Locked
  <2>3. CASE SweepTake(p) \/ SweepRelease(p)
    BY <2>3 DEF SweepTake, SweepRelease, SweepEnd, SweepOK, Locked
  <2>4. CASE SweepRead(p)
    BY <2>4 DEF SweepRead, SweepOK, Interrupted, Locked, RecordOK
  <2>5. CASE SweepMark(p)
    BY <2>5 DEF SweepMark, SweepOK, Locked
  <2> QED
    BY <1>4, <2>1, <2>2, <2>3, <2>4, <2>5 DEF Sweep
<1>5. ASSUME NEW p \in Procs, Crash(p)
      PROVE SweepOK'
  <2>1. CASE project = p
    BY <1>5, <2>1 DEF Crash, SweepOK
  <2>2. CASE project # p
    <3>1. sweep' = sweep /\ swept' = swept /\ record' = record
      BY <1>5, <2>2 DEF Crash
    <3>2. sweep # "idle" => project' = project
      BY <1>5, <2>2, Names DEF Crash, ProjectOK
    <3>3. \A c \in Clients : pc'[c] = pc[c] \/ pc'[c] = "idle"
      BY <1>5 DEF Crash, Over
    <3> QED
      BY <3>1, <3>2, <3>3, SameSweep DEF Locked
  <2> QED
    BY <2>1, <2>2
<1>6. CASE Advance
  BY <1>1, <1>6 DEF Advance
<1> QED
  BY <1>1, <1>2, <1>3, <1>4, <1>5, <1>6 DEF Next

LEMMA AnswersStep ==
    ASSUME TypeOK, SweepOK, \A c \in Clients : CallOK(c), AnswersAreRecorded,
           [Next]_<<reentrant, recoverable, vars>>
    PROVE AnswersAreRecorded'
<1> USE DEF lockVars, sweepVars, callVars, worldVars, vars
<1>1. CASE UNCHANGED <<record, answers>>
  BY <1>1 DEF AnswersAreRecorded
<1>2. CASE answers = {} /\ answers' = answers
  BY <1>2 DEF AnswersAreRecorded
<1>3. answers # {} => record.state = "committed"
  BY DEF AnswersAreRecorded
<1>4. ASSUME NEW c \in Clients, Call(c)
      PROVE AnswersAreRecorded'
  <2>0. CallOK(c)
    OBVIOUS
  <2>1. CASE Unlock(c)
    <3>1. record' = record /\ answers' = answers \cup Answered(c)
      BY <2>1 DEF Unlock
    <3>2. \A a \in Answered(c) :
              record = [state |-> "committed", digest |-> a.digest, result |-> a.result]
      BY <2>0, <2>1 DEF Unlock, Answered, CallOK, Committed
    <3> QED
      BY <3>1, <3>2 DEF AnswersAreRecorded
  <2>2. CASE Open(c) \/ WriteInitial(c) \/ WriteResult(c) \/ WriteError(c)
    BY <1>2, <1>3, <2>0, <2>2
       DEF Open, MayCreate, WriteInitial, WriteResult, WriteError, CallOK, Creating
  <2>3. CASE MarkInterrupted(c) \/ WriteRecovered(c)
    BY <1>2, <1>3, <2>0, <2>3 DEF MarkInterrupted, WriteRecovered, CallOK, Interrupted, Recovering
  <2>4. CASE \/ Lock(c) \/ Refused(c) \/ ReadExisting(c) \/ EnterProject(c)
             \/ Commit(c) \/ Complete(c)
    BY <1>1, <2>4 DEF Lock, Refused, ReadExisting, EnterProject, Commit, Complete
  <2> QED
    BY <1>4, <2>1, <2>2, <2>3, <2>4 DEF Call
<1>5. ASSUME NEW p \in Procs, SweepBegin(p) \/ Sweep(p)
      PROVE AnswersAreRecorded'
  <2>1. CASE SweepMark(p)
    BY <1>2, <1>3, <2>1 DEF SweepMark, SweepOK, Interrupted
  <2>2. CASE SweepBegin(p) \/ SweepCheck(p) \/ SweepTake(p) \/ SweepRead(p) \/ SweepRelease(p)
    BY <1>1, <2>2 DEF SweepBegin, SweepCheck, SweepTake, SweepRead, SweepRelease
  <2> QED
    BY <1>5, <2>1, <2>2 DEF Sweep
<1>6. CASE \/ \E c \in Clients, d \in Digests : Begin(c, d)
           \/ \E p \in Procs : Crash(p)
           \/ Advance
  BY <1>1, <1>6 DEF Begin, Crash, Advance
<1> QED
  BY <1>1, <1>4, <1>5, <1>6 DEF Next

-----------------------------------------------------------------------------
(* The theorems *)

\* Whatever the callers, the sweep, the crashes and the failed writes do, one
\* call at a time works on the record, and each step knows what it says.
THEOREM Invariance == Spec => []IInv
<1>1. IInv /\ [Next]_<<reentrant, recoverable, vars>> => IInv'
  <2> SUFFICES ASSUME IInv, [Next]_<<reentrant, recoverable, vars>> PROVE IInv'
    OBVIOUS
  <2>1. TypeOK'
    BY TypeStep DEF IInv
  <2>2. LiveOK' /\ MutexOK' /\ ProjectOK'
    BY LiveStep, MutexStep, ProjectStep DEF IInv
  <2>3. RecordOK' /\ SweepOK'
    BY RecordStep, SweepStep DEF IInv
  <2>4. \A c \in Clients : CallOK(c)'
    BY CallsStep DEF IInv
  <2>5. AnswersAreRecorded'
    BY AnswersStep DEF IInv
  <2> QED
    BY <2>1, <2>2, <2>3, <2>4, <2>5 DEF IInv
<1> QED
  BY <1>1, InitInvariant, PTL DEF Spec

\* The variables keep their types (executeOperation and recoverOperations, store.ts).
THEOREM TypeCorrect == Spec => []TypeOK
<1>1. IInv => TypeOK
  BY DEF IInv
<1> QED
  BY <1>1, Invariance, PTL

\* What was answered is what the record keeps: no retry, recovery, sweep or failed
\* write changes a record that a caller was answered from.
THEOREM AnswersKept == Spec => []AnswersAreRecorded
<1>1. IInv => AnswersAreRecorded
  BY DEF IInv
<1> QED
  BY <1>1, Invariance, PTL

\* Every caller that is ever given a result for the key is given the same one, for
\* the same request.
THEOREM ReplayIsExact == Spec => []ExactReplay
<1>1. IInv => ExactReplay
  <2> SUFFICES ASSUME IInv, NEW a \in answers, NEW b \in answers PROVE a = b
    BY DEF ExactReplay
  <2>1. a \in [digest : Digests, result : Nat] /\ b \in [digest : Digests, result : Nat]
    BY DEF IInv, TypeOK
  <2>2. /\ record = [state |-> "committed", digest |-> a.digest, result |-> a.result]
        /\ record = [state |-> "committed", digest |-> b.digest, result |-> b.result]
    BY DEF IInv, AnswersAreRecorded
  <2>3. a.digest = b.digest /\ a.result = b.result
    BY <2>2
  <2> QED
    BY <2>1, <2>3
<1> QED
  BY <1>1, Invariance, PTL

\* One call at a time reads and writes the record, across all processes, on a mutex
\* that the thread of a process may take again as on one that it may not.
THEOREM OneCallAtATime == Spec => []OneLiveCall
<1>1. IInv => OneLiveCall
  BY OneLocked DEF IInv, OneLiveCall, LiveOK, Busy, Locked
<1> QED
  BY <1>1, Invariance, PTL

-----------------------------------------------------------------------------
(* Operations implements IdempotentOperation *)

\* What a call, and the record, say of the effect and of the request.
MayReturn == 0..MaxVersion \cup {Nobody}

EffectOK(c) ==
    /\ value[c] \in MayReturn
    /\ pc[c] \in {"final", "unsure"} => record.digest = digest[c]

OnceOK ==
    /\ version \in 0..MaxVersion /\ record.result \in MayReturn
    /\ record.state \in {"absent", "torn"} => record.digest = Nobody
    /\ \A c \in Clients : EffectOK(c)

LEMMA SameEffect ==
    ASSUME NEW c \in Clients, EffectOK(c), record'.digest = record.digest,
           value'[c] = value[c], pc'[c] = pc[c], digest'[c] = digest[c]
    PROVE  EffectOK(c)'
BY DEF EffectOK, MayReturn

LEMMA NoEffect ==
    ASSUME NEW c \in Clients, value'[c] = Nobody, pc'[c] \notin {"final", "unsure"}
    PROVE  EffectOK(c)'
BY DEF EffectOK, MayReturn

\* A call leaves what the others hold alone, and the key where it is once it is taken.
LEMMA OthersStill ==
    ASSUME IInv, NEW c \in Clients, NEW e \in Clients, e # c, Call(c)
    PROVE  pc'[e] = pc[e] /\ digest'[e] = digest[e] /\ value'[e] = value[e]
<1> USE DEF IInv, callVars
<1>1. CASE Lock(c) \/ Open(c) \/ WriteInitial(c) \/ ReadExisting(c) \/ MarkInterrupted(c)
  BY <1>1 DEF TypeOK, Lock, Open, WriteInitial, ReadExisting, MarkInterrupted, Goto
<1>2. CASE Refused(c) \/ Unlock(c)
  BY <1>2 DEF TypeOK, Refused, Unlock, Over
<1>3. CASE EnterProject(c) \/ Commit(c) \/ Complete(c)
  BY <1>3 DEF TypeOK, EnterProject, Commit, Complete, Goto
<1>4. CASE WriteResult(c) \/ WriteRecovered(c) \/ WriteError(c)
  BY <1>4 DEF TypeOK, WriteResult, WriteRecovered, WriteError, Goto
<1> QED
  BY <1>1, <1>2, <1>3, <1>4 DEF Call

\* Only the first write of the record decides whose the key is.
LEMMA KeyKept ==
    ASSUME IInv, OnceOK, NEW c \in Clients, Call(c), ~WriteInitial(c)
    PROVE  record'.digest = record.digest
<1> USE DEF IInv, lockVars, callVars, worldVars
<1>0. CallOK(c) /\ record \in Records /\ EffectOK(c)
  BY DEF TypeOK, OnceOK
<1>1. CASE Lock(c) \/ Refused(c) \/ Unlock(c) \/ ReadExisting(c) \/ EnterProject(c)
           \/ Commit(c) \/ Complete(c)
  BY <1>1 DEF Lock, Refused, Unlock, ReadExisting, EnterProject, Commit, Complete
<1>2. CASE Open(c)
  BY <1>2 DEF Open, MayCreate, NoRecord, OnceOK
<1>3. CASE MarkInterrupted(c)
  BY <1>0, <1>3 DEF MarkInterrupted, CallOK, Interrupted, TypeOK, Records
<1>4. CASE WriteResult(c)
  BY <1>0, <1>4 DEF WriteResult, Committed, CallOK
<1>5. CASE WriteRecovered(c)
  BY <1>0, <1>5 DEF WriteRecovered, Committed, CallOK, Recovering
<1>6. CASE WriteError(c)
  BY <1>0, <1>6 DEF WriteError, Failed, EffectOK
<1> QED
  BY <1>1, <1>2, <1>3, <1>4, <1>5, <1>6 DEF Call

\* The effect happens in the commit of the action, or in its recovery.
LEMMA EffectKept ==
    ASSUME NEW c \in Clients, Call(c), ~(Commit(c) \/ Complete(c))
    PROVE  UNCHANGED <<applied, stands>>
BY DEF Call, Lock, Refused, Unlock, Open, WriteInitial, ReadExisting, MarkInterrupted, EnterProject,
       WriteResult, WriteRecovered, WriteError, worldVars

LEMMA OwnEffect ==
    ASSUME IInv, OnceOK, NEW c \in Clients, Call(c)
    PROVE  EffectOK(c)'
<1> USE DEF IInv
<1>0. CallOK(c) /\ EffectOK(c) /\ TypeOK /\ value[c] \in MayReturn
  BY DEF OnceOK, EffectOK
<1>1. CASE Lock(c) \/ Open(c)
  BY <1>0, <1>1, NoEffect DEF Lock, Open, Goto, TypeOK, CallOK, callVars
<1>2. CASE Refused(c) \/ Unlock(c)
  BY <1>0, <1>2, NoEffect DEF Refused, Unlock, Over
<1>3. CASE WriteInitial(c) \/ MarkInterrupted(c)
  BY <1>0, <1>3, NoEffect DEF WriteInitial, MarkInterrupted, Goto, TypeOK, CallOK
<1>4. CASE ReadExisting(c)
  <2>1. pc'[c] \notin {"final", "unsure"}
    BY <1>0, <1>4 DEF ReadExisting, AfterReading, Goto, TypeOK
  <2>2. value'[c] = value[c] \/ (value'[c] = record.result /\ record.state = "committed")
        \/ value'[c] = Nobody
    BY <1>0, <1>4 DEF ReadExisting, TypeOK
  <2> QED
    BY <1>0, <2>1, <2>2 DEF EffectOK, OnceOK, MayReturn
<1>5. CASE EnterProject(c)
  <2>1. /\ pc[c] \in {"act", "recover"} /\ UNCHANGED <<record, digest, value>>
        /\ pc'[c] \in {"commit", "complete", "unlock"} \/ (pc[c] = "act" /\ pc'[c] = "final")
    BY <1>0, <1>5 DEF EnterProject, Goto, TypeOK, worldVars
  <2> QED
    BY <1>0, <2>1 DEF EffectOK, CallOK, MayReturn
<1>6. CASE Commit(c)
  <2>1. /\ pc[c] = "commit" /\ record.digest = digest[c] /\ value[c] = Nobody
        /\ UNCHANGED <<record, digest>>
    BY <1>0, <1>6 DEF Commit, CallOK
  <2>2. \/ value'[c] = version /\ pc'[c] = "result"
        \/ value'[c] = Nobody
    BY <1>0, <1>6, <2>1 DEF Commit, Goto, TypeOK
  <2> QED
    BY <2>1, <2>2 DEF EffectOK, MayReturn, OnceOK
<1>7. CASE Complete(c)
  <2>1. pc[c] = "complete" /\ value[c] = Nobody
    BY <1>0, <1>7 DEF Complete, CallOK, TypeOK
  <2>2. /\ pc'[c] \in {"recovered", "unlock"}
        /\ value'[c] \in {version, Nobody}
    BY <1>0, <1>7, <2>1 DEF Complete, Goto, TypeOK
  <2> QED
    BY <2>2 DEF EffectOK, MayReturn, OnceOK
<1>8. CASE WriteResult(c)
  <2>1. /\ pc[c] = "result" /\ record.digest = digest[c] /\ digest' = digest
        /\ record' \in {record, Committed(c)}
        /\ value'[c] \in {value[c], Nobody}
    BY <1>0, <1>8 DEF WriteResult, CallOK, TypeOK, worldVars
  <2>2. record'.digest = digest'[c]
    BY <2>1 DEF Committed
  <2> QED
    BY <1>0, <2>1, <2>2 DEF EffectOK, MayReturn
<1>9. CASE WriteRecovered(c)
  <2>1. /\ value'[c] \in {value[c], Nobody} /\ pc'[c] = "unlock"
    BY <1>0, <1>9 DEF WriteRecovered, Goto, TypeOK, worldVars
  <2> QED
    BY <1>0, <2>1 DEF EffectOK, MayReturn
<1>10. CASE WriteError(c)
  <2>1. value' = value /\ pc'[c] = "unlock"
    BY <1>0, <1>10 DEF WriteError, Goto, TypeOK, worldVars
  <2> QED
    BY <1>0, <2>1 DEF EffectOK, MayReturn
<1> QED
  BY <1>1, <1>2, <1>3, <1>4, <1>5, <1>6, <1>7, <1>8, <1>9, <1>10 DEF Call

LEMMA OtherEffects ==
    ASSUME IInv, OnceOK, NEW c \in Clients, NEW e \in Clients, e # c, Call(c)
    PROVE  EffectOK(e)'
<1>1. pc'[e] = pc[e] /\ digest'[e] = digest[e] /\ value'[e] = value[e]
  BY OthersStill
<1>2. EffectOK(e) /\ CallOK(e)
  BY DEF OnceOK, IInv
<1>3. CASE ~Locked(e)
  BY <1>1, <1>2, <1>3, OutsideValue, NoEffect DEF Locked
<1>4. CASE Locked(e)
  <2>1. ~Locked(c)
    BY <1>4, OneLocked DEF IInv
  <2>2. Lock(c) \/ Refused(c)
    BY <2>1 DEF Call, Locked, Unlock, Open, WriteInitial, ReadExisting, MarkInterrupted, EnterProject,
                Commit, Complete, WriteResult, WriteRecovered, WriteError
  <2>3. record' = record
    BY <2>2 DEF Lock, Refused
  <2> QED
    BY <1>1, <1>2, <2>3, SameEffect
<1> QED
  BY <1>3, <1>4

\* What the record says after a step of a call.
LEMMA RecordSays ==
    ASSUME IInv, OnceOK, NEW c \in Clients, Call(c)
    PROVE  /\ record'.result \in MayReturn
           /\ record'.state \in {"absent", "torn"} => record'.digest = Nobody
<1> USE DEF IInv
<1>0. /\ CallOK(c) /\ EffectOK(c) /\ record \in Records /\ RecordOK
      /\ record.result \in MayReturn /\ Nobody \in MayReturn
      /\ record.state \in {"absent", "torn"} => record.digest = Nobody
  BY DEF OnceOK, TypeOK, MayReturn
<1>2. CASE record' = record
  BY <1>0, <1>2
<1>3. CASE Open(c) \/ WriteInitial(c)
  BY <1>0, <1>2, <1>3 DEF Open, MayCreate, NoRecord, WriteInitial
<1>4. CASE MarkInterrupted(c)
  BY <1>0, <1>2, <1>4 DEF MarkInterrupted, CallOK, Interrupted, TypeOK, Records
<1>5. CASE WriteResult(c) \/ WriteRecovered(c)
  BY <1>0, <1>2, <1>5 DEF WriteResult, WriteRecovered, Committed, CallOK, EffectOK
<1>6. CASE WriteError(c)
  BY <1>0, <1>2, <1>6 DEF WriteError, Failed
<1>7. CASE \/ Lock(c) \/ Refused(c) \/ Unlock(c) \/ ReadExisting(c) \/ EnterProject(c)
           \/ Commit(c) \/ Complete(c)
  BY <1>2, <1>7 DEF Lock, Refused, Unlock, ReadExisting, EnterProject, Commit, Complete
<1> QED
  BY <1>3, <1>4, <1>5, <1>6, <1>7 DEF Call

LEMMA OnceInit == Init => OnceOK
<1> SUFFICES ASSUME Init PROVE OnceOK
  OBVIOUS
<1>1. \A c \in Clients : EffectOK(c)
  BY DEF Init, EffectOK, MayReturn
<1>2. version \in 0..MaxVersion
  BY OperationsAssumption DEF Init
<1> QED
  BY <1>1, <1>2 DEF Init, OnceOK, NoRecord, MayReturn

LEMMA OnceStep ==
    ASSUME IInv, OnceOK, [Next]_<<reentrant, recoverable, vars>>
    PROVE  OnceOK'
<1> USE DEF lockVars, sweepVars, callVars, worldVars, vars
<1>0. version \in 0..MaxVersion
  BY DEF OnceOK
<1>1. ASSUME record' = record, version' \in 0..MaxVersion,
             \A c \in Clients : EffectOK(c)'
      PROVE  OnceOK'
  BY <1>1 DEF OnceOK, MayReturn
<1>2. CASE UNCHANGED <<pc, digest, value, record, version>>
  <2>1. \A c \in Clients : EffectOK(c)'
    BY <1>2, SameEffect DEF OnceOK
  <2> QED
    BY <1>0, <1>1, <1>2, <2>1
<1>3. ASSUME NEW c \in Clients, NEW d \in Digests, Begin(c, d)
      PROVE OnceOK'
  <2>1. ASSUME NEW e \in Clients PROVE EffectOK(e)'
    <3>1. CASE e = c
      BY <1>3, <3>1, NoEffect, OutsideValue DEF Begin, Goto, Locked, IInv, TypeOK
    <3>2. CASE e # c
      BY <1>3, <3>2, SameEffect DEF Begin, Goto, IInv, TypeOK, OnceOK
    <3> QED
      BY <3>1, <3>2
  <2> QED
    BY <1>0, <1>1, <1>3, <2>1 DEF Begin
<1>4. ASSUME NEW c \in Clients, Call(c)
      PROVE OnceOK'
  <2>1. \A e \in Clients : EffectOK(e)'
    BY <1>4, OwnEffect, OtherEffects
  <2>2. version' = version
    BY <1>4 DEF Call, Lock, Refused, Unlock, Open, WriteInitial, ReadExisting, MarkInterrupted,
         EnterProject, Commit, Complete, WriteResult, WriteRecovered, WriteError
  <2> QED
    BY <1>0, <1>4, <2>1, <2>2, RecordSays DEF OnceOK, MayReturn
<1>5. ASSUME NEW p \in Procs, SweepBegin(p) \/ Sweep(p)
      PROVE OnceOK'
  <2>1. CASE SweepMark(p)
    <3>1. /\ UNCHANGED <<pc, digest, value, version>>
          /\ record' = record \/ (/\ record'.digest = record.digest /\ record'.result = Nobody
                                  /\ record'.state = "recovery-required")
      BY <2>1 DEF SweepMark, SweepOK, Interrupted, IInv, TypeOK, Records
    <3>2. record'.digest = record.digest
      BY <3>1
    <3>3. \A c \in Clients : EffectOK(c)'
      BY <3>1, <3>2, SameEffect DEF OnceOK
    <3> QED
      BY <1>0, <3>1, <3>3 DEF OnceOK, MayReturn
  <2>2. CASE SweepBegin(p) \/ SweepCheck(p) \/ SweepTake(p) \/ SweepRead(p) \/ SweepRelease(p)
    BY <1>2, <2>2 DEF SweepBegin, SweepCheck, SweepTake, SweepRead, SweepRelease
  <2> QED
    BY <1>5, <2>1, <2>2 DEF Sweep
<1>6. ASSUME NEW p \in Procs, Crash(p)
      PROVE OnceOK'
  <2>1. ASSUME NEW e \in Clients PROVE EffectOK(e)'
    <3>1. CASE ProcOf[e] = p
      BY <1>6, <3>1, NoEffect DEF Crash, Over
    <3>2. CASE ProcOf[e] # p
      BY <1>6, <3>2, SameEffect DEF Crash, Over, OnceOK
    <3> QED
      BY <3>1, <3>2
  <2> QED
    BY <1>0, <1>1, <1>6, <2>1 DEF Crash
<1>7. CASE Advance
  <2>1. \A c \in Clients : EffectOK(c)'
    BY <1>7, SameEffect DEF Advance, OnceOK
  <2>2. version' \in 0..MaxVersion
    BY <1>0, <1>7, OperationsAssumption DEF Advance
  <2> QED
    BY <1>1, <1>7, <2>1, <2>2 DEF Advance
<1> QED
  BY <1>2, <1>3, <1>4, <1>5, <1>6, <1>7 DEF Next

-----------------------------------------------------------------------------
(* Every step is one of the key, or none *)

\* Only the action and its recovery come by a result that was not there.
LEMMA ResultFound ==
    ASSUME IInv, NEW c \in Clients, Call(c), ~(Commit(c) \/ Complete(c)), ResultAtHand'
    PROVE  ResultAtHand
<1> USE DEF IInv, callVars, ResultAtHand
<1>0. CallOK(c) /\ TypeOK
  OBVIOUS
<1>1. CASE Lock(c) \/ Open(c) \/ WriteInitial(c) \/ EnterProject(c) \/ WriteError(c)
  BY <1>1 DEF Lock, Open, WriteInitial, EnterProject, WriteError, Failed, NoRecord
<1>2. CASE MarkInterrupted(c)
  BY <1>0, <1>2 DEF MarkInterrupted, CallOK, Interrupted, TypeOK, Records
<1>3. CASE Refused(c) \/ Unlock(c)
  BY <1>3 DEF Refused, Unlock, Over
<1>4. CASE ReadExisting(c)
  BY <1>0, <1>4 DEF ReadExisting, TypeOK
<1>5. CASE WriteResult(c) \/ WriteRecovered(c)
  BY <1>0, <1>5 DEF WriteResult, WriteRecovered, CallOK
<1> QED
  BY <1>1, <1>2, <1>3, <1>4, <1>5 DEF Call

\* A caller's answer is a committed record.
LEMMA AnsweredAtHand ==
    ASSUME AnswersAreRecorded
    PROVE  answers # {} => ResultAtHand /\ record.state = "committed"
BY DEF AnswersAreRecorded, ResultAtHand

\* Nothing happens to the key, or a result that nobody was given is lost.
LEMMA Loses ==
    ASSUME AnswersAreRecorded', record'.digest = record.digest,
           UNCHANGED <<applied, stands, answers>>, ResultAtHand' => ResultAtHand
    PROVE  [Once!OnceNext]_(Once!onceVars)
<1>1. answers # {} => ResultAtHand'
  BY DEF AnswersAreRecorded, ResultAtHand
<1>2. ResultAtHand \in BOOLEAN /\ ResultAtHand' \in BOOLEAN
  BY DEF ResultAtHand
<1>3. CASE ResultAtHand' = ResultAtHand
  BY <1>3 DEF Once!onceVars
<1>4. CASE ResultAtHand' # ResultAtHand
  BY <1>1, <1>2, <1>4 DEF Once!OnceNext, Once!onceVars, Once!Lose
<1> QED
  BY <1>3, <1>4

\* The first write of the record binds the key.
LEMMA WriteBinds ==
    ASSUME IInv, OnceOK, NEW c \in Clients, WriteInitial(c)
    PROVE  [Once!OnceNext]_(Once!onceVars)
<1>1. pc[c] = "initial" /\ record.digest = Nobody /\ digest[c] \in Digests /\ record.state = "torn"
      /\ UNCHANGED <<applied, stands, answers, value>>
  BY DEF WriteInitial, IInv, CallOK, Busy, OnceOK, worldVars
<1>2. record' = record \/ (record'.digest = digest[c] /\ record'.state = "in-progress")
  BY DEF WriteInitial
<1>3. ResultAtHand' = ResultAtHand
  BY <1>1, <1>2 DEF ResultAtHand
<1> QED
  BY <1>1, <1>2, <1>3 DEF Once!OnceNext, Once!onceVars, Once!Bind

\* A caller is answered what the record says, under the request that has the key.
LEMMA UnlockAnswers ==
    ASSUME IInv, IInv', OnceOK, NEW c \in Clients, Unlock(c)
    PROVE  [Once!OnceNext]_(Once!onceVars)
<1>1. /\ UNCHANGED <<record, applied, stands>> /\ answers' = answers \cup Answered(c)
      /\ pc[c] = "unlock"
  BY DEF Unlock, worldVars
<1>2. CASE value[c] = Nobody
  <2>1. answers' = answers
    BY <1>1, <1>2 DEF Answered
  <2>2. ResultAtHand' => ResultAtHand
    BY ResultFound DEF Call, Commit, Complete, Unlock
  <2> QED
    BY <1>1, <2>1, <2>2, Loses DEF IInv
<1>3. CASE value[c] # Nobody
  <2> DEFINE a == [digest |-> digest[c], result |-> value[c]]
  <2>1. record = Committed(c) /\ digest[c] \in Digests
    BY <1>1, <1>3 DEF IInv, CallOK, Busy
  <2>2. value[c] \in 0..MaxVersion
    BY <1>3 DEF OnceOK, EffectOK, MayReturn
  <2>3. answers \subseteq {a}
    <3> SUFFICES ASSUME NEW b \in answers PROVE b = a
      OBVIOUS
    <3>1. b \in [digest : Digests, result : Nat]
      BY DEF IInv, TypeOK
    <3>2. record = [state |-> "committed", digest |-> b.digest, result |-> b.result]
      BY DEF IInv, AnswersAreRecorded
    <3>3. b.digest = digest[c] /\ b.result = value[c]
      BY <2>1, <3>2 DEF Committed
    <3> QED
      BY <3>1, <3>3
  <2>4. answers' = {a}
    BY <1>1, <1>3, <2>3 DEF Answered
  <2>5. record.digest = digest[c] /\ ResultAtHand /\ ResultAtHand'
    BY <1>1, <2>1 DEF Committed, ResultAtHand
  <2>6. a \in [digest : Digests, result : 0..MaxVersion] /\ a.digest = record.digest
    BY <2>1, <2>2, <2>5
  <2> HIDE DEF a
  <2>7. Once!Answer(a)
    BY <1>1, <2>3, <2>4, <2>5, <2>6 DEF Once!Answer
  <2> QED
    BY <2>6, <2>7 DEF Once!OnceNext
<1> QED
  BY <1>2, <1>3

\* The action and its recovery: the effect, or finding it there, under a bound key.
LEMMA EffectApplies ==
    ASSUME IInv, OnceOK, NEW c \in Clients, Commit(c) \/ Complete(c)
    PROVE  [Once!OnceNext]_(Once!onceVars)
<1>1. UNCHANGED <<record, answers>> /\ pc[c] \in {"commit", "complete"}
  BY DEF Commit, Complete
<1>2. CallOK(c) /\ TypeOK
  BY DEF IInv
<1>3. record.digest # Nobody
  <2>1. record.digest \in Digests
    BY <1>1, <1>2 DEF IInv, RecordOK, CallOK, Recovering
  <2> QED
    BY <2>1, OperationsAssumption
<1>4. answers = {}
  <2>1. record.state # "committed"
    BY <1>1, <1>2 DEF CallOK, Recovering
  <2> QED
    BY <2>1, AnsweredAtHand DEF IInv
<1>5. ResultAtHand => ResultAtHand'
  <2>1. value[c] = Nobody
    BY <1>1, <1>2 DEF CallOK
  <2>2. \A d \in Clients : d # c => value'[d] = value[d]
    BY <1>2 DEF Commit, Complete, TypeOK
  <2> QED
    BY <1>1, <2>1, <2>2 DEF ResultAtHand
<1>6. ResultAtHand \in BOOLEAN /\ ResultAtHand' \in BOOLEAN
  BY DEF ResultAtHand
<1>7. CASE LeavesAsItWas /\ value' = value
  <2>1. ResultAtHand' = ResultAtHand
    BY <1>1, <1>7 DEF ResultAtHand
  <2> QED
    BY <1>1, <1>7, <2>1 DEF LeavesAsItWas, Once!onceVars
<1>8. CASE Applies /\ stands
  <2>1. UNCHANGED <<applied, stands>>
    BY <1>2, <1>8 DEF Applies, TypeOK
  <2>2. CASE ResultAtHand' = ResultAtHand
    BY <1>1, <2>1, <2>2 DEF Once!onceVars
  <2>3. CASE ResultAtHand' # ResultAtHand
    BY <1>1, <1>3, <1>4, <1>5, <1>6, <1>8, <2>1, <2>3 DEF Once!OnceNext, Once!Find
  <2> QED
    BY <2>2, <2>3
<1>9. CASE Applies /\ ~stands
  <2>1. applied' = applied + 1 /\ stands' = TRUE
    BY <1>9 DEF Applies
  <2>2. ResultAtHand' \in {ResultAtHand, TRUE}
    BY <1>5, <1>6
  <2> QED
    BY <1>1, <1>3, <1>4, <1>9, <2>1, <2>2 DEF Once!OnceNext, Once!Apply
<1>10. Applies \/ (LeavesAsItWas /\ value' = value)
  BY DEF Commit, Complete
<1> QED
  BY <1>7, <1>8, <1>9, <1>10

LEMMA StepOnce ==
    ASSUME IInv, IInv', OnceOK, [Next]_<<reentrant, recoverable, vars>>
    PROVE  [Once!OnceNext]_(Once!onceVars)
<1> USE DEF lockVars, sweepVars, callVars, worldVars, vars
<1>1. ASSUME record'.digest = record.digest, UNCHANGED <<applied, stands, answers>>,
             ResultAtHand' => ResultAtHand
      PROVE  [Once!OnceNext]_(Once!onceVars)
  BY <1>1, Loses DEF IInv
<1>2. ASSUME NEW c \in Clients, Call(c)
      PROVE  [Once!OnceNext]_(Once!onceVars)
  <2>1. CASE WriteInitial(c)
    BY <2>1, WriteBinds
  <2>2. CASE Unlock(c)
    BY <2>2, UnlockAnswers
  <2>3. CASE Commit(c) \/ Complete(c)
    BY <2>3, EffectApplies
  <2>4. CASE ~(WriteInitial(c) \/ Unlock(c) \/ Commit(c) \/ Complete(c))
    <3>1. /\ record'.digest = record.digest /\ UNCHANGED <<applied, stands>>
          /\ ResultAtHand' => ResultAtHand
      BY <1>2, <2>4, KeyKept, EffectKept, ResultFound
    <3>2. answers' = answers
      BY <1>2, <2>4 DEF Call, Lock, Refused, Open, ReadExisting, MarkInterrupted, EnterProject,
                        WriteResult, WriteRecovered, WriteError
    <3> QED
      BY <1>1, <3>1, <3>2
  <2> QED
    BY <2>1, <2>2, <2>3, <2>4
<1>3. ASSUME NEW p \in Procs, SweepBegin(p) \/ Sweep(p)
      PROVE  [Once!OnceNext]_(Once!onceVars)
  <2>1. CASE SweepMark(p)
    <3>1. /\ record'.digest = record.digest /\ UNCHANGED <<applied, stands, answers, value>>
          /\ record' # record => record'.state = "recovery-required"
      BY <2>1 DEF SweepMark, SweepOK, Interrupted, IInv, TypeOK, Records
    <3> QED
      BY <1>1, <3>1 DEF ResultAtHand
  <2>2. CASE SweepBegin(p) \/ SweepCheck(p) \/ SweepTake(p) \/ SweepRead(p) \/ SweepRelease(p)
    BY <1>1, <2>2 DEF SweepBegin, SweepCheck, SweepTake, SweepRead, SweepRelease, ResultAtHand
  <2> QED
    BY <1>3, <2>1, <2>2 DEF Sweep
<1>4. CASE \/ \E c \in Clients, d \in Digests : Begin(c, d)
           \/ \E p \in Procs : Crash(p)
  BY <1>1, <1>4 DEF Begin, Crash, Over, ResultAtHand
<1>5. CASE Advance
  <2>1. /\ UNCHANGED <<record, applied, answers, value>> /\ stands' \in BOOLEAN
        /\ ResultAtHand' = ResultAtHand
    BY <1>5 DEF Advance, ResultAtHand
  <2> QED
    BY <2>1 DEF Once!OnceNext, Once!Others
<1>6. CASE UNCHANGED <<reentrant, recoverable, vars>>
  BY <1>1, <1>6 DEF ResultAtHand
<1> QED
  BY <1>2, <1>3, <1>4, <1>5, <1>6 DEF Next

\* executeOperation implements IdempotentOperation: under any retries, processes,
\* crashes, failed writes and sweeps, the key belongs to the request that created the
\* record; its event is committed only where what it brings about does not stand, so
\* again only after others undid it, and never once a caller was answered; every
\* answer is the one result for that request.
THEOREM Refinement == Spec => RefinesOnce
<1>1. Init => Once!OnceInit
  BY DEF Init, NoRecord, Once!OnceInit, ResultAtHand
<1>2. Spec => []OnceOK
  <2>1. IInv /\ OnceOK /\ [Next]_<<reentrant, recoverable, vars>> => OnceOK'
    BY OnceStep
  <2> QED
    BY <2>1, OnceInit, Invariance, PTL DEF Spec
<1>3. IInv /\ IInv' /\ OnceOK /\ [Next]_<<reentrant, recoverable, vars>> => [Once!OnceNext]_(Once!onceVars)
  BY StepOnce
<1> QED
  BY <1>1, <1>2, <1>3, Invariance, PTL DEF Spec, RefinesOnce, Once!OnceSpec

\* Once a caller was given the result, nothing changes the record or commits again:
\* not a late retry with another request, a recovery, a sweep or a failed write.
AnsweredIsFinal == [][answers # {} => UNCHANGED <<record, applied>>]_<<reentrant, recoverable, vars>>

AnsweredStill == answers # {} => UNCHANGED <<record, applied>>

\* AnsweredIsFinal, of executeOperationLocked and recoverOperations.
THEOREM AnsweredFinal == Spec => AnsweredIsFinal
<1>1. IInv /\ IInv' /\ [Next]_<<reentrant, recoverable, vars>> => [AnsweredStill]_<<reentrant, recoverable, vars>>
  <2> SUFFICES ASSUME IInv, IInv', [Next]_<<reentrant, recoverable, vars>>, answers # {}
               PROVE  UNCHANGED <<record, applied>>
    BY DEF AnsweredStill
  <2>1. PICK a : a \in answers
    OBVIOUS
  <2>2. record = [state |-> "committed", digest |-> a.digest, result |-> a.result]
    BY <2>1 DEF IInv, AnswersAreRecorded
  <2>3. a \in answers'
    BY <2>1 DEF Next, Begin, Call, Lock, Refused, Unlock, Open, WriteInitial, ReadExisting,
         MarkInterrupted, EnterProject, Commit, Complete, WriteResult, WriteRecovered, WriteError,
         SweepBegin, Sweep, SweepCheck, SweepTake, SweepRead, SweepMark, SweepRelease, Advance,
         Crash, vars
  <2>4. record' = [state |-> "committed", digest |-> a.digest, result |-> a.result]
    BY <2>3 DEF IInv, AnswersAreRecorded
  <2>5. applied' = applied
    <3>1. ASSUME NEW c \in Clients, Commit(c) \/ Complete(c) PROVE FALSE
      BY <2>2, <3>1 DEF Commit, Complete, IInv, CallOK, Creating, Recovering
    <3>2. ASSUME NEW c \in Clients, Call(c) PROVE applied' = applied
      BY <3>1, <3>2, EffectKept
    <3> QED
      BY <3>2 DEF Next, Begin, SweepBegin, Sweep, SweepCheck, SweepTake, SweepRead, SweepMark,
         SweepRelease, Advance, Crash, vars, worldVars
  <2> QED
    BY <2>2, <2>4, <2>5
<1> QED
  BY <1>1, Invariance, PTL DEF Spec, AnsweredIsFinal, AnsweredStill
=============================================================================
