------------------------- MODULE InstallationProofs -------------------------
(***************************************************************************)
(* The installation, for any number of installers, Hosts, candidates,      *)
(* edits and interruptions: installers exclude one another and the Hosts,  *)
(* and the activation record never goes back.                              *)
(***************************************************************************)
EXTENDS Installation, TLAPS

Stages == {"idle", "waiting", "locked", "leased", "working"}
Locked == {"locked", "leased", "working"}
Leased == {"leased", "working"}

(* A call of which only the stage matters: S is whatever its data are. *)
AnyCall(S) == [at : Stages, op : Operations \cup {"none"}, seen : S, next : S,
               web : S, plan : S, todo : S]

Typed ==
    /\ \E S : call \in [Callers -> AnyCall(S)]
    /\ host \in [Hosts -> {"off", "admitted", "running"}]

LocksOK ==
    /\ \A c \in Callers : call[c].at \in Locked => mutex = c
    /\ \A c \in Callers : call[c].at \in Leased => lease = c
    /\ \A h \in Hosts : host[h] = "running" => lease = h

(* Only a call that opened or found a transaction has stages to carry out. *)
TodoOK ==
    \A c \in Callers : /\ call[c].todo # <<>> => call[c].at = "working"
                       /\ call[c].op = "none" => call[c].at = "idle"

IInv == Typed /\ LocksOK /\ TodoOK

-----------------------------------------------------------------------------
(* The steps of the calls, by what they do to the locks                     *)

(* One stage of a transaction is done. *)
LEMMA AdvanceKeeps ==
    ASSUME IInv, NEW c \in Callers, call[c].at = "working", Advance(c)
    PROVE  IInv'
<1>1. PICK S : call \in [Callers -> AnyCall(S)]
  BY DEF IInv, Typed
<1> DEFINE T == S \cup {Tail(call[c].todo)}
<1>2. call' \in [Callers -> AnyCall(T)]
  BY <1>1 DEF Advance, AnyCall
<1>3. \A d \in Callers : call'[d].at = call[d].at /\ call'[d].op = call[d].op
  BY <1>1 DEF Advance, AnyCall
<1>4. \A d \in Callers : d # c => call'[d] = call[d]
  BY <1>1 DEF Advance, AnyCall
<1>5. UNCHANGED <<mutex, lease, host>>
  BY DEF Advance, locks
<1>6. Typed'
  BY <1>2, <1>5 DEF Typed, IInv
<1>7. LocksOK'
  BY <1>3, <1>5 DEF LocksOK, IInv
<1>8. TodoOK'
  BY <1>3, <1>4 DEF TodoOK, IInv
<1> QED
  BY <1>6, <1>7, <1>8 DEF IInv

(* A call ends, however it ends, and gives back what it holds. *)
LEMMA ReleaseKeeps ==
    ASSUME IInv, InstallationAssumption, NEW c \in Callers, Released(c), UNCHANGED host
    PROVE  IInv'
<1>1. PICK S : call \in [Callers -> AnyCall(S)]
  BY DEF IInv, Typed
<1> DEFINE T == S \cup {Absent, <<>>}
<1>2. call' \in [Callers -> AnyCall(T)]
  BY <1>1 DEF Released, AnyCall, Idle, Stages
<1>3. call'[c] = Idle /\ \A d \in Callers : d # c => call'[d] = call[d]
  BY <1>1 DEF Released, AnyCall
<1>4. Typed'
  BY <1>2 DEF Typed, IInv
<1>5. LocksOK'
  BY <1>3 DEF LocksOK, IInv, Released, Idle, Locked, Leased, InstallationAssumption
<1>6. TodoOK'
  BY <1>3 DEF TodoOK, IInv, Idle
<1> QED
  BY <1>4, <1>5, <1>6 DEF IInv

LEMMA StartKeeps ==
    ASSUME IInv, NEW c \in Callers, NEW op \in Operations, Start(c, op)
    PROVE  IInv'
<1>1. PICK S : call \in [Callers -> AnyCall(S)]
  BY DEF IInv, Typed
<1> DEFINE T == S \cup {Absent, <<>>, files["active"]}
<1>2. call' \in [Callers -> AnyCall(T)]
  BY <1>1 DEF Start, AnyCall, Idle, Stages
<1>3. /\ call'[c].at = "waiting" /\ call'[c].todo = <<>> /\ call'[c].op # "none"
      /\ \A d \in Callers : d # c => call'[d] = call[d]
  BY <1>1 DEF Start, AnyCall, Idle, Operations
<1>4. UNCHANGED <<mutex, lease, host>>
  BY DEF Start, locks
<1>5. Typed'
  BY <1>2, <1>4 DEF Typed, IInv
<1>6. LocksOK'
  BY <1>3, <1>4 DEF LocksOK, IInv, Locked, Leased
<1>7. TodoOK'
  BY <1>3 DEF TodoOK, IInv
<1> QED
  BY <1>5, <1>6, <1>7 DEF IInv

LEMMA TakeMutexKeeps ==
    ASSUME IInv, InstallationAssumption, NEW c \in Callers, TakeMutex(c)
    PROVE  IInv'
<1>1. PICK S : call \in [Callers -> AnyCall(S)]
  BY DEF IInv, Typed
<1> DEFINE T == S \cup {Absent, <<>>}
<1>2. call' \in [Callers -> AnyCall(T)]
  BY <1>1 DEF TakeMutex, AnyCall, Idle, Stages
<1>3. \A d \in Callers : d # c => call'[d] = call[d]
  BY <1>1 DEF TakeMutex, AnyCall
<1>4. \/ call'[c] = Idle
      \/ /\ call'[c].at = "locked" /\ mutex' = c
         /\ call'[c].todo = call[c].todo /\ call'[c].op = call[c].op
  BY <1>1 DEF TakeMutex, AnyCall
<1>5. /\ call[c].at = "waiting" /\ call[c].todo = <<>> /\ call[c].op # "none"
      /\ UNCHANGED <<lease, host>>
  BY DEF TakeMutex, Waiting, IInv, TodoOK
<1>6. \A d \in Callers : call[d].at \notin Locked
  BY DEF TakeMutex, IInv, LocksOK, InstallationAssumption
<1>7. Typed'
  BY <1>2, <1>5 DEF Typed, IInv
<1>8. LocksOK'
  BY <1>3, <1>4, <1>5, <1>6 DEF LocksOK, IInv, Locked, Leased, Idle
<1>9. TodoOK'
  BY <1>3, <1>4, <1>5 DEF TodoOK, IInv, Idle
<1> QED
  BY <1>7, <1>8, <1>9 DEF IInv

LEMMA TakeLeaseKeeps ==
    ASSUME IInv, InstallationAssumption, NEW c \in Callers, TakeLease(c)
    PROVE  IInv'
<1>1. CASE ~LeaseFree
  BY <1>1, ReleaseKeeps DEF TakeLease, Leave, End
<1>2. CASE LeaseFree
  <2>1. PICK S : call \in [Callers -> AnyCall(S)]
    BY DEF IInv, Typed
  <2>2. call' = [call EXCEPT ![c].at = "leased"]
    BY <1>2 DEF TakeLease
  <2>3. call' \in [Callers -> AnyCall(S)]
    BY <2>1, <2>2 DEF AnyCall, Stages
  <2>4. /\ call'[c].at = "leased"
        /\ call'[c].todo = call[c].todo /\ call'[c].op = call[c].op
        /\ \A d \in Callers : d # c => call'[d] = call[d]
    BY <2>1, <2>2 DEF AnyCall
  <2>5. /\ call[c].at = "locked" /\ call[c].todo = <<>> /\ call[c].op # "none"
        /\ lease = Nobody /\ lease' = c /\ UNCHANGED <<mutex, host>>
    BY <1>2 DEF TakeLease, LeaseFree, IInv, TodoOK
  <2>6. /\ \A d \in Callers : call[d].at \notin Leased
        /\ \A h \in Hosts : host[h] # "running"
    BY <2>5 DEF IInv, LocksOK, InstallationAssumption
  <2>7. Typed'
    BY <2>3, <2>5 DEF Typed, IInv
  <2>8. LocksOK'
    BY <2>4, <2>5, <2>6 DEF LocksOK, IInv, Locked, Leased
  <2>9. TodoOK'
    BY <2>4, <2>5 DEF TodoOK, IInv
  <2> QED
    BY <2>7, <2>8, <2>9 DEF IInv
<1> QED
  BY <1>1, <1>2

(* A call that holds the lease begins a transaction or a recovery. *)
LEMMA BeginKeeps ==
    ASSUME IInv, NEW c \in Callers, call[c].at = "leased",
           NEW next, NEW found, NEW plan, NEW todo,
           call' = [call EXCEPT ![c] = [call[c] EXCEPT !.at = "working", !.next = next,
                        !.web = found, !.plan = plan, !.todo = todo]],
           UNCHANGED <<locks, host>>
    PROVE  IInv'
<1>1. PICK S : call \in [Callers -> AnyCall(S)]
  BY DEF IInv, Typed
<1> DEFINE T == S \cup {next, found, plan, todo}
<1>2. call' \in [Callers -> AnyCall(T)]
  BY <1>1 DEF AnyCall, Stages
<1>3. /\ call'[c].at = "working" /\ call'[c].op = call[c].op /\ call[c].op # "none"
      /\ \A d \in Callers : d # c => call'[d] = call[d]
  BY <1>1 DEF AnyCall, IInv, TodoOK
<1>4. UNCHANGED <<mutex, lease, host>>
  BY DEF locks
<1>5. Typed'
  BY <1>2, <1>4 DEF Typed, IInv
<1>6. LocksOK'
  BY <1>3, <1>4 DEF LocksOK, IInv, Locked, Leased
<1>7. TodoOK'
  BY <1>3 DEF TodoOK, IInv
<1> QED
  BY <1>5, <1>6, <1>7 DEF IInv

LEMMA RecoverKeeps ==
    ASSUME IInv, NEW c \in Callers, Recover(c)
    PROVE  IInv'
<1>1. PICK S : call \in [Callers -> AnyCall(S)]
  BY DEF IInv, Typed
<1>2. PICK todo : call' = [call EXCEPT ![c] = [call[c] EXCEPT !.at = "working", !.todo = todo]]
  BY DEF Recover
<1> DEFINE T == S \cup {todo}
<1>3. call' \in [Callers -> AnyCall(T)]
  BY <1>1, <1>2 DEF AnyCall, Stages
<1>4. /\ call'[c].at = "working" /\ call'[c].op = call[c].op
      /\ \A d \in Callers : d # c => call'[d] = call[d]
  BY <1>1, <1>2 DEF AnyCall
<1>5. call[c].at = "leased" /\ call[c].op # "none" /\ UNCHANGED <<mutex, lease, host>>
  BY DEF Recover, locks, IInv, TodoOK
<1>6. Typed'
  BY <1>3, <1>5 DEF Typed, IInv
<1>7. LocksOK'
  BY <1>4, <1>5 DEF LocksOK, IInv, Locked, Leased
<1>8. TodoOK'
  BY <1>4, <1>5 DEF TodoOK, IInv
<1> QED
  BY <1>6, <1>7, <1>8 DEF IInv

(* Only a working call has a stage before it. *)
LEMMA AtWorks ==
    ASSUME IInv, NEW c \in Callers, NEW verb, NEW x, At(c, verb, x)
    PROVE  call[c].at = "working"
BY DEF At, IInv, TodoOK

(* The stages that carry out, complete or roll back a transaction. *)
Stage(c) ==
    \/ WriteJournal(c) \/ Build(c) \/ OpenCopy(c) \/ FinishCopy(c)
    \/ KeepProfile(c) \/ PublishProfile(c) \/ MoveAside(c) \/ MoveIn(c) \/ WriteFile(c)
    \/ Probe(c) \/ Activate(c) \/ Unlink(c) \/ MarkCommitted(c) \/ RemoveTransaction(c)
    \/ Tear(c) \/ Drop(c) \/ Return(c) \/ RestoreFile(c)
    \/ RestoreProfile(c) \/ Validate(c)

LEMMA StageWorks ==
    ASSUME IInv, NEW c \in Callers, Stage(c)
    PROVE  call[c].at = "working"
BY AtWorks DEF Stage, WriteJournal, Build, OpenCopy, FinishCopy, KeepProfile, PublishProfile,
   MoveAside, MoveIn, WriteFile, Probe, Activate, Unlink, MarkCommitted, RemoveTransaction,
   Tear, Drop, Return, RestoreFile, RestoreProfile, Validate

LEMMA BuildKeeps ==
    ASSUME IInv, InstallationAssumption, NEW c \in Callers, call[c].at = "working", Build(c)
    PROVE  IInv'
<1>1. CASE Leave(c)
  BY <1>1, ReleaseKeeps DEF Leave, End
<1>2. CASE ~Leave(c)
  <2>1. PICK S : call \in [Callers -> AnyCall(S)]
    BY DEF IInv, Typed
  <2>2. PICK todo, next :
            call' = [call EXCEPT ![c] = [call[c] EXCEPT !.todo = todo, !.next = next]]
    BY <1>2 DEF Build
  <2> DEFINE T == S \cup {todo, next}
  <2>3. call' \in [Callers -> AnyCall(T)]
    BY <2>1, <2>2 DEF AnyCall
  <2>4. /\ call'[c].at = "working" /\ call'[c].op = call[c].op /\ call[c].op # "none"
        /\ \A d \in Callers : d # c => call'[d] = call[d]
    BY <2>1, <2>2 DEF AnyCall, IInv, TodoOK
  <2>5. UNCHANGED <<mutex, lease, host>>
    BY <1>2 DEF Build, locks
  <2>6. Typed'
    BY <2>3, <2>5 DEF Typed, IInv
  <2>7. LocksOK'
    BY <2>4, <2>5 DEF LocksOK, IInv
  <2>8. TodoOK'
    BY <2>4 DEF TodoOK, IInv
  <2> QED
    BY <2>6, <2>7, <2>8 DEF IInv
<1> QED
  BY <1>1, <1>2

(* Every stage goes on to the next, ends the call, or leaves it where it is. *)
LEMMA StageKeeps ==
    ASSUME IInv, InstallationAssumption, NEW c \in Callers, Stage(c)
    PROVE  IInv'
<1>1. call[c].at = "working"
  BY StageWorks
<1>2. ASSUME Build(c) PROVE IInv'
  BY <1>1, <1>2, BuildKeeps
<1>3. ASSUME Advance(c) PROVE IInv'
  BY <1>1, <1>3, AdvanceKeeps
<1>4. ASSUME Leave(c) \/ End(c) PROVE IInv'
  BY <1>4, ReleaseKeeps DEF Leave, End
<1>5. ASSUME UNCHANGED <<call, locks, host>> PROVE IInv'
  BY <1>5 DEF IInv, Typed, LocksOK, TodoOK, locks
<1>6. ASSUME RemoveTransaction(c) PROVE End(c) \/ UNCHANGED <<call, locks, host>>
  BY <1>6 DEF RemoveTransaction
<1>7. ASSUME \/ WriteJournal(c) \/ OpenCopy(c) \/ FinishCopy(c) \/ KeepProfile(c)
             \/ PublishProfile(c) \/ MoveAside(c) \/ MoveIn(c)
      PROVE  Advance(c) \/ Leave(c)
  BY <1>7 DEF WriteJournal, OpenCopy, FinishCopy, KeepProfile, PublishProfile, MoveAside, MoveIn
<1>8. ASSUME \/ WriteFile(c) \/ Probe(c) \/ Activate(c) \/ Unlink(c) \/ MarkCommitted(c)
             \/ Tear(c) \/ Drop(c)
      PROVE  Advance(c) \/ Leave(c)
  BY <1>8 DEF WriteFile, Probe, Activate, Unlink, MarkCommitted, Tear, Drop
<1>9. ASSUME Return(c) \/ RestoreFile(c) \/ RestoreProfile(c) \/ Validate(c)
      PROVE  Advance(c) \/ Leave(c)
  BY <1>9 DEF Return, RestoreFile, RestoreProfile, Validate
<1> QED
  BY <1>2, <1>3, <1>4, <1>5, <1>6, <1>7, <1>8, <1>9 DEF Stage

(* The Host and the user. *)
LEMMA HostKeeps ==
    ASSUME IInv, InstallationAssumption, NEW h \in Hosts, Admit(h) \/ HostLease(h) \/ Stop(h)
    PROVE  IInv'
<1>1. call' = call /\ mutex' = mutex
  BY DEF Admit, HostLease, Stop, locks
<1>2. Typed'
  BY <1>1 DEF Typed, IInv, Admit, HostLease, Stop
<1>3. LocksOK'
  <2>1. CASE Admit(h)
    BY <1>1, <2>1 DEF Admit, LocksOK, IInv, Typed, locks
  <2>2. CASE HostLease(h)
    <3>1. CASE LeaseFree
      <4>1. \A c \in Callers : call[c].at \notin Leased
        BY <3>1 DEF LeaseFree, IInv, LocksOK, InstallationAssumption
      <4>2. \A g \in Hosts : host[g] # "running"
        BY <3>1 DEF LeaseFree, IInv, LocksOK, InstallationAssumption
      <4> QED
        BY <1>1, <2>2, <3>1, <4>1, <4>2 DEF HostLease, LocksOK, IInv, Typed
    <3>2. CASE ~LeaseFree
      BY <1>1, <2>2, <3>2 DEF HostLease, LocksOK, IInv, Typed
    <3> QED
      BY <3>1, <3>2
  <2>3. CASE Stop(h)
    BY <1>1, <2>3 DEF Stop, LocksOK, IInv, Typed, Leased, InstallationAssumption
  <2> QED
    BY <2>1, <2>2, <2>3
<1>4. TodoOK'
  BY <1>1 DEF TodoOK, IInv
<1> QED
  BY <1>2, <1>3, <1>4 DEF IInv

-----------------------------------------------------------------------------
(* The theorems                                                             *)

LEMMA InitHolds == ASSUME Init PROVE IInv
<1> DEFINE T == {Absent, <<>>}
<1>1. call \in [Callers -> AnyCall(T)]
  BY DEF Init, AnyCall, Idle, Stages
<1>2. \A c \in Callers : call[c].at = "idle" /\ call[c].todo = <<>>
  BY DEF Init, Idle
<1>3. host \in [Hosts -> {"off", "admitted", "running"}] /\ \A h \in Hosts : host[h] = "off"
  BY DEF Init
<1> QED
  BY <1>1, <1>2, <1>3 DEF IInv, Typed, LocksOK, TodoOK, Locked, Leased

LEMMA StepKeeps ==
    ASSUME IInv, InstallationAssumption, [Next]_vars
    PROVE  IInv'
<1>1. ASSUME NEW c \in Callers, Step(c) PROVE IInv'
  <2>1. CASE TakeMutex(c)
    BY <2>1, TakeMutexKeeps
  <2>2. CASE TakeLease(c)
    BY <2>2, TakeLeaseKeeps
  <2>3. CASE MutexTimeout(c) \/ Refuse(c)
    BY <2>3, ReleaseKeeps DEF MutexTimeout, Refuse, Leave, End
  <2>4. ASSUME NEW v \in Versions, Begin(c, v) PROVE IInv'
    BY <2>4, BeginKeeps DEF Begin
  <2>5. CASE Recover(c)
    BY <2>5, RecoverKeeps
  <2>6. CASE Stage(c)
    BY <2>6, StageKeeps
  <2> QED
    BY <1>1, <2>1, <2>2, <2>3, <2>4, <2>5, <2>6 DEF Step, Stage
<1>2. ASSUME NEW c \in Callers, Interrupt(c) PROVE IInv'
  BY <1>2, ReleaseKeeps DEF Interrupt
<1>3. ASSUME NEW c \in Callers, NEW op \in Operations, Start(c, op) PROVE IInv'
  BY <1>3, StartKeeps
<1>4. ASSUME NEW h \in Hosts, Admit(h) \/ HostLease(h) \/ Stop(h) PROVE IInv'
  BY <1>4, HostKeeps
<1>5. CASE Edit \/ UNCHANGED vars
  BY <1>5 DEF Edit, vars, locks, IInv, Typed, LocksOK, TodoOK
<1> QED
  BY <1>1, <1>2, <1>3, <1>4, <1>5 DEF Next

(* The invariant of the locks of Installation, of its calls and its Hosts. *)
THEOREM Invariance == Spec => []IInv
<1>1. Init => IInv
  BY InitHolds
<1>2. InstallationAssumption /\ IInv /\ [Next]_vars => IInv'
  BY StepKeeps
<1> QED
  BY <1>1, <1>2, InstallationAssumption, PTL DEF Spec

(* Two installer processes are never both between the taking of the mutex
   (withInstallerMutex) and its release, nor does a Host run while an installer
   holds the lease (acquireRuntimeLease). *)
InstallersExclude ==
    /\ \A c, d \in Callers : call[c].at \in Locked /\ call[d].at \in Locked => c = d
    /\ \A c \in Callers, h \in Hosts : ~(call[c].at \in Leased /\ host[h] = "running")

THEOREM Exclusion == Spec => []InstallersExclude
<1>1. IInv => InstallersExclude
  BY InstallationAssumption DEF IInv, LocksOK, InstallersExclude, InstallationAssumption
<1> QED
  BY <1>1, Invariance, InstallationAssumption, PTL

(* Only a call that holds the lease changes the directories, the records or the
   transaction. *)
LEMMA WriterIsLeased ==
    ASSUME IInv, NEW c \in Callers, call[c].at \notin Leased,
           Step(c) \/ Interrupt(c) \/ \E op \in Operations : Start(c, op)
    PROVE  UNCHANGED <<parts, files, tx>>
<1>1. ~Stage(c)
  BY StageWorks DEF Leased
<1>2. ~Recover(c) /\ ~Refuse(c) /\ \A v \in Versions : ~Begin(c, v)
  BY DEF Recover, Refuse, Begin, Leased
<1>3. CASE TakeMutex(c) \/ MutexTimeout(c) \/ TakeLease(c)
  BY <1>3 DEF TakeMutex, MutexTimeout, TakeLease, disk
<1>4. CASE Interrupt(c) \/ \E op \in Operations : Start(c, op)
  BY <1>4 DEF Interrupt, Start, disk
<1> QED
  BY <1>1, <1>2, <1>3, <1>4 DEF Step, Stage

(* A running Host keeps the files it was loaded from: RunningHostsKeepTheirFiles. *)
THEOREM HostsUndisturbed == Spec => RunningHostsKeepTheirFiles
<1>1. ASSUME IInv, InstallationAssumption, [Next]_vars, NEW h \in Hosts, host[h] = "running"
      PROVE  UNCHANGED <<parts, files, tx>>
  <2>1. \A c \in Callers : call[c].at \notin Leased
    BY <1>1 DEF IInv, LocksOK, InstallationAssumption
  <2>2. ASSUME NEW c \in Callers, Step(c) \/ Interrupt(c) \/ \E op \in Operations : Start(c, op)
        PROVE  UNCHANGED <<parts, files, tx>>
    BY <1>1, <2>1, <2>2, WriterIsLeased
  <2>3. CASE \E g \in Hosts : Admit(g) \/ HostLease(g) \/ Stop(g)
    BY <2>3 DEF Admit, HostLease, Stop, disk
  <2>4. CASE Edit \/ UNCHANGED vars
    BY <2>4 DEF Edit, vars, disk
  <2> QED
    BY <1>1, <2>2, <2>3, <2>4 DEF Next
<1>2. InstallationAssumption /\ IInv /\ [Next]_vars =>
          [\A h \in Hosts : host[h] = "running" => UNCHANGED <<parts, files, tx>>]_vars
  BY <1>1
<1> QED
  BY <1>2, Invariance, InstallationAssumption, PTL DEF Spec, RunningHostsKeepTheirFiles

-----------------------------------------------------------------------------
(* The order of the steps: the journal comes first, the activation third from
   the end, the restoring of the record fifth from the end, the removal last. *)

Journal == <<"journal", "home">>
Activation == <<"activate", "home">>
Commitment == <<"committed", "home">>
Removal == <<"remove", "home">>
Unlinking == <<"unlink", "active">>
Restoring == <<"back", "active">>
Unused == <<"write", "active">>

(* The steps of a transaction that a recovery has none of. *)
Opening == {Journal, Activation, Commitment, Unlinking}

Free(s, X) == \A i \in 1..Len(s) : s[i] \notin X

EndShape(t) ==
    /\ \E S : t \in Seq(S)
    /\ \A i \in 1..Len(t) :
         /\ t[i] = Activation => i = Len(t) - 2
         /\ t[i] = Restoring => i = Len(t) - 4
         /\ t[i] = Removal => i = Len(t)
         /\ t[i] # Unused

Shape(t) == EndShape(t) /\ \A i \in 1..Len(t) : t[i] = Journal => i = 1

LEMMA FreeAt ==
    ASSUME NEW X, NEW s, Free(s, X), NEW i \in 1..Len(s) PROVE s[i] \notin X
BY DEF Free

LEMMA FreeLess ==
    ASSUME NEW X, NEW Y, NEW s, Free(s, X), Y \subseteq X PROVE Free(s, Y)
BY DEF Free

Starts(t) == Len(t) \in Nat /\ Len(t) >= 1 /\ t[1] = Journal

(* The places of a step that is done to each directory, or to each file. *)
OfPart(p, profile, shared, preset) ==
    IF p = "profile" THEN profile ELSE IF p = "shared" THEN shared ELSE preset
OfFile(f, active, manifest, scope) ==
    IF f = "active" THEN active ELSE IF f = "manifest" THEN manifest ELSE scope

(* The place of every step in the list of a mutation. *)
LEMMA MutationPlace ==
    ASSUME NEW i \in 1..22, NEW verb, NEW x,
           MutationSteps[i][1] = verb, MutationSteps[i][2] = x
    PROVE  /\ verb = "journal" => x = "home" /\ i = 1
           /\ verb = "build" => x = "home" /\ i = 2
           /\ verb = "open" => x \in Files /\ i = OfFile(x, 3, 5, 7)
           /\ verb = "copy" => x \in Files /\ i = OfFile(x, 4, 6, 8)
           /\ verb = "keep" => x = "web" /\ i = 9
           /\ verb = "aside" => x \in Parts /\ i = OfPart(x, 10, 12, 15)
           /\ verb = "in" => x \in Parts /\ i = OfPart(x, 11, 13, 16)
           /\ verb = "web" => x = "home" /\ i = 14
           /\ verb = "write" => x \in {"manifest", "scope"} /\ i = OfFile(x, 0, 17, 18)
           /\ verb = "probe" => x = "home" /\ i = 19
           /\ verb = "activate" => x = "home" /\ i = 20
           /\ verb = "committed" => x = "home" /\ i = 21
           /\ verb = "remove" => x = "home" /\ i = 22
           /\ verb \notin {"tear", "drop", "return", "back", "validate", "unlink"}
<1>1. /\ MutationSteps[1][1] = "journal" /\ MutationSteps[1][2] = "home"
      /\ MutationSteps[2][1] = "build" /\ MutationSteps[2][2] = "home"
      /\ MutationSteps[3][1] = "open" /\ MutationSteps[3][2] = "active"
      /\ MutationSteps[4][1] = "copy" /\ MutationSteps[4][2] = "active"
      /\ MutationSteps[5][1] = "open" /\ MutationSteps[5][2] = "manifest"
      /\ MutationSteps[6][1] = "copy" /\ MutationSteps[6][2] = "manifest"
      /\ MutationSteps[7][1] = "open" /\ MutationSteps[7][2] = "scope"
      /\ MutationSteps[8][1] = "copy" /\ MutationSteps[8][2] = "scope"
      /\ MutationSteps[9][1] = "keep" /\ MutationSteps[9][2] = "web"
      /\ MutationSteps[10][1] = "aside" /\ MutationSteps[10][2] = "profile"
      /\ MutationSteps[11][1] = "in" /\ MutationSteps[11][2] = "profile"
      /\ MutationSteps[12][1] = "aside" /\ MutationSteps[12][2] = "shared"
      /\ MutationSteps[13][1] = "in" /\ MutationSteps[13][2] = "shared"
      /\ MutationSteps[14][1] = "web" /\ MutationSteps[14][2] = "home"
      /\ MutationSteps[15][1] = "aside" /\ MutationSteps[15][2] = "preset"
      /\ MutationSteps[16][1] = "in" /\ MutationSteps[16][2] = "preset"
      /\ MutationSteps[17][1] = "write" /\ MutationSteps[17][2] = "manifest"
      /\ MutationSteps[18][1] = "write" /\ MutationSteps[18][2] = "scope"
      /\ MutationSteps[19][1] = "probe" /\ MutationSteps[19][2] = "home"
      /\ MutationSteps[20][1] = "activate" /\ MutationSteps[20][2] = "home"
      /\ MutationSteps[21][1] = "committed" /\ MutationSteps[21][2] = "home"
      /\ MutationSteps[22][1] = "remove" /\ MutationSteps[22][2] = "home"
  BY DEF MutationSteps
<1>2. \/ i = 1 \/ i = 2 \/ i = 3 \/ i = 4 \/ i = 5 \/ i = 6 \/ i = 7 \/ i = 8
      \/ i = 9 \/ i = 10 \/ i = 11 \/ i = 12 \/ i = 13 \/ i = 14 \/ i = 15 \/ i = 16
      \/ i = 17 \/ i = 18 \/ i = 19 \/ i = 20 \/ i = 21 \/ i = 22
  OBVIOUS
<1>3. /\ i = 1 => verb = "journal" /\ x = "home"
      /\ i = 2 => verb = "build" /\ x = "home"
      /\ i = 3 => verb = "open" /\ x = "active"
      /\ i = 4 => verb = "copy" /\ x = "active"
      /\ i = 5 => verb = "open" /\ x = "manifest"
      /\ i = 6 => verb = "copy" /\ x = "manifest"
      /\ i = 7 => verb = "open" /\ x = "scope"
      /\ i = 8 => verb = "copy" /\ x = "scope"
      /\ i = 9 => verb = "keep" /\ x = "web"
      /\ i = 10 => verb = "aside" /\ x = "profile"
      /\ i = 11 => verb = "in" /\ x = "profile"
      /\ i = 12 => verb = "aside" /\ x = "shared"
      /\ i = 13 => verb = "in" /\ x = "shared"
      /\ i = 14 => verb = "web" /\ x = "home"
      /\ i = 15 => verb = "aside" /\ x = "preset"
      /\ i = 16 => verb = "in" /\ x = "preset"
      /\ i = 17 => verb = "write" /\ x = "manifest"
      /\ i = 18 => verb = "write" /\ x = "scope"
      /\ i = 19 => verb = "probe" /\ x = "home"
      /\ i = 20 => verb = "activate" /\ x = "home"
      /\ i = 21 => verb = "committed" /\ x = "home"
      /\ i = 22 => verb = "remove" /\ x = "home"
  BY <1>1
<1> QED
  BY <1>2, <1>3 DEF OfPart, OfFile, Parts, Files

(* The same of an uninstall. *)
LEMMA RemovalPlace ==
    ASSUME NEW i \in 1..17, NEW verb, NEW x,
           RemovalSteps[i][1] = verb, RemovalSteps[i][2] = x
    PROVE  /\ verb = "journal" => x = "home" /\ i = 1
           /\ verb = "open" => x \in Files /\ i = OfFile(x, 2, 4, 6)
           /\ verb = "copy" => x \in Files /\ i = OfFile(x, 3, 5, 7)
           /\ verb = "keep" => x = "web" /\ i = 8
           /\ verb = "web" => x = "home" /\ i = 9
           /\ verb = "aside" => x \in Parts /\ i = OfPart(x, 11, 10, 12)
           /\ verb = "unlink" => x \in Files /\ i = OfFile(x, 13, 14, 15)
           /\ verb = "committed" => x = "home" /\ i = 16
           /\ verb = "remove" => x = "home" /\ i = 17
           /\ verb \notin {"tear", "drop", "return", "back", "validate", "build", "in", "write", "probe", "activate"}
<1>1. /\ RemovalSteps[1][1] = "journal" /\ RemovalSteps[1][2] = "home"
      /\ RemovalSteps[2][1] = "open" /\ RemovalSteps[2][2] = "active"
      /\ RemovalSteps[3][1] = "copy" /\ RemovalSteps[3][2] = "active"
      /\ RemovalSteps[4][1] = "open" /\ RemovalSteps[4][2] = "manifest"
      /\ RemovalSteps[5][1] = "copy" /\ RemovalSteps[5][2] = "manifest"
      /\ RemovalSteps[6][1] = "open" /\ RemovalSteps[6][2] = "scope"
      /\ RemovalSteps[7][1] = "copy" /\ RemovalSteps[7][2] = "scope"
      /\ RemovalSteps[8][1] = "keep" /\ RemovalSteps[8][2] = "web"
      /\ RemovalSteps[9][1] = "web" /\ RemovalSteps[9][2] = "home"
      /\ RemovalSteps[10][1] = "aside" /\ RemovalSteps[10][2] = "shared"
      /\ RemovalSteps[11][1] = "aside" /\ RemovalSteps[11][2] = "profile"
      /\ RemovalSteps[12][1] = "aside" /\ RemovalSteps[12][2] = "preset"
      /\ RemovalSteps[13][1] = "unlink" /\ RemovalSteps[13][2] = "active"
      /\ RemovalSteps[14][1] = "unlink" /\ RemovalSteps[14][2] = "manifest"
      /\ RemovalSteps[15][1] = "unlink" /\ RemovalSteps[15][2] = "scope"
      /\ RemovalSteps[16][1] = "committed" /\ RemovalSteps[16][2] = "home"
      /\ RemovalSteps[17][1] = "remove" /\ RemovalSteps[17][2] = "home"
  BY DEF RemovalSteps
<1>2. \/ i = 1 \/ i = 2 \/ i = 3 \/ i = 4 \/ i = 5 \/ i = 6 \/ i = 7 \/ i = 8
      \/ i = 9 \/ i = 10 \/ i = 11 \/ i = 12 \/ i = 13 \/ i = 14 \/ i = 15 \/ i = 16
      \/ i = 17
  OBVIOUS
<1>3. /\ i = 1 => verb = "journal" /\ x = "home"
      /\ i = 2 => verb = "open" /\ x = "active"
      /\ i = 3 => verb = "copy" /\ x = "active"
      /\ i = 4 => verb = "open" /\ x = "manifest"
      /\ i = 5 => verb = "copy" /\ x = "manifest"
      /\ i = 6 => verb = "open" /\ x = "scope"
      /\ i = 7 => verb = "copy" /\ x = "scope"
      /\ i = 8 => verb = "keep" /\ x = "web"
      /\ i = 9 => verb = "web" /\ x = "home"
      /\ i = 10 => verb = "aside" /\ x = "shared"
      /\ i = 11 => verb = "aside" /\ x = "profile"
      /\ i = 12 => verb = "aside" /\ x = "preset"
      /\ i = 13 => verb = "unlink" /\ x = "active"
      /\ i = 14 => verb = "unlink" /\ x = "manifest"
      /\ i = 15 => verb = "unlink" /\ x = "scope"
      /\ i = 16 => verb = "committed" /\ x = "home"
      /\ i = 17 => verb = "remove" /\ x = "home"
  BY <1>1
<1> QED
  BY <1>2, <1>3 DEF OfPart, OfFile, Parts, Files

(* The same of a rollback. *)
LEMMA RollbackPlace ==
    ASSUME NEW i \in 1..15, NEW verb, NEW x,
           RollbackSteps[i][1] = verb, RollbackSteps[i][2] = x
    PROVE  /\ verb = "tear" => x \in Parts /\ i = OfPart(x, 1, 4, 7)
           /\ verb = "drop" => x \in Parts /\ i = OfPart(x, 2, 5, 8)
           /\ verb = "return" => x \in Parts /\ i = OfPart(x, 3, 6, 9)
           /\ verb = "back" /\ x = "web" => i = 10
           /\ verb = "back" /\ x # "web" => x \in Files /\ i = OfFile(x, 11, 12, 13)
           /\ verb = "validate" => x = "home" /\ i = 14
           /\ verb = "remove" => x = "home" /\ i = 15
           /\ verb \in {"tear", "drop", "return", "back", "validate", "remove"}
<1>1. /\ RollbackSteps[1][1] = "tear" /\ RollbackSteps[1][2] = "profile"
      /\ RollbackSteps[2][1] = "drop" /\ RollbackSteps[2][2] = "profile"
      /\ RollbackSteps[3][1] = "return" /\ RollbackSteps[3][2] = "profile"
      /\ RollbackSteps[4][1] = "tear" /\ RollbackSteps[4][2] = "shared"
      /\ RollbackSteps[5][1] = "drop" /\ RollbackSteps[5][2] = "shared"
      /\ RollbackSteps[6][1] = "return" /\ RollbackSteps[6][2] = "shared"
      /\ RollbackSteps[7][1] = "tear" /\ RollbackSteps[7][2] = "preset"
      /\ RollbackSteps[8][1] = "drop" /\ RollbackSteps[8][2] = "preset"
      /\ RollbackSteps[9][1] = "return" /\ RollbackSteps[9][2] = "preset"
      /\ RollbackSteps[10][1] = "back" /\ RollbackSteps[10][2] = "web"
      /\ RollbackSteps[11][1] = "back" /\ RollbackSteps[11][2] = "active"
      /\ RollbackSteps[12][1] = "back" /\ RollbackSteps[12][2] = "manifest"
      /\ RollbackSteps[13][1] = "back" /\ RollbackSteps[13][2] = "scope"
      /\ RollbackSteps[14][1] = "validate" /\ RollbackSteps[14][2] = "home"
      /\ RollbackSteps[15][1] = "remove" /\ RollbackSteps[15][2] = "home"
  BY DEF RollbackSteps
<1>2. \/ i = 1 \/ i = 2 \/ i = 3 \/ i = 4 \/ i = 5 \/ i = 6 \/ i = 7 \/ i = 8
      \/ i = 9 \/ i = 10 \/ i = 11 \/ i = 12 \/ i = 13 \/ i = 14 \/ i = 15
  OBVIOUS
<1>3. /\ i = 1 => verb = "tear" /\ x = "profile"
      /\ i = 2 => verb = "drop" /\ x = "profile"
      /\ i = 3 => verb = "return" /\ x = "profile"
      /\ i = 4 => verb = "tear" /\ x = "shared"
      /\ i = 5 => verb = "drop" /\ x = "shared"
      /\ i = 6 => verb = "return" /\ x = "shared"
      /\ i = 7 => verb = "tear" /\ x = "preset"
      /\ i = 8 => verb = "drop" /\ x = "preset"
      /\ i = 9 => verb = "return" /\ x = "preset"
      /\ i = 10 => verb = "back" /\ x = "web"
      /\ i = 11 => verb = "back" /\ x = "active"
      /\ i = 12 => verb = "back" /\ x = "manifest"
      /\ i = 13 => verb = "back" /\ x = "scope"
      /\ i = 14 => verb = "validate" /\ x = "home"
      /\ i = 15 => verb = "remove" /\ x = "home"
  BY <1>1
<1> QED
  BY <1>2, <1>3 DEF OfPart, OfFile, Parts, Files

(* The same of the completion of an uninstall. *)
LEMMA CompletionPlace ==
    ASSUME NEW i \in 1..9, NEW verb, NEW x,
           CompletionSteps("uninstall")[i][1] = verb, CompletionSteps("uninstall")[i][2] = x
    PROVE  /\ verb = "tear" => x \in Parts /\ i = OfPart(x, 1, 3, 5)
           /\ verb = "drop" => x \in Parts /\ i = OfPart(x, 2, 4, 6)
           /\ verb = "unlink" => x \in {"manifest", "scope"} /\ i = OfFile(x, 0, 7, 8)
           /\ verb = "remove" => x = "home" /\ i = 9
           /\ verb \in {"tear", "drop", "unlink", "remove"}
<1>1. /\ CompletionSteps("uninstall")[1][1] = "tear" /\ CompletionSteps("uninstall")[1][2] = "profile"
      /\ CompletionSteps("uninstall")[2][1] = "drop" /\ CompletionSteps("uninstall")[2][2] = "profile"
      /\ CompletionSteps("uninstall")[3][1] = "tear" /\ CompletionSteps("uninstall")[3][2] = "shared"
      /\ CompletionSteps("uninstall")[4][1] = "drop" /\ CompletionSteps("uninstall")[4][2] = "shared"
      /\ CompletionSteps("uninstall")[5][1] = "tear" /\ CompletionSteps("uninstall")[5][2] = "preset"
      /\ CompletionSteps("uninstall")[6][1] = "drop" /\ CompletionSteps("uninstall")[6][2] = "preset"
      /\ CompletionSteps("uninstall")[7][1] = "unlink" /\ CompletionSteps("uninstall")[7][2] = "manifest"
      /\ CompletionSteps("uninstall")[8][1] = "unlink" /\ CompletionSteps("uninstall")[8][2] = "scope"
      /\ CompletionSteps("uninstall")[9][1] = "remove" /\ CompletionSteps("uninstall")[9][2] = "home"
  BY DEF CompletionSteps
<1>2. \/ i = 1 \/ i = 2 \/ i = 3 \/ i = 4 \/ i = 5 \/ i = 6 \/ i = 7 \/ i = 8
      \/ i = 9
  OBVIOUS
<1>3. /\ i = 1 => verb = "tear" /\ x = "profile"
      /\ i = 2 => verb = "drop" /\ x = "profile"
      /\ i = 3 => verb = "tear" /\ x = "shared"
      /\ i = 4 => verb = "drop" /\ x = "shared"
      /\ i = 5 => verb = "tear" /\ x = "preset"
      /\ i = 6 => verb = "drop" /\ x = "preset"
      /\ i = 7 => verb = "unlink" /\ x = "manifest"
      /\ i = 8 => verb = "unlink" /\ x = "scope"
      /\ i = 9 => verb = "remove" /\ x = "home"
  BY <1>1
<1> QED
  BY <1>2, <1>3 DEF OfPart, OfFile, Parts, Files

LEMMA Lists ==
    /\ (\E S : MutationSteps \in Seq(S)) /\ Len(MutationSteps) = 22
    /\ (\E S : RemovalSteps \in Seq(S)) /\ Len(RemovalSteps) = 17
    /\ (\E S : RollbackSteps \in Seq(S)) /\ Len(RollbackSteps) = 15
    /\ (\E S : CompletionSteps("uninstall") \in Seq(S)) /\ Len(CompletionSteps("uninstall")) = 9
<1>1. MutationSteps \in Seq({MutationSteps[i] : i \in 1..22}) /\ Len(MutationSteps) = 22
  BY DEF MutationSteps
<1>2. RemovalSteps \in Seq({RemovalSteps[i] : i \in 1..17}) /\ Len(RemovalSteps) = 17
  BY DEF RemovalSteps
<1>3. RollbackSteps \in Seq({RollbackSteps[i] : i \in 1..15}) /\ Len(RollbackSteps) = 15
  BY DEF RollbackSteps
<1>4. /\ CompletionSteps("uninstall") \in Seq({CompletionSteps("uninstall")[i] : i \in 1..9})
      /\ Len(CompletionSteps("uninstall")) = 9
  BY DEF CompletionSteps
<1> QED
  BY <1>1, <1>2, <1>3, <1>4

LEMMA ShortList ==
    ASSUME NEW op, op # "uninstall"
    PROVE  /\ (\E S : CompletionSteps(op) \in Seq(S)) /\ Len(CompletionSteps(op)) = 2
           /\ CompletionSteps(op)[1][1] = "validate" /\ CompletionSteps(op)[1][2] = "home"
           /\ CompletionSteps(op)[2][1] = "remove" /\ CompletionSteps(op)[2][2] = "home"
<1>1. CompletionSteps(op) \in Seq({CompletionSteps(op)[i] : i \in 1..2})
  BY DEF CompletionSteps
<1>2. Len(CompletionSteps(op)) = 2
  BY DEF CompletionSteps
<1>3. /\ CompletionSteps(op)[1][1] = "validate" /\ CompletionSteps(op)[1][2] = "home"
      /\ CompletionSteps(op)[2][1] = "remove" /\ CompletionSteps(op)[2][2] = "home"
  BY DEF CompletionSteps
<1> QED
  BY <1>1, <1>2, <1>3

(* The steps whose place matters, by what they are made of. *)
LEMMA Components ==
    ASSUME NEW s
    PROVE  /\ s = Journal => s[1] = "journal"
           /\ s = Activation => s[1] = "activate"
           /\ s = Commitment => s[1] = "committed"
           /\ s = Removal => s[1] = "remove"
           /\ s = Unlinking => s[1] = "unlink" /\ s[2] = "active"
           /\ s = Restoring => s[1] = "back" /\ s[2] = "active"
           /\ s = Unused => s[1] = "write" /\ s[2] = "active"
<1>1. (s = Journal => s[1] = "journal") /\ (s = Activation => s[1] = "activate")
  BY DEF Journal, Activation
<1>2. (s = Commitment => s[1] = "committed") /\ (s = Removal => s[1] = "remove")
  BY DEF Commitment, Removal
<1>3. s = Unlinking => s[1] = "unlink" /\ s[2] = "active"
  BY DEF Unlinking
<1>4. s = Restoring => s[1] = "back" /\ s[2] = "active"
  BY DEF Restoring
<1>5. s = Unused => s[1] = "write" /\ s[2] = "active"
  BY DEF Unused
<1> QED
  BY <1>1, <1>2, <1>3, <1>4, <1>5

LEMMA MutationShape ==
    Shape(MutationSteps) /\ Starts(MutationSteps) /\ Free(MutationSteps, {Unlinking, Restoring})
<1> DEFINE L == MutationSteps
<1>1. (\E S : L \in Seq(S)) /\ Len(L) = 22
  BY Lists
<1>2. ASSUME NEW i \in 1..22
      PROVE  /\ L[i] = Activation => i = 20
             /\ L[i] = Removal => i = 22
             /\ L[i] = Journal => i = 1
             /\ L[i] \notin {Unlinking, Restoring, Unused}
  <2> DEFINE verb == L[i][1]
             x == L[i][2]
  <2>1. /\ verb = "activate" => i = 20
        /\ verb = "remove" => i = 22
        /\ verb = "journal" => i = 1
        /\ verb = "write" => x # "active"
        /\ verb \notin {"unlink", "back"}
    BY MutationPlace
  <2> QED
    BY <2>1, Components
<1>3. L[1] = Journal
  BY DEF MutationSteps, Journal
<1> HIDE DEF L
<1>4. Shape(L)
  BY <1>1, <1>2 DEF Shape, EndShape
<1>5. Starts(L) /\ Free(L, {Unlinking, Restoring})
  BY <1>1, <1>2, <1>3 DEF Starts, Free
<1> QED
  BY <1>4, <1>5 DEF L

LEMMA RemovalShape ==
    Shape(RemovalSteps) /\ Starts(RemovalSteps) /\ Free(RemovalSteps, {Activation, Restoring})
<1> DEFINE L == RemovalSteps
<1>1. (\E S : L \in Seq(S)) /\ Len(L) = 17
  BY Lists
<1>2. ASSUME NEW i \in 1..17
      PROVE  /\ L[i] = Removal => i = 17
             /\ L[i] = Journal => i = 1
             /\ L[i] \notin {Activation, Restoring, Unused}
  <2> DEFINE verb == L[i][1]
             x == L[i][2]
  <2>1. /\ verb = "remove" => i = 17
        /\ verb = "journal" => i = 1
        /\ verb \notin {"activate", "back", "write"}
    BY RemovalPlace
  <2> QED
    BY <2>1, Components
<1>3. L[1] = Journal
  BY DEF RemovalSteps, Journal
<1> HIDE DEF L
<1>4. Shape(L)
  BY <1>1, <1>2 DEF Shape, EndShape
<1>5. Starts(L) /\ Free(L, {Activation, Restoring})
  BY <1>1, <1>2, <1>3 DEF Starts, Free
<1> QED
  BY <1>4, <1>5 DEF L

LEMMA RollbackShape == Shape(RollbackSteps) /\ Free(RollbackSteps, Opening)
<1> DEFINE L == RollbackSteps
<1>1. (\E S : L \in Seq(S)) /\ Len(L) = 15
  BY Lists
<1>2. ASSUME NEW i \in 1..15
      PROVE  /\ L[i] = Removal => i = 15
             /\ L[i] = Restoring => i = 11
             /\ L[i] \notin {Journal, Activation, Commitment, Unlinking, Unused}
  <2> DEFINE verb == L[i][1]
             x == L[i][2]
  <2>1. /\ verb = "remove" => i = 15
        /\ verb = "back" /\ x # "web" => i = OfFile(x, 11, 12, 13)
        /\ verb \in {"tear", "drop", "return", "back", "validate", "remove"}
    BY RollbackPlace
  <2> QED
    BY <2>1, Components DEF OfFile
<1> HIDE DEF L
<1>3. Shape(L)
  BY <1>1, <1>2 DEF Shape, EndShape
<1>4. Free(L, Opening)
  BY <1>1, <1>2 DEF Free, Opening
<1> QED
  BY <1>3, <1>4 DEF L

LEMMA CompletionShape ==
    ASSUME NEW op
    PROVE  Shape(CompletionSteps(op)) /\ Free(CompletionSteps(op), Opening \cup {Restoring})
<1> DEFINE L == CompletionSteps(op)
<1>1. (\E S : L \in Seq(S)) /\ Len(L) \in Nat
  <2>1. CASE op = "uninstall"
    BY <2>1, Lists
  <2>2. CASE op # "uninstall"
    BY <2>2, ShortList
  <2> QED
    BY <2>1, <2>2
<1>2. ASSUME NEW i \in 1..Len(L)
      PROVE  /\ L[i] = Removal => i = Len(L)
             /\ L[i] \notin {Journal, Activation, Commitment, Unlinking, Unused, Restoring}
  <2> DEFINE verb == L[i][1]
             x == L[i][2]
  <2>1. CASE op = "uninstall"
    <3>1. i \in 1..9 /\ Len(L) = 9
      BY <2>1, Lists
    <3>2. /\ verb = "remove" => i = 9
          /\ verb = "unlink" => x # "active"
          /\ verb \in {"tear", "drop", "unlink", "remove"}
      BY <2>1, <3>1, CompletionPlace
    <3> QED
      BY <3>1, <3>2, Components
  <2>2. CASE op # "uninstall"
    <3>1. Len(L) = 2 /\ L[1][1] = "validate" /\ L[2][1] = "remove"
      BY <2>2, ShortList
    <3> HIDE DEF L
    <3>2. i = 1 \/ i = 2
      BY <3>1
    <3> QED
      BY <3>1, <3>2, Components
  <2> QED
    BY <2>1, <2>2
<1> HIDE DEF L
<1>3. Shape(L)
  BY <1>1, <1>2 DEF Shape, EndShape
<1>4. Free(L, Opening \cup {Restoring})
  BY <1>1, <1>2 DEF Free, Opening
<1> QED
  BY <1>3, <1>4 DEF L

-----------------------------------------------------------------------------
(* The activation record, its backup and the journal                        *)

Has(c, step) == \E i \in 1..Len(call[c].todo) : call[c].todo[i] = step

(* A transaction directory, and one with its journal; of their data, only the
   shape matters. *)
TxOf(S) == [journal : S, parts : S, files : [Files -> S], web : S]
JournalOf(S) == [op : S, inst : S, gen : S, stage : S, had : S, active : S, scope : S,
                 touched : S, web : S]
IsTx == \E S : tx \in TxOf(S)
Recorded == IsTx /\ \E S : tx.journal \in JournalOf(S)

(* Until it is committed, the backup of the activation record is the record. *)
Backed == Committed \/ tx.files["active"] \in {Absent, Torn, files["active"]}

Paths ==
    /\ \E S : files \in [Files -> S]
    /\ tx # Absent => IsTx
    /\ tx # Absent /\ tx.journal # Absent => Recorded /\ Backed
    /\ patch \in 0..MaxEdits /\ builds \in 0..MaxBuilds
    /\ \/ files["active"] \in {Absent, Torn}
       \/ files["active"] \in Candidate /\ files["active"].gen <= builds

Follows(old, new) ==
    IF old = Absent THEN new.gen = 1
    ELSE new.inst = old.inst /\ new.gen = old.gen + 1

(* What the journal says of the call that wrote it. *)
Describes(k) ==
    Recorded /\ tx.journal.op = k.op
    /\ tx.journal.inst = k.next.inst /\ tx.journal.gen = k.next.gen

(* What holds while a call still has a step before it. *)
Work(c) ==
    LET k == call[c] IN
    /\ k.todo # <<>> => Shape(k.todo) /\ IsTx /\ (tx.journal = Absent \/ Recorded)
    /\ k.todo # <<>> /\ Head(k.todo) # Removal => Backed
    /\ Has(c, Journal) => k.op # "recover" /\ tx.files["active"] = Absent
    /\ Has(c, Activation) =>
         /\ Mutates(k.op)
         /\ k.next \in Candidate /\ k.next.gen <= builds
         /\ Follows(files["active"], k.next)
         /\ Has(c, Journal) \/ Describes(k)
    /\ Has(c, Unlinking) =>
         /\ k.op = "uninstall"
         /\ Has(c, Journal) \/ (Recorded /\ tx.journal.op = "uninstall")
    /\ Has(c, Commitment) => Has(c, Journal) \/ Recorded
    /\ Has(c, Restoring) => k.op = "recover" /\ Recorded /\ ~Committed

ActiveInv == Paths /\ \A c \in Callers : Work(c)

LEMMA EmptyWork ==
    ASSUME NEW c \in Callers, call[c].todo = <<>> PROVE Work(c)
<1>1. Len(call[c].todo) = 0
  OBVIOUS
<1>2. \A step : ~Has(c, step)
  BY <1>1 DEF Has
<1> QED
  BY <1>1, <1>2 DEF Work

LEMMA EmptyWorkNext ==
    ASSUME NEW c \in Callers, call'[c].todo = <<>> PROVE Work(c)'
<1>1. Len(call'[c].todo) = 0
  OBVIOUS
<1>2. \A step : ~Has(c, step)'
  BY <1>1 DEF Has
<1> QED
  BY <1>1, <1>2 DEF Work

(* Steps that leave the records and the transaction alone. *)
LEMMA FrameKeeps ==
    ASSUME ActiveInv, UNCHANGED <<files, tx, builds>>, patch' \in 0..MaxEdits,
           \A c \in Callers : call'[c] = call[c] \/ call'[c].todo = <<>>
    PROVE  ActiveInv'
<1>1. Paths'
  BY DEF ActiveInv, Paths, IsTx, Recorded, Backed, Committed, Readable
<1>2. ASSUME NEW c \in Callers, call'[c] = call[c] PROVE Work(c)'
  <2>1. \A step : Has(c, step)' <=> Has(c, step)
    BY <1>2 DEF Has
  <2>2. Work(c)
    BY DEF ActiveInv
  <2>3. /\ Backed' <=> Backed
        /\ Recorded' <=> Recorded
        /\ IsTx' <=> IsTx
        /\ Committed' <=> Committed
        /\ Describes(call[c])' <=> Describes(call[c])
    BY <1>2 DEF Backed, Recorded, IsTx, Committed, Describes, Readable
  <2> QED
    BY <1>2, <2>1, <2>2, <2>3 DEF Work
<1> QED
  BY <1>1, <1>2, EmptyWorkNext DEF ActiveInv

(* A call goes on to its next step and only the data of its candidate change. *)
Moves(c) ==
    /\ call'[c].todo = Tail(call[c].todo) /\ call'[c].op = call[c].op
    /\ \A d \in Callers \ {c} : call'[d].todo = <<>>

LEMMA OthersRest ==
    ASSUME IInv, InstallationAssumption, NEW c \in Callers, call[c].at \in Leased
    PROVE  \A d \in Callers \ {c} : call[d].todo = <<>>
BY DEF IInv, LocksOK, TodoOK, Leased, InstallationAssumption

LEMMA AdvanceMoves ==
    ASSUME IInv, InstallationAssumption, NEW c \in Callers, call[c].at = "working", Advance(c)
    PROVE  Moves(c) /\ call'[c].next = call[c].next /\ UNCHANGED <<patch, builds>>
<1>1. PICK S : call \in [Callers -> AnyCall(S)]
  BY DEF IInv, Typed
<1>2. \A d \in Callers \ {c} : call[d].todo = <<>>
  BY OthersRest DEF Leased
<1>3. call' = [call EXCEPT ![c].todo = Tail(call[c].todo)]
  BY DEF Advance
<1>4. \A d \in Callers \ {c} : call'[d] = call[d]
  BY <1>1, <1>3
<1>5. /\ call'[c].todo = Tail(call[c].todo) /\ call'[c].op = call[c].op
      /\ call'[c].next = call[c].next
  BY <1>1, <1>3 DEF AnyCall
<1>6. UNCHANGED <<patch, builds>>
  BY DEF Advance, bounds
<1> QED
  BY <1>2, <1>4, <1>5, <1>6 DEF Moves

LEMMA TailShape ==
    ASSUME NEW t, Shape(t), t # <<>>
    PROVE  /\ Shape(Tail(t))
           /\ Len(t) \in Nat /\ Len(t) >= 1 /\ Len(Tail(t)) = Len(t) - 1 /\ Head(t) = t[1]
           /\ \A i \in 1..Len(Tail(t)) : Tail(t)[i] = t[i + 1] /\ i + 1 \in 1..Len(t)
<1>1. PICK S : t \in Seq(S)
  BY DEF Shape, EndShape
<1>2. Tail(t) \in Seq(S)
  BY <1>1
<1>3. Len(t) \in Nat /\ Len(t) >= 1 /\ Len(Tail(t)) = Len(t) - 1 /\ Head(t) = t[1]
  BY <1>1
<1>4. ASSUME NEW i \in 1..Len(Tail(t))
      PROVE  Tail(t)[i] = t[i + 1] /\ i + 1 \in 1..Len(t)
  <2>1. i \in Nat /\ i >= 1 /\ i <= Len(t) - 1
    BY <1>3
  <2>2. i + 1 \in 1..Len(t)
    BY <1>3, <2>1
  <2>3. Tail(t)[i] = t[i + 1]
    BY <1>1
  <2> QED
    BY <2>2, <2>3
<1>5. Shape(Tail(t))
  <2> DEFINE u == Tail(t)
  <2>1. \A i \in 1..Len(u) : u[i] = t[i + 1] /\ i + 1 \in 1..Len(t)
    BY <1>4
  <2>2. u \in Seq(S) /\ Len(u) = Len(t) - 1 /\ Len(t) \in Nat
    BY <1>2, <1>3
  <2>3. /\ \A i \in 1..Len(t) : t[i] = Journal => i = 1
        /\ \A i \in 1..Len(t) : t[i] = Activation => i = Len(t) - 2
        /\ \A i \in 1..Len(t) : t[i] = Restoring => i = Len(t) - 4
        /\ \A i \in 1..Len(t) : t[i] = Removal => i = Len(t)
        /\ \A i \in 1..Len(t) : t[i] # Unused
    BY DEF Shape, EndShape
  <2> HIDE DEF u
  <2>4. ASSUME NEW i \in 1..Len(u)
        PROVE  /\ u[i] = Activation => i = Len(u) - 2
               /\ u[i] = Restoring => i = Len(u) - 4
               /\ u[i] = Removal => i = Len(u)
               /\ u[i] # Unused
               /\ u[i] = Journal => i = 1
    BY <2>1, <2>2, <2>3
  <2> QED
    BY <2>2, <2>4 DEF Shape, EndShape, u
<1> QED
  BY <1>3, <1>4, <1>5

(* What a step leaves to be done. *)
LEMMA Left ==
    ASSUME NEW c \in Callers, Work(c), Moves(c), NEW verb, NEW x, At(c, verb, x)
    PROVE  /\ Shape(call'[c].todo) /\ IsTx
           /\ \A step : Has(c, step)' => Has(c, step)
           /\ Has(c, <<verb, x>>)
           /\ ~Has(c, Journal)'
           /\ <<verb, x>> \in {Activation, Restoring} => ~Has(c, <<verb, x>>)'
           /\ <<verb, x>> # Journal => ~Has(c, Journal)
           /\ <<verb, x>> # Unused
           /\ tx.journal = Absent \/ Recorded
           /\ <<verb, x>> # Removal => Backed
           /\ <<verb, x>> = Removal => \A step : Has(c, step) => step = Removal
<1> DEFINE t == call[c].todo
           u == call'[c].todo
<1>1. t # <<>> /\ Head(t) = <<verb, x>> /\ Shape(t) /\ IsTx /\ u = Tail(t)
  BY DEF At, Work, Moves
<1>2. /\ Shape(u) /\ Len(t) \in Nat /\ Len(t) >= 1 /\ Len(u) = Len(t) - 1 /\ t[1] = <<verb, x>>
      /\ \A i \in 1..Len(u) : u[i] = t[i + 1] /\ i + 1 \in 1..Len(t)
  BY <1>1, TailShape
<1>3. /\ \A step : Has(c, step) <=> \E i \in 1..Len(t) : t[i] = step
      /\ \A step : Has(c, step)' <=> \E i \in 1..Len(u) : u[i] = step
  BY DEF Has
<1>4. /\ \A i \in 1..Len(t) : t[i] = Journal => i = 1
      /\ \A i \in 1..Len(t) : t[i] = Activation => i = Len(t) - 2
      /\ \A i \in 1..Len(t) : t[i] = Restoring => i = Len(t) - 4
      /\ \A i \in 1..Len(t) : t[i] = Removal => i = Len(t)
      /\ \A i \in 1..Len(t) : t[i] # Unused
  BY <1>1 DEF Shape, EndShape
<1> HIDE DEF t, u
<1>5. \A step : Has(c, step)' => Has(c, step)
  BY <1>2, <1>3
<1>6. Has(c, <<verb, x>>) /\ <<verb, x>> # Unused
  BY <1>2, <1>3, <1>4
<1>7. ~Has(c, Journal)'
  BY <1>2, <1>3, <1>4
<1>8. <<verb, x>> \in {Activation, Restoring} => ~Has(c, <<verb, x>>)'
  <2>1. ASSUME <<verb, x>> = Activation PROVE ~Has(c, Activation)'
    BY <1>2, <1>3, <1>4, <2>1
  <2>2. ASSUME <<verb, x>> = Restoring PROVE ~Has(c, Restoring)'
    BY <1>2, <1>3, <1>4, <2>2
  <2> QED
    BY <2>1, <2>2
<1>9. <<verb, x>> # Journal => ~Has(c, Journal)
  BY <1>2, <1>3, <1>4
<1>10. <<verb, x>> = Removal => \A step : Has(c, step) => step = Removal
  BY <1>2, <1>3, <1>4
<1>11. (tx.journal = Absent \/ Recorded) /\ (<<verb, x>> # Removal => Backed)
  BY DEF At, Work
<1> QED
  BY <1>1, <1>2, <1>5, <1>6, <1>7, <1>8, <1>9, <1>10, <1>11 DEF t, u

LEMMA Distinct ==
    /\ Journal # Activation /\ Journal # Unlinking /\ Journal # Commitment /\ Journal # Restoring
    /\ Removal # Journal /\ Removal # Activation /\ Removal # Unlinking
    /\ Removal # Commitment /\ Removal # Restoring
    /\ Activation # Unlinking /\ Activation # Commitment /\ Activation # Restoring
    /\ Unlinking # Restoring
BY DEF Journal, Activation, Commitment, Removal, Unlinking, Restoring

(* The typing of a candidate whose patch is taken. *)
SameCandidate(c) ==
    call[c].next \in Candidate =>
        /\ call'[c].next \in Candidate
        /\ call'[c].next.inst = call[c].next.inst /\ call'[c].next.gen = call[c].next.gen

SameJournal ==
    \/ tx'.journal = tx.journal
    \/ /\ Recorded /\ Recorded'
       /\ tx'.journal.op = tx.journal.op
       /\ tx'.journal.inst = tx.journal.inst /\ tx'.journal.gen = tx.journal.gen

(* A step that leaves the activation record and the journal as they are. *)
LEMMA QuietKeeps ==
    ASSUME ActiveInv, NEW c \in Callers, NEW verb, NEW x, At(c, verb, x),
           <<verb, x>> \notin {Journal, Removal}, Moves(c), SameCandidate(c),
           (\E S : files' \in [Files -> S]), files'["active"] = files["active"],
           IsTx', tx'.files["active"] \in {Torn, files["active"], tx.files["active"]},
           SameJournal, patch' \in 0..MaxEdits, builds' = builds
    PROVE  ActiveInv'
<1>1. Work(c)
  BY DEF ActiveInv
<1>2. /\ Shape(call'[c].todo) /\ IsTx
      /\ \A step : Has(c, step)' => Has(c, step)
      /\ ~Has(c, Journal)' /\ ~Has(c, Journal)
      /\ tx.journal = Absent \/ Recorded
      /\ Backed
  BY <1>1, Left
<1>3. Recorded => Recorded'
  BY DEF SameJournal, Recorded
<1>4. tx'.journal = Absent \/ Recorded'
  BY <1>2, <1>3 DEF SameJournal
<1>5. Committed' <=> Committed
  BY DEF SameJournal, Committed, Readable
<1>6. Backed'
  BY <1>2, <1>5 DEF Backed
<1>7. call[c].next \in Candidate /\ Describes(call[c]) => Describes(call[c])'
  BY <1>3 DEF Describes, SameJournal, SameCandidate, Moves
<1>8. Paths'
  BY <1>4, <1>6 DEF Paths, ActiveInv
<1>9. Work(c)'
  <2>1. call'[c].op = call[c].op
    BY DEF Moves
  <2>2. Has(c, Activation)' =>
          /\ Mutates(call'[c].op)
          /\ call'[c].next \in Candidate /\ call'[c].next.gen <= builds'
          /\ Follows(files'["active"], call'[c].next)
          /\ Describes(call[c])'
    BY <1>1, <1>2, <1>7, <2>1 DEF Work, SameCandidate, Follows, Mutates
  <2>3. Has(c, Unlinking)' =>
          call'[c].op = "uninstall" /\ Recorded' /\ tx'.journal.op = "uninstall"
    BY <1>1, <1>2, <1>3, <2>1 DEF Work, SameJournal
  <2>4. Has(c, Commitment)' => Recorded'
    BY <1>1, <1>2, <1>3 DEF Work
  <2>5. Has(c, Restoring)' => call'[c].op = "recover" /\ Recorded' /\ ~Committed'
    BY <1>1, <1>2, <1>3, <1>5, <2>1 DEF Work
  <2> QED
    BY <1>2, <1>4, <1>6, <2>2, <2>3, <2>4, <2>5 DEF Work
<1>10. \A d \in Callers : d # c => Work(d)'
  BY EmptyWorkNext DEF Moves
<1> QED
  BY <1>8, <1>9, <1>10 DEF ActiveInv

(* The journal is written: it describes the call. *)
LEMMA JournalKeeps ==
    ASSUME ActiveInv, NEW c \in Callers, At(c, "journal", "home"), Moves(c),
           call'[c].next = call[c].next, UNCHANGED <<patch, builds, files>>,
           NEW r, NEW S, r \in JournalOf(S), tx' = [tx EXCEPT !.journal = r],
           r.op = call[c].op, r.inst = call[c].next.inst, r.gen = call[c].next.gen
    PROVE  ActiveInv'
<1>1. Work(c)
  BY DEF ActiveInv
<1>2. /\ Shape(call'[c].todo) /\ IsTx
      /\ \A step : Has(c, step)' => Has(c, step)
      /\ ~Has(c, Journal)'
      /\ Has(c, Journal)
  BY <1>1, Left DEF Journal
<1>3. PICK T : tx \in TxOf(T)
  BY <1>2 DEF IsTx
<1> DEFINE U == T \cup {r}
<1>4. tx' \in TxOf(U) /\ tx'.journal = r /\ tx'.files = tx.files
  BY <1>3 DEF TxOf
<1>5. IsTx' /\ Recorded' /\ Describes(call[c])'
  <2>1. IsTx'
    BY <1>4 DEF IsTx
  <2>2. Recorded'
    BY <1>4, <2>1 DEF Recorded
  <2> QED
    BY <1>4, <2>1, <2>2 DEF Describes, Moves
<1>6. tx.files["active"] = Absent /\ call[c].op # "recover"
  BY <1>1, <1>2 DEF Work
<1>7. Backed'
  BY <1>4, <1>6 DEF Backed
<1>8. Paths'
  BY <1>5, <1>7 DEF Paths, ActiveInv
<1>9. Work(c)'
  <2>1. Has(c, Activation)' =>
          /\ Mutates(call'[c].op)
          /\ call'[c].next \in Candidate /\ call'[c].next.gen <= builds'
          /\ Follows(files'["active"], call'[c].next)
    BY <1>1, <1>2 DEF Work, Follows, Mutates, Moves
  <2>2. Has(c, Unlinking)' => call'[c].op = "uninstall" /\ tx'.journal.op = "uninstall"
    BY <1>1, <1>2, <1>4 DEF Work, Moves
  <2>3. ~Has(c, Restoring)'
    BY <1>1, <1>2, <1>6 DEF Work
  <2> QED
    BY <1>2, <1>5, <1>7, <2>1, <2>2, <2>3 DEF Work
<1>10. \A d \in Callers : d # c => Work(d)'
  BY EmptyWorkNext DEF Moves
<1> QED
  BY <1>8, <1>9, <1>10 DEF ActiveInv

(* The record changes to the candidate, which commits the transaction. *)
LEMMA ActivationKeeps ==
    ASSUME ActiveInv, PathAssumption, NEW c \in Callers, At(c, "activate", "home"), Moves(c),
           call'[c].next = call[c].next, UNCHANGED <<patch, builds, tx>>,
           files' = [files EXCEPT !["active"] = call[c].next]
    PROVE  /\ ActiveInv'
           /\ files'["active"] = call[c].next
           /\ Follows(files["active"], call[c].next)
<1>1. Work(c)
  BY DEF ActiveInv
<1>2. /\ Shape(call'[c].todo) /\ IsTx
      /\ \A step : Has(c, step)' => Has(c, step)
      /\ ~Has(c, Journal)' /\ ~Has(c, Journal)
      /\ ~Has(c, Activation)' /\ Has(c, Activation)
      /\ tx.journal = Absent \/ Recorded
  BY <1>1, Left, Distinct DEF Activation
<1>3. PICK S : files \in [Files -> S]
  BY DEF ActiveInv, Paths
<1>4. files' \in [Files -> S \cup {call[c].next}] /\ files'["active"] = call[c].next
  BY <1>3 DEF Files
<1>5. /\ Mutates(call[c].op) /\ Describes(call[c])
      /\ call[c].next \in Candidate /\ call[c].next.gen <= builds
      /\ Follows(files["active"], call[c].next)
  BY <1>1, <1>2 DEF Work
<1>6. Committed'
  BY <1>4, <1>5 DEF Committed, Describes, Readable, PathAssumption, Mutates
<1>7. Backed'
  BY <1>6 DEF Backed
<1>8. IsTx' /\ (tx'.journal = Absent \/ Recorded') /\ Recorded'
  BY <1>2, <1>5 DEF IsTx, Recorded, Describes
<1>9. Paths'
  BY <1>4, <1>5, <1>7, <1>8 DEF Paths, ActiveInv
<1>10. ~Has(c, Unlinking)' /\ ~Has(c, Restoring)'
  BY <1>1, <1>2, <1>5 DEF Work, Mutates
<1>11. Work(c)'
  BY <1>2, <1>7, <1>8, <1>10 DEF Work
<1>12. \A d \in Callers : d # c => Work(d)'
  BY EmptyWorkNext DEF Moves
<1> QED
  BY <1>4, <1>5, <1>9, <1>11, <1>12 DEF ActiveInv

(* An uninstall removes the record, which commits it. *)
LEMMA UnlinkingKeeps ==
    ASSUME ActiveInv, NEW c \in Callers, At(c, "unlink", "active"), Moves(c),
           call'[c].next = call[c].next, UNCHANGED <<patch, builds, tx>>,
           files' = [files EXCEPT !["active"] = Absent]
    PROVE  ActiveInv' /\ files'["active"] = Absent
<1>1. Work(c)
  BY DEF ActiveInv
<1>2. /\ Shape(call'[c].todo) /\ IsTx
      /\ \A step : Has(c, step)' => Has(c, step)
      /\ ~Has(c, Journal)' /\ ~Has(c, Journal)
      /\ Has(c, Unlinking)
      /\ tx.journal = Absent \/ Recorded
  BY <1>1, Left, Distinct DEF Unlinking
<1>3. PICK S : files \in [Files -> S]
  BY DEF ActiveInv, Paths
<1>4. files' \in [Files -> S \cup {Absent}] /\ files'["active"] = Absent
  BY <1>3 DEF Files
<1>5. call[c].op = "uninstall" /\ Recorded /\ tx.journal.op = "uninstall"
  BY <1>1, <1>2 DEF Work
<1>6. Committed'
  BY <1>4, <1>5 DEF Committed
<1>7. Backed'
  BY <1>6 DEF Backed
<1>8. IsTx' /\ Recorded' /\ tx'.journal.op = "uninstall"
  BY <1>2, <1>5 DEF IsTx, Recorded
<1>9. Paths'
  BY <1>4, <1>7, <1>8 DEF Paths, ActiveInv
<1>10. ~Has(c, Activation)' /\ ~Has(c, Restoring)'
  BY <1>1, <1>2, <1>5 DEF Work, Mutates
<1>11. Work(c)'
  BY <1>2, <1>5, <1>7, <1>8, <1>10 DEF Work, Moves
<1>12. \A d \in Callers : d # c => Work(d)'
  BY EmptyWorkNext DEF Moves
<1> QED
  BY <1>4, <1>9, <1>11, <1>12 DEF ActiveInv

(* A rollback restores the record from its backup, to what it is. *)
LEMMA RestoringKeeps ==
    ASSUME ActiveInv, NEW c \in Callers, At(c, "back", "active"), Moves(c),
           UNCHANGED <<patch, builds, tx>>,
           files' = [files EXCEPT !["active"] =
                        Restored(files["active"], tx.files["active"], Had("active"))]
    PROVE  ActiveInv' /\ files'["active"] \in {Absent, Torn, files["active"]}
<1>1. Work(c)
  BY DEF ActiveInv
<1>2. /\ Shape(call'[c].todo) /\ IsTx
      /\ \A step : Has(c, step)' => Has(c, step)
      /\ ~Has(c, Journal)' /\ ~Has(c, Restoring)' /\ Has(c, Restoring)
      /\ Backed
  BY <1>1, Left, Distinct DEF Restoring
<1>3. PICK S : files \in [Files -> S]
  BY DEF ActiveInv, Paths
<1> DEFINE r == Restored(files["active"], tx.files["active"], Had("active"))
<1>4. files' \in [Files -> S \cup {r}] /\ files'["active"] = r
  BY <1>3 DEF Files
<1>5. call[c].op = "recover" /\ Recorded /\ ~Committed
  BY <1>1, <1>2 DEF Work
<1>6. tx.files["active"] \in {Absent, Torn, files["active"]}
  BY <1>2, <1>5 DEF Backed
<1>7. r \in {Absent, Torn, files["active"]} /\ tx.files["active"] \in {Absent, Torn, r}
  BY <1>6 DEF Restored
<1>8. Backed'
  BY <1>4, <1>7 DEF Backed
<1>9. IsTx' /\ Recorded'
  BY <1>2, <1>5 DEF IsTx, Recorded
<1> HIDE DEF r
<1>10. Paths'
  BY <1>4, <1>7, <1>8, <1>9 DEF Paths, ActiveInv
<1>11. ~Has(c, Activation)' /\ ~Has(c, Unlinking)'
  BY <1>1, <1>2, <1>5 DEF Work, Mutates
<1>12. Work(c)'
  BY <1>2, <1>8, <1>9, <1>11 DEF Work
<1>13. \A d \in Callers : d # c => Work(d)'
  BY EmptyWorkNext DEF Moves
<1> QED
  BY <1>4, <1>7, <1>10, <1>12, <1>13 DEF ActiveInv

LEMMA RemovalKeeps ==
    ASSUME ActiveInv, IInv, InstallationAssumption, NEW c \in Callers, call[c].at = "working",
           RemoveTransaction(c)
    PROVE  ActiveInv'
<1>1. Work(c) /\ At(c, "remove", "home") /\ files' = files
  BY DEF ActiveInv, RemoveTransaction
<1>2. /\ Shape(call[c].todo) /\ call[c].todo # <<>> /\ Head(call[c].todo) = Removal
      /\ IsTx /\ (tx.journal = Absent \/ Recorded)
  BY <1>1 DEF Work, At, Removal
<1>3. \A step : Has(c, step) => step = Removal
  <2> DEFINE t == call[c].todo
  <2>1. Len(t) \in Nat /\ Len(t) >= 1 /\ Head(t) = t[1]
    BY <1>2, TailShape
  <2>2. Len(t) = 1
    <3>1. 1 \in 1..Len(t) /\ t[1] = Removal
      BY <1>2, <2>1
    <3>2. \A i \in 1..Len(t) : t[i] = Removal => i = Len(t)
      BY <1>2 DEF Shape, EndShape
    <3> HIDE DEF t
    <3> QED
      BY <3>1, <3>2
  <2> QED
    BY <1>2, <2>1, <2>2 DEF Has
<1>4. \A d \in Callers \ {c} : call[d].todo = <<>>
  BY OthersRest DEF Leased
<1>5. CASE tx' = Absent /\ End(c)
  <2>1. call' = [call EXCEPT ![c] = Idle] /\ UNCHANGED <<patch, builds>>
    BY <1>5 DEF End, Released, bounds
  <2>2. \A d \in Callers : call'[d].todo = <<>>
    <3>1. PICK S : call \in [Callers -> AnyCall(S)]
      BY DEF IInv, Typed
    <3> QED
      BY <1>4, <2>1, <3>1 DEF Idle
  <2>3. Paths'
    BY <1>1, <1>5, <2>1 DEF ActiveInv, Paths
  <2> QED
    BY <2>2, <2>3, EmptyWorkNext DEF ActiveInv
<1>6. ASSUME UNCHANGED <<call, patch, builds>>, IsTx', tx'.journal = Absent \/ (Recorded' /\ Backed')
      PROVE  ActiveInv'
  <2>1. Paths'
    BY <1>1, <1>6 DEF ActiveInv, Paths
  <2>2. \A step : Has(c, step)' => step = Removal
    BY <1>3, <1>6 DEF Has
  <2>3. Work(c)'
    BY <1>2, <1>6, <2>2, Distinct DEF Work
  <2>4. \A d \in Callers : d # c => Work(d)'
    BY <1>4, <1>6, EmptyWorkNext
  <2> QED
    BY <2>1, <2>3, <2>4 DEF ActiveInv
<1>7. PICK S : tx \in TxOf(S)
  BY <1>2 DEF IsTx
<1>8. CASE tx' = [tx EXCEPT !.journal = Absent] /\ UNCHANGED <<call, patch, bounds>>
  <2>1. tx' \in TxOf(S \cup {Absent}) /\ tx'.journal = Absent
    BY <1>7, <1>8 DEF TxOf
  <2>2. IsTx'
    BY <2>1 DEF IsTx
  <2> QED
    BY <1>6, <1>8, <2>1, <2>2 DEF bounds
<1>9. CASE /\ tx' = [tx EXCEPT !.parts = Empty, !.files = NoFiles, !.web = Absent]
           /\ UNCHANGED <<call, patch, bounds>>
  <2> DEFINE T == S \cup {Absent, Empty}
  <2>1. tx' = [journal |-> tx.journal, parts |-> Empty, files |-> NoFiles, web |-> Absent]
    BY <1>7, <1>9 DEF TxOf
  <2>2. NoFiles \in [Files -> T] /\ NoFiles["active"] = Absent
    BY DEF NoFiles, Files
  <2>3. tx' \in TxOf(T) /\ tx'.journal = tx.journal /\ tx'.files["active"] = Absent
    BY <1>7, <2>1, <2>2 DEF TxOf
  <2>4. IsTx'
    BY <2>3 DEF IsTx
  <2>5. Recorded => Recorded'
    BY <2>3, <2>4 DEF Recorded
  <2>6. Backed'
    BY <2>3 DEF Backed
  <2> QED
    BY <1>2, <1>6, <1>9, <2>3, <2>4, <2>5, <2>6 DEF bounds
<1> QED
  BY <1>5, <1>8, <1>9 DEF RemoveTransaction

(* What a transaction is begun with. *)
LEMMA NextIsCandidate ==
    ASSUME InstallationAssumption, PathAssumption, Paths,
           NEW op, Mutates(op), NEW seen, SameGeneration(files["active"], seen),
           NEW version \in Versions, builds < MaxBuilds
    PROVE  /\ NextCandidate(op, seen, version) \in Candidate
           /\ NextCandidate(op, seen, version).gen <= builds + 1
           /\ Follows(files["active"], NextCandidate(op, seen, version))
<1> DEFINE n == NextCandidate(op, seen, version)
           old == files["active"]
<1>1. builds \in Nat /\ builds + 1 \in 1..MaxBuilds /\ 0 \in 0..MaxEdits
  BY DEF InstallationAssumption, Paths
<1>2. CASE seen = Absent
  <2>1. n = [id |-> builds + 1, inst |-> builds + 1, gen |-> 1, version |-> version, patch |-> 0]
    BY <1>2 DEF NextCandidate
  <2>2. old = Absent
    BY <1>2 DEF SameGeneration, Readable
  <2>3. 1 \in 1..MaxBuilds
    BY <1>1 DEF InstallationAssumption
  <2>4. n \in Candidate
    BY <1>1, <2>1, <2>3 DEF Candidate
  <2> QED
    BY <1>1, <2>1, <2>2, <2>4 DEF Follows
<1>3. CASE seen # Absent
  <2>1. n = [id |-> builds + 1, inst |-> seen.inst, gen |-> seen.gen + 1,
             version |-> version, patch |-> 0]
    BY <1>3 DEF NextCandidate
  <2>2. old \in Candidate /\ old.gen <= builds /\ old.inst = seen.inst /\ old.gen = seen.gen
    BY <1>3 DEF SameGeneration, Readable, Paths
  <2>3. old.inst \in 1..MaxBuilds /\ old.gen \in 1..MaxBuilds
    BY <2>2 DEF Candidate
  <2>4. seen.gen + 1 \in 1..MaxBuilds
    BY <1>1, <2>2, <2>3 DEF InstallationAssumption
  <2>5. n \in Candidate
    BY <1>1, <2>1, <2>2, <2>3, <2>4 DEF Candidate
  <2>6. old # Absent
    BY <2>2 DEF PathAssumption
  <2> QED
    BY <1>1, <2>1, <2>2, <2>3, <2>5, <2>6 DEF Follows
<1> QED
  BY <1>2, <1>3

(* A call that has just been given its steps, which other calls have not. *)
LEMMA Given ==
    ASSUME IInv, InstallationAssumption, NEW c \in Callers, call[c].at \in Leased,
           NEW k, call' = [call EXCEPT ![c] = k]
    PROVE  call'[c] = k /\ \A d \in Callers : d # c => Work(d)'
<1>1. PICK S : call \in [Callers -> AnyCall(S)]
  BY DEF IInv, Typed
<1>2. call'[c] = k /\ \A d \in Callers : d # c => call'[d] = call[d]
  BY <1>1
<1> QED
  BY <1>2, OthersRest, EmptyWorkNext

LEMMA BeginsKeep ==
    ASSUME ActiveInv, IInv, InstallationAssumption, PathAssumption,
           NEW c \in Callers, NEW version \in Versions, Begin(c, version)
    PROVE  ActiveInv'
<1> DEFINE op == call[c].op
           seen == call[c].seen
           next == NextCandidate(op, seen, version)
           steps == IF Mutates(op) THEN MutationSteps ELSE RemovalSteps
<1>1. /\ call[c].at = "leased" /\ op # "recover" /\ Unchanged(op, seen)
      /\ op # "uninstall" => builds < MaxBuilds
      /\ tx' = [journal |-> Absent, parts |-> Empty, files |-> NoFiles, web |-> Absent]
      /\ builds' = IF Mutates(op) THEN builds + 1 ELSE builds
      /\ UNCHANGED <<files, patch>>
  BY DEF Begin
<1>2. op \in Operations \cup {"none"}
  BY DEF IInv, Typed, AnyCall
<1> DEFINE k == [call[c] EXCEPT !.at = "working", !.next = next, !.web = web,
                     !.plan = Planned(op, version), !.todo = steps]
<1>3. call' = [call EXCEPT ![c] = k]
  BY DEF Begin
<1>4. call'[c] = k /\ \A d \in Callers : d # c => Work(d)'
  BY <1>1, <1>3, Given DEF Leased
<1>5. k.op = op /\ k.next = next /\ k.todo = steps
  BY DEF IInv, Typed, AnyCall
<1>6. IsTx' /\ tx'.journal = Absent /\ tx'.files["active"] = Absent
  <2> DEFINE T == {Absent, Empty}
  <2>1. NoFiles \in [Files -> T] /\ NoFiles["active"] = Absent
    BY DEF NoFiles, Files
  <2>2. tx' \in TxOf(T)
    BY <1>1, <2>1 DEF TxOf
  <2> QED
    BY <1>1, <2>1, <2>2 DEF IsTx
<1>7. Backed'
  BY <1>6 DEF Backed
<1>8. builds' \in 0..MaxBuilds /\ builds <= builds' /\ builds \in Nat
  BY <1>1 DEF ActiveInv, Paths, InstallationAssumption, Mutates
<1>9. Paths'
  <2>1. files["active"] \in Candidate => files["active"].gen \in Nat
    BY DEF Candidate
  <2> QED
    BY <1>1, <1>6, <1>8, <2>1 DEF ActiveInv, Paths
<1>10. Shape(steps)
  BY MutationShape, RemovalShape
<1> HIDE DEF k, next
<1>11. \A step : Has(c, step)' => \E i \in 1..Len(steps) : steps[i] = step
  BY <1>4, <1>5 DEF Has
<1>12. ASSUME Mutates(op) PROVE ~Has(c, Unlinking)' /\ ~Has(c, Restoring)'
  <2>1. Free(steps, {Unlinking, Restoring})
    BY <1>12, MutationShape
  <2> HIDE DEF steps
  <2>2. \A i \in 1..Len(steps) : steps[i] \notin {Unlinking, Restoring}
    BY <2>1, FreeAt
  <2> QED
    BY <1>11, <2>2
<1>13. ASSUME ~Mutates(op) PROVE ~Has(c, Activation)' /\ ~Has(c, Restoring)'
  <2>1. Free(steps, {Activation, Restoring})
    BY <1>13, RemovalShape
  <2> HIDE DEF steps
  <2>2. \A i \in 1..Len(steps) : steps[i] \notin {Activation, Restoring}
    BY <2>1, FreeAt
  <2> QED
    BY <1>11, <2>2
<1>14. Has(c, Journal)'
  <2>1. Len(steps) \in Nat /\ Len(steps) >= 1 /\ steps[1] = Journal
    BY MutationShape, RemovalShape DEF Starts
  <2> QED
    BY <1>4, <1>5, <2>1 DEF Has
<1>15. ASSUME Mutates(op)
       PROVE  next \in Candidate /\ next.gen <= builds' /\ Follows(files'["active"], next)
  <2>1. SameGeneration(files["active"], seen) /\ builds < MaxBuilds
    BY <1>1, <1>15 DEF Unchanged, Mutates
  <2> QED
    BY <1>1, <1>15, <2>1, NextIsCandidate DEF ActiveInv, next
<1>16. ~Mutates(op) => op = "uninstall"
  BY <1>1, <1>2 DEF Mutates, Operations, IInv, TodoOK
<1>17. Work(c)'
  BY <1>4, <1>5, <1>6, <1>7, <1>10, <1>1, <1>12, <1>13, <1>14, <1>15, <1>16 DEF Work
<1> QED
  BY <1>4, <1>9, <1>17 DEF ActiveInv

LEMMA RecoversKeep ==
    ASSUME ActiveInv, IInv, InstallationAssumption, NEW c \in Callers, Recover(c)
    PROVE  ActiveInv'
<1> DEFINE steps == IF Committed THEN CompletionSteps(tx.journal.op) ELSE RollbackSteps
           k == [call[c] EXCEPT !.at = "working", !.todo = steps]
<1>1. /\ call[c].at = "leased" /\ call[c].op = "recover"
      /\ tx # Absent /\ tx.journal # Absent
      /\ call' = [call EXCEPT ![c] = k]
      /\ UNCHANGED <<files, tx, builds, patch>>
  BY DEF Recover, Journalled, disk, bounds
<1>2. call'[c] = k /\ \A d \in Callers : d # c => Work(d)'
  BY <1>1, Given DEF Leased
<1>3. k.op = "recover" /\ k.todo = steps
  BY <1>1 DEF IInv, Typed, AnyCall
<1>4. IsTx /\ Recorded /\ Backed
  BY <1>1 DEF ActiveInv, Paths
<1>5. /\ IsTx' /\ Recorded' /\ Backed' /\ (Committed' <=> Committed)
  BY <1>1, <1>4 DEF IsTx, Recorded, Backed, Committed, Readable
<1>6. Paths'
  BY <1>1, <1>5 DEF ActiveInv, Paths
<1>7. Shape(steps)
  BY RollbackShape, CompletionShape
<1>8. Free(steps, Opening)
  <2>1. Opening \subseteq Opening \cup {Restoring}
    OBVIOUS
  <2> QED
    BY <2>1, RollbackShape, CompletionShape, FreeLess
<1>9. Committed => Free(steps, {Restoring})
  <2>1. {Restoring} \subseteq Opening \cup {Restoring}
    OBVIOUS
  <2> QED
    BY <2>1, CompletionShape, FreeLess
<1> HIDE DEF steps
<1>10. \A step : Has(c, step)' => \E i \in 1..Len(steps) : steps[i] = step
  BY <1>2, <1>3 DEF Has
<1>11. \A i \in 1..Len(steps) : steps[i] \notin Opening
  BY <1>8, FreeAt
<1>12. Committed => \A i \in 1..Len(steps) : steps[i] # Restoring
  BY <1>9, FreeAt
<1>13. /\ ~Has(c, Journal)' /\ ~Has(c, Activation)' /\ ~Has(c, Unlinking)' /\ ~Has(c, Commitment)'
       /\ Has(c, Restoring)' => ~Committed
  <2>1. \A step \in Opening : ~Has(c, step)'
    BY <1>10, <1>11
  <2>2. Journal \in Opening /\ Activation \in Opening /\ Unlinking \in Opening /\ Commitment \in Opening
    BY DEF Opening
  <2> QED
    BY <1>10, <1>12, <2>1, <2>2
<1>14. Work(c)'
  BY <1>2, <1>3, <1>5, <1>7, <1>13 DEF Work
<1> QED
  BY <1>2, <1>6, <1>14 DEF ActiveInv

-----------------------------------------------------------------------------

(* A call that ends leaves the disk to the others. *)
LEMMA LeaveKeeps ==
    ASSUME ActiveInv, IInv, NEW c \in Callers, Released(c), UNCHANGED <<files, tx, patch, builds>>
    PROVE  ActiveInv'
<1>1. PICK S : call \in [Callers -> AnyCall(S)]
  BY DEF IInv, Typed
<1>2. \A d \in Callers : call'[d] = call[d] \/ call'[d].todo = <<>>
  BY <1>1 DEF Released, Idle
<1>3. patch' \in 0..MaxEdits
  BY DEF ActiveInv, Paths
<1> QED
  BY <1>2, <1>3, FrameKeeps

(* The activation record goes where ActivationNeverGoesBack lets it go. *)
Onward ==
    LET old == files["active"]  new == files'["active"] IN
    new # old /\ new # Torn /\ old # Torn =>
        \/ new = Absent
        \/ old = Absent /\ new.gen = 1
        \/ old # Absent /\ new.inst = old.inst /\ new.gen = old.gen + 1

(* The steps that only work on the directories, the backups and the profile. *)
LEMMA TxPart ==
    ASSUME IsTx, NEW v,
           \/ tx' = [tx EXCEPT !.parts = v]
           \/ tx' = [tx EXCEPT !.web = v]
           \/ tx' = tx
    PROVE  IsTx' /\ tx'.files = tx.files /\ tx'.journal = tx.journal
<1>1. PICK S : tx \in TxOf(S)
  BY DEF IsTx
<1>2. /\ tx' \in TxOf(S \cup {v})
      /\ tx'.files = tx.files /\ tx'.journal = tx.journal
  <2>1. CASE tx' = [tx EXCEPT !.parts = v]
    BY <1>1, <2>1 DEF TxOf
  <2>2. CASE tx' = [tx EXCEPT !.web = v]
    BY <1>1, <2>2 DEF TxOf
  <2>3. CASE tx' = tx
    BY <1>1, <2>3 DEF TxOf
  <2> QED
    BY <2>1, <2>2, <2>3
<1> QED
  BY <1>2 DEF IsTx

LEMMA TxFiles ==
    ASSUME IsTx, NEW f \in Files, NEW v,
           tx' = [tx EXCEPT !.files = [tx.files EXCEPT ![f] = v]]
    PROVE  /\ IsTx' /\ tx'.journal = tx.journal
           /\ tx'.files["active"] = IF f = "active" THEN v ELSE tx.files["active"]
<1>1. PICK S : tx \in TxOf(S)
  BY DEF IsTx
<1> DEFINE g == [tx.files EXCEPT ![f] = v]
<1>2. g \in [Files -> S \cup {v}] /\ g["active"] = IF f = "active" THEN v ELSE tx.files["active"]
  BY <1>1 DEF TxOf, Files
<1> HIDE DEF g
<1>3. tx' \in TxOf(S \cup {v}) /\ tx'.files = g /\ tx'.journal = tx.journal
  BY <1>1, <1>2 DEF TxOf, g
<1> QED
  BY <1>2, <1>3 DEF IsTx

(* Every other step is quiet when it goes on. *)
LEMMA QuietStep ==
    ASSUME ActiveInv, IInv, InstallationAssumption, NEW c \in Callers, call[c].at = "working",
           NEW verb, NEW x, At(c, verb, x), <<verb, x>> \notin {Journal, Removal}, Advance(c),
           (\E S : files' \in [Files -> S]), files'["active"] = files["active"],
           IsTx', tx'.files["active"] \in {Torn, files["active"], tx.files["active"]},
           SameJournal
    PROVE  ActiveInv' /\ Onward
<1>1. Moves(c) /\ call'[c].next = call[c].next /\ UNCHANGED <<patch, builds>>
  BY AdvanceMoves
<1>2. patch' \in 0..MaxEdits /\ SameCandidate(c)
  BY <1>1 DEF ActiveInv, Paths, SameCandidate
<1> QED
  BY <1>1, <1>2, QuietKeeps DEF Onward

LEMMA Elsewhere ==
    ASSUME NEW verb, NEW x, verb \notin {"journal", "remove"}
    PROVE  <<verb, x>> \notin {Journal, Removal}
BY DEF Journal, Removal

LEMMA Leaves ==
    ASSUME ActiveInv, IInv, NEW c \in Callers, Leave(c), UNCHANGED <<files, tx>>
    PROVE  ActiveInv' /\ Onward
<1>1. Released(c) /\ UNCHANGED <<patch, builds>>
  BY DEF Leave, End, bounds
<1> QED
  BY <1>1, LeaveKeeps DEF Onward

LEMMA FilesStay ==
    ASSUME ActiveInv, files' = files
    PROVE  (\E S : files' \in [Files -> S]) /\ files'["active"] = files["active"]
BY DEF ActiveInv, Paths

LEMMA FileOther ==
    ASSUME ActiveInv, NEW f \in Files, f # "active", NEW v, files' = [files EXCEPT ![f] = v]
    PROVE  (\E S : files' \in [Files -> S]) /\ files'["active"] = files["active"]
<1>1. PICK S : files \in [Files -> S]
  BY DEF ActiveInv, Paths
<1>2. files' \in [Files -> S \cup {v}] /\ files'["active"] = files["active"]
  BY <1>1 DEF Files
<1> QED
  BY <1>2

(* Steps on the directories, the profile and the backups. *)
LEMMA PartStages ==
    ASSUME ActiveInv, IInv, InstallationAssumption, NEW c \in Callers, call[c].at = "working",
           \/ KeepProfile(c) \/ PublishProfile(c) \/ MoveAside(c) \/ MoveIn(c) \/ Probe(c)
           \/ Tear(c) \/ Drop(c) \/ Return(c) \/ RestoreProfile(c) \/ Validate(c)
    PROVE  ActiveInv' /\ Onward
<1>1. ASSUME NEW verb, NEW x, At(c, verb, x), verb \notin {"journal", "remove"}, Advance(c),
             files' = files,
             NEW v, \/ tx' = [tx EXCEPT !.parts = v]
                    \/ tx' = [tx EXCEPT !.web = v]
                    \/ tx' = tx
      PROVE  ActiveInv' /\ Onward
  <2>1. Work(c) /\ call[c].todo # <<>>
    BY <1>1 DEF ActiveInv, At
  <2>2. IsTx
    BY <2>1 DEF Work
  <2>3. IsTx' /\ tx'.files = tx.files /\ tx'.journal = tx.journal
    BY <1>1, <2>2, TxPart
  <2>4. <<verb, x>> \notin {Journal, Removal}
    BY <1>1, Elsewhere
  <2>5. (\E S : files' \in [Files -> S]) /\ files'["active"] = files["active"]
    BY <1>1, FilesStay
  <2> QED
    BY <1>1, <2>3, <2>4, <2>5, QuietStep DEF SameJournal
<1>2. ASSUME Leave(c), UNCHANGED <<files, tx>> PROVE ActiveInv' /\ Onward
  BY <1>2, Leaves
<1>3. CASE KeepProfile(c)
  BY <1>1, <1>2, <1>3 DEF KeepProfile
<1>4. CASE PublishProfile(c)
  BY <1>1, <1>2, <1>4 DEF PublishProfile
<1>5. CASE MoveAside(c)
  BY <1>1, <1>5 DEF MoveAside
<1>6. CASE MoveIn(c)
  BY <1>1, <1>6 DEF MoveIn
<1>7. CASE Probe(c)
  BY <1>1, <1>2, <1>7 DEF Probe, disk
<1>8. CASE Tear(c)
  BY <1>1, <1>8 DEF Tear
<1>9. CASE Drop(c)
  BY <1>1, <1>9 DEF Drop
<1>10. CASE Return(c)
  BY <1>1, <1>2, <1>10 DEF Return
<1>11. CASE RestoreProfile(c)
  BY <1>1, <1>11 DEF RestoreProfile
<1>12. CASE Validate(c)
  BY <1>1, <1>2, <1>12 DEF Validate, disk
<1> QED
  BY <1>3, <1>4, <1>5, <1>6, <1>7, <1>8, <1>9, <1>10, <1>11, <1>12

LEMMA CopyStages ==
    ASSUME ActiveInv, IInv, InstallationAssumption, NEW c \in Callers, call[c].at = "working",
           OpenCopy(c) \/ FinishCopy(c)
    PROVE  ActiveInv' /\ Onward
<1>1. ASSUME NEW verb \in {"open", "copy"}, NEW f \in Files, At(c, verb, f), Advance(c), files' = files,
             NEW v, v \in {Torn, files[f]},
             tx' = tx \/ tx' = [tx EXCEPT !.files = [tx.files EXCEPT ![f] = v]]
      PROVE  ActiveInv' /\ Onward
  <2>1. Work(c) /\ call[c].todo # <<>>
    BY <1>1 DEF ActiveInv, At
  <2>2. IsTx
    BY <2>1 DEF Work
  <2>3. /\ IsTx' /\ tx'.journal = tx.journal
        /\ tx'.files["active"] \in {Torn, files["active"], tx.files["active"]}
    <3>1. CASE tx' = tx
      BY <2>2, <3>1 DEF IsTx
    <3>2. CASE tx' = [tx EXCEPT !.files = [tx.files EXCEPT ![f] = v]]
      BY <1>1, <2>2, <3>2, TxFiles
    <3> QED
      BY <1>1, <3>1, <3>2
  <2>4. <<verb, f>> \notin {Journal, Removal}
    BY Elsewhere
  <2>5. (\E S : files' \in [Files -> S]) /\ files'["active"] = files["active"]
    BY <1>1, FilesStay
  <2> QED
    BY <1>1, <2>3, <2>4, <2>5, QuietStep DEF SameJournal
<1>2. CASE OpenCopy(c)
  BY <1>1, <1>2 DEF OpenCopy
<1>3. CASE FinishCopy(c)
  BY <1>1, <1>3 DEF FinishCopy
<1> QED
  BY <1>2, <1>3

LEMMA FileStages ==
    ASSUME ActiveInv, IInv, InstallationAssumption, PathAssumption, NEW c \in Callers,
           call[c].at = "working",
           WriteFile(c) \/ Activate(c) \/ Unlink(c) \/ RestoreFile(c)
    PROVE  ActiveInv' /\ Onward
<1>0. Work(c)
  BY DEF ActiveInv
<1>1. ASSUME NEW verb, NEW f \in Files, verb \notin {"journal", "remove"}, At(c, verb, f),
             f # "active", Advance(c), NEW v, files' = [files EXCEPT ![f] = v], tx' = tx
      PROVE  ActiveInv' /\ Onward
  <2>1. IsTx' /\ SameJournal /\ tx'.files["active"] = tx.files["active"]
    BY <1>0, <1>1 DEF Work, At, IsTx, SameJournal
  <2>2. <<verb, f>> \notin {Journal, Removal}
    BY <1>1, Elsewhere
  <2>3. (\E S : files' \in [Files -> S]) /\ files'["active"] = files["active"]
    BY <1>1, FileOther
  <2> QED
    BY <1>1, <2>1, <2>2, <2>3, QuietStep
<1>2. ASSUME Advance(c) PROVE Moves(c) /\ call'[c].next = call[c].next /\ UNCHANGED <<patch, builds>>
  BY <1>2, AdvanceMoves
<1>3. CASE WriteFile(c)
  <2>1. PICK f \in Files : /\ At(c, "write", f) /\ Advance(c) /\ tx' = tx
                           /\ files' = [files EXCEPT ![f] = IF f = "scope" THEN call[c].next.inst
                                                           ELSE call[c].next]
    BY <1>3 DEF WriteFile
  <2>2. f # "active"
    BY <1>0, <1>2, <2>1, Left DEF Unused
  <2> QED
    BY <1>1, <2>1, <2>2
<1>4. CASE Activate(c)
  <2>1. CASE Leave(c) /\ UNCHANGED files
    BY <1>4, <2>1, Leaves DEF Activate
  <2>2. CASE files' = [files EXCEPT !["active"] = call[c].next] /\ Advance(c)
    <3>1. At(c, "activate", "home") /\ tx' = tx
      BY <1>4 DEF Activate
    <3>2. ActiveInv' /\ files'["active"] = call[c].next /\ Follows(files["active"], call[c].next)
      BY <1>2, <2>2, <3>1, ActivationKeeps
    <3> QED
      BY <3>2 DEF Onward, Follows
  <2> QED
    BY <1>4, <2>1, <2>2 DEF Activate
<1>5. CASE Unlink(c)
  <2>1. PICK f \in Files : /\ At(c, "unlink", f) /\ Advance(c) /\ tx' = tx
                           /\ files' = [files EXCEPT ![f] = Absent]
    BY <1>5 DEF Unlink
  <2>2. CASE f = "active"
    <3>1. ActiveInv' /\ files'["active"] = Absent
      BY <1>2, <2>1, <2>2, UnlinkingKeeps
    <3> QED
      BY <3>1 DEF Onward
  <2>3. CASE f # "active"
    BY <1>1, <2>1, <2>3
  <2> QED
    BY <2>2, <2>3
<1>6. CASE RestoreFile(c)
  <2>1. PICK f \in Files :
          /\ At(c, "back", f) /\ tx' = tx
          /\ \/ Leave(c) /\ UNCHANGED files
             \/ /\ files' = [files EXCEPT ![f] = Restored(files[f], tx.files[f], Had(f))]
                /\ Advance(c)
    BY <1>6 DEF RestoreFile
  <2>2. CASE Leave(c) /\ UNCHANGED files
    BY <2>1, <2>2, Leaves
  <2>3. CASE /\ files' = [files EXCEPT ![f] = Restored(files[f], tx.files[f], Had(f))]
             /\ Advance(c) /\ f = "active"
    <3>1. ActiveInv' /\ files'["active"] \in {Absent, Torn, files["active"]}
      BY <1>2, <2>1, <2>3, RestoringKeeps
    <3> QED
      BY <3>1 DEF Onward
  <2>4. CASE /\ files' = [files EXCEPT ![f] = Restored(files[f], tx.files[f], Had(f))]
             /\ Advance(c) /\ f # "active"
    BY <1>1, <2>1, <2>4
  <2> QED
    BY <2>1, <2>2, <2>3, <2>4
<1> QED
  BY <1>3, <1>4, <1>5, <1>6

LEMMA JournalStages ==
    ASSUME ActiveInv, IInv, InstallationAssumption, NEW c \in Callers, call[c].at = "working",
           WriteJournal(c) \/ MarkCommitted(c) \/ RemoveTransaction(c)
    PROVE  ActiveInv' /\ Onward
<1>1. Work(c) /\ files' = files
  BY DEF ActiveInv, WriteJournal, MarkCommitted, RemoveTransaction
<1>2. Onward
  BY <1>1 DEF Onward
<1>3. CASE WriteJournal(c)
  <2> DEFINE r == [op |-> call[c].op, inst |-> call[c].next.inst, gen |-> call[c].next.gen,
                   stage |-> "open",
                   had |-> IF Mutates(call[c].op) THEN {p \in Parts : parts[p] # Absent}
                           ELSE {p \in Parts : p # "shared" \/ parts[p] # Absent},
                   active |-> call[c].seen # Absent, scope |-> files["scope"] # Absent,
                   touched |-> Touched(c), web |-> call[c].web # Absent]
             S == {r.op, r.inst, r.gen, r.stage, r.had, r.active, r.scope, r.touched, r.web}
  <2>1. At(c, "journal", "home") /\ tx' = [tx EXCEPT !.journal = r] /\ Advance(c)
    BY <1>3 DEF WriteJournal
  <2>2. r \in JournalOf(S)
    BY DEF JournalOf
  <2>3. r.op = call[c].op /\ r.inst = call[c].next.inst /\ r.gen = call[c].next.gen
    OBVIOUS
  <2>4. Moves(c) /\ call'[c].next = call[c].next /\ UNCHANGED <<patch, builds>>
    BY <2>1, AdvanceMoves
  <2> HIDE DEF r, S
  <2> QED
    BY <1>1, <1>2, <2>1, <2>2, <2>3, <2>4, JournalKeeps
<1>4. CASE MarkCommitted(c)
  <2>1. At(c, "committed", "home") /\ Advance(c)
        /\ tx' = [tx EXCEPT !.journal = [tx.journal EXCEPT !.stage = "committed"]]
    BY <1>4 DEF MarkCommitted
  <2>2. <<"committed", "home">> \notin {Journal, Removal}
    BY Elsewhere
  <2>3. Recorded
    <3>1. Moves(c)
      BY <2>1, AdvanceMoves
    <3>2. Has(c, Commitment) /\ ~Has(c, Journal)
      BY <1>1, <2>1, <2>2, <3>1, Left DEF Commitment
    <3> QED
      BY <1>1, <3>2 DEF Work
  <2>4. PICK S : tx \in TxOf(S)
    BY <2>3 DEF Recorded, IsTx
  <2>5. PICK T : tx.journal \in JournalOf(T)
    BY <2>3 DEF Recorded
  <2> DEFINE j == [tx.journal EXCEPT !.stage = "committed"]
  <2>6. /\ j \in JournalOf(T \cup {"committed"})
        /\ j.op = tx.journal.op /\ j.inst = tx.journal.inst /\ j.gen = tx.journal.gen
    BY <2>5 DEF JournalOf
  <2> HIDE DEF j
  <2>7. tx' \in TxOf(S \cup {j}) /\ tx'.journal = j /\ tx'.files = tx.files
    BY <2>1, <2>4 DEF TxOf, j
  <2>8. IsTx'
    BY <2>7 DEF IsTx
  <2>9. SameJournal
    BY <2>3, <2>6, <2>7, <2>8 DEF SameJournal, Recorded
  <2>10. (\E U : files' \in [Files -> U]) /\ files'["active"] = files["active"]
    BY <1>1, FilesStay
  <2> QED
    BY <2>1, <2>2, <2>7, <2>8, <2>9, <2>10, QuietStep
<1>5. CASE RemoveTransaction(c)
  BY <1>2, <1>5, RemovalKeeps
<1> QED
  BY <1>3, <1>4, <1>5

LEMMA BuildStage ==
    ASSUME ActiveInv, IInv, InstallationAssumption, NEW c \in Callers, call[c].at = "working",
           Build(c)
    PROVE  ActiveInv' /\ Onward
<1>1. Work(c) /\ files' = files /\ tx' = tx /\ At(c, "build", "home")
  BY DEF ActiveInv, Build, disk
<1>2. CASE Leave(c)
  BY <1>1, <1>2, Leaves
<1>3. CASE ~Leave(c)
  <2> DEFINE next == [call[c].next EXCEPT !.patch = patch]
             k == [call[c] EXCEPT !.todo = Tail(call[c].todo), !.next = next]
  <2>1. call' = [call EXCEPT ![c] = k] /\ UNCHANGED <<patch, builds>>
    BY <1>3 DEF Build, bounds
  <2>2. PICK S : call \in [Callers -> AnyCall(S)]
    BY DEF IInv, Typed
  <2>3. k.todo = Tail(call[c].todo) /\ k.op = call[c].op /\ k.next = next
    BY <2>2 DEF AnyCall
  <2>4. call'[c] = k /\ \A d \in Callers \ {c} : call'[d] = call[d]
    BY <2>1, <2>2
  <2>5. Moves(c)
    BY <2>3, <2>4, OthersRest DEF Moves, Leased
  <2>6. patch \in 0..MaxEdits
    BY DEF ActiveInv, Paths
  <2>7. SameCandidate(c)
    <3>1. call[c].next \in Candidate =>
            /\ next \in Candidate
            /\ next.inst = call[c].next.inst /\ next.gen = call[c].next.gen
      BY <2>6 DEF Candidate
    <3> QED
      BY <2>3, <2>4, <3>1 DEF SameCandidate
  <2> HIDE DEF next, k
  <2>8. <<"build", "home">> \notin {Journal, Removal}
    BY Elsewhere
  <2>9. (\E U : files' \in [Files -> U]) /\ files'["active"] = files["active"]
    BY <1>1, FilesStay
  <2>10. IsTx' /\ SameJournal /\ tx'.files["active"] = tx.files["active"]
    BY <1>1 DEF Work, At, IsTx, SameJournal
  <2>11. ActiveInv'
    BY <1>1, <2>1, <2>5, <2>6, <2>7, <2>8, <2>9, <2>10, QuietKeeps
  <2> QED
    BY <2>9, <2>11 DEF Onward
<1> QED
  BY <1>2, <1>3

-----------------------------------------------------------------------------

LEMMA ActiveInit == ASSUME Init, InstallationAssumption PROVE ActiveInv
<1>1. files \in [Files -> {Absent}] /\ files["active"] = Absent
  BY DEF Init, NoFiles, Files
<1>2. patch \in 0..MaxEdits /\ builds \in 0..MaxBuilds /\ tx = Absent
  BY DEF Init, InstallationAssumption
<1>3. \A c \in Callers : call[c].todo = <<>>
  BY DEF Init, Idle
<1> QED
  BY <1>1, <1>2, <1>3, EmptyWork DEF ActiveInv, Paths

LEMMA ActiveStep ==
    ASSUME ActiveInv, IInv, InstallationAssumption, PathAssumption, [Next]_vars
    PROVE  ActiveInv' /\ Onward
<1>1. PICK S : call \in [Callers -> AnyCall(S)]
  BY DEF IInv, Typed
<1>2. ASSUME UNCHANGED <<files, tx, builds>>, patch' \in 0..MaxEdits,
             \A d \in Callers : call'[d] = call[d] \/ call'[d].todo = <<>>
      PROVE  ActiveInv' /\ Onward
  BY <1>2, FrameKeeps DEF Onward
<1>3. patch \in 0..MaxEdits
  BY DEF ActiveInv, Paths
<1>4. ASSUME NEW c \in Callers, Step(c) PROVE ActiveInv' /\ Onward
  <2>1. CASE TakeMutex(c)
    <3>1. call[c].todo = <<>>
      BY <2>1 DEF TakeMutex, Waiting, IInv, TodoOK
    <3>2. \A d \in Callers : call'[d] = call[d] \/ call'[d].todo = <<>>
      BY <1>1, <2>1, <3>1 DEF TakeMutex, Idle, AnyCall
    <3> QED
      BY <1>2, <1>3, <2>1, <3>2 DEF TakeMutex, disk, bounds
  <2>2. CASE TakeLease(c)
    <3>1. CASE Leave(c) /\ UNCHANGED disk
      BY <3>1, Leaves DEF disk
    <3>2. CASE /\ call' = [call EXCEPT ![c].at = "leased"]
               /\ UNCHANGED <<disk, patch, before, mutex, abandoned, host, bounds>>
      <4>1. call[c].todo = <<>>
        BY <2>2 DEF TakeLease, IInv, TodoOK
      <4>2. \A d \in Callers : call'[d] = call[d] \/ call'[d].todo = <<>>
        BY <1>1, <3>2, <4>1 DEF AnyCall
      <4> QED
        BY <1>2, <1>3, <3>2, <4>2 DEF disk, bounds
    <3> QED
      BY <2>2, <3>1, <3>2 DEF TakeLease
  <2>3. CASE MutexTimeout(c) \/ Refuse(c)
    BY <2>3, Leaves DEF MutexTimeout, Refuse, disk
  <2>4. ASSUME NEW v \in Versions, Begin(c, v) PROVE ActiveInv' /\ Onward
    BY <2>4, BeginsKeep DEF Begin, Onward
  <2>5. CASE Recover(c)
    BY <2>5, RecoversKeep DEF Recover, disk, Onward
  <2>6. CASE Stage(c)
    <3>1. call[c].at = "working"
      BY <2>6, StageWorks
    <3> QED
      BY <2>6, <3>1, PartStages, CopyStages, FileStages, JournalStages, BuildStage DEF Stage
  <2> QED
    BY <1>4, <2>1, <2>2, <2>3, <2>4, <2>5, <2>6 DEF Step, Stage
<1>5. ASSUME NEW c \in Callers, Interrupt(c) PROVE ActiveInv' /\ Onward
  <2>1. \A d \in Callers : call'[d] = call[d] \/ call'[d].todo = <<>>
    BY <1>1, <1>5 DEF Interrupt, Released, Idle
  <2> QED
    BY <1>2, <1>3, <1>5, <2>1 DEF Interrupt, disk
<1>6. ASSUME NEW c \in Callers, NEW op \in Operations, Start(c, op) PROVE ActiveInv' /\ Onward
  <2>1. \A d \in Callers : call'[d] = call[d] \/ call'[d].todo = <<>>
    BY <1>1, <1>6 DEF Start, Idle
  <2> QED
    BY <1>2, <1>3, <1>6, <2>1 DEF Start, disk, bounds
<1>7. ASSUME NEW h \in Hosts, Admit(h) \/ HostLease(h) \/ Stop(h) PROVE ActiveInv' /\ Onward
  BY <1>2, <1>3, <1>7 DEF Admit, HostLease, Stop, disk, bounds
<1>8. CASE Edit
  <2>1. patch' \in 0..MaxEdits
    BY <1>3, <1>8 DEF Edit
  <2> QED
    BY <1>2, <1>8, <2>1 DEF Edit
<1>9. CASE UNCHANGED vars
  BY <1>2, <1>3, <1>9 DEF vars, disk, bounds
<1> QED
  BY <1>4, <1>5, <1>6, <1>7, <1>8, <1>9 DEF Next

(* The invariant of the activation record, its backup and its journal. *)
THEOREM ActiveInvariance == Spec => []ActiveInv
<1>1. Init => ActiveInv
  BY ActiveInit, InstallationAssumption
<1>2. ActiveInv /\ IInv /\ [Next]_vars => ActiveInv'
  BY ActiveStep, InstallationAssumption, PathAssumption
<1> QED
  BY <1>1, <1>2, Invariance, PTL DEF Spec

(* The installation Hosts are admitted to never goes back, whatever is interrupted
   and recovered: ActivationNeverGoesBack. *)
THEOREM ActivationOnward == Spec => ActivationNeverGoesBack
<1>1. ActiveInv /\ IInv /\ [Next]_vars => [Onward]_vars
  BY ActiveStep, InstallationAssumption, PathAssumption
<1>2. [Onward]_vars => [LET old == files["active"]  new == files'["active"] IN
       new # old /\ new # Torn /\ old # Torn =>
           \/ new = Absent
           \/ old = Absent /\ new.gen = 1
           \/ old # Absent /\ new.inst = old.inst /\ new.gen = old.gen + 1]_vars
  BY DEF Onward
<1> QED
  BY <1>1, <1>2, Invariance, ActiveInvariance, PTL DEF Spec, ActivationNeverGoesBack
=============================================================================
