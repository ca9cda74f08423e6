------------------------- MODULE ProjectStoreProofs -------------------------
(***************************************************************************)
(* Proofs about ProjectStore, for any callers, processes and bounds.  The   *)
(* inductive invariant ties the call that runs to the files: at most one    *)
(* call is past the mutex, and what it read is what the log still says.     *)
(***************************************************************************)
EXTENDS ProjectStore, SequenceTheorems, TLAPS

-----------------------------------------------------------------------------
(* The inductive invariant *)

\* The state file the first n events lead to.
Prefix(log, n) == Rebuilt(SubSeq(log, 1, n))

\* A chain holds distinct calls of its own process; only its head can be running.
ChainOK ==
    \A p \in Procs : \A i \in 1..Len(chain[p]) :
        /\ ProcOf[chain[p][i]] = p
        /\ pc[chain[p][i]] # "idle"
        /\ i > 1 => pc[chain[p][i]] = "waiting"
        /\ \A j \in 1..Len(chain[p]) : chain[p][i] = chain[p][j] => i = j

\* A call past the mutex runs in its owner and is the head of its chain.
HoldingOK ==
    \A c \in Clients : pc[c] \in Holding => owner = ProcOf[c] /\ IsHead(c)

\* Where each kind of request can be.
RequestOK ==
    \A c \in Clients :
        /\ pc[c] = "check" => request[c] = "create"
        /\ pc[c] \in {"scan", "rebuild", "sweep", "decide"} => request[c] # "create"
        /\ pc[c] \in {"decide", "append", "publish"} => request[c] # "recover"
        /\ pc[c] = "append" => request[c] # "load"
        /\ request[c] = "recover" /\ pc[c] \in {"scan", "rebuild", "sweep"} => recovering[c]
        /\ request[c] = "commit" /\ pc[c] # "idle" => seen[c] # NoState
        /\ pc[c] \notin Holding => current[c] = NoState
        /\ pc[c] = "check" => current[c] = NoState
        /\ pc[c] # "release" => outcome[c] = "none"

\* What a running call has read is what the files say.
CurrentOK ==
    \A c \in Clients :
        /\ pc[c] \in {"rebuild", "decide", "append", "publish"} => tail # "torn"
        /\ pc[c] \in {"rebuild", "decide", "publish"} => events # <<>>
        /\ pc[c] \in {"decide", "publish"} => current[c] = Rebuilt(events)
        /\ pc[c] = "append" /\ request[c] = "create" =>
              events = <<>> /\ current[c] = NoState
        /\ pc[c] = "append" /\ request[c] # "create" =>
              events # <<>> /\ current[c] = Rebuilt(events)
        /\ pc[c] = "append" /\ request[c] = "commit" =>
              seen[c].generation = current[c].generation
        /\ pc[c] = "release" /\ outcome[c] = "ok" /\ request[c] # "recover" =>
              events # <<>> /\ current[c] = Rebuilt(events)

IInv ==
    /\ TypeOK
    /\ ChainOK
    /\ HoldingOK
    /\ RequestOK
    /\ LogReadable
    /\ SnapshotTrailsLog
    /\ ReturnedStatesPersist
    /\ CurrentOK
    /\ NoFalseCorruption
-----------------------------------------------------------------------------
(* The reducer, the log and the prefixes of the log *)

LEMMA RebuiltType ==
    ASSUME NEW log \in Seq(Event), log # <<>>
    PROVE  Rebuilt(log) \in StateFile
<1>1. Len(log) \in Positive /\ log[Len(log)] \in Event  BY DEF Positive
<1>2. Replay(log) \in Seq(Nat)
  <2>0. Len(log) \in Nat /\ \A i \in 1..Len(log) : log[i] \in Event  OBVIOUS
  <2>1. \A i \in 1..Len(log) : log[i].hash \in Nat  BY <2>0 DEF Event, Positive
  <2>2. Replay(log) \in [1..Len(log) -> Nat]  BY <2>1 DEF Replay
  <2> QED  BY <2>0, <2>2, SeqDef
<1> QED  BY <1>1, <1>2 DEF Rebuilt, StateFile, Event

\* A prefix of the log, written out.
LEMMA PrefixValue ==
    ASSUME NEW log \in Seq(Event), NEW n \in 1..Len(log)
    PROVE  Prefix(log, n) =
             [generation |-> n, lastEventSeq |-> log[n].seq, lastEventHash |-> log[n].hash,
              state |-> [i \in 1..n |-> log[i].hash]]
<1>1. /\ Len(SubSeq(log, 1, n)) = n
      /\ \A i \in 1..n : SubSeq(log, 1, n)[i] = log[i]
  OBVIOUS
<1>2. Replay(SubSeq(log, 1, n)) = [i \in 1..n |-> log[i].hash]  BY <1>1 DEF Replay
<1>3. n \in 1..n  OBVIOUS
<1> QED  BY <1>1, <1>2, <1>3 DEF Prefix, Rebuilt

LEMMA PrefixFull ==
    ASSUME NEW log \in Seq(Event), log # <<>>
    PROVE  Len(log) \in 1..Len(log) /\ Prefix(log, Len(log)) = Rebuilt(log)
<1>1. Len(log) \in 1..Len(log)  OBVIOUS
<1> QED  BY <1>1, PrefixValue DEF Rebuilt, Replay

\* Appending an event leaves every earlier prefix as it was.
LEMMA PrefixAppend ==
    ASSUME NEW log \in Seq(Event), NEW e \in Event, NEW n \in 1..Len(log)
    PROVE  n \in 1..Len(Append(log, e)) /\ Prefix(Append(log, e), n) = Prefix(log, n)
<1>1. /\ Append(log, e) \in Seq(Event) /\ n \in 1..Len(Append(log, e))
      /\ \A i \in 1..n : Append(log, e)[i] = log[i]
  OBVIOUS
<1>2. Prefix(Append(log, e), n) =
        [generation |-> n, lastEventSeq |-> Append(log, e)[n].seq,
         lastEventHash |-> Append(log, e)[n].hash,
         state |-> [i \in 1..n |-> Append(log, e)[i].hash]]
  BY <1>1, PrefixValue
<1>3. [i \in 1..n |-> Append(log, e)[i].hash] = [i \in 1..n |-> log[i].hash]  BY <1>1
<1> QED  BY <1>1, <1>2, <1>3, PrefixValue

LEMMA NewEventType ==
    ASSUME NEW base \in StateFile \cup {NoState}, minted \in Nat
    PROVE  NewEvent(base) \in Event
BY DEF NewEvent, StateFile, Event, Positive

\* commitLocked: reducing the new event onto the state read from the log gives the
\* state the longer log leads to, and the longer log is still chained.
LEMMA CommitStep ==
    ASSUME NEW log \in Seq(Event), Chained(log), minted \in Nat,
           NEW base \in StateFile \cup {NoState},
           \/ log = <<>> /\ base = NoState
           \/ log # <<>> /\ base = Rebuilt(log)
    PROVE  LET longer == Append(log, NewEvent(base))
           IN  /\ longer \in Seq(Event) /\ longer # <<>>
               /\ Chained(longer)
               /\ Reduced(base, NewEvent(base)) = Rebuilt(longer)
<1> DEFINE e == NewEvent(base)
<1> DEFINE longer == Append(log, e)
<1>1. e \in Event  BY NewEventType
<1> HIDE DEF e
<1>a. longer \in Seq(Event) /\ Len(longer) = Len(log) + 1 /\ Len(log) \in Nat
  BY <1>1
<1>b. longer # <<>>
  <2> HIDE DEF longer
  <2> QED  BY <1>a
<1>2. /\ longer \in Seq(Event) /\ longer # <<>> /\ Len(longer) = Len(log) + 1
      /\ \A i \in 1..Len(log) : longer[i] = log[i]
      /\ longer[Len(log) + 1] = e
  BY <1>1, <1>a, <1>b
<1>3. CASE log = <<>> /\ base = NoState
  <2>1. e.seq = 1 /\ e.previousHash = 0  BY <1>3 DEF e, NewEvent
  <2>2. Chained(longer)  BY <1>2, <1>3, <2>1 DEF Chained
  <2>3. Rebuilt(longer) = Reduced(base, e)
    <3>1. Len(longer) = 1 /\ longer[1] = e  BY <1>2, <1>3
    <3>2. Replay(longer) = <<e.hash>>  BY <3>1 DEF Replay
    <3> QED  BY <3>1, <3>2, <1>3 DEF Rebuilt, Reduced
  <2> QED  BY <1>2, <2>2, <2>3 DEF e
<1>4. CASE log # <<>> /\ base = Rebuilt(log)
  <2>1. base \in StateFile /\ base # NoState  BY <1>4, RebuiltType, NoStateAssumption
  <2>2. /\ base.generation = Len(log) /\ base.lastEventSeq = log[Len(log)].seq
        /\ base.lastEventHash = log[Len(log)].hash /\ base.state = Replay(log)
    BY <1>4 DEF Rebuilt
  <2>3. log[Len(log)].seq = Len(log)  BY <1>4 DEF Chained
  <2>4. e.seq = Len(log) + 1 /\ e.previousHash = log[Len(log)].hash
    BY <2>1, <2>2, <2>3 DEF e, NewEvent
  <2>5. Chained(longer)
    <3> SUFFICES ASSUME NEW i \in 1..Len(longer)
                 PROVE  /\ longer[i].seq = i
                        /\ longer[i].previousHash = IF i = 1 THEN 0 ELSE longer[i-1].hash
      BY DEF Chained
    <3>1. CASE i \in 1..Len(log)  BY <3>1, <1>2 DEF Chained
    <3>2. CASE i = Len(log) + 1  BY <3>2, <1>2, <1>4, <2>4
    <3> QED  BY <3>1, <3>2, <1>2
  <2>6. Replay(longer) = Append(Replay(log), e.hash)
    <3>1. Replay(log) \in Seq(Nat) /\ Len(Replay(log)) = Len(log)
      BY <2>1, <2>2 DEF StateFile, Replay
    <3>2. e.hash \in Nat  BY <1>1 DEF Event, Positive
    <3>3. \A i \in 1..Len(log) + 1 : Replay(longer)[i] = Append(Replay(log), e.hash)[i]
      BY <3>1, <3>2, <1>2 DEF Replay
    <3>4. Len(Append(Replay(log), e.hash)) = Len(log) + 1  BY <3>1, <3>2
    <3>5. /\ Append(Replay(log), e.hash) \in Seq(Nat) /\ Replay(longer) \in Seq(Nat)
          /\ Len(Replay(longer)) = Len(log) + 1
      BY <3>1, <3>2, <1>2, RebuiltType DEF Rebuilt, StateFile, Replay
    <3> QED  BY <3>3, <3>4, <3>5, SeqEqual
  <2>7. Reduced(base, e) = Rebuilt(longer)
    BY <2>1, <2>2, <2>4, <2>6, <1>2 DEF Reduced, Rebuilt
  <2> QED  BY <1>2, <2>5, <2>7 DEF e
<1> QED  BY <1>3, <1>4

-----------------------------------------------------------------------------
(* The calls past the mutex *)

\* The steps of a call that has the mutex and keeps it.
Work(c) ==
    \/ Scan(c) \/ Rebuild(c) \/ RebuildFails(c) \/ Sweep(c) \/ SweepFails(c)
    \/ Check(c) \/ Decide(c)
    \/ AppendEvent(c) \/ AppendFails(c) \/ Publish(c) \/ PublishFails(c)

\* Mutual exclusion: the mutex between processes and the chain within one leave
\* at most one call past the mutex.
LEMMA OneHolder ==
    ASSUME TypeOK, HoldingOK, NEW c \in Clients, NEW d \in Clients,
           pc[c] \in Holding, pc[d] \in Holding
    PROVE  c = d
BY DEF HoldingOK, IsHead

\* A working call leaves the locks and every other call alone.
LEMMA WorkFrame ==
    ASSUME TypeOK, NEW c \in Clients, Work(c)
    PROVE  /\ UNCHANGED <<locks, request, seen, crashes>>
           /\ pc[c] \in Holding /\ pc'[c] \in Holding /\ pc'[c] # "check"
           /\ pc' \in [Clients -> Holding \cup {"idle", "waiting"}]
           /\ outcome' \in [Clients -> Outcomes]
           /\ recovering' \in [Clients -> BOOLEAN]
           /\ \A d \in Clients \ {c} :
                 /\ pc'[d] = pc[d] /\ current'[d] = current[d]
                 /\ outcome'[d] = outcome[d] /\ recovering'[d] = recovering[d]
<1> USE DEF TypeOK, Holding, Outcomes, Finish, AfterScan
<1>1. CASE Scan(c)
  <2>1. /\ UNCHANGED <<locks, request, recovering, seen, crashes>> /\ pc[c] = "scan"
    BY <1>1 DEF Scan
  <2>2. \E q \in {"release", "rebuild", "sweep", "decide"} : pc' = [pc EXCEPT ![c] = q]
    BY <1>1 DEF Scan
  <2>3. \E o \in Outcomes : outcome' = [outcome EXCEPT ![c] = o]
    BY <1>1 DEF Scan
  <2>4. current' = current \/ current' = [current EXCEPT ![c] = snapshot]
    BY <1>1 DEF Scan
  <2> QED  BY <2>1, <2>2, <2>3, <2>4
<1>2. CASE Rebuild(c)  BY <1>2 DEF Rebuild
<1>3. CASE RebuildFails(c)  BY <1>3 DEF RebuildFails
<1>4. CASE Sweep(c)  BY <1>4 DEF Sweep
<1>5. CASE SweepFails(c)  BY <1>5 DEF SweepFails
<1>6. CASE Check(c)  BY <1>6 DEF Check
<1>7. CASE Decide(c)  BY <1>7 DEF Decide
<1>8. CASE AppendEvent(c)  BY <1>8 DEF AppendEvent
<1>9. CASE AppendFails(c)  BY <1>9 DEF AppendFails
<1>10. CASE Publish(c)  BY <1>10 DEF Publish
<1>11. CASE PublishFails(c)  BY <1>11 DEF PublishFails
<1> QED
  BY <1>1, <1>2, <1>3, <1>4, <1>5, <1>6, <1>7, <1>8, <1>9, <1>10, <1>11 DEF Work

LEMMA WorkLocks ==
    ASSUME TypeOK, ChainOK, HoldingOK, NEW c \in Clients, Work(c)
    PROVE  ChainOK' /\ HoldingOK'
<1>1. /\ UNCHANGED locks /\ pc[c] \in Holding /\ pc'[c] \in Holding
      /\ \A d \in Clients \ {c} : pc'[d] = pc[d]
  BY WorkFrame
<1>2. /\ owner' = owner /\ chain' = chain  BY <1>1 DEF locks
<1>3. /\ \A d \in Clients : (pc'[d] \in Holding) <=> (pc[d] \in Holding)
      /\ \A d \in Clients : (pc'[d] = "idle") <=> (pc[d] = "idle")
      /\ \A d \in Clients : (pc'[d] = "waiting") <=> (pc[d] = "waiting")
  BY <1>1 DEF Holding
<1>4. \A p \in Procs : \A i \in 1..Len(chain[p]) : chain[p][i] \in Clients
  BY DEF TypeOK
<1>5. ChainOK'  BY <1>2, <1>3, <1>4 DEF ChainOK
<1>6. HoldingOK'  BY <1>2, <1>3 DEF HoldingOK, IsHead
<1> QED  BY <1>5, <1>6

\* Whoever heads a chain, the rest of the chain is waiting behind it.
LEMMA ChainTail ==
    ASSUME TypeOK, ChainOK, NEW p \in Procs, chain[p] # <<>>
    PROVE  /\ Tail(chain[p]) \in Seq(Clients)
           /\ Len(Tail(chain[p])) = Len(chain[p]) - 1
           /\ \A i \in 1..Len(Tail(chain[p])) :
                 /\ i + 1 \in 1..Len(chain[p])
                 /\ Tail(chain[p])[i] = chain[p][i+1]
                 /\ Tail(chain[p])[i] \in Clients
                 /\ Tail(chain[p])[i] # Head(chain[p])
                 /\ pc[Tail(chain[p])[i]] = "waiting"
<1>1. chain[p] \in Seq(Clients)  BY DEF TypeOK
<1>2. /\ Tail(chain[p]) \in Seq(Clients) /\ Len(Tail(chain[p])) = Len(chain[p]) - 1
      /\ Head(chain[p]) = chain[p][1] /\ 1 \in 1..Len(chain[p])
      /\ Len(chain[p]) \in Nat
  BY <1>1
<1>3. \A i \in 1..Len(Tail(chain[p])) :
        i + 1 \in 1..Len(chain[p]) /\ Tail(chain[p])[i] = chain[p][i+1]
                                   /\ chain[p][i+1] \in Clients
  BY <1>1, <1>2
<1>4. \A i \in 1..Len(Tail(chain[p])) :
        pc[chain[p][i+1]] = "waiting" /\ chain[p][i+1] # chain[p][1]
  BY <1>2, <1>3 DEF ChainOK
<1> QED  BY <1>2, <1>3, <1>4

\* The head leaves its chain and becomes idle: the others keep their places.
LEMMA LeaveChain ==
    ASSUME TypeOK, ChainOK, NEW c \in Clients, IsHead(c),
           chain' = [chain EXCEPT ![ProcOf[c]] = Tail(@)],
           pc' = [pc EXCEPT ![c] = "idle"]
    PROVE  ChainOK'
<1> DEFINE q == ProcOf[c]
<1>0. q \in Procs  BY StoreAssumption
<1>1. chain[q] # <<>> /\ Head(chain[q]) = c  BY DEF IsHead
<1>2. chain'[q] = Tail(chain[q]) /\ \A p \in Procs \ {q} : chain'[p] = chain[p]
  BY <1>0 DEF TypeOK
<1>3. \A d \in Clients \ {c} : pc'[d] = pc[d]  BY DEF TypeOK
<1> SUFFICES ASSUME NEW p \in Procs, NEW i \in 1..Len(chain'[p])
             PROVE  /\ ProcOf[chain'[p][i]] = p
                    /\ pc'[chain'[p][i]] # "idle"
                    /\ i > 1 => pc'[chain'[p][i]] = "waiting"
                    /\ \A j \in 1..Len(chain'[p]) : chain'[p][i] = chain'[p][j] => i = j
  BY DEF ChainOK
<1>4. CASE p = q
  <2>0. chain'[p] = Tail(chain[q]) /\ i \in 1..Len(Tail(chain[q]))  BY <1>2, <1>4
  <2>1. /\ Tail(chain[q])[i] = chain[q][i+1] /\ i + 1 \in 1..Len(chain[q])
        /\ Tail(chain[q])[i] \in Clients \ {c} /\ pc[Tail(chain[q])[i]] = "waiting"
    <3> HIDE DEF q
    <3> QED  BY <1>0, <1>1, <2>0, ChainTail
  <2>2. \A j \in 1..Len(Tail(chain[q])) :
          Tail(chain[q])[j] = chain[q][j+1] /\ j + 1 \in 1..Len(chain[q])
    BY <1>0, <1>1, ChainTail
  <2>3. \A j \in 1..Len(Tail(chain[q])) :
          chain[q][i+1] = chain[q][j+1] => i + 1 = j + 1
    BY <2>1, <2>2, <1>0 DEF ChainOK
  <2>4. ProcOf[chain[q][i+1]] = q  BY <1>0, <2>1 DEF ChainOK
  <2>5. pc'[Tail(chain[q])[i]] = "waiting"  BY <1>3, <2>1
  <2>6. \A j \in 1..Len(Tail(chain[q])) : Tail(chain[q])[i] = Tail(chain[q])[j] => i = j
    <3> SUFFICES ASSUME NEW j \in 1..Len(Tail(chain[q])), Tail(chain[q])[i] = Tail(chain[q])[j]
                 PROVE  i = j
      OBVIOUS
    <3>1. chain[q][i+1] = chain[q][j+1]  BY <2>1, <2>2
    <3>2. i + 1 = j + 1  BY <3>1, <2>3
    <3>3. i \in Int /\ j \in Int  OBVIOUS
    <3> HIDE DEF q
    <3> QED  BY <3>2, <3>3
  <2> HIDE DEF q
  <2>7. ProcOf[chain'[p][i]] = p /\ pc'[chain'[p][i]] = "waiting"
    BY <1>4, <2>0, <2>1, <2>4, <2>5
  <2> QED  BY <2>0, <2>6, <2>7
<1>5. CASE p # q
  <2>1. chain'[p] = chain[p] /\ chain[p] \in Seq(Clients)  BY <1>2, <1>5 DEF TypeOK
  <2>2. chain[p][i] \in Clients /\ ProcOf[chain[p][i]] = p  BY <2>1 DEF ChainOK
  <2>3. chain[p][i] # c  BY <2>2, <1>5
  <2>4. i \in 1..Len(chain[p]) /\ pc'[chain[p][i]] = pc[chain[p][i]]
    BY <2>1, <2>2, <2>3, <1>3
  <2>5. /\ ProcOf[chain[p][i]] = p /\ pc[chain[p][i]] # "idle"
        /\ i > 1 => pc[chain[p][i]] = "waiting"
        /\ \A j \in 1..Len(chain[p]) : chain[p][i] = chain[p][j] => i = j
    <3> HIDE DEF q
    <3> QED  BY <2>4 DEF ChainOK
  <2> QED  BY <2>1, <2>4, <2>5
<1> QED  BY <1>4, <1>5

LEMMA AcquireLocks ==
    ASSUME TypeOK, ChainOK, HoldingOK, NEW c \in Clients, Acquire(c)
    PROVE  /\ ChainOK' /\ HoldingOK'
           /\ \A d \in Clients : pc[d] \notin Holding
<1> USE DEF TypeOK
<1>1. /\ pc[c] = "waiting" /\ IsHead(c) /\ owner \in {NoProc, ProcOf[c]}
      /\ owner' = ProcOf[c] /\ chain' = chain
      /\ pc'[c] \in {"check", "scan"} /\ \A d \in Clients \ {c} : pc'[d] = pc[d]
  BY DEF Acquire, MutexFree
<1>2. ASSUME NEW d \in Clients, pc[d] \in Holding PROVE FALSE
  <2>1. owner = ProcOf[d] /\ IsHead(d) /\ owner # NoProc
    BY <1>2, StoreAssumption DEF HoldingOK
  <2>2. d = c  BY <2>1, <1>1 DEF IsHead
  <2> QED  BY <2>2, <1>1, <1>2 DEF Holding
<1>3. HoldingOK'  BY <1>1, <1>2 DEF HoldingOK, IsHead
<1>4. ChainOK'
  <2>1. \A p \in Procs : \A i \in 1..Len(chain[p]) :
          i > 1 => chain[p][i] # c
    <3> SUFFICES ASSUME NEW p \in Procs, NEW i \in 1..Len(chain[p]), i > 1, chain[p][i] = c
                 PROVE  FALSE
      OBVIOUS
    <3>1. p = ProcOf[c]  BY DEF ChainOK
    <3>2. chain[p] \in Seq(Clients)  OBVIOUS
    <3>3. chain[p][1] = c /\ 1 \in 1..Len(chain[p])  BY <1>1, <3>1, <3>2 DEF IsHead
    <3>4. \A j \in 1..Len(chain[p]) : chain[p][i] = chain[p][j] => i = j
      <4> HIDE DEF TypeOK
      <4> QED  BY DEF ChainOK
    <3>5. chain[p][i] = chain[p][1]  BY <3>3
    <3>6. i = 1
      <4> HIDE DEF TypeOK, ChainOK
      <4> QED  BY <3>3, <3>4, <3>5, Zenon
    <3> QED  BY <3>6
  <2>2. \A p \in Procs : \A i \in 1..Len(chain[p]) : chain[p][i] \in Clients  OBVIOUS
  <2> QED  BY <1>1, <2>1, <2>2 DEF ChainOK
<1> QED  BY <1>2, <1>3, <1>4

LEMMA SubmitLocks ==
    ASSUME TypeOK, ChainOK, HoldingOK, NEW c \in Clients, NEW r \in Requests, Submit(c, r)
    PROVE  ChainOK' /\ HoldingOK'
<1> DEFINE q == ProcOf[c]
<1>0. q \in Procs /\ chain[q] \in Seq(Clients)  BY StoreAssumption DEF TypeOK
<1>1. /\ pc[c] = "idle" /\ owner' = owner
      /\ chain'[q] = Append(chain[q], c) /\ \A p \in Procs \ {q} : chain'[p] = chain[p]
      /\ pc'[c] = "waiting" /\ \A d \in Clients \ {c} : pc'[d] = pc[d]
  BY <1>0 DEF Submit, TypeOK
<1>2. \A p \in Procs : \A i \in 1..Len(chain[p]) : chain[p][i] \in Clients \ {c}
  BY <1>1 DEF ChainOK, TypeOK
<1> HIDE DEF q
<1>3. HoldingOK'
  <2> SUFFICES ASSUME NEW d \in Clients, pc'[d] \in Holding
               PROVE  owner' = ProcOf[d] /\ IsHead(d)'
    BY DEF HoldingOK
  <2>1. d # c /\ pc[d] \in Holding  BY <1>1 DEF Holding
  <2>2. owner = ProcOf[d] /\ chain[ProcOf[d]] # <<>> /\ Head(chain[ProcOf[d]]) = d
    BY <2>1 DEF HoldingOK, IsHead
  <2>3. ProcOf[d] \in Procs  BY StoreAssumption
  <2>4. CASE ProcOf[d] = q
    <3>1. /\ Append(chain[q], c) # <<>> /\ Head(Append(chain[q], c)) = Head(chain[q])
      BY <1>0, <2>2, <2>4
    <3> QED  BY <3>1, <2>2, <2>4, <1>1 DEF IsHead
  <2>5. CASE ProcOf[d] # q  BY <2>5, <2>2, <2>3, <1>1 DEF IsHead
  <2> QED  BY <2>4, <2>5
<1>4. ChainOK'
  <2> SUFFICES ASSUME NEW p \in Procs, NEW i \in 1..Len(chain'[p])
               PROVE  /\ ProcOf[chain'[p][i]] = p
                      /\ pc'[chain'[p][i]] # "idle"
                      /\ i > 1 => pc'[chain'[p][i]] = "waiting"
                      /\ \A j \in 1..Len(chain'[p]) : chain'[p][i] = chain'[p][j] => i = j
    BY DEF ChainOK
  <2>1. CASE p # q
    <3>1. chain'[p] = chain[p] /\ i \in 1..Len(chain[p])  BY <2>1, <1>1
    <3>2. pc'[chain[p][i]] = pc[chain[p][i]]  BY <3>1, <1>1, <1>2
    <3>3. /\ ProcOf[chain[p][i]] = p /\ pc[chain[p][i]] # "idle"
          /\ i > 1 => pc[chain[p][i]] = "waiting"
          /\ \A j \in 1..Len(chain[p]) : chain[p][i] = chain[p][j] => i = j
      BY <3>1 DEF ChainOK
    <3> QED  BY <3>1, <3>2, <3>3
  <2>2. CASE p = q
    <3> DEFINE n == Len(chain[q])
    <3>1. /\ n \in Nat /\ Len(chain'[q]) = n + 1 /\ chain'[q][n+1] = c
          /\ \A j \in 1..n : chain'[q][j] = chain[q][j]
      BY <1>0, <1>1
    <3>a. \A j \in 1..n : chain[q][j] \in Clients \ {c}  BY <1>0, <1>2
    <3>2. \A j \in 1..n :
            /\ ProcOf[chain[q][j]] = q /\ pc[chain[q][j]] # "idle"
            /\ j > 1 => pc[chain[q][j]] = "waiting"
      BY <1>0 DEF ChainOK
    <3>b. \A j, k \in 1..n : chain[q][j] = chain[q][k] => j = k
      BY <1>0 DEF ChainOK
    <3>3. \A j \in 1..n : pc'[chain[q][j]] = pc[chain[q][j]]
      <4> HIDE DEF n
      <4> QED  BY <3>a, <1>1
    <3>4. ProcOf[c] = q  BY DEF q
    <3> HIDE DEF n
    <3>5. CASE i \in 1..n
      <4>1. /\ ProcOf[chain'[p][i]] = p /\ pc'[chain'[p][i]] # "idle"
            /\ i > 1 => pc'[chain'[p][i]] = "waiting"
        <5>1. chain'[p][i] = chain[q][i]  BY <2>2, <3>1, <3>5
        <5>2. pc'[chain[q][i]] = pc[chain[q][i]]  BY <3>3, <3>5
        <5>3. /\ ProcOf[chain[q][i]] = q /\ pc[chain[q][i]] # "idle"
              /\ i > 1 => pc[chain[q][i]] = "waiting"
          BY <3>2, <3>5
        <5> QED  BY <5>1, <5>2, <5>3, <2>2
      <4>2. \A j \in 1..Len(chain'[p]) : chain'[p][i] = chain'[p][j] => i = j
        <5> SUFFICES ASSUME NEW j \in 1..n+1, chain'[q][i] = chain'[q][j] PROVE i = j
          BY <2>2, <3>1
        <5>1. CASE j \in 1..n  BY <5>1, <3>1, <3>b, <3>5
        <5>2. CASE j = n + 1  BY <5>2, <3>1, <3>a, <3>5
        <5> QED  BY <5>1, <5>2, <3>1
      <4> QED  BY <4>1, <4>2
    <3>6. CASE i = n + 1
      <4>1. ProcOf[chain'[p][i]] = p /\ pc'[chain'[p][i]] = "waiting"
        BY <2>2, <3>1, <3>4, <3>6, <1>1
      <4>2. \A j \in 1..Len(chain'[p]) : chain'[p][i] = chain'[p][j] => i = j
        <5> SUFFICES ASSUME NEW j \in 1..n+1, chain'[q][j] = c PROVE j = n + 1
          BY <2>2, <3>1, <3>6
        <5>1. CASE j \in 1..n  BY <5>1, <3>1, <3>a
        <5> QED  BY <5>1, <3>1
      <4> QED  BY <4>1, <4>2
    <3> QED  BY <2>2, <3>1, <3>5, <3>6
  <2> QED  BY <2>1, <2>2
<1> QED  BY <1>3, <1>4

\* The head of a chain leaves: nobody else was past the mutex in its process.
LEMMA LeaveHolding ==
    ASSUME TypeOK, ChainOK, HoldingOK, NEW c \in Clients, IsHead(c),
           chain' = [chain EXCEPT ![ProcOf[c]] = Tail(@)],
           pc' = [pc EXCEPT ![c] = "idle"],
           \/ owner' = NoProc /\ pc[c] \in Holding
           \/ owner' = owner /\ pc[c] = "waiting"
    PROVE  HoldingOK'
<1>1. pc'[c] = "idle" /\ \A d \in Clients \ {c} : pc'[d] = pc[d]  BY DEF TypeOK
<1> SUFFICES ASSUME NEW d \in Clients, pc'[d] \in Holding
             PROVE  owner' = ProcOf[d] /\ IsHead(d)'
  BY DEF HoldingOK
<1>2. d # c /\ pc[d] \in Holding  BY <1>1 DEF Holding
<1>3. owner = ProcOf[d] /\ IsHead(d)  BY <1>2 DEF HoldingOK
<1>4. ProcOf[d] # ProcOf[c]  BY <1>2, <1>3 DEF IsHead
<1>5. owner' = owner  BY <1>2, OneHolder
<1>6. chain'[ProcOf[d]] = chain[ProcOf[d]]  BY <1>4, StoreAssumption DEF TypeOK
<1> QED  BY <1>3, <1>5, <1>6 DEF IsHead

LEMMA CrashLocks ==
    ASSUME TypeOK, ChainOK, HoldingOK, NEW p \in Procs, Crash(p)
    PROVE  ChainOK' /\ HoldingOK'
<1>1. /\ chain'[p] = <<>> /\ \A q \in Procs \ {p} : chain'[q] = chain[q]
      /\ \A c \in Clients : pc'[c] = IF ProcOf[c] = p THEN "idle" ELSE pc[c]
      /\ owner # p => owner' = owner
  BY DEF Crash, TypeOK
<1>2. ChainOK'
  <2>1. Len(chain'[p]) = 0  BY <1>1
  <2>2. \A q \in Procs \ {p} : \A i \in 1..Len(chain[q]) :
          chain[q][i] \in Clients /\ ProcOf[chain[q][i]] = q
    BY DEF ChainOK, TypeOK
  <2>3. \A q \in Procs \ {p} : \A i \in 1..Len(chain[q]) :
          pc'[chain[q][i]] = pc[chain[q][i]]
    BY <1>1, <2>2
  <2>4. ASSUME NEW q \in Procs, q # p, NEW i \in 1..Len(chain'[q])
        PROVE  /\ ProcOf[chain'[q][i]] = q /\ pc'[chain'[q][i]] # "idle"
               /\ i > 1 => pc'[chain'[q][i]] = "waiting"
               /\ \A j \in 1..Len(chain'[q]) : chain'[q][i] = chain'[q][j] => i = j
    BY <1>1, <2>3, <2>4 DEF ChainOK
  <2>5. ASSUME NEW i \in 1..Len(chain'[p]) PROVE FALSE  BY <2>1
  <2> QED  BY <2>4, <2>5 DEF ChainOK
<1>3. HoldingOK'
  <2> SUFFICES ASSUME NEW d \in Clients, pc'[d] \in Holding
               PROVE  owner' = ProcOf[d] /\ IsHead(d)'
    BY DEF HoldingOK
  <2>1. ProcOf[d] # p /\ pc[d] \in Holding  BY <1>1 DEF Holding
  <2>2. owner = ProcOf[d] /\ IsHead(d) /\ ProcOf[d] \in Procs
    BY <2>1, StoreAssumption DEF HoldingOK
  <2> QED  BY <1>1, <2>1, <2>2 DEF IsHead
<1> QED  BY <1>2, <1>3

LEMMA StepLocks ==
    ASSUME TypeOK, ChainOK, HoldingOK, [Next]_vars
    PROVE  ChainOK' /\ HoldingOK'
<1>1. CASE UNCHANGED vars
  BY <1>1 DEF vars, locks, calls, ChainOK, HoldingOK, IsHead
<1>2. ASSUME NEW c \in Clients, NEW r \in Requests, Submit(c, r) PROVE ChainOK' /\ HoldingOK'
  BY <1>2, SubmitLocks
<1>3. ASSUME NEW c \in Clients, Acquire(c) PROVE ChainOK' /\ HoldingOK'
  BY <1>3, AcquireLocks
<1>4. ASSUME NEW c \in Clients, LockTimeout(c) PROVE ChainOK' /\ HoldingOK'
  BY <1>4, LeaveChain, LeaveHolding DEF LockTimeout
<1>5. ASSUME NEW c \in Clients, Release(c) PROVE ChainOK' /\ HoldingOK'
  <2>1. IsHead(c) /\ pc[c] \in Holding  BY <1>5 DEF Release, HoldingOK, Holding
  <2> QED  BY <1>5, <2>1, LeaveChain, LeaveHolding DEF Release
<1>6. ASSUME NEW c \in Clients, Work(c) PROVE ChainOK' /\ HoldingOK'
  BY <1>6, WorkLocks
<1>7. ASSUME NEW p \in Procs, Crash(p) PROVE ChainOK' /\ HoldingOK'
  BY <1>7, CrashLocks
<1> QED
  BY <1>1, <1>2, <1>3, <1>4, <1>5, <1>6, <1>7 DEF Next, Step, Work

-----------------------------------------------------------------------------
(* Types *)

LEMMA StepType ==
    ASSUME IInv, [Next]_vars
    PROVE  TypeOK'
<1> USE DEF IInv, TypeOK
<1>0. ProcOf \in [Clients -> Procs] /\ NoProc \notin Procs  BY StoreAssumption
<1>1. CASE UNCHANGED vars  BY <1>1 DEF vars, disk, locks, calls
<1>2. ASSUME NEW c \in Clients, NEW r \in Requests, Submit(c, r) PROVE TypeOK'
  <2>1. chain' \in [Procs -> Seq(Clients)]
    <3>1. Append(chain[ProcOf[c]], c) \in Seq(Clients)  BY <1>0
    <3> QED  BY <1>2, <1>0, <3>1 DEF Submit
  <2> QED  BY <1>2, <2>1 DEF Submit, disk
<1>3. ASSUME NEW c \in Clients, Acquire(c) PROVE TypeOK'
  BY <1>3, <1>0 DEF Acquire, disk, Holding
<1>4. ASSUME NEW c \in Clients, IsHead(c), chain' = [chain EXCEPT ![ProcOf[c]] = Tail(@)]
      PROVE  chain' \in [Procs -> Seq(Clients)]
  BY <1>4, <1>0 DEF IsHead
<1>5. ASSUME NEW c \in Clients, LockTimeout(c) PROVE TypeOK'
  <2>1. chain' \in [Procs -> Seq(Clients)]  BY <1>4, <1>5 DEF LockTimeout
  <2> QED  BY <1>5, <2>1 DEF LockTimeout, disk, Requests
<1>6. ASSUME NEW c \in Clients, Release(c) PROVE TypeOK'
  <2>1. IsHead(c)  BY <1>6 DEF Release, HoldingOK, Holding
  <2>2. chain' \in [Procs -> Seq(Clients)]  BY <1>4, <1>6, <2>1 DEF Release
  <2> QED  BY <1>6, <2>2 DEF Release, disk, Requests, Outcomes
<1>7. ASSUME NEW p \in Procs, Crash(p) PROVE TypeOK'
  <2>1. chain' \in [Procs -> Seq(Clients)]
    <3>1. <<>> \in Seq(Clients)  OBVIOUS
    <3> QED  BY <1>7, <3>1 DEF Crash
  <2>2. /\ events' = events /\ tail' = tail /\ snapshot' = snapshot /\ minted' = minted
        /\ crashes' \in Nat
    BY <1>7 DEF Crash, disk
  <2>3. owner' \in Procs \cup {NoProc} /\ abandoned' \in BOOLEAN  BY <1>7 DEF Crash
  <2>4. /\ pc' \in [Clients -> Holding \cup {"idle", "waiting"}]
        /\ outcome' \in [Clients -> Outcomes] /\ request' \in [Clients -> Requests]
    BY <1>7 DEF Crash, Outcomes, Requests
  <2>5. /\ current' \in [Clients -> StateFile \cup {NoState}]
        /\ seen' \in [Clients -> StateFile \cup {NoState}]
        /\ recovering' \in [Clients -> BOOLEAN]
    BY <1>7 DEF Crash
  <2> QED  BY <2>1, <2>2, <2>3, <2>4, <2>5
<1>8. ASSUME NEW c \in Clients, Work(c) PROVE TypeOK'
  <2>1. /\ pc' \in [Clients -> Holding \cup {"idle", "waiting"}]
        /\ outcome' \in [Clients -> Outcomes] /\ recovering' \in [Clients -> BOOLEAN]
        /\ UNCHANGED <<locks, request, seen, crashes>>
    BY <1>8, WorkFrame
  <2>2. /\ owner' = owner /\ abandoned' = abandoned /\ chain' = chain
        /\ request' = request /\ seen' = seen /\ crashes' = crashes
    BY <2>1 DEF locks
  <2> SUFFICES /\ events' \in Seq(Event) /\ tail' \in Tails
               /\ snapshot' \in StateFile \cup {NoState} /\ minted' \in Nat
               /\ current' \in [Clients -> StateFile \cup {NoState}]
    BY <2>1, <2>2
  <2>3. CASE Scan(c)
    BY <2>3 DEF Scan, RepairedTail, Tails
  <2>4. CASE Rebuild(c) \/ RebuildFails(c)
    <3>1. events # <<>> => Rebuilt(events) \in StateFile  BY RebuiltType
    <3>2. events # <<>>  BY <2>4 DEF Rebuild, RebuildFails, CurrentOK
    <3>3. CASE Rebuild(c)  BY <3>1, <3>2, <3>3 DEF Rebuild
    <3>4. CASE RebuildFails(c)  BY <3>1, <3>2, <3>4 DEF RebuildFails
    <3> QED  BY <2>4, <3>3, <3>4
  <2>5. CASE Sweep(c) \/ SweepFails(c) \/ Check(c) \/ Decide(c)
    BY <2>5 DEF Sweep, SweepFails, Check, Decide, disk
  <2>6. CASE AppendEvent(c) \/ AppendFails(c)
    <3> DEFINE longer == Append(events, NewEvent(current[c]))
    <3>1. Chained(events)  BY DEF LogReadable, Readable
    <3>2. /\ pc[c] = "append"
          /\ \/ events = <<>> /\ current[c] = NoState
             \/ events # <<>> /\ current[c] = Rebuilt(events)
      BY <2>6 DEF AppendEvent, AppendFails, CurrentOK
    <3>3. /\ longer \in Seq(Event) /\ longer # <<>>
          /\ Reduced(current[c], NewEvent(current[c])) = Rebuilt(longer)
      BY <3>1, <3>2, CommitStep
    <3>4. Rebuilt(longer) \in StateFile  BY <3>3, RebuiltType
    <3>5. CASE AppendEvent(c)
      <4>1. /\ events' = longer /\ tail' \in {"corrupt", "newline"} /\ minted' = minted + 1
            /\ snapshot' = snapshot /\ current' = [current EXCEPT ![c] = Rebuilt(longer)]
        BY <3>3, <3>5 DEF AppendEvent, TailAfterAppend
      <4> HIDE DEF longer
      <4> QED  BY <4>1, <3>3, <3>4 DEF Tails
    <3>6. CASE AppendFails(c)
      <4>1. /\ events' \in {events, longer} /\ tail' \in {tail, "newline", "torn", "open"}
            /\ minted' = minted + 1 /\ snapshot' = snapshot /\ current' = current
        BY <3>6 DEF AppendFails
      <4> HIDE DEF longer
      <4> QED  BY <4>1, <3>3 DEF Tails
    <3> QED  BY <2>6, <3>5, <3>6
  <2>7. CASE Publish(c) \/ PublishFails(c)
    BY <2>7 DEF Publish, PublishFails
  <2> QED  BY <1>8, <2>3, <2>4, <2>5, <2>6, <2>7 DEF Work
<1> QED
  BY <1>1, <1>2, <1>3, <1>5, <1>6, <1>7, <1>8 DEF Next, Step, Work

-----------------------------------------------------------------------------
(* The requests *)

\* What a scan concludes: with a readable log, only a Project without events or a
\* snapshot that trails the log keeps a call from a consistent state.
LEMMA ScanVerdict ==
    ASSUME IInv, NEW c \in Clients, Scan(c)
    PROVE  /\ UNCHANGED <<events, snapshot, minted>> /\ tail' = RepairedTail(tail)
           /\ pc[c] = "scan"
           /\ \/ /\ events = <<>> /\ pc'[c] = "release"
                 /\ outcome'[c] = "PROJECT_RECOVERY_REQUIRED" /\ current' = current
              \/ /\ events # <<>> /\ pc'[c] = "rebuild"
                 /\ outcome'[c] = outcome[c] /\ current' = current
              \/ /\ events # <<>> /\ pc'[c] = AfterScan(c)
                 /\ outcome'[c] = outcome[c] /\ current'[c] = Rebuilt(events)
<1> USE DEF IInv
<1>1. Readable(events, tail) /\ tail # "corrupt"  BY DEF LogReadable, Readable
<1>2. ASSUME events # <<>>, ~Behind(snapshot, events) PROVE snapshot = Rebuilt(events)
  <2>1. snapshot # NoState /\ ~(snapshot.lastEventSeq < Len(events))
    BY <1>2 DEF Behind
  <2>2. events \in Seq(Event) /\ Chained(events)  BY <1>1 DEF TypeOK, Readable
  <2>3. PICK n \in 1..Len(events) : snapshot = Prefix(events, n)
    BY <2>1 DEF SnapshotTrailsLog, Prefix
  <2>4. snapshot.lastEventSeq = events[n].seq  BY <2>2, <2>3, PrefixValue
  <2>5. events[n].seq = n  BY <2>2 DEF Chained
  <2>6. n = Len(events)  BY <2>1, <2>2, <2>4, <2>5
  <2> QED  BY <1>2, <2>2, <2>3, <2>6, PrefixFull
<1>3. /\ UNCHANGED <<events, snapshot, minted>> /\ tail' = RepairedTail(tail)
      /\ pc[c] = "scan"
  BY DEF Scan
<1>4. CASE events = <<>> /\ Finish(c, "PROJECT_RECOVERY_REQUIRED") /\ UNCHANGED current
  BY <1>3, <1>4 DEF Finish, TypeOK
<1>5. CASE events # <<>> /\ pc' = [pc EXCEPT ![c] = "rebuild"] /\ UNCHANGED <<outcome, current>>
  BY <1>3, <1>5 DEF TypeOK
<1>6. CASE /\ Consistent(snapshot, events) /\ pc' = [pc EXCEPT ![c] = AfterScan(c)]
           /\ current' = [current EXCEPT ![c] = snapshot] /\ UNCHANGED outcome
  BY <1>3, <1>6 DEF TypeOK, Consistent
<1> QED
  <2>1. ~(events # <<>> /\ ~Behind(snapshot, events) /\ ~Consistent(snapshot, events))
    <3>1. events # <<>> => Rebuilt(events) # NoState
      BY RebuiltType, NoStateAssumption DEF TypeOK
    <3> QED  BY <1>2, <3>1 DEF Consistent
  <2> QED  BY <1>1, <1>4, <1>5, <1>6, <2>1 DEF Scan

LEMMA WorkRequest ==
    ASSUME IInv, NEW c \in Clients, Work(c)
    PROVE  RequestOK'
<1> USE DEF IInv
<1>1. /\ UNCHANGED <<request, seen>> /\ pc[c] \in Holding /\ pc'[c] \in Holding
      /\ pc'[c] # "check"
      /\ \A d \in Clients \ {c} :
            /\ pc'[d] = pc[d] /\ current'[d] = current[d]
            /\ outcome'[d] = outcome[d] /\ recovering'[d] = recovering[d]
  BY WorkFrame
<1>2. pc[c] # "release" => outcome[c] = "none"  BY DEF RequestOK
<1>3. pc[c] # "idle" /\ pc'[c] # "idle"  BY <1>1 DEF Holding
<1>4. /\ pc'[c] \in {"scan", "rebuild", "sweep", "decide"} => request[c] # "create"
      /\ pc'[c] \in {"decide", "append", "publish"} => request[c] # "recover"
      /\ pc'[c] = "append" => request[c] # "load"
      /\ request[c] = "recover" /\ pc'[c] \in {"scan", "rebuild", "sweep"} => recovering'[c]
      /\ pc'[c] # "release" => outcome'[c] = "none"
  <2> USE DEF TypeOK
  <2>0. pc[c] \in Holding  BY <1>1
  <2>1. CASE Scan(c)
    <3>1. /\ recovering' = recovering /\ pc[c] = "scan" /\ outcome[c] = "none"
          /\ request[c] # "create" /\ (request[c] = "recover" => recovering[c])
      BY <2>1, <1>2 DEF Scan, RequestOK
    <3>2. \/ pc'[c] = "release"
          \/ pc'[c] = "rebuild" /\ outcome'[c] = outcome[c]
          \/ pc'[c] = AfterScan(c) /\ outcome'[c] = outcome[c]
      BY <2>1, ScanVerdict
    <3> QED  BY <3>1, <3>2 DEF AfterScan
  <2>2. CASE Rebuild(c)  BY <2>2, <1>2 DEF Rebuild, RequestOK, AfterScan
  <2>3. CASE RebuildFails(c)  BY <2>3 DEF RebuildFails, Finish
  <2>4. CASE Sweep(c)  BY <2>4, <1>2 DEF Sweep, RequestOK, Finish
  <2>5. CASE SweepFails(c)  BY <2>5 DEF SweepFails, Finish
  <2>6. CASE Check(c)  BY <2>6, <1>2 DEF Check, RequestOK, Finish
  <2>7. CASE Decide(c)
    <3>1. pc[c] = "decide" /\ outcome[c] = "none"  BY <2>7, <1>2 DEF Decide
    <3>2. \/ pc'[c] = "release"
          \/ pc'[c] = "append" /\ outcome'[c] = outcome[c] /\ request[c] \in {"commit", "lease"}
      BY <2>7 DEF Decide, Finish
    <3> QED  BY <3>1, <3>2
  <2>8. CASE AppendEvent(c)  BY <2>8, <1>2 DEF AppendEvent, RequestOK
  <2>9. CASE AppendFails(c)  BY <2>9 DEF AppendFails, Finish
  <2>10. CASE Publish(c)  BY <2>10 DEF Publish, Finish
  <2>11. CASE PublishFails(c)  BY <2>11 DEF PublishFails, Finish
  <2> QED
    BY <2>1, <2>2, <2>3, <2>4, <2>5, <2>6, <2>7, <2>8, <2>9, <2>10, <2>11 DEF Work
<1> QED  BY <1>1, <1>3, <1>4 DEF RequestOK

LEMMA StepRequest ==
    ASSUME IInv, [Next]_vars
    PROVE  RequestOK'
<1> USE DEF IInv, RequestOK
<1>1. CASE UNCHANGED vars  BY <1>1 DEF vars, calls
<1>2. ASSUME NEW c \in Clients, NEW r \in Requests, Submit(c, r) PROVE RequestOK'
  BY <1>2 DEF Submit, TypeOK, Holding
<1>3. ASSUME NEW c \in Clients, Acquire(c) PROVE RequestOK'
  BY <1>3 DEF Acquire, TypeOK, Holding
<1>4. ASSUME NEW c \in Clients, LockTimeout(c) PROVE RequestOK'
  BY <1>4 DEF LockTimeout, TypeOK, Holding
<1>5. ASSUME NEW c \in Clients, Release(c) PROVE RequestOK'
  BY <1>5 DEF Release, TypeOK, Holding
<1>6. ASSUME NEW c \in Clients, Work(c) PROVE RequestOK'
  BY <1>6, WorkRequest
<1>7. ASSUME NEW p \in Procs, Crash(p) PROVE RequestOK'
  <2>1. \A d \in Clients :
          \/ /\ pc'[d] = pc[d] /\ request'[d] = request[d] /\ seen'[d] = seen[d]
             /\ current'[d] = current[d] /\ outcome'[d] = outcome[d]
             /\ recovering'[d] = recovering[d]
          \/ /\ pc'[d] = "idle" /\ request'[d] = "load" /\ current'[d] = NoState
             /\ outcome'[d] = "none"
    BY <1>7 DEF Crash
  <2> QED  BY <2>1 DEF Holding
<1> QED
  BY <1>1, <1>2, <1>3, <1>4, <1>5, <1>6, <1>7 DEF Next, Step, Work

-----------------------------------------------------------------------------
(* The files *)

FilesInv ==
    LogReadable /\ SnapshotTrailsLog /\ ReturnedStatesPersist /\ CurrentOK /\ NoFalseCorruption

\* A state file that some prefix of the log leads to, or none.
IsPrefix(file, log) == file # NoState => \E n \in 1..Len(log) : file = Prefix(log, n)

LEMMA FilesAsPrefixes ==
    /\ SnapshotTrailsLog <=> IsPrefix(snapshot, events)
    /\ ReturnedStatesPersist <=> \A c \in Clients : IsPrefix(seen[c], events)
BY DEF SnapshotTrailsLog, ReturnedStatesPersist, IsPrefix, Prefix

LEMMA StillPrefix ==
    ASSUME NEW log \in Seq(Event), NEW e \in Event, NEW file, IsPrefix(file, log)
    PROVE  IsPrefix(file, Append(log, e))
<1> SUFFICES ASSUME file # NoState
             PROVE  \E n \in 1..Len(Append(log, e)) : file = Prefix(Append(log, e), n)
  BY DEF IsPrefix
<1>1. PICK n \in 1..Len(log) : file = Prefix(log, n)  BY DEF IsPrefix
<1> QED  BY <1>1, PrefixAppend

LEMMA WholeIsPrefix ==
    ASSUME NEW log \in Seq(Event), log # <<>>
    PROVE  IsPrefix(Rebuilt(log), log)
BY PrefixFull DEF IsPrefix

\* What the running call may leave behind; every other call is outside the mutex.
LEMMA WorkFiles ==
    ASSUME IInv, NEW c \in Clients, Work(c),
           LogReadable', SnapshotTrailsLog', ReturnedStatesPersist',
           /\ pc'[c] \in {"rebuild", "decide", "append", "publish"} => tail' # "torn"
           /\ pc'[c] \in {"rebuild", "decide", "publish"} => events' # <<>>
           /\ pc'[c] \in {"decide", "publish"} => current'[c] = Rebuilt(events')
           /\ pc'[c] = "append" /\ request[c] = "create" =>
                 events' = <<>> /\ current'[c] = NoState
           /\ pc'[c] = "append" /\ request[c] # "create" =>
                 events' # <<>> /\ current'[c] = Rebuilt(events')
           /\ pc'[c] = "append" /\ request[c] = "commit" =>
                 seen[c].generation = current'[c].generation
           /\ pc'[c] = "release" /\ outcome'[c] = "ok" /\ request[c] # "recover" =>
                 events' # <<>> /\ current'[c] = Rebuilt(events'),
           outcome'[c] # "PROJECT_SNAPSHOT_INCONSISTENT",
           outcome'[c] = "PROJECT_EVENT_LOG_CORRUPT" => request[c] = "create"
    PROVE  FilesInv'
<1> USE DEF IInv
<1>1. /\ request' = request /\ seen' = seen /\ pc[c] \in Holding
      /\ \A d \in Clients \ {c} :
            pc'[d] = pc[d] /\ outcome'[d] = outcome[d]
  BY WorkFrame
<1>2. \A d \in Clients \ {c} : pc'[d] \notin Holding  BY <1>1, OneHolder
<1>3. ASSUME NEW d \in Clients \ {c}
      PROVE  /\ pc'[d] \notin {"rebuild", "decide", "append", "publish", "release"}
             /\ outcome'[d] # "PROJECT_SNAPSHOT_INCONSISTENT"
             /\ outcome'[d] = "PROJECT_EVENT_LOG_CORRUPT" => request'[d] = "create"
  BY <1>1, <1>2 DEF Holding, NoFalseCorruption
<1>4. CurrentOK'  BY <1>1, <1>3 DEF CurrentOK
<1>5. NoFalseCorruption'  BY <1>1, <1>3 DEF NoFalseCorruption
<1> QED  BY <1>4, <1>5 DEF FilesInv

LEMMA QuietFiles ==
    ASSUME IInv, UNCHANGED disk,
           \A d \in Clients : seen'[d] = seen[d] \/ IsPrefix(seen'[d], events),
           \A d \in Clients :
              \/ pc'[d] \in {"idle", "waiting", "scan", "check"} /\ outcome'[d] = "none"
              \/ /\ pc'[d] = pc[d] /\ current'[d] = current[d] /\ request'[d] = request[d]
                 /\ outcome'[d] = outcome[d] /\ seen'[d] = seen[d]
    PROVE  FilesInv'
<1> USE DEF IInv
<1>1. events' = events /\ tail' = tail /\ snapshot' = snapshot  BY DEF disk
<1>2. LogReadable' /\ SnapshotTrailsLog'  BY <1>1 DEF LogReadable, SnapshotTrailsLog, Readable
<1>3. \A d \in Clients : IsPrefix(seen'[d], events')  BY <1>1, FilesAsPrefixes
<1>4. ReturnedStatesPersist'
  BY <1>3 DEF ReturnedStatesPersist, IsPrefix, Prefix
<1>5. CurrentOK'  BY <1>1 DEF CurrentOK
<1>6. NoFalseCorruption'  BY DEF NoFalseCorruption
<1> QED  BY <1>2, <1>4, <1>5, <1>6 DEF FilesInv

\* The log and its prefixes are kept when the log stays or grows by one event.
LEMMA SeenKept ==
    ASSUME IInv, seen' = seen,
           \/ events' = events
           \/ \E e \in Event : events' = Append(events, e)
    PROVE  ReturnedStatesPersist'
<1>1. events \in Seq(Event)  BY DEF IInv, TypeOK
<1>2. \A d \in Clients : IsPrefix(seen[d], events)  BY FilesAsPrefixes DEF IInv
<1>3. \A d \in Clients : IsPrefix(seen[d], events')  BY <1>1, <1>2, StillPrefix
<1> QED  BY <1>3 DEF ReturnedStatesPersist, IsPrefix, Prefix

LEMMA SnapshotKept ==
    ASSUME IInv,
           \/ events' = events
           \/ \E e \in Event : events' = Append(events, e),
           IsPrefix(snapshot', events') \/ snapshot' = snapshot
    PROVE  SnapshotTrailsLog'
<1>1. events \in Seq(Event)  BY DEF IInv, TypeOK
<1>2. IsPrefix(snapshot, events)  BY FilesAsPrefixes DEF IInv
<1>3. IsPrefix(snapshot', events')  BY <1>1, <1>2, StillPrefix
<1> QED  BY <1>3 DEF SnapshotTrailsLog, IsPrefix, Prefix

LEMMA ScanFiles ==
    ASSUME IInv, NEW c \in Clients, Scan(c)
    PROVE  FilesInv'
<1>1. /\ events' = events /\ snapshot' = snapshot /\ tail' = RepairedTail(tail)
      /\ pc[c] = "scan" /\ seen' = seen
  BY ScanVerdict DEF Scan
<1>2. LogReadable'  BY <1>1 DEF IInv, LogReadable, Readable, RepairedTail
<1>3. SnapshotTrailsLog' /\ ReturnedStatesPersist'  BY <1>1, SeenKept, SnapshotKept
<1>4. outcome[c] = "none"  BY <1>1 DEF IInv, RequestOK
<1>5. tail' # "torn"  BY <1>1 DEF RepairedTail
<1>6. \/ /\ pc'[c] = "release" /\ outcome'[c] = "PROJECT_RECOVERY_REQUIRED"
      \/ /\ events # <<>> /\ pc'[c] = "rebuild" /\ outcome'[c] = outcome[c]
      \/ /\ events # <<>> /\ pc'[c] \in {"sweep", "decide"} /\ outcome'[c] = outcome[c]
         /\ current'[c] = Rebuilt(events)
  BY ScanVerdict DEF AfterScan
<1> QED  BY <1>1, <1>2, <1>3, <1>4, <1>5, <1>6, WorkFiles DEF Work

LEMMA RebuildFiles ==
    ASSUME IInv, NEW c \in Clients, Rebuild(c) \/ RebuildFails(c)
    PROVE  FilesInv'
<1> USE DEF IInv, TypeOK
<1>1. /\ events' = events /\ tail' = tail /\ seen' = seen /\ pc[c] = "rebuild"
      /\ snapshot' \in {snapshot, Rebuilt(events)}
  BY DEF Rebuild, RebuildFails
<1>2. events # <<>> /\ tail # "torn" /\ outcome[c] = "none"
  BY <1>1 DEF CurrentOK, RequestOK
<1>3. IsPrefix(Rebuilt(events), events)  BY <1>2, WholeIsPrefix
<1>4. LogReadable'  BY <1>1 DEF LogReadable, Readable
<1>5. SnapshotTrailsLog' /\ ReturnedStatesPersist'
  BY <1>1, <1>3, SeenKept, SnapshotKept
<1>6. \/ /\ pc'[c] \in {"sweep", "decide"} /\ outcome'[c] = outcome[c]
         /\ current'[c] = Rebuilt(events)
      \/ /\ pc'[c] = "release" /\ outcome'[c] = "IO_ERROR"
  BY DEF Rebuild, RebuildFails, AfterScan, Finish
<1> QED  BY <1>1, <1>2, <1>4, <1>5, <1>6, WorkFiles DEF Work

\* Sweep, Check and Decide touch no file.
LEMMA DecisionFiles ==
    ASSUME IInv, NEW c \in Clients,
           Sweep(c) \/ SweepFails(c) \/ Check(c) \/ Decide(c)
    PROVE  FilesInv'
<1> USE DEF IInv, TypeOK
<1>1. /\ events' = events /\ tail' = tail /\ snapshot' = snapshot
      /\ seen' = seen /\ current' = current
  BY DEF Sweep, SweepFails, Check, Decide, disk
<1>2. LogReadable'  BY <1>1 DEF LogReadable, Readable
<1>3. SnapshotTrailsLog' /\ ReturnedStatesPersist'  BY <1>1, SeenKept, SnapshotKept
<1>4. CASE Sweep(c)
  <2>1. pc[c] = "sweep" /\ outcome[c] = "none"  BY <1>4 DEF Sweep, RequestOK
  <2>2. \/ pc'[c] = "release" /\ outcome'[c] = "ok" /\ request[c] = "recover"
        \/ pc'[c] = "scan" /\ outcome'[c] = "none"
    BY <1>4, <2>1 DEF Sweep, Finish
  <2> QED  BY <1>1, <1>2, <1>3, <1>4, <2>2, WorkFiles DEF Work
<1>5. CASE SweepFails(c)
  <2>1. pc'[c] = "release" /\ outcome'[c] \in {"PROJECT_RECOVERY_REQUIRED", "IO_ERROR"}
    BY <1>5 DEF SweepFails, Finish
  <2> QED  BY <1>1, <1>2, <1>3, <1>5, <2>1, WorkFiles DEF Work
<1>6. CASE Check(c)
  <2>1. pc[c] = "check" /\ outcome[c] = "none" /\ request[c] = "create" /\ current[c] = NoState
    BY <1>6 DEF Check, RequestOK
  <2>2. \/ /\ pc'[c] = "release"
           /\ outcome'[c] \in {"PROJECT_BINDING_MISMATCH", "PROJECT_EVENT_LOG_CORRUPT"}
        \/ /\ pc'[c] = "append" /\ outcome'[c] = "none" /\ WholeLines /\ events = <<>>
    BY <1>6, <2>1 DEF Check, Finish
  <2> QED  BY <1>1, <1>2, <1>3, <1>6, <2>1, <2>2, WorkFiles DEF Work, WholeLines
<1>7. CASE Decide(c)
  <2>1. /\ pc[c] = "decide" /\ outcome[c] = "none" /\ request[c] \notin {"create", "recover"}
        /\ events # <<>> /\ tail # "torn" /\ current[c] = Rebuilt(events)
    BY <1>7 DEF Decide, RequestOK, CurrentOK
  <2>2. \/ /\ pc'[c] = "release" /\ outcome'[c] \in {"ok", "PROJECT_GENERATION_CONFLICT"}
        \/ /\ pc'[c] = "append" /\ outcome'[c] = "none" /\ GenerationMatches(c)
    BY <1>7, <2>1 DEF Decide, Finish
  <2>3. GenerationMatches(c) /\ request[c] = "commit" =>
            seen[c].generation = current[c].generation
    BY DEF GenerationMatches, ExpectedGeneration
  <2> QED  BY <1>1, <1>2, <1>3, <1>7, <2>1, <2>2, <2>3, WorkFiles DEF Work
<1> QED  BY <1>4, <1>5, <1>6, <1>7

LEMMA AppendFiles ==
    ASSUME IInv, NEW c \in Clients, AppendEvent(c) \/ AppendFails(c)
    PROVE  FilesInv'
<1> USE DEF IInv, TypeOK
<1> DEFINE e == NewEvent(current[c])
<1> DEFINE longer == Append(events, e)
<1>1. pc[c] = "append" /\ seen' = seen /\ snapshot' = snapshot
  BY DEF AppendEvent, AppendFails
<1>2. /\ tail # "torn" /\ outcome[c] = "none"
      /\ \/ events = <<>> /\ current[c] = NoState
         \/ events # <<>> /\ current[c] = Rebuilt(events)
  BY <1>1 DEF CurrentOK, RequestOK
<1>3. Chained(events) /\ tail # "corrupt"  BY DEF LogReadable, Readable
<1>4. /\ longer # <<>> /\ Chained(longer) /\ Reduced(current[c], e) = Rebuilt(longer)
      /\ e \in Event
  BY <1>2, <1>3, CommitStep, NewEventType
<1>5. \/ /\ events' = longer /\ tail' = "newline" /\ pc'[c] = "publish"
         /\ outcome'[c] = outcome[c] /\ current'[c] = Rebuilt(longer)
      \/ /\ events' \in {events, longer} /\ tail' \in {tail, "newline", "torn", "open"}
         /\ pc'[c] = "release" /\ outcome'[c] = "IO_ERROR"
  <2>1. CASE AppendEvent(c)
    <3>1. TailAfterAppend = "newline"  BY <1>2 DEF TailAfterAppend
    <3>2. /\ events' = longer /\ tail' = "newline" /\ outcome' = outcome
          /\ pc' = [pc EXCEPT ![c] = "publish"]
          /\ current' = [current EXCEPT ![c] = Rebuilt(longer)]
      BY <2>1, <3>1, <1>4 DEF AppendEvent
    <3> HIDE DEF longer
    <3> QED  BY <3>2
  <2>2. CASE AppendFails(c)
    <3>1. /\ events' \in {events, longer} /\ tail' \in {tail, "newline", "torn", "open"}
          /\ Finish(c, "IO_ERROR")
      BY <2>2 DEF AppendFails
    <3> HIDE DEF longer
    <3> QED  BY <3>1 DEF Finish
  <2> QED  BY <2>1, <2>2
<1> HIDE DEF longer, e
<1>6. LogReadable'  BY <1>3, <1>4, <1>5 DEF LogReadable, Readable
<1>7. SnapshotTrailsLog' /\ ReturnedStatesPersist'
  <2>1. events' = events \/ \E x \in Event : events' = Append(events, x)
    BY <1>4, <1>5 DEF longer
  <2> QED  BY <1>1, <2>1, SeenKept, SnapshotKept
<1>8. Work(c)  BY DEF Work
<1> QED  BY <1>2, <1>4, <1>5, <1>6, <1>7, <1>8, WorkFiles

LEMMA PublishFiles ==
    ASSUME IInv, NEW c \in Clients, Publish(c) \/ PublishFails(c)
    PROVE  FilesInv'
<1> USE DEF IInv, TypeOK
<1>1. /\ events' = events /\ tail' = tail /\ seen' = seen /\ pc[c] = "publish"
      /\ snapshot' \in {snapshot, current[c]} /\ current' = current
      /\ pc'[c] = "release" /\ outcome'[c] \in {"ok", "IO_ERROR"}
  BY DEF Publish, PublishFails, Finish
<1>2. events # <<>> /\ current[c] = Rebuilt(events)  BY <1>1 DEF CurrentOK
<1>3. IsPrefix(current[c], events)  BY <1>2, WholeIsPrefix
<1>4. LogReadable'  BY <1>1 DEF LogReadable, Readable
<1>5. SnapshotTrailsLog' /\ ReturnedStatesPersist'
  BY <1>1, <1>3, SeenKept, SnapshotKept
<1> QED  BY <1>1, <1>2, <1>4, <1>5, WorkFiles DEF Work

LEMMA StepFiles ==
    ASSUME IInv, [Next]_vars
    PROVE  FilesInv'
<1> USE DEF IInv, TypeOK
<1>1. CASE UNCHANGED vars
  BY <1>1 DEF vars, disk, locks, calls, FilesInv, LogReadable, SnapshotTrailsLog,
     ReturnedStatesPersist, CurrentOK, NoFalseCorruption, Readable
<1>2. ASSUME NEW c \in Clients, NEW r \in Requests, Submit(c, r) PROVE FilesInv'
  <2>1. UNCHANGED <<disk, seen, outcome, current>>  BY <1>2 DEF Submit
  <2>2. \A d \in Clients :
          \/ pc'[d] = "waiting" /\ outcome'[d] = "none"
          \/ pc'[d] = pc[d] /\ request'[d] = request[d]
    BY <1>2 DEF Submit, RequestOK
  <2> QED  BY <2>1, <2>2, QuietFiles
<1>3. ASSUME NEW c \in Clients, Acquire(c) PROVE FilesInv'
  <2>1. UNCHANGED <<disk, seen, outcome, current, request>>  BY <1>3 DEF Acquire
  <2>2. \A d \in Clients :
          \/ pc'[d] \in {"scan", "check"} /\ outcome'[d] = "none"
          \/ pc'[d] = pc[d]
    BY <1>3 DEF Acquire, RequestOK
  <2> QED  BY <2>1, <2>2, QuietFiles
<1>4. ASSUME NEW c \in Clients, LockTimeout(c) PROVE FilesInv'
  <2>1. UNCHANGED <<disk, seen, outcome, current>>  BY <1>4 DEF LockTimeout
  <2>2. \A d \in Clients :
          \/ pc'[d] = "idle" /\ outcome'[d] = "none"
          \/ pc'[d] = pc[d] /\ request'[d] = request[d]
    BY <1>4 DEF LockTimeout, RequestOK
  <2> QED  BY <2>1, <2>2, QuietFiles
<1>5. ASSUME NEW c \in Clients, Release(c) PROVE FilesInv'
  <2>1. UNCHANGED disk /\ pc[c] = "release"  BY <1>5 DEF Release
  <2>2. \A d \in Clients \ {c} :
          /\ pc'[d] = pc[d] /\ request'[d] = request[d] /\ seen'[d] = seen[d]
          /\ current'[d] = current[d] /\ outcome'[d] = outcome[d]
    BY <1>5 DEF Release
  <2>3. pc'[c] = "idle" /\ outcome'[c] = "none"  BY <1>5 DEF Release
  <2>4. \/ seen'[c] = seen[c]
        \/ seen'[c] = current[c] /\ outcome[c] = "ok" /\ request[c] # "recover"
    BY <1>5 DEF Release
  <2>5. seen'[c] = seen[c] \/ IsPrefix(seen'[c], events)
    BY <2>1, <2>4, WholeIsPrefix DEF CurrentOK
  <2> QED  BY <2>1, <2>2, <2>3, <2>5, QuietFiles
<1>6. ASSUME NEW c \in Clients, Work(c) PROVE FilesInv'
  BY <1>6, ScanFiles, RebuildFiles, DecisionFiles, AppendFiles, PublishFiles DEF Work
<1>7. ASSUME NEW p \in Procs, Crash(p) PROVE FilesInv'
  <2>1. UNCHANGED disk  BY <1>7 DEF Crash
  <2>2. \A d \in Clients :
          \/ pc'[d] = "idle" /\ outcome'[d] = "none" /\ seen'[d] = NoState
          \/ /\ pc'[d] = pc[d] /\ request'[d] = request[d] /\ seen'[d] = seen[d]
             /\ current'[d] = current[d] /\ outcome'[d] = outcome[d]
    BY <1>7 DEF Crash
  <2>3. IsPrefix(NoState, events)  BY DEF IsPrefix
  <2> QED  BY <2>1, <2>2, <2>3, QuietFiles
<1> QED
  BY <1>1, <1>2, <1>3, <1>4, <1>5, <1>6, <1>7 DEF Next, Step, Work

-----------------------------------------------------------------------------
(* The theorems *)

LEMMA InitIInv == Init => IInv
<1> SUFFICES ASSUME Init PROVE IInv  OBVIOUS
<1> USE DEF Init
<1>1. TypeOK
  <2>1. <<>> \in Seq(Event) /\ <<>> \in Seq(Clients)  OBVIOUS
  <2> QED  BY <2>1 DEF TypeOK, Tails, Requests, Outcomes
<1>2. ChainOK
  <2>1. \A p \in Procs : Len(chain[p]) = 0  OBVIOUS
  <2> QED  BY <2>1 DEF ChainOK
<1>3. HoldingOK /\ RequestOK /\ CurrentOK  BY DEF HoldingOK, RequestOK, CurrentOK, Holding
<1>4. LogReadable
  <2>1. Len(events) = 0  OBVIOUS
  <2> QED  BY <2>1 DEF LogReadable, Readable, Chained
<1>5. SnapshotTrailsLog /\ ReturnedStatesPersist /\ NoFalseCorruption
  BY DEF SnapshotTrailsLog, ReturnedStatesPersist, NoFalseCorruption
<1> QED  BY <1>1, <1>2, <1>3, <1>4, <1>5 DEF IInv

LEMMA NextIInv ==
    ASSUME IInv, [Next]_vars
    PROVE  IInv'
<1>1. ChainOK' /\ HoldingOK'  BY StepLocks DEF IInv
<1>2. TypeOK' /\ RequestOK'  BY StepType, StepRequest
<1>3. FilesInv'  BY StepFiles
<1> QED  BY <1>1, <1>2, <1>3 DEF IInv, FilesInv

\* The inductive invariant holds in every state the store can reach.
THEOREM Invariance == Spec => []IInv
<1>1. Init => IInv  BY InitIInv
<1>2. IInv /\ [Next]_vars => IInv'  BY NextIInv
<1> QED  BY <1>1, <1>2, PTL DEF Spec

\* The variables of every caller, process and file keep their types.
THEOREM TypeCorrect == Spec => []TypeOK
<1>1. IInv => TypeOK  BY DEF IInv
<1> QED  BY <1>1, Invariance, PTL

\* No crash and no failed write leaves a line of events.jsonl that cannot be read.
THEOREM LogStaysReadable == Spec => []LogReadable
<1>1. IInv => LogReadable  BY DEF IInv
<1> QED  BY <1>1, Invariance, PTL

\* state.json is always the reduction of a prefix of events.jsonl.
THEOREM SnapshotNeverAhead == Spec => []SnapshotTrailsLog
<1>1. IInv => SnapshotTrailsLog  BY DEF IInv
<1> QED  BY <1>1, Invariance, PTL

\* Durability: the log keeps every state that was ever returned to a caller.
THEOREM ReturnedStatesDurable == Spec => []ReturnedStatesPersist
<1>1. IInv => ReturnedStatesPersist  BY DEF IInv
<1> QED  BY <1>1, Invariance, PTL

\* The two corruption errors of the reader are never caused by the store itself.
THEOREM CorruptionNeverFalse == Spec => []NoFalseCorruption
<1>1. IInv => NoFalseCorruption  BY DEF IInv
<1> QED  BY <1>1, Invariance, PTL

\* At most one call of all processes is past the mutex.
MutualExclusion ==
    \A c, d \in Clients : pc[c] \in Holding /\ pc[d] \in Holding => c = d

\* The mutex between processes and the promise chain within one exclude together.
THEOREM Exclusion == Spec => []MutualExclusion
<1>1. IInv => MutualExclusion  BY OneHolder DEF IInv, MutualExclusion
<1> QED  BY <1>1, Invariance, PTL

\* Every call that has not returned has its place in its chain, and a held mutex has
\* its call: what chains and mutex keep, they keep for somebody.
Queued(c) == \E i \in 1..Len(chain[ProcOf[c]]) : chain[ProcOf[c]][i] = c

OwnerRuns == owner # NoProc => \E c \in Clients : ProcOf[c] = owner /\ pc[c] \in Holding

WaitersOK == (\A c \in Clients : pc[c] # "idle" => Queued(c)) /\ OwnerRuns

\* Only its head leaves a chain.
LEMMA LeaveQueued ==
    ASSUME IInv, WaitersOK, NEW c \in Clients, IsHead(c),
           chain' = [chain EXCEPT ![ProcOf[c]] = Tail(@)],
           pc' = [pc EXCEPT ![c] = "idle"]
    PROVE  \A d \in Clients : pc'[d] # "idle" => Queued(d)'
<1> SUFFICES ASSUME NEW d \in Clients, pc'[d] # "idle" PROVE Queued(d)'
  OBVIOUS
<1>0. ProcOf[c] \in Procs /\ ProcOf[d] \in Procs  BY StoreAssumption
<1>1. d # c /\ pc[d] # "idle"  BY DEF IInv, TypeOK
<1>2. PICK i \in 1..Len(chain[ProcOf[d]]) : chain[ProcOf[d]][i] = d
  BY <1>1 DEF WaitersOK, Queued
<1>3. CASE ProcOf[d] = ProcOf[c]
  <2> DEFINE q == chain[ProcOf[c]]
  <2>1. q \in Seq(Clients) /\ q # <<>> /\ q[1] = c /\ chain'[ProcOf[d]] = Tail(q)
    BY <1>0, <1>3 DEF IInv, TypeOK, IsHead
  <2>2. i \in 1..Len(q) /\ q[i] = d  BY <1>2, <1>3
  <2> HIDE DEF q
  <2>3. i - 1 \in 1..Len(Tail(q)) /\ Tail(q)[i - 1] = d
    <3>1. i # 1  BY <1>1, <2>1, <2>2
    <3>2. Len(Tail(q)) = Len(q) - 1 /\ \A j \in 1..Len(Tail(q)) : Tail(q)[j] = q[j + 1]
      BY <2>1
    <3>3. i - 1 \in 1..Len(Tail(q)) /\ (i - 1) + 1 = i  BY <2>1, <2>2, <3>1, <3>2
    <3> QED  BY <2>2, <3>2, <3>3
  <2> QED  BY <2>1, <2>3 DEF Queued
<1>4. CASE ProcOf[d] # ProcOf[c]
  <2>1. chain'[ProcOf[d]] = chain[ProcOf[d]]  BY <1>0, <1>4 DEF IInv, TypeOK
  <2> QED  BY <1>2, <2>1 DEF Queued
<1> QED  BY <1>3, <1>4

LEMMA WaitersStep ==
    ASSUME IInv, WaitersOK, [Next]_vars
    PROVE  WaitersOK'
<1> USE DEF WaitersOK
<1>0. \A c \in Clients : ProcOf[c] \in Procs  BY StoreAssumption
<1>1. ASSUME chain' = chain, owner' = owner,
             \A c \in Clients : (pc'[c] # "idle" => pc[c] # "idle")
                                /\ (pc[c] \in Holding => pc'[c] \in Holding)
      PROVE  WaitersOK'
  BY <1>1 DEF Queued, OwnerRuns
<1>2. CASE UNCHANGED vars
  BY <1>1, <1>2 DEF vars, locks, calls
<1>3. ASSUME NEW c \in Clients, NEW r \in Requests, Submit(c, r) PROVE WaitersOK'
  <2> DEFINE q == ProcOf[c]
  <2>1. /\ chain[q] \in Seq(Clients) /\ chain'[q] = Append(chain[q], c) /\ owner' = owner
        /\ pc[c] = "idle" /\ \A p \in Procs \ {q} : chain'[p] = chain[p]
        /\ \A d \in Clients \ {c} : pc'[d] = pc[d]
    BY <1>0, <1>3 DEF Submit, IInv, TypeOK
  <2>2. OwnerRuns'
    BY <2>1 DEF OwnerRuns, Holding
  <2>3. Queued(c)'
    <3>1. LET n == Len(chain[q]) + 1 IN n \in 1..Len(chain'[q]) /\ chain'[q][n] = c
      BY <2>1
    <3> QED  BY <3>1 DEF Queued
  <2>4. ASSUME NEW d \in Clients \ {c}, pc'[d] # "idle" PROVE Queued(d)'
    <3>1. PICK i \in 1..Len(chain[ProcOf[d]]) : chain[ProcOf[d]][i] = d
      BY <2>1, <2>4 DEF Queued
    <3> HIDE DEF q
    <3>2. CASE ProcOf[d] = q
      <4>1. i \in 1..Len(Append(chain[q], c)) /\ Append(chain[q], c)[i] = d
        BY <2>1, <3>1, <3>2
      <4> QED  BY <2>1, <3>2, <4>1 DEF Queued
    <3>3. CASE ProcOf[d] # q
      BY <1>0, <2>1, <3>1, <3>3 DEF Queued
    <3> QED  BY <3>2, <3>3
  <2> QED  BY <2>2, <2>3, <2>4
<1>4. ASSUME NEW c \in Clients, Acquire(c) PROVE WaitersOK'
  <2>1. /\ chain' = chain /\ owner' = ProcOf[c] /\ pc[c] = "waiting" /\ pc'[c] \in Holding
        /\ \A d \in Clients \ {c} : pc'[d] = pc[d]
    BY <1>4 DEF Acquire, Holding, IInv, TypeOK
  <2>2. OwnerRuns'  BY <2>1 DEF OwnerRuns
  <2>3. \A d \in Clients : pc'[d] # "idle" => Queued(d)'
    BY <2>1 DEF Queued
  <2> QED  BY <2>2, <2>3
<1>5. ASSUME NEW c \in Clients, LockTimeout(c) PROVE WaitersOK'
  <2>1. \A d \in Clients : pc'[d] # "idle" => Queued(d)'
    BY <1>5, LeaveQueued DEF LockTimeout
  <2>2. /\ owner' = owner /\ pc[c] = "waiting"
        /\ \A d \in Clients \ {c} : pc'[d] = pc[d]
    BY <1>5 DEF LockTimeout, IInv, TypeOK
  <2>3. OwnerRuns'  BY <2>2 DEF OwnerRuns, Holding
  <2> QED  BY <2>1, <2>3
<1>6. ASSUME NEW c \in Clients, Release(c) PROVE WaitersOK'
  <2>1. IsHead(c)  BY <1>6 DEF Release, IInv, HoldingOK, Holding
  <2>2. \A d \in Clients : pc'[d] # "idle" => Queued(d)'
    BY <1>6, <2>1, LeaveQueued DEF Release
  <2>3. OwnerRuns'  BY <1>6 DEF Release, OwnerRuns
  <2> QED  BY <2>2, <2>3
<1>7. ASSUME NEW c \in Clients, Work(c) PROVE WaitersOK'
  <2>1. /\ UNCHANGED locks /\ pc[c] \in Holding /\ pc'[c] \in Holding
        /\ \A d \in Clients \ {c} : pc'[d] = pc[d]
    BY <1>7, WorkFrame DEF IInv
  <2>2. pc[c] # "idle"  BY <2>1 DEF Holding
  <2> QED  BY <1>1, <2>1, <2>2 DEF locks
<1>8. ASSUME NEW p \in Procs, Crash(p) PROVE WaitersOK'
  <2>1. /\ \A q \in Procs \ {p} : chain'[q] = chain[q]
        /\ \A c \in Clients : pc'[c] = IF ProcOf[c] = p THEN "idle" ELSE pc[c]
        /\ owner' = IF owner = p THEN NoProc ELSE owner
    BY <1>8 DEF Crash, IInv, TypeOK
  <2>2. OwnerRuns'  BY <2>1 DEF OwnerRuns
  <2>3. ASSUME NEW d \in Clients, pc'[d] # "idle" PROVE Queued(d)'
    BY <1>0, <2>1, <2>3 DEF Queued
  <2> QED  BY <2>2, <2>3
<1> QED
  BY <1>2, <1>3, <1>4, <1>5, <1>6, <1>7, <1>8 DEF Next, Step, Work

\* Whatever calls fail, time out or die with their process, no call of any process is
\* left behind a call that is over, on a promise chain or on the mutex.
THEOREM NobodyLeftWaiting == Spec => []NobodyWaitsForTheGone
<1>1. Init => WaitersOK
  BY DEF Init, WaitersOK, OwnerRuns
<1>2. IInv /\ WaitersOK /\ [Next]_vars => WaitersOK'
  BY WaitersStep
<1>3. IInv /\ WaitersOK => NobodyWaitsForTheGone
  BY DEF IInv, ChainOK, WaitersOK, OwnerRuns, Queued, NobodyWaitsForTheGone
<1> QED  BY <1>1, <1>2, <1>3, Invariance, PTL DEF Spec

CommitOnValidated ==
    \A c \in Clients :
        (pc[c] = "append" /\ request[c] = "commit" /\ events' # events /\ pc'[c] # pc[c])
        => seen[c].state = Replay(events)

LEMMA CommitGuarded ==
    ASSUME IInv, NEW c \in Clients, pc[c] = "append", request[c] = "commit"
    PROVE  seen[c].state = Replay(events)
<1> USE DEF IInv
<1>1. /\ events \in Seq(Event) /\ seen[c] # NoState
      /\ events # <<>> /\ current[c] = Rebuilt(events)
      /\ seen[c].generation = current[c].generation
  BY DEF RequestOK, CurrentOK, TypeOK
<1>2. PICK n \in 1..Len(events) : seen[c] = Prefix(events, n)
  BY <1>1 DEF ReturnedStatesPersist, Prefix
<1>3. seen[c].generation = n  BY <1>1, <1>2, PrefixValue
<1>4. current[c].generation = Len(events)  BY <1>1 DEF Rebuilt
<1>5. seen[c] = Rebuilt(events)  BY <1>1, <1>2, <1>3, <1>4, PrefixFull
<1> QED  BY <1>5 DEF Rebuilt

\* Compare-and-swap: an event committed against a generation extends exactly the
\* state its caller loaded and validated.
THEOREM CompareAndSwap == Spec => CommitsExtendValidatedState
<1>1. IInv /\ [Next]_vars => [CommitOnValidated]_vars
  BY CommitGuarded DEF CommitOnValidated
<1> QED  BY <1>1, Invariance, PTL DEF Spec, CommitsExtendValidatedState, CommitOnValidated

-----------------------------------------------------------------------------
(* ProjectStore implements ProjectHistory: every disk step of a call, and every
   crash, is one step of the history or none.  The history is what the log
   reduces to, a caller knows what the store last returned to it, and the lease
   is held by the call whose action runs. *)

Known == [c \in Clients |-> IF seen[c] = NoState THEN NoState ELSE seen[c].state]

Holder(H) == IF H = {} THEN NoProc ELSE CHOOSE c \in H : TRUE
Lease == Holder(LeaseHolders)

LEMMA HolderOne == ASSUME NEW c PROVE Holder({c}) = c
BY DEF Holder

LEMMA HolderNone == Holder({}) = NoProc
BY DEF Holder

\* While a call is past the mutex, nobody but it holds the lease.
LEMMA LeaseOfHolding ==
    ASSUME IInv, NEW c \in Clients, pc[c] \in Holding
    PROVE  LeaseHolders = IF request[c] = "lease" THEN {c} ELSE {}
<1>1. \A d \in Clients : pc[d] \in Holding => d = c
  BY OneHolder DEF IInv
<1> QED  BY <1>1 DEF LeaseHolders

\* A call that can take the mutex finds nobody past it.
LEMMA NobodyHolds ==
    ASSUME IInv, NEW c \in Clients, Acquire(c)
    PROVE  \A d \in Clients : pc[d] \notin Holding
<1> SUFFICES ASSUME NEW d \in Clients, pc[d] \in Holding PROVE FALSE
  OBVIOUS
<1>1. /\ owner = ProcOf[d] /\ IsHead(d) /\ ProcOf[d] \in Procs
      /\ pc[c] = "waiting" /\ IsHead(c) /\ owner \in {NoProc, ProcOf[c]}
  BY StoreAssumption DEF IInv, HoldingOK, Acquire, MutexFree
<1>2. d = c  BY <1>1, StoreAssumption DEF IsHead
<1> QED  BY <1>1, <1>2 DEF Holding

-----------------------------------------------------------------------------
(* Every step of the store is a step of the history, or none *)

LEMMA Stutters ==
    ASSUME UNCHANGED <<events, seen>>, LeaseHolders' = LeaseHolders
    PROVE  UNCHANGED History!historyVars
BY DEF History!historyVars

\* The first state.
LEMMA InitRefines == Init => History!HInit
<1> SUFFICES ASSUME Init PROVE History!HInit
  OBVIOUS
<1>1. Replay(events) = <<>>
  <2>1. events = <<>>  BY DEF Init
  <2>2. Len(events) = 0  BY <2>1
  <2> QED  BY <2>2 DEF Replay
<1>2. LeaseHolders = {}  BY DEF Init, LeaseHolders, Holding
<1>3. \A c \in Clients : seen[c] = NoState  BY DEF Init
<1> QED  BY <1>1, <1>2, <1>3 DEF History!HInit

\* Reading, repairing, deciding and publishing are not seen in the history.
LEMMA QuietWork ==
    ASSUME IInv, NEW c \in Clients, Work(c), events' = events
    PROVE  UNCHANGED History!historyVars
<1>1. /\ request' = request /\ seen' = seen
      /\ \A d \in Clients : (pc'[d] \in Holding) <=> (pc[d] \in Holding)
  BY WorkFrame DEF IInv
<1>2. LeaseHolders' = LeaseHolders  BY <1>1 DEF LeaseHolders
<1> QED  BY <1>1, <1>2, Stutters

\* The event that is appended extends the history the caller validated, that of the
\* lease, or none.
LEMMA AppendRefines ==
    ASSUME IInv, NEW c \in Clients, AppendEvent(c) \/ AppendFails(c), events' # events
    PROVE  History!HNext
<1> DEFINE e == NewEvent(current[c])
<1>1. /\ pc[c] = "append" /\ events' = Append(events, e)
      /\ events \in Seq(Event) /\ e \in Event
  BY NewEventType DEF IInv, TypeOK, AppendEvent, AppendFails
<1>2. request' = request /\ seen' = seen /\ LeaseHolders' = LeaseHolders
  <2>1. /\ request' = request /\ seen' = seen
        /\ \A d \in Clients : (pc'[d] \in Holding) <=> (pc[d] \in Holding)
    BY WorkFrame DEF IInv, Work
  <2> QED  BY <2>1 DEF LeaseHolders
<1> HIDE DEF e
<1>3. History!Grows
  <2>1. /\ Len(events) \in Nat /\ Len(events') = Len(events) + 1
        /\ \A i \in 1..Len(events) : events'[i] = events[i]
        /\ events'[Len(events) + 1] = e /\ e.hash \in Nat
    BY <1>1 DEF Event, Positive
  <2>2. \A log \in Seq(Event) :
           /\ Len(Replay(log)) = Len(log)
           /\ \A i \in 1..Len(log) : Replay(log)[i] = log[i].hash
    BY DEF Replay
  <2>3. events' \in Seq(Event)  BY <1>1
  <2>4. /\ Len(Replay(events)) = Len(events) /\ Len(Replay(events')) = Len(events) + 1
        /\ \A i \in 1..Len(events) : Replay(events')[i] = Replay(events)[i]
        /\ Replay(events')[Len(events) + 1] = e.hash
    <3>1. /\ Len(Replay(events)) = Len(events)
          /\ \A i \in 1..Len(events) : Replay(events)[i] = events[i].hash
      BY <1>1, <2>2
    <3>2. /\ Len(Replay(events')) = Len(events')
          /\ \A i \in 1..Len(events') : Replay(events')[i] = events'[i].hash
      BY <2>2, <2>3
    <3>3. /\ Len(events) + 1 \in 1..Len(events')
          /\ \A i \in 1..Len(events) : i \in 1..Len(events')
      BY <2>1
    <3> QED  BY <2>1, <3>1, <3>2, <3>3
  <2> QED  BY <1>2, <2>1, <2>4 DEF History!Grows
<1>4. events # <<>> <=> Replay(events) # <<>>
  BY <1>1 DEF Replay
<1>5. CASE request[c] = "create"
  <2>1. Replay(events) = <<>>  BY <1>1, <1>4, <1>5 DEF IInv, CurrentOK
  <2> QED  BY <1>3, <2>1 DEF History!HNext, History!Begin
<1>6. CASE request[c] = "commit"
  <2>1. Replay(events) # <<>> /\ seen[c] # NoState
    BY <1>1, <1>4, <1>6 DEF IInv, CurrentOK, RequestOK
  <2>2. LeaseHolders = {}  BY <1>1, <1>6, LeaseOfHolding DEF Holding
  <2>3. seen[c].state = Replay(events)  BY <1>1, <1>6, CommitGuarded
  <2> QED  BY <1>3, <2>1, <2>2, <2>3 DEF History!HNext, History!Extend
<1>7. CASE request[c] = "lease"
  <2>1. Replay(events) # <<>>  BY <1>1, <1>4, <1>7 DEF IInv, CurrentOK
  <2>2. LeaseHolders = {c}  BY <1>1, <1>7, LeaseOfHolding DEF Holding
  <2>3. c # NoProc  BY StoreAssumption
  <2> QED  BY <1>3, <2>1, <2>2, <2>3 DEF History!HNext, History!ExtendUnderLease
<1>8. request[c] \in {"create", "commit", "lease"}
  BY <1>1 DEF IInv, TypeOK, RequestOK, Requests
<1> QED  BY <1>5, <1>6, <1>7, <1>8

\* A call for the lease takes it with the mutex.
LEMMA AcquireRefines ==
    ASSUME IInv, NEW c \in Clients, Acquire(c)
    PROVE  History!HNext \/ UNCHANGED History!historyVars
<1>1. /\ \A d \in Clients : pc[d] \notin Holding
      /\ pc' = [pc EXCEPT ![c] = IF request[c] = "create" THEN "check" ELSE "scan"]
      /\ request' = request /\ events' = events /\ seen' = seen
  BY NobodyHolds DEF Acquire, disk
<1>2. /\ pc \in [Clients -> Holding \cup {"idle", "waiting"}]
      /\ "check" \in Holding /\ "scan" \in Holding
  BY DEF IInv, TypeOK, Holding
<1>3. LeaseHolders = {}  BY <1>1 DEF LeaseHolders
<1>4. LeaseHolders' = IF request[c] = "lease" THEN {c} ELSE {}
  BY <1>1, <1>2 DEF LeaseHolders
<1>5. CASE request[c] = "lease"
  <2> QED  BY <1>1, <1>3, <1>4, <1>5 DEF History!HNext, History!TakeLease
<1>6. CASE request[c] # "lease"
  BY <1>1, <1>3, <1>4, <1>6, Stutters
<1> QED  BY <1>5, <1>6

\* A call that succeeds returns the history; any other one gives back its lease.
LEMMA ReleaseRefines ==
    ASSUME IInv, NEW c \in Clients, Release(c)
    PROVE  History!HNext \/ UNCHANGED History!historyVars
<1>1. /\ pc[c] = "release" /\ pc' = [pc EXCEPT ![c] = "idle"]
      /\ request' = [request EXCEPT ![c] = "load"] /\ events' = events
      /\ seen' = [seen EXCEPT ![c] =
            IF outcome[c] = "ok" /\ request[c] # "recover" THEN current[c] ELSE seen[c]]
  BY DEF Release, disk
<1>2. /\ pc \in [Clients -> Holding \cup {"idle", "waiting"}] /\ "idle" \notin Holding
      /\ pc[c] \in Holding /\ request \in [Clients -> Requests]
      /\ seen \in [Clients -> StateFile \cup {NoState}] /\ events \in Seq(Event)
  BY <1>1 DEF IInv, TypeOK, Holding
<1>3. LeaseHolders = IF request[c] = "lease" THEN {c} ELSE {}
  BY <1>2, LeaseOfHolding
<1>4. LeaseHolders' = {}
  <2>1. \A d \in Clients : pc[d] \in Holding => d = c
    BY <1>2, OneHolder DEF IInv
  <2> QED  BY <1>1, <1>2, <2>1 DEF LeaseHolders
<1>5. CASE outcome[c] = "ok" /\ request[c] # "recover"
  <2>1. events # <<>> /\ current[c] = Rebuilt(events)
    BY <1>1, <1>5 DEF IInv, CurrentOK
  <2>2. Rebuilt(events) # NoState /\ Rebuilt(events).state = Replay(events)
    BY <1>2, <2>1, RebuiltType, NoStateAssumption DEF Rebuilt
  <2>3. Replay(events) # <<>>  BY <1>2, <2>1 DEF Replay
  <2>4. Known' = [Known EXCEPT ![c] = Replay(events)]
    BY <1>1, <1>2, <1>5, <2>1, <2>2 DEF Known
  <2>5. Lease' = History!WithoutLease({c})
    BY <1>3, <1>4, StoreAssumption DEF Lease, Holder, History!WithoutLease
  <2> QED
    BY <1>1, <2>3, <2>4, <2>5 DEF History!HNext, History!Return, Known, Lease, Holder
<1>6. CASE ~(outcome[c] = "ok" /\ request[c] # "recover")
  <2>1. seen' = seen  BY <1>1, <1>2, <1>6
  <2>2. CASE request[c] = "lease"
    BY <1>1, <1>3, <1>4, <2>1, <2>2 DEF History!HNext, History!DropLease
  <2>3. CASE request[c] # "lease"
    BY <1>1, <1>3, <1>4, <2>1, <2>3, Stutters
  <2> QED  BY <2>2, <2>3
<1> QED  BY <1>5, <1>6

\* A crash makes the callers of one process forget, and frees their lease.
LEMMA CrashRefines ==
    ASSUME IInv, NEW p \in Procs, Crash(p)
    PROVE  History!HNext
<1> DEFINE cs == {c \in Clients : ProcOf[c] = p}
<1>1. /\ pc' = [c \in Clients |-> IF c \in cs THEN "idle" ELSE pc[c]]
      /\ request' = [c \in Clients |-> IF c \in cs THEN "load" ELSE request[c]]
      /\ seen' = [c \in Clients |-> IF c \in cs THEN NoState ELSE seen[c]]
      /\ events' = events
  BY DEF Crash, disk
<1>2. cs \in SUBSET Clients  OBVIOUS
<1> HIDE DEF cs
<1>3. LeaseHolders' = LeaseHolders \ cs
  BY <1>1 DEF LeaseHolders, Holding
<1>4. Known' = [c \in Clients |-> IF c \in cs THEN NoState ELSE Known[c]]
  BY <1>1 DEF Known
<1>5. LeaseHolders = {} \/ \E c \in Clients : LeaseHolders = {c}
  <2>1. \A c, d \in LeaseHolders : c = d
    BY OneHolder DEF IInv, LeaseHolders
  <2> QED  BY <2>1 DEF LeaseHolders
<1>6. Lease' = History!WithoutLease(cs)
  <2>1. CASE LeaseHolders = {}
    BY <1>3, <2>1, HolderNone DEF Lease, Holder, History!WithoutLease
  <2>2. ASSUME NEW c \in Clients, LeaseHolders = {c}
        PROVE  Lease' = History!WithoutLease(cs)
    <3>1. Lease = c  BY <2>2, HolderOne DEF Lease
    <3>2. CASE c \in cs
      BY <1>3, <2>2, <3>1, <3>2, HolderNone DEF Lease, Holder, History!WithoutLease
    <3>3. CASE c \notin cs
      BY <1>3, <2>2, <3>1, <3>3, HolderOne DEF Lease, Holder, History!WithoutLease
    <3> QED  BY <3>2, <3>3
  <2> QED  BY <1>5, <2>1, <2>2
<1>7. History!Forget(cs)
  BY <1>1, <1>4, <1>6 DEF History!Forget, Known, Lease, Holder
<1> QED  BY <1>2, <1>7 DEF History!HNext

LEMMA StepRefines ==
    ASSUME IInv, [Next]_vars
    PROVE  [History!HNext]_(History!historyVars)
<1>1. CASE UNCHANGED vars
  <2>1. /\ events' = events /\ seen' = seen /\ pc' = pc /\ request' = request
    BY <1>1 DEF vars, disk, calls
  <2> QED  BY <2>1, Stutters DEF LeaseHolders
<1>2. ASSUME NEW c \in Clients, NEW r \in Requests, Submit(c, r)
      PROVE  UNCHANGED History!historyVars
  <2>1. /\ events' = events /\ seen' = seen /\ pc[c] = "idle"
        /\ pc' = [pc EXCEPT ![c] = "waiting"] /\ request' = [request EXCEPT ![c] = r]
    BY <1>2 DEF Submit, disk
  <2>2. LeaseHolders' = LeaseHolders  BY <2>1 DEF LeaseHolders, Holding, IInv, TypeOK
  <2> QED  BY <2>1, <2>2, Stutters
<1>3. ASSUME NEW c \in Clients, LockTimeout(c)
      PROVE  UNCHANGED History!historyVars
  <2>1. /\ events' = events /\ seen' = seen /\ pc[c] = "waiting"
        /\ pc' = [pc EXCEPT ![c] = "idle"] /\ request' = [request EXCEPT ![c] = "load"]
    BY <1>3 DEF LockTimeout, disk
  <2>2. LeaseHolders' = LeaseHolders  BY <2>1 DEF LeaseHolders, Holding, IInv, TypeOK
  <2> QED  BY <2>1, <2>2, Stutters
<1>4. ASSUME NEW c \in Clients, Work(c)
      PROVE  [History!HNext]_(History!historyVars)
  <2>1. CASE events' = events  BY <1>4, <2>1, QuietWork
  <2>2. CASE events' # events
    <3>1. AppendEvent(c) \/ AppendFails(c)
      BY <1>4, <2>2 DEF Work, Scan, Rebuild, RebuildFails, Sweep, SweepFails, Check, Decide,
         Publish, PublishFails, disk
    <3> QED  BY <2>2, <3>1, AppendRefines
  <2> QED  BY <2>1, <2>2
<1> QED
  BY <1>1, <1>2, <1>3, <1>4, AcquireRefines, ReleaseRefines, CrashRefines DEF Next, Step, Work

\* Refinement: the files, the mutex and the chains of any number of callers and
\* processes implement one growing history with compare-and-swap commits and an
\* exclusive mutation lease.
THEOREM Refinement == Spec => RefinesHistory
<1>1. Init => History!HInit  BY InitRefines
<1>2. IInv /\ [Next]_vars => [History!HNext]_(History!historyVars)  BY StepRefines
<1> QED  BY <1>1, <1>2, Invariance, PTL DEF Spec, RefinesHistory, History!HSpec
=============================================================================
