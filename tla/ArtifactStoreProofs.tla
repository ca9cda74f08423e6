------------------------ MODULE ArtifactStoreProofs ------------------------
(***************************************************************************)
(* Proofs about ArtifactStore, for any calls, contents and bounds.  What a  *)
(* publication has compared, written or verified stays so while it has the  *)
(* lease, but for the user, who needs none; and the scan removes objects    *)
(* only while nobody can commit an Artifact.                                *)
(***************************************************************************)
EXTENDS ArtifactStore, TLAPS

-----------------------------------------------------------------------------
(* The inductive invariant *)

Publishing == {"enter", "reenter", "reingest", "reverify", "compare", "recompare", "write",
               "rewrite", "confirm", "reconfirm", "publish"}
Bare == {"idle", "enter", "reenter", "ingest", "reingest", "stored"}

\* What the steps of a call say of its request and its operation.
CallOK(w) ==
    /\ pc[w] \in Publishing => request[w].kind = "publish"
    /\ pc[w] = "commit" => request[w].kind = "snapshot"
    /\ pc[w] \in {"load", "upload", "stored"} => request[w].kind = "upload"
    /\ pc[w] \notin {"idle", "stored"} => operation[w] = "open"
    /\ pc[w] = "stored" => operation[w] = "committed"
    /\ operation[w] # "none" /\ request[w].kind # "snapshot" => request[w].digest \in Digests
    /\ pc[w] \notin Bare => request[w].digest \in Digests

\* A publication that has its object keeps it; the scan keeps what is referenced.
ObjectsOK ==
    /\ DeliverablesAreStored
    /\ holder = Recovery => kept = Referenced
    /\ \A w \in Workers :
           holder = w /\ pc[w] \notin {"ingest", "reingest"} => object[request[w].digest] # "missing"

\* Where a call is that has written the file.
Written == {"idle", "reenter", "reingest", "reverify", "recompare", "rewrite", "confirm",
            "reconfirm", "publish", "answer"}

\* Only the user changes the file behind the back of a publication, and what a
\* publication wrote is shown once it is published.
FileOK ==
    /\ \A w \in Workers :
           /\ pc[w] \in {"write", "rewrite"} => writer = User \/ file = request[w].expected
           /\ pc[w] = "publish" => writer = User \/ file = request[w].digest
           /\ writer = w => /\ pc[w] \in Written
                            /\ request[w].kind = "publish"
                            /\ operation[w] # "none"
                            /\ file \in Digests
    /\ writer \in Workers /\ (operation[writer] # "open" \/ pc[writer] = "answer")
           => artifacts[Deliverable(file)] \in {"current", "stale"}

IInv ==
    /\ TypeOK
    /\ \A w \in Workers : CallOK(w)
    /\ ObjectsOK
    /\ OneCurrentDeliverable
    /\ FileOK

-----------------------------------------------------------------------------

LEMMA Names ==
    /\ Absent \notin Digests
    /\ Nobody \notin Workers /\ Recovery \notin Workers /\ User \notin Workers
    /\ "snapshot" \notin Workers /\ "deliverable" \notin Workers
    /\ Nobody # Recovery
BY StoreAssumption

LEMMA DeliverableId ==
    /\ \A d \in Digests : Deliverable(d) \in Ids /\ Deliverable(d) \in AtFile
    /\ \A d, e : Deliverable(d) = Deliverable(e) => d = e
BY DEF Deliverable, Ids, AtFile

\* What a call commits, which is a deliverable only if it publishes one.
LEMMA IdOf ==
    ASSUME TypeOK, NEW w \in Workers, request[w].digest \in Digests
    PROVE /\ Id(w) \in Ids
          /\ request[w].kind = "publish" => Id(w) = Deliverable(request[w].digest)
          /\ request[w].kind # "publish" => \A d : Id(w) # Deliverable(d)
<1>1. request[w].kind \in {"snapshot", "upload", "publish"}
  BY DEF TypeOK, Requests
<1>2. CASE request[w].kind = "snapshot"
  BY <1>2 DEF Id, Ids, Deliverable
<1>3. CASE request[w].kind = "upload"
  BY <1>3, Names DEF Id, Ids, Deliverable
<1>4. CASE request[w].kind = "publish"
  BY <1>4 DEF Id, Ids, Deliverable
<1> QED
  BY <1>1, <1>2, <1>3, <1>4

LEMMA InitInvariant == Init => IInv
<1> SUFFICES ASSUME Init PROVE IInv
  OBVIOUS
<1>1. \A w \in Workers : ~Leased(w) /\ holder # w
  BY Names DEF Init, Leased
<1>2. TypeOK
  BY <1>1 DEF Init, TypeOK, Requests, Steps
<1>3. \A w \in Workers : CallOK(w)
  BY DEF Init, CallOK, Publishing, Bare
<1>4. ObjectsOK /\ OneCurrentDeliverable
  BY <1>1, Names, DeliverableId DEF Init, ObjectsOK, DeliverablesAreStored, OneCurrentDeliverable
<1>5. FileOK
  BY Names DEF Init, FileOK
<1> QED
  BY <1>2, <1>3, <1>4, <1>5 DEF IInv

-----------------------------------------------------------------------------
(* Types and requests *)

\* The types, and who holds the lease.
Types ==
    /\ object \in [Digests -> {"missing", "fresh", "aged"}]
    /\ artifacts \in [Ids -> {"none", "current", "stale", "superseded"}]
    /\ file \in Digests \cup {Absent} /\ writer \in Workers \cup {User}
    /\ holder \in Workers \cup {Nobody, Recovery} /\ kept \subseteq Digests
    /\ pc \in [Workers -> Steps] /\ request \in [Workers -> Requests]
    /\ operation \in [Workers -> {"none", "open", "committed", "failed-final"}]
    /\ {generation, edits, interrupts} \subseteq Nat

Leases == \A w \in Workers : Leased(w) <=> holder = w

LEMMA TypeParts == TypeOK <=> Types /\ Leases
BY DEF TypeOK, Types, Leases

LEMMA TypesStep ==
    ASSUME TypeOK, \A w \in Workers : CallOK(w), [Next]_vars
    PROVE Types'
<1> USE DEF state, workspace, lock, vars
<1>0. Types
  BY TypeParts
<1>1. CASE UNCHANGED vars
  BY <1>0, <1>1 DEF Types
<1>2. ASSUME NEW w \in Workers, NEW kind \in {"snapshot", "upload", "publish"},
             NEW d \in Digests \cup {Absent}, NEW e \in Digests \cup {Absent}, Start(w, kind, d, e)
      PROVE Types'
  BY <1>0, <1>2 DEF Types, Start, Goto, Steps, Requests
<1>3. Referenced \subseteq Digests
  BY DEF Referenced
<1>4. ASSUME NEW w \in Workers, Call(w)
      PROVE Types'
  <2>1. CASE EnterLease(w) \/ LockTimeout(w)
    BY <1>0, <2>1 DEF Types, EnterLease, LockTimeout, UnderLease, Refuse, Released, Goto, Steps
  <2>2. CASE Ingest(w)
    <3>1. Content(w) \in Digests
      BY <1>0, <2>2 DEF Types, Ingest, Content, Requests
    <3>2. request' \in [Workers -> Requests]
      BY <1>0, <2>2, <3>1 DEF Types, Ingest, Requests
    <3> QED
      BY <1>0, <2>2, <3>1, <3>2 DEF Types, Ingest, Goto, Steps
  <2>3. CASE NoSource(w) \/ VerifyMissing(w)
    BY <1>0, <2>3 DEF Types, NoSource, VerifyMissing, Refuse, Released, Goto, Steps
  <2>4. CASE Verify(w)
    BY <1>0, <2>4 DEF Types, Verify, Goto, Steps
  <2>5. CASE CommitSnapshot(w)
    <3>1. Id(w) \in Ids
      BY <2>5, IdOf DEF CommitSnapshot, CallOK, Bare
    <3> QED
      BY <1>0, <2>5, <3>1 DEF Types, CommitSnapshot, Record, Committed, Refuse, Released, Goto, Steps
  <2>6. CASE LoadForUpload(w)
    BY <1>0, <2>6 DEF Types, LoadForUpload, Goto, Steps, Requests
  <2>7. CASE CommitUpload(w)
    <3>1. Id(w) \in Ids
      BY <2>7, IdOf DEF CommitUpload, CallOK, Bare
    <3>2. generation \in Nat /\ generation' \in Nat
      BY <1>0, <2>7 DEF Types, CommitUpload, Record
    <3>3. artifacts' \in [Ids -> {"none", "current", "stale", "superseded"}]
      BY <1>0, <2>7, <3>1 DEF Types, CommitUpload, Record, Committed
    <3>4. request' \in [Workers -> Requests]
      <4>1. request \in [Workers -> Requests]
        BY <1>0 DEF Types
      <4>2. request' \in {request, [request EXCEPT ![w].generation = generation + 1]}
        BY <2>7 DEF CommitUpload
      <4> QED
        BY <3>2, <4>1, <4>2 DEF Requests
    <3>5. pc' \in [Workers -> Steps]
      BY <1>0, <2>7 DEF Types, CommitUpload, Goto, Steps
    <3>6. UNCHANGED <<object, workspace, lock, operation, interrupts>>
      BY <2>7 DEF CommitUpload
    <3> QED
      BY <1>0, <3>2, <3>3, <3>4, <3>5, <3>6 DEF Types
  <2>8. CASE Compare(w) \/ Confirm(w)
    BY <1>0, <2>8 DEF Types, Compare, Confirm, Refuse, Released, Goto, Steps
  <2>9. CASE Write(w)
    BY <1>0, <2>9 DEF Types, Write, Goto, Steps, CallOK, Bare
  <2>10. CASE Publish(w)
    <3>1. artifacts' \in [Ids -> {"none", "current", "stale", "superseded"}] /\ generation' \in Nat
      BY <1>0, <2>10 DEF Types, Publish, Record, Superseding
    <3> QED
      BY <1>0, <2>10, <3>1 DEF Types, Publish, Released, Goto, Steps
  <2>11. CASE Answer(w)
    BY <1>0, <2>11 DEF Types, Answer, Goto, Steps
  <2> QED
    BY <1>4, <2>1, <2>2, <2>3, <2>4, <2>5, <2>6, <2>7, <2>8, <2>9, <2>10, <2>11 DEF Call
<1>5. ASSUME NEW w \in Workers, Retry(w) \/ Interrupt(w) \/ Rollback(w)
      PROVE Types'
  <2>1. CASE Retry(w) \/ Interrupt(w)
    BY <1>0, <2>1 DEF Types, Retry, Interrupt, Released, Goto, Steps
  <2>2. CASE Rollback(w)
    <3>1. Id(w) \in Ids
      BY <2>2, IdOf DEF Rollback, CallOK
    <3> QED
      BY <1>0, <2>2, <3>1 DEF Types, Rollback, Record, Goto, Steps
  <2> QED
    BY <1>5, <2>1, <2>2
<1>6. ASSUME NEW i \in Ids, Drift(i)
      PROVE Types'
  BY <1>0, <1>6 DEF Types, Drift
<1>7. ASSUME NEW d \in Digests, Age(d) \/ RemoveOrphan(d)
      PROVE Types'
  BY <1>0, <1>7 DEF Types, Age, RemoveOrphan
<1>8. CASE ScanBegin \/ ScanEnd
  BY <1>0, <1>3, <1>8 DEF Types, ScanBegin, ScanEnd
<1>9. ASSUME NEW content \in Digests \cup {Absent}, Edit(content)
      PROVE Types'
  BY <1>0, <1>9 DEF Types, Edit
<1> QED
  BY <1>1, <1>2, <1>4, <1>5, <1>6, <1>7, <1>8, <1>9 DEF Next

LEMMA SameCall ==
    ASSUME NEW v, CallOK(v), pc'[v] = pc[v], request'[v] = request[v], operation'[v] = operation[v]
    PROVE CallOK(v)'
BY DEF CallOK

LEMMA OwnCall ==
    ASSUME TypeOK, NEW w \in Workers, CallOK(w), Call(w)
    PROVE CallOK(w)'
<1> USE DEF state, workspace, lock, TypeOK
<1>0. request[w] \in Requests /\ pc[w] \in Steps
  OBVIOUS
<1>1. CASE EnterLease(w) \/ LockTimeout(w)
  BY <1>1 DEF EnterLease, LockTimeout, Refuse, Goto, CallOK, Publishing, Bare
<1>2. CASE Ingest(w)
  <2>1. Content(w) \in Digests
    BY <1>2 DEF Ingest, Content, Requests
  <2>2. request'[w] = [request[w] EXCEPT !.digest = Content(w)]
    BY <1>2 DEF Ingest
  <2>3. request'[w].digest \in Digests /\ request'[w].kind = request[w].kind
    BY <1>0, <2>1, <2>2 DEF Requests
  <2> QED
    BY <1>2, <2>3 DEF Ingest, Goto, CallOK, Publishing, Bare
<1>3. CASE NoSource(w) \/ VerifyMissing(w)
  BY <1>3 DEF NoSource, VerifyMissing, Refuse, Goto, CallOK, Publishing, Bare
<1>4. CASE Verify(w)
  <2>1. request[w].kind \in {"snapshot", "upload", "publish"}
    BY <1>0 DEF Requests
  <2> QED
    BY <1>4, <2>1 DEF Verify, Goto, CallOK, Publishing, Bare
<1>5. CASE CommitSnapshot(w)
  BY <1>5 DEF CommitSnapshot, Refuse, Goto, CallOK, Publishing, Bare
<1>6. CASE LoadForUpload(w) \/ CommitUpload(w)
  <2>1. request'[w].digest = request[w].digest /\ request'[w].kind = request[w].kind
    BY <1>0, <1>6 DEF LoadForUpload, CommitUpload, Requests
  <2> QED
    BY <1>6, <2>1 DEF LoadForUpload, CommitUpload, Goto, CallOK, Publishing, Bare
<1>7. CASE Compare(w) \/ Confirm(w)
  BY <1>7 DEF Compare, Confirm, Refuse, Goto, CallOK, Publishing, Bare
<1>8. CASE Write(w) \/ Publish(w) \/ Answer(w)
  BY <1>8 DEF Write, Publish, Answer, Goto, CallOK, Publishing, Bare
<1> QED
  BY <1>1, <1>2, <1>3, <1>4, <1>5, <1>6, <1>7, <1>8 DEF Call

\* A step is of one call, of time or of the user.
Outside ==
    \/ \E i \in Ids : Drift(i)
    \/ \E d \in Digests : Age(d) \/ RemoveOrphan(d)
    \/ ScanBegin \/ ScanEnd
    \/ \E content \in Digests \cup {Absent} : Edit(content)
    \/ UNCHANGED vars

Step(w) ==
    \/ \E kind \in {"snapshot", "upload", "publish"}, d, e \in Digests \cup {Absent} :
           Start(w, kind, d, e)
    \/ Call(w) \/ Retry(w) \/ Interrupt(w) \/ Rollback(w)

LEMMA StepOf == [Next]_vars => Outside \/ \E w \in Workers : Step(w)
BY DEF Next, Outside, Step

LEMMA OutsideCalls == Outside => UNCHANGED <<pc, request, operation>>
BY DEF Outside, Drift, Age, RemoveOrphan, ScanBegin, ScanEnd, Edit, lock, vars

LEMMA OthersCalls ==
    ASSUME TypeOK, NEW w \in Workers, Step(w), NEW v \in Workers, v # w
    PROVE pc'[v] = pc[v] /\ request'[v] = request[v] /\ operation'[v] = operation[v]
<1> USE DEF state, workspace, lock, TypeOK
<1>1. ASSUME NEW kind, NEW d, NEW e, Start(w, kind, d, e)
      PROVE pc'[v] = pc[v] /\ request'[v] = request[v] /\ operation'[v] = operation[v]
  BY <1>1 DEF Start, Goto
<1>2. CASE EnterLease(w) \/ LockTimeout(w) \/ Ingest(w) \/ NoSource(w)
  BY <1>2 DEF EnterLease, LockTimeout, Ingest, NoSource, Refuse, Goto
<1>3. CASE Verify(w) \/ VerifyMissing(w) \/ CommitSnapshot(w) \/ LoadForUpload(w)
  BY <1>3 DEF Verify, VerifyMissing, CommitSnapshot, LoadForUpload, Refuse, Goto
<1>4. CASE CommitUpload(w) \/ Compare(w) \/ Write(w) \/ Confirm(w) \/ Publish(w) \/ Answer(w)
  BY <1>4 DEF CommitUpload, Compare, Write, Confirm, Publish, Answer, Refuse, Goto
<1>5. CASE Retry(w) \/ Interrupt(w) \/ Rollback(w)
  BY <1>5 DEF Retry, Interrupt, Rollback, Goto
<1> QED
  BY <1>1, <1>2, <1>3, <1>4, <1>5 DEF Step, Call

LEMMA CallsStep ==
    ASSUME TypeOK, \A w \in Workers : CallOK(w), [Next]_vars
    PROVE \A w \in Workers : CallOK(w)'
<1> USE DEF state, workspace, lock
<1>1. CASE Outside
  BY <1>1, OutsideCalls, SameCall
<1>2. ASSUME NEW w \in Workers, Step(w)
      PROVE CallOK(w)'
  <2>1. ASSUME NEW kind \in {"snapshot", "upload", "publish"}, NEW d \in Digests \cup {Absent},
               NEW e \in Digests \cup {Absent}, Start(w, kind, d, e)
        PROVE CallOK(w)'
    <3>1. request'[w].kind = kind /\ request'[w].digest = d /\ operation'[w] = "open"
      BY <2>1 DEF Start, TypeOK
    <3>2. pc'[w] = IF kind = "publish" THEN "enter" ELSE "ingest"
      BY <2>1 DEF Start, TypeOK, Goto
    <3>3. kind # "snapshot" => d \in Digests
      BY <2>1 DEF Start
    <3> QED
      BY <3>1, <3>2, <3>3 DEF CallOK, Publishing, Bare
  <2>2. CASE Retry(w) \/ Interrupt(w) \/ Rollback(w)
    BY <2>2 DEF TypeOK, Retry, Interrupt, Rollback, Goto, CallOK, Publishing, Bare
  <2> QED
    BY <1>2, <2>1, <2>2, OwnCall DEF Step
<1>3. ASSUME NEW w \in Workers, Step(w), NEW v \in Workers, v # w
      PROVE CallOK(v)'
  BY <1>3, OthersCalls, SameCall
<1> QED
  BY <1>1, <1>2, <1>3, StepOf

-----------------------------------------------------------------------------
(* The lease *)

LEMMA LeaseKept ==
    ASSUME NEW v, Leased(v) <=> holder = v, holder' = v <=> holder = v,
           pc'[v] = pc[v], request'[v] = request[v], operation'[v] = operation[v]
    PROVE Leased(v)' <=> holder' = v
BY DEF Leased

LEMMA OwnLease ==
    ASSUME TypeOK, NEW w \in Workers, CallOK(w), Step(w)
    PROVE /\ Leased(w)' <=> holder' = w
          /\ holder' = holder \/ holder' = w \/ (holder = w /\ holder' = Nobody)
          /\ holder' = w => holder \in {w, Nobody}
<1> USE DEF state, workspace, lock, Leased, CallOK, Publishing, TypeOK
<1>0. w # Nobody /\ (holder = w <=> Leased(w)) /\ pc[w] \in Steps /\ request[w] \in Requests
  BY Names
<1>1. ASSUME NEW kind \in {"snapshot", "upload", "publish"}, NEW d \in Digests \cup {Absent},
             NEW e \in Digests \cup {Absent}, Start(w, kind, d, e)
      PROVE Leased(w)' <=> holder' = w
  <2>1. request'[w].kind = kind /\ operation'[w] = "open" /\ holder' = holder
    BY <1>1 DEF Start
  <2>2. pc'[w] = IF kind = "publish" THEN "enter" ELSE "ingest"
    BY <1>1 DEF Start, Goto
  <2>3. ~Leased(w)
    BY <1>1 DEF Start
  <2> QED
    BY <1>0, <2>1, <2>2, <2>3
<1>2. CASE EnterLease(w) \/ LockTimeout(w)
  BY <1>0, <1>2 DEF EnterLease, LockTimeout, UnderLease, Refuse, Released, Goto, Idle
<1>3. CASE Ingest(w)
  <2>1. request'[w] = [request[w] EXCEPT !.digest = Content(w)]
    BY <1>3 DEF Ingest
  <2>2. request'[w].kind = request[w].kind
    BY <1>0, <2>1 DEF Requests
  <2> QED
    BY <1>0, <1>3, <2>2 DEF Ingest, Goto
<1>4. CASE NoSource(w) \/ VerifyMissing(w)
  BY <1>0, <1>4 DEF NoSource, VerifyMissing, Refuse, Released, Goto
<1>5. CASE Verify(w)
  BY <1>0, <1>5 DEF Verify, Goto
<1>6. CASE CommitSnapshot(w)
  BY <1>0, <1>6 DEF CommitSnapshot, Refuse, Released, Goto
<1>7. CASE LoadForUpload(w) \/ CommitUpload(w)
  <2>1. request'[w].kind = request[w].kind
    BY <1>0, <1>7 DEF LoadForUpload, CommitUpload, Requests
  <2> QED
    BY <1>0, <1>7, <2>1 DEF LoadForUpload, CommitUpload, Goto
<1>8. CASE Compare(w) \/ Confirm(w)
  BY <1>0, <1>8 DEF Compare, Confirm, Refuse, Released, Goto
<1>9. CASE Write(w) \/ Publish(w) \/ Answer(w)
  BY <1>0, <1>9 DEF Write, Publish, Answer, Released, Goto
<1>10. CASE Retry(w) \/ Interrupt(w)
  BY <1>0, <1>10 DEF Retry, Interrupt, Released, Goto
<1>11. CASE Rollback(w)
  BY <1>0, <1>11 DEF Rollback, Goto
<1> QED
  <2>1. Leased(w)' <=> holder' = w
    BY <1>1, <1>2, <1>3, <1>4, <1>5, <1>6, <1>7, <1>8, <1>9, <1>10, <1>11 DEF Step, Call
  <2>2. holder' = holder \/ holder' = w \/ (holder = w /\ holder' = Nobody)
    BY DEF Step, Start, Call, EnterLease, LockTimeout, UnderLease, Ingest, NoSource, Verify,
           VerifyMissing, CommitSnapshot, LoadForUpload, CommitUpload, Compare, Write, Confirm,
           Publish, Answer, Retry, Interrupt, Rollback, Refuse, Released
  <2>3. holder' = w => holder \in {w, Nobody}
    BY <1>0 DEF Step, Start, Call, EnterLease, LockTimeout, UnderLease, Ingest, NoSource, Verify,
           VerifyMissing, CommitSnapshot, LoadForUpload, CommitUpload, Compare, Write, Confirm,
           Publish, Answer, Retry, Interrupt, Rollback, Refuse, Released, Idle
  <2> QED
    BY <2>1, <2>2, <2>3

LEMMA LeasesStep ==
    ASSUME TypeOK, \A w \in Workers : CallOK(w), [Next]_vars
    PROVE Leases'
<1>1. Leases
  BY TypeParts
<1>2. CASE Outside
  <2>1. \A v \in Workers : holder' = v <=> holder = v
    BY <1>2, Names DEF Outside, Drift, Age, RemoveOrphan, ScanBegin, ScanEnd, Edit, Idle, lock, vars
  <2> QED
    BY <1>1, <1>2, <2>1, OutsideCalls, LeaseKept DEF Leases
<1>3. ASSUME NEW w \in Workers, Step(w)
      PROVE Leases'
  <2>1. ASSUME NEW v \in Workers, v # w
        PROVE Leased(v)' <=> holder' = v
    <3>1. holder' = v <=> holder = v
      BY <1>3, <2>1, OwnLease, Names
    <3> QED
      BY <1>1, <1>3, <2>1, <3>1, OthersCalls, LeaseKept DEF Leases
  <2> QED
    BY <1>3, <2>1, OwnLease DEF Leases
<1> QED
  BY <1>2, <1>3, StepOf

-----------------------------------------------------------------------------
(* Artifacts and objects *)

\* No step of a call changes what the scan has seen while it runs.
LEMMA ScanSeesAll ==
    ASSUME TypeOK, \A w \in Workers : CallOK(w), [Next]_vars, artifacts' # artifacts
    PROVE holder # Recovery
<1> USE DEF state, workspace, lock
<1>1. CASE Outside
  BY <1>1, Names DEF Outside, Drift, Age, RemoveOrphan, ScanBegin, ScanEnd, Edit, Idle, vars
<1>2. ASSUME NEW w \in Workers, Step(w)
      PROVE holder # Recovery
  <2>1. CASE Publish(w)
    BY <2>1, Names DEF Publish, TypeOK, Leased, CallOK, Publishing
  <2>2. CASE ~Publish(w)
    BY <1>2, <2>2, Names
       DEF Step, Start, Call, EnterLease, LockTimeout, Ingest, NoSource, Verify, VerifyMissing,
           CommitSnapshot, LoadForUpload, CommitUpload, Compare, Write, Confirm, Answer, Retry,
           Interrupt, Rollback, Idle
  <2> QED
    BY <2>1, <2>2
<1> QED
  BY <1>1, <1>2, StepOf

\* What a step makes of a deliverable.
LEMMA DeliverableStep ==
    ASSUME TypeOK, \A w \in Workers : CallOK(w), [Next]_vars, NEW d \in Digests
    PROVE \/ artifacts'[Deliverable(d)] = artifacts[Deliverable(d)]
          \/ artifacts[Deliverable(d)] = "current" /\ artifacts'[Deliverable(d)] = "stale"
          \/ \E w \in Workers :
                 /\ Publish(w) /\ artifacts' = Superseding(request[w].digest)
                 /\ artifacts[Deliverable(request[w].digest)] # "current"
<1> USE DEF state, workspace, lock
<1>0. Deliverable(d) \in Ids /\ artifacts \in [Ids -> {"none", "current", "stale", "superseded"}]
  BY DeliverableId DEF TypeOK
<1>1. CASE Outside
  BY <1>0, <1>1 DEF Outside, Drift, Age, RemoveOrphan, ScanBegin, ScanEnd, Edit, vars
<1>2. ASSUME NEW w \in Workers, Step(w)
      PROVE \/ artifacts'[Deliverable(d)] = artifacts[Deliverable(d)]
            \/ /\ Publish(w) /\ artifacts' = Superseding(request[w].digest)
               /\ artifacts[Deliverable(request[w].digest)] # "current"
  <2>1. CASE Publish(w)
    <3>1. Id(w) = Deliverable(request[w].digest)
      BY <2>1, IdOf DEF Publish, CallOK, Publishing, Bare
    <3> QED
      BY <2>1, <3>1 DEF Publish, Record
  <2>2. CASE CommitSnapshot(w)
    <3>1. Id(w) # Deliverable(d)
      BY <2>2, IdOf DEF CommitSnapshot, CallOK, Bare
    <3> QED
      BY <1>0, <2>2, <3>1 DEF CommitSnapshot, Record, Committed
  <2>3. CASE CommitUpload(w) \/ Rollback(w)
    <3>1. Id(w) # Deliverable(d)
      BY <2>3, IdOf DEF CommitUpload, Rollback, CallOK, Bare
    <3> QED
      BY <1>0, <2>3, <3>1 DEF CommitUpload, Rollback, Record, Committed
  <2>4. CASE ~Publish(w) /\ ~CommitSnapshot(w) /\ ~CommitUpload(w) /\ ~Rollback(w)
    BY <1>2, <2>4
       DEF Step, Start, Call, EnterLease, LockTimeout, Ingest, NoSource, Verify, VerifyMissing,
           LoadForUpload, Compare, Write, Confirm, Answer, Retry, Interrupt
  <2> QED
    BY <2>1, <2>2, <2>3, <2>4
<1> QED
  BY <1>1, <1>2, StepOf

\* The calls only add objects, and the scan removes what it does not keep.
LEMMA ObjectStep ==
    ASSUME TypeOK, [Next]_vars, NEW d \in Digests, object[d] # "missing", object'[d] = "missing"
    PROVE holder = Recovery /\ d \notin kept /\ UNCHANGED <<artifacts, pc, request, holder>>
<1> USE DEF state, workspace, lock, TypeOK
<1>1. CASE Outside
  BY <1>1 DEF Outside, Drift, Age, RemoveOrphan, ScanBegin, ScanEnd, Edit, vars
<1>2. ASSUME NEW w \in Workers, Step(w)
      PROVE FALSE
  BY <1>2
     DEF Step, Start, Call, EnterLease, LockTimeout, Ingest, NoSource, Verify, VerifyMissing,
         CommitSnapshot, LoadForUpload, CommitUpload, Compare, Write, Confirm, Publish, Answer,
         Retry, Interrupt, Rollback
<1> QED
  BY <1>1, <1>2, StepOf

LEMMA OneCurrentStep ==
    ASSUME TypeOK, \A w \in Workers : CallOK(w), OneCurrentDeliverable, [Next]_vars
    PROVE OneCurrentDeliverable'
<1> SUFFICES ASSUME NEW d \in Digests, NEW e \in Digests,
                    artifacts'[Deliverable(d)] = "current", artifacts'[Deliverable(e)] = "current"
             PROVE d = e
  BY DEF OneCurrentDeliverable
<1>1. ASSUME NEW w \in Workers, artifacts' = Superseding(request[w].digest), NEW c \in Digests,
             artifacts'[Deliverable(c)] = "current"
      PROVE c = request[w].digest
  <2>1. Deliverable(c) \in Ids /\ Deliverable(c) \in AtFile
    BY DeliverableId
  <2>2. Deliverable(c) = Deliverable(request[w].digest)
    BY <1>1, <2>1 DEF Superseding
  <2> QED
    BY <2>2, DeliverableId
<1>2. CASE \E w \in Workers : artifacts' = Superseding(request[w].digest)
  BY <1>1, <1>2
<1>3. CASE ~\E w \in Workers : artifacts' = Superseding(request[w].digest)
  <2>1. artifacts[Deliverable(d)] = "current" /\ artifacts[Deliverable(e)] = "current"
    BY <1>3, DeliverableStep
  <2> QED
    BY <2>1 DEF OneCurrentDeliverable
<1> QED
  BY <1>2, <1>3

\* A publication that goes on past the ingest has the content it ingested.
LEMMA HeldObject ==
    ASSUME TypeOK, \A w \in Workers : CallOK(w), ObjectsOK, NEW w \in Workers, [Next]_vars,
           holder' = w, pc'[w] \notin {"ingest", "reingest"}
    PROVE object'[request'[w].digest] # "missing"
<1> USE DEF state, workspace, lock
<1>1. Leased(w)'
  BY LeasesStep DEF Leases
<1>2. CASE /\ holder = w /\ pc[w] \notin {"ingest", "reingest"}
           /\ request'[w].digest = request[w].digest
  <2>1. request[w].digest \in Digests
    BY <1>2 DEF TypeOK, Leased, CallOK, Bare
  <2> QED
    BY <1>2, <2>1, ObjectStep, Names DEF ObjectsOK
<1>3. CASE Outside
  BY <1>2, <1>3, OutsideCalls, Names
     DEF Outside, Drift, Age, RemoveOrphan, ScanBegin, ScanEnd, Edit, Idle, vars
<1>4. ASSUME NEW v \in Workers, v # w, Step(v)
      PROVE object'[request'[w].digest] # "missing"
  <2>1. holder = w
    BY <1>4, OwnLease, Names
  <2> QED
    BY <1>2, <1>4, <2>1, OthersCalls
<1>5. CASE Step(w)
  <2>1. CASE Ingest(w)
    <3>1. Content(w) \in Digests /\ request'[w].digest = Content(w)
      BY <2>1 DEF Ingest, Content, TypeOK, Requests
    <3> QED
      BY <2>1, <3>1 DEF Ingest, TypeOK
  <2>2. CASE EnterLease(w)
    BY <1>1, <2>2 DEF EnterLease, Refuse, Goto, TypeOK, Leased
  <2>3. CASE \E kind \in {"snapshot", "upload", "publish"}, d, e \in Digests \cup {Absent} :
                Start(w, kind, d, e)
    <3>1. PICK kind \in {"snapshot", "upload", "publish"}, d \in Digests \cup {Absent},
               e \in Digests \cup {Absent} : Start(w, kind, d, e)
      BY <2>3
    <3>2. pc'[w] \in {"enter", "ingest"}
      BY <3>1 DEF Start, Goto, TypeOK
    <3> QED
      BY <1>1, <3>2 DEF Leased
  <2>4. CASE LoadForUpload(w) \/ CommitUpload(w) \/ CommitSnapshot(w) \/ Rollback(w) \/ Retry(w)
    <3>1. ~Leased(w)
      BY <2>4 DEF LoadForUpload, CommitUpload, CommitSnapshot, Rollback, Retry, Leased, CallOK
    <3>2. holder' = holder \/ holder' = Nobody
      BY <2>4, <3>1
         DEF LoadForUpload, CommitUpload, CommitSnapshot, Rollback, Retry, Refuse, Released
    <3> QED
      BY <3>1, <3>2, Names DEF TypeOK
  <2>5. CASE LockTimeout(w) \/ NoSource(w) \/ VerifyMissing(w) \/ Interrupt(w) \/ Publish(w)
    BY <2>5, Names DEF LockTimeout, NoSource, VerifyMissing, Interrupt, Publish, Refuse, Released
  <2>6. CASE Verify(w) \/ Compare(w) \/ Write(w) \/ Confirm(w) \/ Answer(w)
    <3>1. pc[w] \notin {"ingest", "reingest"} /\ request' = request
      BY <2>6 DEF Verify, Compare, Write, Confirm, Answer
    <3>2. holder = w
      BY <2>6, Names DEF Verify, Compare, Write, Confirm, Answer, Refuse, Released
    <3> QED
      BY <1>2, <3>1, <3>2
  <2> QED
    BY <1>5, <2>1, <2>2, <2>3, <2>4, <2>5, <2>6 DEF Step, Call
<1> QED
  BY <1>3, <1>4, <1>5, StepOf

LEMMA ObjectsStep ==
    ASSUME TypeOK, \A w \in Workers : CallOK(w), ObjectsOK, [Next]_vars
    PROVE ObjectsOK'
<1> USE DEF state, workspace, lock
<1>1. ASSUME NEW d \in Digests, artifacts[Deliverable(d)] # "none"
      PROVE object'[d] # "missing"
  <2>1. object[d] # "missing"
    BY <1>1 DEF ObjectsOK, DeliverablesAreStored
  <2>2. d \in Referenced
    <3>1. Deliverable(d)[2] = d
      BY DEF Deliverable
    <3> QED
      BY <1>1, <3>1, DeliverableId DEF Referenced
  <2> QED
    BY <2>1, <2>2, ObjectStep DEF ObjectsOK
<1>2. ASSUME NEW d \in Digests, artifacts'[Deliverable(d)] # "none"
      PROVE object'[d] # "missing"
  <2>1. CASE artifacts[Deliverable(d)] # "none"
    BY <1>1, <2>1
  <2>2. CASE artifacts[Deliverable(d)] = "none"
    <3>1. PICK w \in Workers : Publish(w) /\ artifacts' = Superseding(request[w].digest)
      BY <1>2, <2>2, DeliverableStep
    <3>2. Deliverable(d) = Deliverable(request[w].digest)
      BY <1>2, <2>2, <3>1, DeliverableId DEF Superseding
    <3>3. d = request[w].digest
      BY <3>2, DeliverableId
    <3>4. holder = w
      BY <3>1 DEF Publish, TypeOK, Leased, CallOK, Publishing
    <3> QED
      BY <3>1, <3>3, <3>4 DEF Publish, ObjectsOK
  <2> QED
    BY <2>1, <2>2
<1>3. ASSUME holder' = Recovery
      PROVE kept' = Referenced'
  <2>1. CASE holder = Recovery
    <3>1. artifacts' = artifacts
      BY <2>1, ScanSeesAll
    <3>2. kept' = kept
      <4>1. CASE Outside
        BY <1>3, <2>1, <4>1, Names
           DEF Outside, Drift, Age, RemoveOrphan, ScanBegin, ScanEnd, Edit, Idle, vars
      <4>2. ASSUME NEW w \in Workers, Step(w)
            PROVE kept' = kept
        BY <4>2
           DEF Step, Start, Call, EnterLease, LockTimeout, Ingest, NoSource, Verify, VerifyMissing,
               CommitSnapshot, LoadForUpload, CommitUpload, Compare, Write, Confirm, Publish,
               Answer, Retry, Interrupt, Rollback
      <4> QED
        BY <2>1, <4>1, <4>2, StepOf
    <3> QED
      BY <2>1, <3>1, <3>2 DEF ObjectsOK, Referenced
  <2>2. CASE holder # Recovery
    <3>1. ASSUME NEW w \in Workers, Step(w)
          PROVE FALSE
      BY <1>3, <2>2, <3>1, OwnLease, Names
    <3>2. CASE ScanBegin
      BY <3>2 DEF ScanBegin, Referenced
    <3>3. CASE Outside /\ ~ScanBegin
      BY <1>3, <2>2, <3>3, Names DEF Outside, Drift, Age, RemoveOrphan, ScanEnd, Edit, vars
    <3> QED
      BY <3>1, <3>2, <3>3, StepOf
  <2> QED
    BY <2>1, <2>2
<1> QED
  BY <1>2, <1>3, HeldObject DEF ObjectsOK, DeliverablesAreStored

-----------------------------------------------------------------------------
(* The file *)

\* The file is changed by the user or by the publication that has the lease.
LEMMA FileChanges ==
    ASSUME TypeOK, [Next]_vars
    PROVE \/ UNCHANGED <<file, writer>>
          \/ writer' = User
          \/ \E w \in Workers : Write(w)
<1> USE DEF state, workspace, lock
<1>1. CASE Outside
  BY <1>1 DEF Outside, Drift, Age, RemoveOrphan, ScanBegin, ScanEnd, Edit, vars
<1>2. ASSUME NEW w \in Workers, Step(w), ~Write(w)
      PROVE UNCHANGED <<file, writer>>
  BY <1>2
     DEF Step, Start, Call, EnterLease, LockTimeout, Ingest, NoSource, Verify, VerifyMissing,
         CommitSnapshot, LoadForUpload, CommitUpload, Compare, Confirm, Publish,
         Answer, Retry, Interrupt, Rollback
<1> QED
  BY <1>1, <1>2, StepOf

\* Where a call stands with the file.
Place(w) ==
    /\ pc[w] \in {"write", "rewrite"} => writer = User \/ file = request[w].expected
    /\ pc[w] = "publish" => writer = User \/ file = request[w].digest
    /\ writer = w => /\ pc[w] \in Written
                     /\ request[w].kind = "publish"
                     /\ operation[w] # "none"
                     /\ file \in Digests

LEMMA SamePlace ==
    ASSUME NEW w \in Workers, Place(w), UNCHANGED <<file, writer>> \/ writer' = User,
           pc'[w] = pc[w], request'[w] = request[w], operation'[w] = operation[w]
    PROVE Place(w)'
BY Names DEF Place

LEMMA PlaceStep ==
    ASSUME TypeOK, \A w \in Workers : CallOK(w), \A w \in Workers : Place(w), [Next]_vars,
           NEW w \in Workers
    PROVE Place(w)'
<1> USE DEF state, workspace, lock
<1>1. CASE Outside
  BY <1>1, OutsideCalls, SamePlace DEF Outside, Drift, Age, RemoveOrphan, ScanBegin, ScanEnd, Edit, vars
<1>2. ASSUME NEW v \in Workers, v # w, Step(v)
      PROVE Place(w)'
  <2>1. pc'[w] = pc[w] /\ request'[w] = request[w] /\ operation'[w] = operation[w]
    BY <1>2, OthersCalls
  <2>2. CASE UNCHANGED <<file, writer>>
    BY <2>1, <2>2, SamePlace
  <2>3. CASE Write(v)
    <3>1. holder = v
      BY <2>3 DEF Write, TypeOK, Leased, CallOK, Publishing
    <3>2. pc[w] \notin {"write", "rewrite", "publish"}
      BY <1>2, <3>1 DEF TypeOK, Leased, CallOK, Publishing
    <3> QED
      BY <1>2, <2>1, <2>3, <3>2 DEF Write, Place
  <2>4. UNCHANGED <<file, writer>> \/ Write(v)
    BY <1>2
       DEF Step, Start, Call, EnterLease, LockTimeout, Ingest, NoSource, Verify, VerifyMissing,
           CommitSnapshot, LoadForUpload, CommitUpload, Compare, Confirm, Publish,
           Answer, Retry, Interrupt, Rollback
  <2> QED
    BY <2>2, <2>3, <2>4
<1>3. CASE Step(w)
  <2> USE DEF TypeOK
  <2>0. Place(w) /\ request[w] \in Requests /\ CallOK(w)
    OBVIOUS
  <2>1. CASE \E kind \in {"snapshot", "upload", "publish"}, d, e \in Digests \cup {Absent} :
                Start(w, kind, d, e)
    BY <2>0, <2>1 DEF Start, Goto, Place
  <2>2. CASE EnterLease(w) \/ LockTimeout(w)
    BY <2>0, <2>2 DEF EnterLease, LockTimeout, Refuse, Goto, Place, Written
  <2>3. CASE Ingest(w)
    <3>1. request'[w] = [request[w] EXCEPT !.digest = Content(w)]
      BY <2>3 DEF Ingest
    <3>2. request'[w].kind = request[w].kind
      BY <2>0, <3>1 DEF Requests
    <3> QED
      BY <2>0, <2>3, <3>2 DEF Ingest, Goto, Place, Written
  <2>4. CASE NoSource(w) \/ VerifyMissing(w)
    BY <2>0, <2>4 DEF NoSource, VerifyMissing, Refuse, Goto, Place, Written
  <2>5. CASE Verify(w)
    BY <2>0, <2>5 DEF Verify, Goto, Place, Written, CallOK, Publishing
  <2>6. CASE CommitSnapshot(w) \/ LoadForUpload(w) \/ CommitUpload(w) \/ Rollback(w)
    <3>1. writer # w /\ writer' = writer
      BY <2>0, <2>6 DEF CommitSnapshot, LoadForUpload, CommitUpload, Rollback, Place, CallOK, Written
    <3>2. pc'[w] \notin {"write", "rewrite", "publish"}
      BY <2>6 DEF CommitSnapshot, LoadForUpload, CommitUpload, Rollback, Refuse, Goto
    <3> QED
      BY <3>1, <3>2 DEF Place
  <2>7. CASE Compare(w)
    BY <2>0, <2>7 DEF Compare, MayReplace, Refuse, Goto, Place, Written
  <2>8. CASE Write(w)
    BY <2>0, <2>8 DEF Write, Goto, Place, Written, CallOK, Publishing, Bare
  <2>9. CASE Confirm(w)
    BY <2>0, <2>9 DEF Confirm, Refuse, Goto, Place, Written
  <2>10. CASE Publish(w) \/ Retry(w) \/ Interrupt(w)
    BY <2>0, <2>10 DEF Publish, Retry, Interrupt, Goto, Place, Written
  <2>11. CASE Answer(w)
    BY <2>0, <2>11 DEF Answer, Goto, Place, Written
  <2> QED
    BY <1>3, <2>1, <2>2, <2>3, <2>4, <2>5, <2>6, <2>7, <2>8, <2>9, <2>10, <2>11 DEF Step, Call
<1> QED
  BY <1>1, <1>2, <1>3, StepOf

\* What was published is shown.
Shown == writer \in Workers /\ (operation[writer] # "open" \/ pc[writer] = "answer")
             => artifacts[Deliverable(file)] \in {"current", "stale"}

LEMMA FileParts == FileOK <=> Shown /\ \A w \in Workers : Place(w)
BY DEF FileOK, Shown, Place

LEMMA ShownStep ==
    ASSUME TypeOK, \A w \in Workers : CallOK(w), FileOK, [Next]_vars
    PROVE Shown'
<1> USE DEF state, workspace, lock
<1> SUFFICES ASSUME writer' \in Workers, operation'[writer'] # "open" \/ pc'[writer'] = "answer"
             PROVE artifacts'[Deliverable(file')] \in {"current", "stale"}
  BY DEF Shown
<1>1. UNCHANGED <<file, writer>>
  <2>1. ~\E w \in Workers : Write(w)
    <3> SUFFICES ASSUME NEW w \in Workers, Write(w) PROVE FALSE
      OBVIOUS
    <3>1. writer' = w /\ pc'[w] # "answer" /\ operation'[w] = "open"
      BY DEF Write, Goto, TypeOK, CallOK
    <3> QED
      BY <3>1
  <2> QED
    BY <2>1, FileChanges, Names
<1>2. PICK u \in Workers : u = writer
  BY <1>1
<1>3. /\ pc[u] \in Written /\ request[u].kind = "publish" /\ operation[u] # "none"
      /\ file \in Digests
  BY <1>2 DEF FileOK
<1>4. CASE operation[u] # "open" \/ pc[u] = "answer"
  <2>1. artifacts[Deliverable(file)] \in {"current", "stale"}
    BY <1>2, <1>4 DEF FileOK
  <2>2. ASSUME NEW w \in Workers, Publish(w), artifacts' = Superseding(request[w].digest)
        PROVE artifacts'[Deliverable(file)] = "current"
    <3>1. file = request[w].digest
      BY <1>2, <2>2, Names DEF Publish, FileOK
    <3> QED
      BY <1>3, <2>2, <3>1, DeliverableId DEF Superseding
  <2> QED
    BY <1>1, <1>3, <2>1, <2>2, DeliverableStep
<1>5. CASE operation[u] = "open" /\ pc[u] # "answer"
  <2>1. operation'[u] # "open" \/ pc'[u] = "answer"
    BY <1>1, <1>2
  <2>2. Step(u)
    BY <1>5, <2>1, StepOf, OutsideCalls, OthersCalls
  <2>3. Publish(u)
    <3>1. pc[u] \notin {"enter", "load", "upload", "commit", "compare", "ingest", "verify"}
      BY <1>3 DEF Written
    <3> QED
      BY <1>5, <2>1, <2>2, <3>1
         DEF Step, Start, Call, EnterLease, LockTimeout, Ingest, NoSource, Verify, VerifyMissing,
             CommitSnapshot, LoadForUpload, CommitUpload, Compare, Write, Confirm, Answer, Retry,
             Interrupt, Rollback, Refuse, Recovering, Goto, TypeOK
  <2>4. file = request[u].digest
    BY <1>2, <2>3, Names DEF Publish, FileOK
  <2>5. Id(u) = Deliverable(file)
    BY <1>3, <2>4, IdOf
  <2>6. CASE artifacts[Deliverable(file)] = "current"
    BY <1>1, <2>3, <2>5, <2>6 DEF Publish
  <2>7. CASE artifacts' = Superseding(file)
    BY <1>1, <1>3, <2>7, DeliverableId DEF Superseding
  <2> QED
    BY <2>3, <2>4, <2>5, <2>6, <2>7 DEF Publish, Record
<1> QED
  BY <1>4, <1>5

-----------------------------------------------------------------------------
(* The theorems *)

\* However publications, uploads, snapshots, rollbacks, drift, collections and the
\* user's edits interleave, a call under its lease knows the objects and the file.
THEOREM Invariance == Spec => []IInv
<1>1. IInv /\ [Next]_vars => IInv'
  <2> SUFFICES ASSUME IInv, [Next]_vars PROVE IInv'
    OBVIOUS
  <2>1. TypeOK'
    <3>1. Types' /\ Leases'
      BY TypesStep, LeasesStep DEF IInv
    <3> QED
      BY <3>1 DEF TypeOK, Types, Leases
  <2>2. \A w \in Workers : CallOK(w)'
    BY CallsStep DEF IInv
  <2>3. ObjectsOK' /\ OneCurrentDeliverable'
    BY ObjectsStep, OneCurrentStep DEF IInv
  <2>4. FileOK'
    <3>1. Shown'
      BY ShownStep DEF IInv
    <3>2. \A w \in Workers : Place(w)'
      BY FileParts, PlaceStep DEF IInv
    <3> QED
      BY <3>1, <3>2 DEF FileOK, Shown, Place
  <2> QED
    BY <2>1, <2>2, <2>3, <2>4 DEF IInv
<1> QED
  BY <1>1, InitInvariant, PTL DEF Spec

\* The variables keep their types, and the lease of a publication is held exactly from
\* its entry to its commit (withMutationLease, store.ts).
THEOREM TypeCorrect == Spec => []TypeOK
<1>1. IInv => TypeOK
  BY DEF IInv
<1> QED
  BY <1>1, Invariance, PTL

\* The content of every deliverable that was ever published is in the object store,
\* whatever is collected meanwhile (the orphan collection of store.ts).
THEOREM DeliverablesStored == Spec => []DeliverablesAreStored
<1>1. IInv => DeliverablesAreStored
  BY DEF IInv, ObjectsOK
<1> QED
  BY <1>1, Invariance, PTL

\* One path has at most one current deliverable (deliverable.published, reducer.ts).
THEOREM OneIsCurrent == Spec => []OneCurrentDeliverable
<1>1. IInv => OneCurrentDeliverable
  BY DEF IInv
<1> QED
  BY <1>1, Invariance, PTL

\* What a publication left in the file is what the Project shows, unless its
\* operation can still be recovered or the user has written since (publishDeliverable).
THEOREM FileAccounted == Spec => []FileIsAccountedFor
<1>1. IInv => FileIsAccountedFor
  BY DEF IInv, FileOK, FileIsAccountedFor
<1> QED
  BY <1>1, Invariance, PTL

\* A publication replaces what another one has written only if its caller named that
\* content (materializeDeliverable compares under the lease).
THEOREM PublicationsKept == Spec => NoPublicationIsLost
<1>1. IInv /\ [Next]_vars =>
          [\A w \in Workers :
               writer \in Workers /\ writer' = w /\ file' # file => file = request[w].expected]_vars
  <2> SUFFICES ASSUME IInv, [Next]_vars, NEW w \in Workers,
                      writer \in Workers, writer' = w, file' # file
               PROVE file = request[w].expected
    OBVIOUS
  <2>1. PICK v \in Workers : Write(v)
    BY FileChanges, Names DEF IInv
  <2>2. v = w /\ pc[w] \in {"write", "rewrite"}
    BY <2>1 DEF Write
  <2> QED
    BY <2>2, Names DEF IInv, FileOK
<1> QED
  BY <1>1, Invariance, PTL DEF Spec, NoPublicationIsLost
=============================================================================
