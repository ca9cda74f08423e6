--------------------------- MODULE ArtifactStore ---------------------------
(***************************************************************************)
(* The content-addressed objects of a Project, the Artifacts its state      *)
(* names, and one file below deliverables/ in the workspace: artifact_commit *)
(* of that file, uploads and their rollback, deliverable_publish with its   *)
(* recovery, markDrift, the orphan collection of a Recovery Scan, and a     *)
(* user who edits the file.                                                 *)
(* What ProjectStore establishes is used here: a commit under the project   *)
(* mutex appends one event atomically, at the generation it expects.        *)
(***************************************************************************)
EXTENDS Naturals, FiniteSets

CONSTANTS
    Workers,        \* calls, each with an operation key of its own
    Digests,        \* contents
    Absent,         \* no file, no digest expected
    Nobody, Recovery, User,     \* besides Workers: who holds the mutex, who wrote the file
    MaxEdits,       \* bound: edits of the file by the user
    MaxDrifts,      \* bound: generation up to which markDrift runs
    MaxInterrupts   \* bound: crashes and failures of a call

ASSUME StoreAssumption ==
    /\ Absent \notin Digests
    /\ {Nobody, Recovery, User, "snapshot", "deliverable"} \cap Workers = {}
    /\ Nobody # Recovery
    /\ {MaxEdits, MaxDrifts, MaxInterrupts} \subseteq Nat

VARIABLES
    object,     \* each object file: missing, fresh, or aged beyond orphanGraceMs
    artifacts,  \* the validity of each Artifact in the Project's state
    generation,
    file, writer,   \* the deliverable's content and who wrote it last
    holder, kept,   \* who holds the project mutex; what the Recovery Scan keeps
    pc, request,    \* each call's progress and arguments
    operation,      \* the operation record: open stands for in-progress and recovery-required
    edits, interrupts

state == <<artifacts, generation>>
workspace == <<file, writer, edits>>
lock == <<holder, kept>>
vars == <<object, state, workspace, lock, pc, request, operation, interrupts>>

\* An artifactId is a digest of the kind, the content and the lineage; the lineage of
\* an upload names its attachment.
Ids == ({"snapshot", "deliverable"} \cup Workers) \X Digests
AtFile == {"snapshot", "deliverable"} \X Digests
Deliverable(d) == <<"deliverable", d>>
Requests == [kind : {"snapshot", "upload", "publish"}, digest : Digests \cup {Absent},
             expected : Digests \cup {Absent}, generation : Nat]

Id(w) ==
    CASE request[w].kind = "snapshot" -> <<"snapshot", request[w].digest>>
      [] request[w].kind = "upload"   -> <<w, request[w].digest>>
      [] request[w].kind = "publish"  -> Deliverable(request[w].digest)

Init ==
    /\ object = [d \in Digests |-> "missing"]
    /\ artifacts = [i \in Ids |-> "none"] /\ generation = 0
    /\ file = Absent /\ writer = User
    /\ holder = Nobody /\ kept = {}
    /\ pc = [w \in Workers |-> "idle"]
    /\ request = [w \in Workers |->
          [kind |-> "upload", digest |-> Absent, expected |-> Absent, generation |-> 0]]
    /\ operation = [w \in Workers |-> "none"]
    /\ edits = 0 /\ interrupts = 0

Goto(w, step) == pc' = [pc EXCEPT ![w] = step]
Idle == holder = Nobody

NotReleased(w) == holder

\* The finally block of withMutationLease, or the end of the process.
Released(w) == IF holder = w THEN Nobody ELSE holder

-----------------------------------------------------------------------------
(* Calls begin                                                              *)

\* The caller names the generation it has read; only a publication names an old digest.
Start(w, kind, d, e) ==
    /\ operation[w] = "none"
    /\ kind = "snapshot" => d = Absent
    /\ kind # "snapshot" => d # Absent
    /\ kind # "publish" => e = Absent
    /\ request' = [request EXCEPT ![w] =
          [kind |-> kind, digest |-> d, expected |-> e, generation |-> generation]]
    /\ operation' = [operation EXCEPT ![w] = "open"]
    /\ Goto(w, IF kind = "publish" THEN "enter" ELSE "ingest")
    /\ UNCHANGED <<object, state, workspace, lock, interrupts>>

\* The client repeats an interrupted publication with the same key: it is recovered.
Retry(w) ==
    /\ operation[w] = "open" /\ pc[w] = "idle" /\ request[w].kind = "publish"
    /\ Goto(w, "reenter")
    /\ UNCHANGED <<object, state, workspace, lock, request, operation, interrupts>>

\* A crash, or an error that leaves the operation recovery-required.
Interrupt(w) ==
    /\ pc[w] \notin {"idle", "stored"} /\ interrupts < MaxInterrupts
    /\ interrupts' = interrupts + 1
    /\ Goto(w, "idle")
    /\ holder' = Released(w)
    /\ UNCHANGED <<object, state, workspace, kept, request, operation>>

\* A call that fails without having changed anything; a recovery stays open.
Refuse(w, recovering) ==
    /\ Goto(w, "idle")
    /\ operation' = [operation EXCEPT ![w] = IF recovering THEN "open" ELSE "failed-final"]
    /\ holder' = Released(w)

Recovering(step) == step \in {"reenter", "reingest", "reverify", "recompare", "rewrite", "reconfirm"}

\* withMutationLease of a publication, which covers everything up to its commit.
UnderNoLease(w) == UNCHANGED holder

UnderLease(w) == holder' = w

EnterLease(w) ==
    /\ pc[w] \in {"enter", "reenter"} /\ Idle
    /\ IF pc[w] = "enter" /\ generation # request[w].generation
       THEN Refuse(w, FALSE)
       ELSE /\ UnderLease(w)
            /\ Goto(w, IF pc[w] = "enter" THEN "ingest" ELSE "reingest")
            /\ UNCHANGED operation
    /\ UNCHANGED <<object, state, workspace, kept, request, interrupts>>

\* The mutex is waited for lockTimeoutMs.
LockTimeout(w) ==
    /\ pc[w] \in {"enter", "reenter", "load", "upload", "commit"} /\ ~Idle /\ holder # w
    /\ Refuse(w, Recovering(pc[w]))
    /\ UNCHANGED <<object, state, workspace, kept, request, interrupts>>

-----------------------------------------------------------------------------
(* Objects: snapshot, ingestStream, publishNoClobber, verifyObject          *)

\* A snapshot reads the workspace file; the others bring their content.
Content(w) == IF request[w].kind = "snapshot" THEN file ELSE request[w].digest

Ingest(w) ==
    /\ pc[w] \in {"ingest", "reingest"} /\ Content(w) # Absent
    /\ request' = [request EXCEPT ![w].digest = Content(w)]
    /\ IF object[Content(w)] = "missing"
       THEN object' = [object EXCEPT ![Content(w)] = "fresh"]
       ELSE UNCHANGED object
    /\ Goto(w, IF pc[w] = "ingest" THEN "verify" ELSE "reverify")
    /\ UNCHANGED <<state, workspace, lock, operation, interrupts>>

\* The source of a snapshot does not exist.
NoSource(w) ==
    /\ pc[w] = "ingest" /\ Content(w) = Absent
    /\ Refuse(w, TRUE)
    /\ UNCHANGED <<object, state, workspace, kept, request, interrupts>>

\* An object that existed is read again before its digest is relied on.
Verify(w) ==
    /\ pc[w] \in {"verify", "reverify"} /\ object[request[w].digest] # "missing"
    /\ Goto(w, IF request[w].kind = "upload" THEN "load"
               ELSE IF request[w].kind = "snapshot" THEN "commit"
               ELSE IF pc[w] = "verify" THEN "compare" ELSE "recompare")
    /\ UNCHANGED <<object, state, workspace, lock, request, operation, interrupts>>

\* The object was collected between the two: the call fails with ENOENT.
VerifyMissing(w) ==
    /\ pc[w] \in {"verify", "reverify"} /\ object[request[w].digest] = "missing"
    /\ Refuse(w, TRUE)
    /\ UNCHANGED <<object, state, workspace, kept, request, interrupts>>

Relies(w, d) ==
    request[w].digest = d
    /\ pc[w] \notin {"idle", "enter", "reenter", "ingest", "reingest", "stored"}

\* orphanGraceMs (an hour) outlasts a call: no object ages between the ingest and the end of one.
Age(d) ==
    /\ object[d] = "fresh"
    /\ \A w \in Workers : ~Relies(w, d)
    /\ object' = [object EXCEPT ![d] = "aged"]
    /\ UNCHANGED <<state, workspace, lock, pc, request, operation, interrupts>>

-----------------------------------------------------------------------------
(* Events                                                                   *)

Record(new) == artifacts' = new /\ generation' = generation + 1

\* artifact.committed: the Artifact is there, and current.
Committed(w) == [artifacts EXCEPT ![Id(w)] = "current"]

\* artifact_commit: at the generation the caller named.
CommitSnapshot(w) ==
    /\ pc[w] = "commit" /\ Idle
    /\ IF generation = request[w].generation
       THEN /\ Record(Committed(w))
            /\ Goto(w, "answer")
            /\ UNCHANGED <<operation, holder>>
       ELSE Refuse(w, FALSE) /\ UNCHANGED state
    /\ UNCHANGED <<object, workspace, kept, request, interrupts>>

\* commitUploadedArtifact: an Artifact that is there already is not committed again.
LoadForUpload(w) ==
    /\ pc[w] = "load" /\ Idle
    /\ request' = [request EXCEPT ![w].generation = generation]
    /\ Goto(w, IF artifacts[Id(w)] = "none" THEN "upload" ELSE "answer")
    /\ UNCHANGED <<object, state, workspace, lock, operation, interrupts>>

\* A generation conflict loads again.
CommitUpload(w) ==
    /\ pc[w] = "upload" /\ Idle
    /\ IF generation = request[w].generation
       THEN /\ Record(Committed(w))
            /\ request' = [request EXCEPT ![w].generation = generation + 1]
            /\ Goto(w, "answer")
       ELSE Goto(w, "load") /\ UNCHANGED <<state, request>>
    /\ UNCHANGED <<object, workspace, lock, operation, interrupts>>

\* rollbackUploadedArtifact, at the generation the upload returned.
Rollback(w) ==
    /\ pc[w] = "stored" /\ request[w].kind = "upload" /\ Idle
    /\ artifacts[Id(w)] # "none" /\ generation = request[w].generation
    /\ Record([artifacts EXCEPT ![Id(w)] = "none"])
    /\ Goto(w, "idle")
    /\ UNCHANGED <<object, workspace, lock, request, operation, interrupts>>

\* markDrift: what depends on a changed input is stale.
Drift(i) ==
    /\ Idle /\ generation < MaxDrifts /\ artifacts[i] = "current"
    /\ artifacts' = [artifacts EXCEPT ![i] = "stale"]
    /\ generation' = generation + 1
    /\ UNCHANGED <<object, workspace, lock, pc, request, operation, interrupts>>

-----------------------------------------------------------------------------
(* materializeDeliverable and deliverable.published                         *)

AnyReplacement(w) == TRUE

\* A different file is replaced only if the caller named its digest.
MayReplace(w) == file = request[w].expected

Compare(w) ==
    /\ pc[w] \in {"compare", "recompare"}
    /\ IF file = request[w].digest
       THEN Goto(w, "publish") /\ UNCHANGED <<operation, holder>>
       ELSE IF MayReplace(w)
       THEN /\ Goto(w, IF pc[w] = "compare" THEN "write" ELSE "rewrite")
            /\ UNCHANGED <<operation, holder>>
       ELSE Refuse(w, pc[w] = "recompare")
    /\ UNCHANGED <<object, state, workspace, kept, request, interrupts>>

\* atomicWriteFile: the file is replaced whatever it holds by now.
Write(w) ==
    /\ pc[w] \in {"write", "rewrite"}
    /\ file' = request[w].digest /\ writer' = w
    /\ Goto(w, IF pc[w] = "write" THEN "confirm" ELSE "reconfirm")
    /\ UNCHANGED <<object, state, lock, edits, request, operation, interrupts>>

\* The file is read back; if it was edited meanwhile the operation stays open.
Confirm(w) ==
    /\ pc[w] \in {"confirm", "reconfirm"}
    /\ IF file = request[w].digest
       THEN Goto(w, "publish") /\ UNCHANGED <<operation, holder>>
       ELSE Refuse(w, TRUE)
    /\ UNCHANGED <<object, state, workspace, kept, request, interrupts>>

NothingSuperseded(d) == [artifacts EXCEPT ![Deliverable(d)] = "current"]

\* The new Artifact supersedes every other current one of this path.
Superseding(d) ==
    [i \in Ids |-> IF i = Deliverable(d) THEN "current"
                   ELSE IF i \in AtFile /\ artifacts[i] = "current" THEN "superseded"
                   ELSE artifacts[i]]

\* No event if the Artifact is current already; either way the lease ends here.
Publish(w) ==
    /\ pc[w] = "publish"
    /\ IF artifacts[Id(w)] = "current" THEN UNCHANGED state
       ELSE Record(Superseding(request[w].digest))
    /\ holder' = Released(w)
    /\ Goto(w, "answer")
    /\ UNCHANGED <<object, workspace, kept, request, operation, interrupts>>

\* The result is stored in the operation record and returned.
Answer(w) ==
    /\ pc[w] = "answer"
    /\ operation' = [operation EXCEPT ![w] = "committed"]
    /\ Goto(w, IF request[w].kind = "upload" THEN "stored" ELSE "idle")
    /\ UNCHANGED <<object, state, workspace, lock, request, interrupts>>

-----------------------------------------------------------------------------
(* The Recovery Scan, inside the project mutex, and the user                *)

KeepOnlyCurrent == {d \in Digests : \E i \in Ids : i[2] = d /\ artifacts[i] = "current"}

Referenced == {d \in Digests : \E i \in Ids : i[2] = d /\ artifacts[i] # "none"}

ScanBegin ==
    /\ Idle
    /\ holder' = Recovery /\ kept' = Referenced
    /\ UNCHANGED <<object, state, workspace, pc, request, operation, interrupts>>

RemoveOrphan(d) ==
    /\ holder = Recovery /\ d \notin kept /\ object[d] = "aged"
    /\ object' = [object EXCEPT ![d] = "missing"]
    /\ UNCHANGED <<state, workspace, lock, pc, request, operation, interrupts>>

ScanEnd ==
    /\ holder = Recovery
    /\ holder' = Nobody /\ kept' = {}
    /\ UNCHANGED <<object, state, workspace, pc, request, operation, interrupts>>

Edit(content) ==
    /\ edits < MaxEdits /\ content # file
    /\ edits' = edits + 1
    /\ file' = content /\ writer' = User
    /\ UNCHANGED <<object, state, lock, pc, request, operation, interrupts>>

Call(w) ==
    \/ EnterLease(w) \/ LockTimeout(w)
    \/ Ingest(w) \/ NoSource(w) \/ Verify(w) \/ VerifyMissing(w)
    \/ CommitSnapshot(w) \/ LoadForUpload(w) \/ CommitUpload(w)
    \/ Compare(w) \/ Write(w) \/ Confirm(w) \/ Publish(w)
    \/ Answer(w)

Next ==
    \/ \E w \in Workers, kind \in {"snapshot", "upload", "publish"},
          d, e \in Digests \cup {Absent} : Start(w, kind, d, e)
    \/ \E w \in Workers : Call(w) \/ Retry(w) \/ Interrupt(w) \/ Rollback(w)
    \/ \E i \in Ids : Drift(i)
    \/ \E d \in Digests : Age(d) \/ RemoveOrphan(d)
    \/ ScanBegin \/ ScanEnd
    \/ \E content \in Digests \cup {Absent} : Edit(content)

Spec == Init /\ [][Next]_vars

-----------------------------------------------------------------------------
(* Properties *)

Steps == {"idle", "enter", "reenter", "ingest", "reingest", "verify", "reverify", "load",
          "commit", "upload", "compare", "recompare", "write", "rewrite", "confirm",
          "reconfirm", "publish", "answer", "stored"}

Leased(w) ==
    /\ request[w].kind = "publish" /\ operation[w] = "open"
    /\ pc[w] \notin {"idle", "enter", "reenter", "answer"}

\* The values the variables range over; the lease is held exactly from the entry of a
\* publication to its commit.
TypeOK ==
    /\ object \in [Digests -> {"missing", "fresh", "aged"}]
    /\ artifacts \in [Ids -> {"none", "current", "stale", "superseded"}]
    /\ file \in Digests \cup {Absent} /\ writer \in Workers \cup {User}
    /\ holder \in Workers \cup {Nobody, Recovery} /\ kept \subseteq Digests
    /\ \A w \in Workers : Leased(w) <=> holder = w
    /\ pc \in [Workers -> Steps] /\ request \in [Workers -> Requests]
    /\ operation \in [Workers -> {"none", "open", "committed", "failed-final"}]
    /\ {generation, edits, interrupts} \subseteq Nat

\* The content of a published deliverable, superseded and stale ones included, is in
\* the object store, however publications, uploads, rollbacks and orphan collections
\* of the same content interleave.
DeliverablesAreStored ==
    \A d \in Digests : artifacts[Deliverable(d)] # "none" => object[d] # "missing"

\* One path has at most one current deliverable.
OneCurrentDeliverable ==
    \A d, e \in Digests :
        artifacts[Deliverable(d)] = "current" /\ artifacts[Deliverable(e)] = "current" => d = e

\* What a publication left in the file is the deliverable the Project shows, unless
\* the operation that wrote it can still be recovered or the user has written since.
FileIsAccountedFor ==
    writer \in Workers /\ operation[writer] # "open"
        => artifacts[Deliverable(file)] \in {"current", "stale"}

\* A publication replaces what another publication has written only if its caller
\* named that content.
NoPublicationIsLost ==
    [][\A w \in Workers :
          writer \in Workers /\ writer' = w /\ file' # file => file = request[w].expected]_vars

\* artifact.ts commits every Artifact as verified: its object is in the store.
CommittedObjectsExist ==
    \A i \in Ids : artifacts[i] # "none" => object[i[2]] # "missing"
=============================================================================
