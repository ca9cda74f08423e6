--------------------------- MODULE RecoveryProofs ---------------------------
(***************************************************************************)
(* The disk under every transaction of the installer and every recovery,   *)
(* for any number of installers, candidates, edits and interruptions: what *)
(* is on it has its type, and it can always be recovered but for a file of *)
(* which a copy was left incomplete.                                       *)
(***************************************************************************)
EXTENDS InstallationProofs

-----------------------------------------------------------------------------
(* The types of the disk, and of what the transaction found.                *)

Backups == [Parts -> {Absent} \cup Candidate]
Profiles == {Absent} \cup Profile

TxTyped(t) ==
    /\ \E S : t \in TxOf(S)
    /\ t.journal \in {Absent} \cup Entry /\ t.parts \in Backups /\ t.web \in Profiles
    /\ \A f \in Files : t.files[f] \in FilePath(f)

Types ==
    /\ parts \in [Parts -> Path(Candidate)]
    /\ \A f \in Files : files[f] \in FilePath(f)
    /\ web \in Profiles
    /\ tx # Absent => TxTyped(tx)
    /\ before.parts \in Backups /\ before.web \in Profiles
    /\ \E S : before.files \in [Files -> S]
    /\ \A f \in Files : before.files[f] \in FilePath(f)

Owners == mutex \in Callers \cup {Nobody} /\ lease \in Callers \cup Hosts \cup {Nobody}

-----------------------------------------------------------------------------
(* What is on the disk between the calls                                    *)

(* A home nothing is installed in, and one in which a generation is whole. *)
Vacant(ps, fs, w) ==
    /\ \A p \in Parts : ps[p] = Absent
    /\ fs["active"] = Absent /\ fs["manifest"] = Absent
    /\ w = Absent \/ w.version = 0
Whole(ps, fs, w) ==
    /\ fs["active"] \in Candidate /\ fs["manifest"] = fs["active"]
    /\ \A p \in Parts : ps[p] = fs["active"]
    /\ w # Absent /\ w.version = fs["active"].version
Clean(ps, fs, w) == Vacant(ps, fs, w) \/ Whole(ps, fs, w)
CleanNow == Clean(parts, files, web)
CleanBefore == Clean(before.parts, before.files, before.web)

(* The Web Profile is the one the transaction found, with the edits since. *)
Kept(w) ==
    /\ w = Absent <=> before.web = Absent
    /\ w # Absent => w.version = before.web.version /\ w.edits >= before.web.edits

(* The journal says what the transaction found. *)
Noted ==
    /\ \A p \in Parts : p \in tx.journal.had <=> before.parts[p] # Absent
    /\ \A f \in Files : Had(f) <=> before.files[f] # Absent
    /\ tx.journal.web <=> before.web # Absent
    /\ tx.journal.op = "uninstall" => before.files["active"] # Absent

(* Every path is as it was found, or its backup is. *)
PartBack(p) ==
    IF p \in tx.journal.had
    THEN \/ tx.parts[p] = before.parts[p]
         \/ tx.parts[p] = Absent /\ parts[p] = before.parts[p]
    ELSE tx.parts[p] = Absent
FileBack(f) ==
    /\ tx.files[f] \in {Absent, Torn, before.files[f]}
    /\ ~Had(f) => tx.files[f] = Absent
    /\ Had(f) /\ tx.files[f] = Absent => files[f] \in {Torn, before.files[f]}
WebBack ==
    /\ tx.web \in {Absent, before.web}
    /\ IF tx.journal.touched THEN tx.journal.web /\ tx.web = Absent => Kept(web)
       ELSE Kept(web)

Reversible ==
    /\ CleanBefore /\ Noted /\ WebBack
    /\ \A p \in Parts : PartBack(p)
    /\ \A f \in Files : FileBack(f)

Finished ==
    IF tx.journal.op = "uninstall" THEN web = Absent \/ web.version = 0
    ELSE Whole(parts, files, web)

Disk ==
    /\ tx = Absent => CleanNow
    /\ Journalled => IF Committed THEN Finished ELSE Reversible

-----------------------------------------------------------------------------
(* What a call has done of its list                                         *)

(* t is what is left of the list L of n steps. *)
Rest(t, L, n) ==
    /\ \E S : t \in Seq(S)
    /\ Len(t) <= n
    /\ \A i \in 1..Len(t) : t[i] = L[n - Len(t) + i]

(* The place, in a list of n steps, of the one that comes next. *)
Turn(c, n) == n + 1 - Len(call[c].todo)

(* The lists of the two kinds of transaction: how long they are, which step
   commits, and where a path is copied, kept, moved aside or published. *)
Removes(op) == op = "uninstall"
Count(op) == IF Removes(op) THEN 17 ELSE 22
Commits(op) == IF Removes(op) THEN 13 ELSE 20
OpenAt(op, f) == IF Removes(op) THEN OfFile(f, 2, 4, 6) ELSE OfFile(f, 3, 5, 7)
AsideAt(op, p) == IF Removes(op) THEN OfPart(p, 11, 10, 12) ELSE OfPart(p, 10, 12, 15)
KeepAt(op) == IF Removes(op) THEN 8 ELSE 9
WebAt(op) == IF Removes(op) THEN 9 ELSE 14

(* At turn i, the backup of a path that is copied, or moved, at the given place. *)
PartSaved(p, i, aside) ==
    IF i <= aside THEN tx.parts[p] = Absent /\ parts[p] = before.parts[p]
    ELSE tx.parts[p] = before.parts[p]
FileSaved(f, i, open) ==
    /\ i <= open => tx.files[f] = Absent
    /\ i = open + 1 => tx.files[f] \in {Absent, Torn}
                       /\ (before.files[f] = Absent => tx.files[f] = Absent)
    /\ IF i <= open + 1 THEN files[f] = before.files[f] ELSE tx.files[f] = before.files[f]
WebSaved(c, i, keep, publish) ==
    /\ IF i > keep /\ Touched(c) THEN tx.web = before.web ELSE tx.web = Absent
    /\ i <= publish \/ ~Touched(c) => Kept(web)

(* What the call of a transaction knows of what it found. *)
Knows(k) ==
    /\ CleanBefore /\ files["active"] = before.files["active"]
    /\ k.web = before.web /\ k.plan \in Profile
    /\ k.seen = Absent <=> before.files["active"] = Absent
    /\ k.next.inst \in Nat /\ k.next.gen \in Nat
    /\ IF Removes(k.op) THEN before.files["active"] # Absent /\ k.plan.version = 0
       ELSE k.next \in Candidate /\ Follows(before.files["active"], k.next)

(* The journal is of the call. *)
Names(k) ==
    tx.journal.op = k.op /\ tx.journal.inst = k.next.inst /\ tx.journal.gen = k.next.gen

(* A transaction that has not committed, at turn i. *)
Preparing(c, i) ==
    LET k == call[c] IN
    /\ Knows(k) /\ (i = 1 <=> tx.journal = Absent)
    /\ i > 1 => Names(k) /\ Noted /\ tx.journal.touched = Touched(c)
    /\ \A p \in Parts : PartSaved(p, i, AsideAt(k.op, p))
    /\ \A f \in Files : FileSaved(f, i, OpenAt(k.op, f))
    /\ WebSaved(c, i, KeepAt(k.op), WebAt(k.op))

Built(k) ==
    /\ \A p \in Parts : parts[p] = k.next
    /\ files["manifest"] = k.next
    /\ web # Absent /\ web.version = k.next.version

Installing(c) ==
    LET k == call[c]  i == Turn(c, 22) IN
    /\ Mutates(k.op) /\ Rest(k.todo, MutationSteps, 22)
    /\ i <= 20 => Preparing(c, i)
    /\ i = 20 => Built(k)
    /\ i > 20 => Whole(parts, files, web)
    /\ i > 20 /\ tx.journal # Absent => Committed /\ tx.journal.op # "uninstall"
    /\ i = 21 => tx.journal # Absent

(* What an uninstall has removed at turn i. *)
Removed(i) ==
    /\ \A p \in Parts : i > OfPart(p, 11, 10, 12) => parts[p] = Absent
    /\ i > 9 => web # Absent /\ web.version = 0
    /\ i > 13 => files["active"] = Absent
    /\ i > 14 => files["manifest"] = Absent

Uninstalling(c) ==
    LET k == call[c]  i == Turn(c, 17) IN
    /\ Removes(k.op) /\ Rest(k.todo, RemovalSteps, 17)
    /\ i <= 13 => Preparing(c, i)
    /\ Removed(i)
    /\ i > 13 /\ tx.journal # Absent => tx.journal.op = "uninstall"
    /\ i \in 14..16 => tx.journal # Absent

(* What a rollback has restored at turn i. *)
Undone(i) ==
    /\ \A p \in Parts :
         /\ i > OfPart(p, 2, 5, 8) /\ p \notin tx.journal.had => parts[p] = Absent
         /\ i > OfPart(p, 3, 6, 9) => tx.parts[p] = Absent
    /\ i > 10 /\ tx.journal.touched => IF tx.journal.web THEN Kept(web) ELSE web = Absent
    /\ \A f \in Files : i > OfFile(f, 11, 12, 13) =>
         files[f] \in {Torn, before.files[f]} /\ (~Had(f) => files[f] = Absent)

RollingBack(c) ==
    LET k == call[c]  i == Turn(c, 15) IN
    /\ k.op = "recover" /\ Rest(k.todo, RollbackSteps, 15)
    /\ i < 15 => tx.journal # Absent
    /\ tx.journal # Absent => ~Committed /\ Undone(i)

(* What the completion of an uninstall has removed at turn i. *)
Cleared(i) ==
    /\ \A p \in Parts : i > OfPart(p, 2, 4, 6) => parts[p] = Absent
    /\ i > 7 => files["manifest"] = Absent

Clearing(c) ==
    LET k == call[c]  i == Turn(c, 9) IN
    /\ k.op = "recover" /\ Rest(k.todo, CompletionSteps("uninstall"), 9)
    /\ i < 9 => tx.journal # Absent
    /\ tx.journal # Absent => Committed /\ tx.journal.op = "uninstall"
    /\ Cleared(i)

Confirming(c) ==
    LET k == call[c]  i == Turn(c, 2) IN
    /\ k.op = "recover" /\ Rest(k.todo, CompletionSteps("install"), 2)
    /\ i < 2 => tx.journal # Absent
    /\ tx.journal # Absent => Committed /\ tx.journal.op # "uninstall"

(* At its last step, the removal of the transaction, the home is clean. *)
Carries(c) ==
    call[c].todo # <<>> =>
        /\ tx # Absent
        /\ Len(call[c].todo) = 1 => CleanNow
        /\ Installing(c) \/ Uninstalling(c) \/ RollingBack(c) \/ Clearing(c) \/ Confirming(c)

(* What a command saw before it waited for the mutex. *)
Saw(c) ==
    /\ call[c].op \in {"upgrade", "uninstall"} => call[c].seen \in Candidate
    /\ call[c].op = "install" => call[c].seen = Absent

RecoveryInv == Types /\ Owners /\ Disk /\ \A c \in Callers : Carries(c) /\ Saw(c)

-----------------------------------------------------------------------------
(* The transaction directory, a field at a time                             *)

LEMMA TxPresent ==
    ASSUME PathAssumption, NEW t, TxTyped(t) PROVE t # Absent
<1>1. PICK S : t \in TxOf(S)
  BY DEF TxTyped
<1>2. t.files \in [Files -> Path(Candidate \cup 1..MaxBuilds)]
  <2>1. t.files \in [Files -> S]
    BY <1>1 DEF TxOf
  <2>2. \A f \in Files : t.files[f] \in Path(Candidate \cup 1..MaxBuilds)
    BY DEF TxTyped, FilePath, Path
  <2> QED
    BY <2>1, <2>2
<1>3. t \in Transaction
  BY <1>1, <1>2 DEF TxOf, Transaction, TxTyped, Backups, Profiles
<1> QED
  BY <1>3 DEF PathAssumption

LEMMA JournalSet ==
    ASSUME NEW t, TxTyped(t), NEW j \in {Absent} \cup Entry, NEW u, u = [t EXCEPT !.journal = j]
    PROVE  TxTyped(u) /\ u.journal = j /\ u.parts = t.parts /\ u.files = t.files /\ u.web = t.web
<1>1. PICK S : t \in TxOf(S)
  BY DEF TxTyped
<1>2. u \in TxOf(S \cup {j})
  BY <1>1 DEF TxOf
<1>3. u.journal = j /\ u.parts = t.parts /\ u.files = t.files /\ u.web = t.web
  BY <1>1 DEF TxOf
<1> QED
  BY <1>2, <1>3 DEF TxTyped

LEMMA WebSet ==
    ASSUME NEW t, TxTyped(t), NEW w \in Profiles, NEW u, u = [t EXCEPT !.web = w]
    PROVE  TxTyped(u) /\ u.web = w /\ u.parts = t.parts /\ u.files = t.files /\ u.journal = t.journal
<1>1. PICK S : t \in TxOf(S)
  BY DEF TxTyped
<1>2. u \in TxOf(S \cup {w})
  BY <1>1 DEF TxOf
<1>3. u.web = w /\ u.parts = t.parts /\ u.files = t.files /\ u.journal = t.journal
  BY <1>1 DEF TxOf
<1> QED
  BY <1>2, <1>3 DEF TxTyped

WithPart(t, p, v) == [t EXCEPT !.parts = [t.parts EXCEPT ![p] = v]]
WithFile(t, f, v) == [t EXCEPT !.files = [t.files EXCEPT ![f] = v]]

LEMMA PartSet ==
    ASSUME NEW t, TxTyped(t), NEW p \in Parts, NEW v \in {Absent} \cup Candidate,
           NEW u, u = WithPart(t, p, v)
    PROVE  /\ TxTyped(u) /\ u.journal = t.journal /\ u.files = t.files /\ u.web = t.web
           /\ \A q \in Parts : u.parts[q] = IF q = p THEN v ELSE t.parts[q]
<1> DEFINE g == [t.parts EXCEPT ![p] = v]
<1>1. PICK S : t \in TxOf(S)
  BY DEF TxTyped
<1>2. g \in Backups /\ \A q \in Parts : g[q] = IF q = p THEN v ELSE t.parts[q]
  BY DEF TxTyped, Backups
<1> HIDE DEF g
<1>3. u \in TxOf(S \cup {g})
  BY <1>1 DEF TxOf, WithPart, g
<1>4. u.parts = g /\ u.journal = t.journal /\ u.files = t.files /\ u.web = t.web
  BY <1>1 DEF TxOf, WithPart, g
<1> QED
  BY <1>2, <1>3, <1>4 DEF TxTyped

LEMMA FileSet ==
    ASSUME NEW t, TxTyped(t), NEW f \in Files, NEW v \in FilePath(f),
           NEW u, u = WithFile(t, f, v)
    PROVE  /\ TxTyped(u) /\ u.journal = t.journal /\ u.parts = t.parts /\ u.web = t.web
           /\ \A g \in Files : u.files[g] = IF g = f THEN v ELSE t.files[g]
<1> DEFINE m == [t.files EXCEPT ![f] = v]
<1>1. PICK S : t \in TxOf(S)
  BY DEF TxTyped
<1>2. m \in [Files -> S \cup {v}] /\ \A g \in Files : m[g] = IF g = f THEN v ELSE t.files[g]
  BY <1>1 DEF TxOf
<1> HIDE DEF m
<1>3. u \in TxOf(S \cup {v, m})
  BY <1>1, <1>2 DEF TxOf, WithFile, m
<1>4. u.files = m /\ u.journal = t.journal /\ u.parts = t.parts /\ u.web = t.web
  BY <1>1 DEF TxOf, WithFile, m
<1> QED
  BY <1>2, <1>3, <1>4 DEF TxTyped

LEMMA FilesTyped ==
    NoFiles \in [Files -> {Absent}] /\ \A f \in Files : NoFiles[f] = Absent /\ Absent \in FilePath(f)
BY DEF NoFiles, FilePath, Path

LEMMA EmptyTyped == Empty \in Backups /\ \A p \in Parts : Empty[p] = Absent
BY DEF Empty, Backups

LEMMA TxWiped ==
    ASSUME NEW t, TxTyped(t),
           NEW u, u = [t EXCEPT !.parts = Empty, !.files = NoFiles, !.web = Absent]
    PROVE  /\ TxTyped(u) /\ u.journal = t.journal /\ u.web = Absent
           /\ u.parts = Empty /\ u.files = NoFiles
<1>1. PICK S : t \in TxOf(S)
  BY DEF TxTyped
<1>2. u = [journal |-> t.journal, parts |-> Empty, files |-> NoFiles, web |-> Absent]
  BY <1>1 DEF TxOf
<1>3. u \in TxOf(S \cup {Absent, Empty})
  <2>1. NoFiles \in [Files -> S \cup {Absent, Empty}]
    BY FilesTyped
  <2> QED
    BY <1>1, <1>2, <2>1 DEF TxOf
<1>4. u.journal = t.journal /\ u.web = Absent /\ u.parts = Empty /\ u.files = NoFiles
  BY <1>2
<1> QED
  BY <1>3, <1>4, EmptyTyped, FilesTyped DEF TxTyped, Profiles

-----------------------------------------------------------------------------
(* The turns of a call                                                      *)

LEMMA RestAll ==
    ASSUME NEW L, \E S : L \in Seq(S), NEW n \in Nat, Len(L) = n PROVE Rest(L, L, n)
BY DEF Rest

LEMMA RestTail ==
    ASSUME NEW t, NEW L, NEW n \in Nat, Rest(t, L, n), t # <<>>
    PROVE  /\ Len(t) \in 1..n /\ Head(t) = L[n + 1 - Len(t)]
           /\ Rest(Tail(t), L, n) /\ Len(Tail(t)) = Len(t) - 1
           /\ Tail(t) = <<>> <=> Len(t) = 1
<1>1. PICK S : t \in Seq(S)
  BY DEF Rest
<1>2. Len(t) \in 1..n /\ Tail(t) \in Seq(S) /\ Len(Tail(t)) = Len(t) - 1 /\ Head(t) = t[1]
  BY <1>1 DEF Rest
<1>3. Head(t) = L[n + 1 - Len(t)]
  BY <1>2 DEF Rest
<1>4. \A i \in 1..Len(Tail(t)) : Tail(t)[i] = t[i + 1] /\ i + 1 \in 1..Len(t)
  BY <1>1, <1>2
<1>5. \A i \in 1..Len(t) : t[i] = L[n - Len(t) + i]
  BY DEF Rest
<1>6. ASSUME NEW i \in 1..Len(Tail(t)) PROVE Tail(t)[i] = L[n - Len(Tail(t)) + i]
  <2>1. i + 1 \in 1..Len(t) /\ Tail(t)[i] = t[i + 1]
    BY <1>4
  <2>2. t[i + 1] = L[n - Len(t) + (i + 1)]
    BY <1>5, <2>1
  <2>3. n - Len(t) + (i + 1) = n - Len(Tail(t)) + i
    BY <1>2
  <2> QED
    BY <2>1, <2>2, <2>3
<1>7. Rest(Tail(t), L, n)
  BY <1>2, <1>6 DEF Rest
<1>8. Tail(t) = <<>> <=> Len(t) = 1
  <2> DEFINE u == Tail(t)
  <2>1. u \in Seq(S)
    BY <1>2
  <2> HIDE DEF u
  <2>2. u = <<>> <=> Len(u) = 0
    BY <2>1
  <2>3. Tail(t) = <<>> <=> Len(Tail(t)) = 0
    BY <2>2 DEF u
  <2>4. Len(Tail(t)) = 0 <=> Len(t) = 1
    BY <1>2
  <2> QED
    BY <2>3, <2>4
<1> QED
  BY <1>2, <1>3, <1>7, <1>8

(* The call c goes on to its next step; the others have none. *)
Goes(c) ==
    /\ call'[c].todo = Tail(call[c].todo)
    /\ call'[c].op = call[c].op /\ call'[c].seen = call[c].seen
    /\ call'[c].web = call[c].web /\ call'[c].plan = call[c].plan
    /\ \A d \in Callers \ {c} : call'[d] = call[d] /\ call[d].todo = <<>>
    /\ before' = before /\ UNCHANGED <<mutex, lease>>

LEMMA AdvanceGoes ==
    ASSUME IInv, InstallationAssumption, NEW c \in Callers, call[c].at = "working", Advance(c)
    PROVE  Goes(c) /\ call'[c].next = call[c].next
<1>1. PICK S : call \in [Callers -> AnyCall(S)]
  BY DEF IInv, Typed
<1>2. \A d \in Callers \ {c} : call[d].todo = <<>>
  BY OthersRest DEF Leased
<1>3. call' = [call EXCEPT ![c].todo = Tail(call[c].todo)]
  BY DEF Advance
<1>4. \A d \in Callers \ {c} : call'[d] = call[d]
  BY <1>1, <1>3
<1>5. /\ call'[c].todo = Tail(call[c].todo) /\ call'[c].op = call[c].op
      /\ call'[c].next = call[c].next /\ call'[c].seen = call[c].seen
      /\ call'[c].web = call[c].web /\ call'[c].plan = call[c].plan
  BY <1>1, <1>3 DEF AnyCall
<1>6. before' = before /\ UNCHANGED <<mutex, lease>>
  BY DEF Advance, locks
<1> QED
  BY <1>2, <1>4, <1>5, <1>6 DEF Goes

(* The next step of c is the one at its turn. *)
Stands(c, L, n, verb, x) ==
    Turn(c, n) \in 1..n /\ L[Turn(c, n)][1] = verb /\ L[Turn(c, n)][2] = x

LEMMA Standing ==
    ASSUME NEW c \in Callers, NEW verb, NEW x, At(c, verb, x),
           NEW L, NEW n \in Nat, Rest(call[c].todo, L, n)
    PROVE  Stands(c, L, n, verb, x)
<1>1. call[c].todo # <<>> /\ Head(call[c].todo) = <<verb, x>>
  BY DEF At
<1>2. /\ Len(call[c].todo) \in 1..n
      /\ L[n + 1 - Len(call[c].todo)] = <<verb, x>>
  BY <1>1, RestTail
<1>3. Turn(c, n) \in 1..n /\ L[Turn(c, n)] = <<verb, x>>
  BY <1>2 DEF Turn
<1>4. L[Turn(c, n)][1] = verb /\ L[Turn(c, n)][2] = x
  BY <1>3
<1> QED
  BY <1>3, <1>4 DEF Stands

LEMMA Doing ==
    ASSUME NEW c \in Callers, Carries(c), NEW verb, NEW x, At(c, verb, x)
    PROVE  /\ tx # Absent /\ call[c].todo # <<>>
           /\ \/ Installing(c) /\ Stands(c, MutationSteps, 22, verb, x)
              \/ Uninstalling(c) /\ Stands(c, RemovalSteps, 17, verb, x)
              \/ RollingBack(c) /\ Stands(c, RollbackSteps, 15, verb, x)
              \/ Clearing(c) /\ Stands(c, CompletionSteps("uninstall"), 9, verb, x)
              \/ Confirming(c) /\ Stands(c, CompletionSteps("install"), 2, verb, x)
<1>1. call[c].todo # <<>>
  BY DEF At
<1>2. /\ Installing(c) => Rest(call[c].todo, MutationSteps, 22)
      /\ Uninstalling(c) => Rest(call[c].todo, RemovalSteps, 17)
      /\ RollingBack(c) => Rest(call[c].todo, RollbackSteps, 15)
      /\ Clearing(c) => Rest(call[c].todo, CompletionSteps("uninstall"), 9)
      /\ Confirming(c) => Rest(call[c].todo, CompletionSteps("install"), 2)
  BY DEF Installing, Uninstalling, RollingBack, Clearing, Confirming
<1> QED
  BY <1>1, <1>2, Standing DEF Carries

LEMMA TurnIn ==
    ASSUME NEW c \in Callers, NEW L, NEW n \in Nat, Rest(call[c].todo, L, n),
           call[c].todo # <<>>
    PROVE  /\ Turn(c, n) \in 1..n /\ Len(call[c].todo) \in 1..n
           /\ Len(call[c].todo) = n + 1 - Turn(c, n)
<1>1. Len(call[c].todo) \in 1..n
  BY RestTail
<1> QED
  BY <1>1 DEF Turn

LEMMA NextTurn ==
    ASSUME NEW c \in Callers, NEW L, NEW n \in Nat, Rest(call[c].todo, L, n),
           call[c].todo # <<>>, Goes(c)
    PROVE  /\ Turn(c, n) \in 1..n /\ Turn(c, n)' = Turn(c, n) + 1
           /\ Rest(call[c].todo, L, n)'
           /\ Len(call'[c].todo) = n - Turn(c, n)
<1>1. /\ Len(call[c].todo) \in 1..n /\ Rest(Tail(call[c].todo), L, n)
      /\ Len(Tail(call[c].todo)) = Len(call[c].todo) - 1
  BY RestTail
<1>2. call'[c].todo = Tail(call[c].todo)
  BY DEF Goes
<1>3. Turn(c, n) \in 1..n
  BY <1>1 DEF Turn
<1>4. Len(call'[c].todo) = Len(call[c].todo) - 1
  BY <1>1, <1>2
<1>5. Turn(c, n)' = Turn(c, n) + 1 /\ Len(call'[c].todo) = n - Turn(c, n)
  <2>1. Turn(c, n) = n + 1 - Len(call[c].todo)
    BY DEF Turn
  <2>2. Turn(c, n)' = n + 1 - Len(call'[c].todo)
    BY DEF Turn
  <2>3. Len(call[c].todo) \in Nat
    BY <1>1
  <2> QED
    BY <1>4, <2>1, <2>2, <2>3
<1>6. Rest(call[c].todo, L, n)'
  BY <1>1, <1>2 DEF Rest
<1> QED
  BY <1>3, <1>5, <1>6

-----------------------------------------------------------------------------
(* What the program of a call says of the disk                              *)

LEMMA CommitsLater ==
    ASSUME NEW k, Knows(k), Names(k), PathAssumption, Mutates(k.op) \/ Removes(k.op)
    PROVE  ~Committed
<1>1. CASE Removes(k.op)
  BY <1>1 DEF Knows, Names, Committed, Removes
<1>2. CASE ~Removes(k.op)
  <2>1. tx.journal.op # "uninstall"
    BY <1>2 DEF Names, Removes
  <2>2. files["active"] = before.files["active"] /\ Follows(files["active"], k.next)
    BY <1>2 DEF Knows
  <2>3. CASE files["active"] = Absent
    BY <2>1, <2>3 DEF Committed, Readable
  <2>4. CASE files["active"] # Absent
    <3>1. k.next.gen = files["active"].gen + 1
      BY <2>2, <2>4 DEF Follows
    <3>2. files["active"] \in Candidate
      BY <2>2, <2>4 DEF Knows, CleanBefore, Clean, Vacant, Whole
    <3>3. files["active"].gen \in Nat
      BY <3>2 DEF Candidate
    <3>4. tx.journal.gen # files["active"].gen
      BY <3>1, <3>3 DEF Names
    <3> QED
      BY <2>1, <3>4 DEF Committed
  <2> QED
    BY <2>3, <2>4
<1> QED
  BY <1>1, <1>2

LEMMA PreparingReversible ==
    ASSUME NEW c \in Callers, NEW i \in 2..20, Preparing(c, i), Types
    PROVE  Reversible
<1> DEFINE op == call[c].op
<1>1. Noted /\ CleanBefore /\ tx.journal.touched = Touched(c)
  BY DEF Preparing, Knows
<1>2. ASSUME NEW p \in Parts PROVE PartBack(p)
  <2>1. PartSaved(p, i, AsideAt(op, p)) /\ (p \in tx.journal.had <=> before.parts[p] # Absent)
    BY <1>1 DEF Preparing, Noted
  <2> QED
    BY <2>1 DEF PartSaved, PartBack
<1>3. ASSUME NEW f \in Files PROVE FileBack(f)
  <2>1. FileSaved(f, i, OpenAt(op, f)) /\ (Had(f) <=> before.files[f] # Absent)
    BY <1>1 DEF Preparing, Noted
  <2>2. OpenAt(op, f) \in Nat
    BY DEF OpenAt, OfFile
  <2> HIDE DEF op
  <2>3. CASE i <= OpenAt(op, f)
    BY <2>1, <2>2, <2>3 DEF FileSaved, FileBack
  <2>4. CASE i = OpenAt(op, f) + 1
    BY <2>1, <2>2, <2>4 DEF FileSaved, FileBack
  <2>5. CASE i > OpenAt(op, f) + 1
    BY <2>1, <2>2, <2>5 DEF FileSaved, FileBack
  <2> QED
    BY <2>2, <2>3, <2>4, <2>5
<1>4. WebBack
  <2>1. WebSaved(c, i, KeepAt(op), WebAt(op)) /\ (tx.journal.web <=> before.web # Absent)
    BY <1>1 DEF Preparing, Noted
  <2>2. KeepAt(op) \in Nat /\ WebAt(op) \in Nat /\ KeepAt(op) < WebAt(op)
    BY DEF KeepAt, WebAt
  <2> HIDE DEF op
  <2> QED
    BY <1>1, <2>1, <2>2 DEF WebSaved, WebBack
<1> QED
  BY <1>1, <1>2, <1>3, <1>4 DEF Reversible

(* While a mutation or an uninstall is at work, the disk is as it should be. *)
LEMMA ForwardDisk ==
    ASSUME PathAssumption
    PROVE  \A c \in Callers : /\ Installing(c) \/ Uninstalling(c)
                              /\ Types /\ tx # Absent /\ call[c].todo # <<>>
                              => Disk
<1> SUFFICES ASSUME NEW c \in Callers, Installing(c) \/ Uninstalling(c),
                    Types, tx # Absent, call[c].todo # <<>>, tx.journal # Absent
             PROVE  IF Committed THEN Finished ELSE Reversible
  BY DEF Disk, Journalled
<1>1. ASSUME NEW i \in 1..20, Preparing(c, i), Mutates(call[c].op) \/ Removes(call[c].op)
      PROVE  ~Committed /\ Reversible
  <2>1. i \in 2..20 /\ Names(call[c]) /\ Knows(call[c])
    BY <1>1 DEF Preparing
  <2> QED
    BY <1>1, <2>1, CommitsLater, PreparingReversible
<1>2. CASE Installing(c)
  <2> DEFINE i == Turn(c, 22)
  <2>1. i \in 1..22
    BY <1>2, TurnIn DEF Installing
  <2>2. Mutates(call[c].op) /\ (i <= 20 => Preparing(c, i))
    BY <1>2 DEF Installing
  <2>3. i > 20 => Committed /\ tx.journal.op # "uninstall" /\ Whole(parts, files, web)
    BY <1>2 DEF Installing
  <2> HIDE DEF i
  <2>4. CASE i <= 20
    <3>1. i \in 1..20 /\ Preparing(c, i)
      BY <2>1, <2>2, <2>4
    <3>2. ~Committed /\ Reversible
      BY <1>1, <2>2, <3>1
    <3> QED
      BY <3>2
  <2>5. CASE i > 20
    BY <2>3, <2>5 DEF Finished
  <2> QED
    BY <2>1, <2>4, <2>5
<1>3. CASE Uninstalling(c)
  <2> DEFINE i == Turn(c, 17)
  <2>1. i \in 1..17
    BY <1>3, TurnIn DEF Uninstalling
  <2>2. Removes(call[c].op) /\ (i <= 13 => Preparing(c, i)) /\ Removed(i)
    BY <1>3 DEF Uninstalling
  <2>3. i > 13 => tx.journal.op = "uninstall"
    BY <1>3 DEF Uninstalling
  <2> HIDE DEF i
  <2>4. CASE i <= 13
    <3>1. i \in 1..20 /\ Preparing(c, i)
      BY <2>1, <2>2, <2>4
    <3>2. ~Committed /\ Reversible
      BY <1>1, <2>2, <3>1
    <3> QED
      BY <3>2
  <2>5. CASE i > 13
    BY <2>1, <2>2, <2>3, <2>5 DEF Finished, Committed, Removed
  <2> QED
    BY <2>1, <2>4, <2>5
<1> QED
  BY <1>2, <1>3

LEMMA ForwardDiskNext ==
    ASSUME PathAssumption
    PROVE  (\A c \in Callers : /\ Installing(c) \/ Uninstalling(c)
                               /\ Types /\ tx # Absent /\ call[c].todo # <<>>
                               => Disk)'
<1>1. \A c \in Callers : /\ Installing(c) \/ Uninstalling(c)
                         /\ Types /\ tx # Absent /\ call[c].todo # <<>>
                         => Disk
  BY ForwardDisk
<1> QED
  BY <1>1, PathAssumption, PTL

-----------------------------------------------------------------------------
(* What a step leaves as it is                                              *)

(* The user may have edited the Web Profile, and nothing else. *)
Nudged ==
    \/ web' = web
    \/ /\ web # Absent /\ web' # Absent /\ web' \in Profile
       /\ web'.version = web.version /\ web'.edits >= web.edits

NextKept(c) ==
    \/ call'[c].next = call[c].next
    \/ /\ call'[c].next.inst = call[c].next.inst /\ call'[c].next.gen = call[c].next.gen
       /\ call'[c].next \in Candidate

LEMMA KeptStill ==
    ASSUME InstallationAssumption, PathAssumption, Types, Kept(web), Nudged, before' = before
    PROVE  Kept(web)'
<1>1. CASE web' = web
  BY <1>1 DEF Kept
<1>2. CASE web' # web
  <2>1. web # Absent /\ web \in Profile /\ before.web # Absent /\ before.web \in Profile
    BY <1>2 DEF Nudged, Types, Profiles, Kept
  <2>2. web.edits \in Nat /\ web'.edits \in Nat /\ before.web.edits \in Nat
    BY <1>2, <2>1 DEF Profile, Nudged, InstallationAssumption
  <2>3. web.edits >= before.web.edits /\ web'.edits >= web.edits
    BY <1>2, <2>1 DEF Kept, Nudged
  <2> QED
    BY <1>2, <2>1, <2>2, <2>3 DEF Kept, Nudged
<1> QED
  BY <1>1, <1>2

LEMMA PartStill ==
    ASSUME NEW p \in Parts, NEW i \in Nat, NEW a \in Nat, PartSaved(p, i, a), i # a,
           tx'.parts[p] = tx.parts[p], i < a => parts'[p] = parts[p], before' = before
    PROVE  PartSaved(p, i + 1, a)'
<1>1. CASE i < a
  BY <1>1 DEF PartSaved
<1>2. CASE i > a
  BY <1>2 DEF PartSaved
<1> QED
  BY <1>1, <1>2

LEMMA FileStill ==
    ASSUME NEW f \in Files, NEW i \in Nat, NEW o \in Nat, FileSaved(f, i, o), i # o, i # o + 1,
           tx'.files[f] = tx.files[f], i < o => files'[f] = files[f], before' = before
    PROVE  FileSaved(f, i + 1, o)'
<1>1. CASE i < o
  BY <1>1 DEF FileSaved
<1>2. CASE i > o + 1
  BY <1>2 DEF FileSaved
<1> QED
  BY <1>1, <1>2

LEMMA WebStill ==
    ASSUME InstallationAssumption, PathAssumption, Types, NEW c \in Callers, Goes(c),
           NEW i \in Nat, NEW keep \in Nat, NEW publish \in Nat,
           WebSaved(c, i, keep, publish), Touched(c) => i # keep, tx'.web = tx.web, Nudged
    PROVE  WebSaved(c, i + 1, keep, publish)'
<1>1. Touched(c)' <=> Touched(c)
  BY DEF Goes, Touched
<1>2. before' = before
  BY DEF Goes
<1>3. Kept(web) => Kept(web)'
  BY <1>2, KeptStill
<1>4. i + 1 > keep /\ Touched(c) <=> i > keep /\ Touched(c)
  OBVIOUS
<1>5. i + 1 <= publish => i <= publish
  OBVIOUS
<1> QED
  BY <1>1, <1>2, <1>3, <1>4, <1>5 DEF WebSaved

LEMMA KnowsStill ==
    ASSUME NEW c \in Callers, Goes(c), Knows(call[c]), NextKept(c),
           files'["active"] = files["active"]
    PROVE  Knows(call[c])'
<1>1. /\ CleanBefore' /\ files'["active"] = before'.files["active"]
      /\ call'[c].web = before'.web /\ call'[c].plan \in Profile
      /\ call'[c].seen = Absent <=> before'.files["active"] = Absent
  BY DEF Knows, Goes, CleanBefore, Clean, Vacant, Whole
<1>2. call'[c].next.inst = call[c].next.inst /\ call'[c].next.gen = call[c].next.gen
  BY DEF NextKept
<1>3. call[c].next \in Candidate => call'[c].next \in Candidate
  BY DEF NextKept
<1>4. Removes(call'[c].op) <=> Removes(call[c].op)
  BY DEF Goes
<1>5. before' = before /\ call'[c].plan = call[c].plan
  BY DEF Goes
<1> QED
  BY <1>1, <1>2, <1>3, <1>4, <1>5 DEF Knows, Follows

(* The journal is there and says what it is to say. *)
Entered(c) ==
    tx.journal # Absent /\ Names(call[c]) /\ Noted /\ tx.journal.touched = Touched(c)

LEMMA EnteredStill ==
    ASSUME NEW c \in Callers, Goes(c), NEW i \in Nat, i > 1, Preparing(c, i), NextKept(c),
           tx'.journal = tx.journal
    PROVE  Entered(c)'
<1>1. tx.journal # Absent /\ Names(call[c]) /\ Noted /\ tx.journal.touched = Touched(c)
  BY DEF Preparing
<1>2. Touched(c)' = Touched(c)
  BY DEF Goes, Touched
<1>3. Names(call[c])'
  BY <1>1 DEF Names, Goes, NextKept
<1>4. Noted'
  BY <1>1 DEF Noted, Had, Goes
<1> QED
  BY <1>1, <1>2, <1>3, <1>4 DEF Entered

-----------------------------------------------------------------------------
(* A step of a transaction that has not committed                           *)

LEMMA GoneOn ==
    ASSUME RecoveryInv, NEW c \in Callers, Goes(c), Types', Disk', Carries(c)'
    PROVE  RecoveryInv'
<1>1. ASSUME NEW d \in Callers \ {c} PROVE Carries(d)' /\ Saw(d)'
  <2>1. call'[d] = call[d] /\ call[d].todo = <<>> /\ Saw(d)
    BY DEF Goes, RecoveryInv
  <2> QED
    BY <2>1 DEF Carries, Saw
<1>2. Saw(c)'
  <2>1. Saw(c) /\ call'[c].op = call[c].op /\ call'[c].seen = call[c].seen
    BY DEF Goes, RecoveryInv
  <2> QED
    BY <2>1 DEF Saw
<1>3. Owners'
  BY DEF Owners, Goes, RecoveryInv
<1> QED
  BY <1>1, <1>2, <1>3 DEF RecoveryInv

(* The places of the list of an operation. *)
LEMMA AtPlaces ==
    ASSUME NEW op
    PROVE  /\ Count(op) \in Nat /\ Commits(op) \in Nat /\ Commits(op) < Count(op) /\ Commits(op) > 1
           /\ \A p \in Parts : AsideAt(op, p) \in Nat /\ AsideAt(op, p) > 1
           /\ \A f \in Files : OpenAt(op, f) \in Nat /\ OpenAt(op, f) > 1
           /\ KeepAt(op) \in Nat /\ WebAt(op) \in Nat /\ KeepAt(op) > 1 /\ WebAt(op) > KeepAt(op)
BY DEF Count, Commits, AsideAt, OpenAt, KeepAt, WebAt, OfPart, OfFile

(* The step of a mutation or of an uninstall that comes next, and its place. *)
Forward(c) ==
    LET op == call[c].op IN
    /\ tx # Absent /\ call[c].todo # <<>> /\ Turn(c, Count(op)) \in 1..Count(op)
    /\ (Mutates(op) /\ Installing(c)) \/ (Removes(op) /\ Uninstalling(c))

LEMMA ForwardOnly ==
    ASSUME NEW c \in Callers, Carries(c), NEW verb, NEW x, At(c, verb, x),
           verb \notin {"tear", "drop", "return", "back", "validate", "remove", "unlink"}
    PROVE  \/ Installing(c) /\ Stands(c, MutationSteps, 22, verb, x)
           \/ Uninstalling(c) /\ Stands(c, RemovalSteps, 17, verb, x)
<1>1. ~Stands(c, RollbackSteps, 15, verb, x)
  BY RollbackPlace DEF Stands
<1>2. ~Stands(c, CompletionSteps("uninstall"), 9, verb, x)
  BY CompletionPlace DEF Stands
<1>3. ~Stands(c, CompletionSteps("install"), 2, verb, x)
  <2>1. /\ CompletionSteps("install")[1][1] = "validate"
        /\ CompletionSteps("install")[2][1] = "remove"
    BY ShortList
  <2>2. Turn(c, 2) \in 1..2 => Turn(c, 2) = 1 \/ Turn(c, 2) = 2
    OBVIOUS
  <2> QED
    BY <2>1, <2>2 DEF Stands
<1> QED
  BY <1>1, <1>2, <1>3, Doing

LEMMA ForwardPlace ==
    ASSUME NEW c \in Callers, Carries(c), NEW verb, NEW x, At(c, verb, x),
           verb \in {"journal", "build", "open", "copy", "keep", "web", "aside", "in",
                     "write", "probe", "activate", "committed"}
    PROVE  LET op == call[c].op  i == Turn(c, Count(op)) IN
           /\ Forward(c)
           /\ verb = "journal" => i = 1
           /\ verb = "open" => x \in Files /\ i = OpenAt(op, x)
           /\ verb = "copy" => x \in Files /\ i = OpenAt(op, x) + 1
           /\ verb = "keep" => i = KeepAt(op)
           /\ verb = "web" => i = WebAt(op)
           /\ verb = "aside" => x \in Parts /\ i = AsideAt(op, x)
           /\ verb = "build" => Mutates(op) /\ i = 2
           /\ verb = "in" => Mutates(op) /\ x \in Parts /\ i = AsideAt(op, x) + 1
           /\ verb = "write" => Mutates(op) /\ x \in {"manifest", "scope"}
                                /\ i = OfFile(x, 0, 17, 18)
           /\ verb = "probe" => Mutates(op) /\ i = 19
           /\ verb = "activate" => Mutates(op) /\ i = 20
           /\ verb = "committed" => i = IF Removes(op) THEN 16 ELSE 21
<1>1. tx # Absent /\ call[c].todo # <<>>
  BY Doing
<1>2. CASE Installing(c) /\ Stands(c, MutationSteps, 22, verb, x)
  <2>1. Mutates(call[c].op) /\ ~Removes(call[c].op)
    BY <1>2 DEF Installing, Mutates, Removes
  <2>2. Count(call[c].op) = 22 /\ Turn(c, 22) \in 1..22
    BY <1>2, <2>1 DEF Count, Stands
  <2>3. Forward(c)
    BY <1>1, <1>2, <2>1, <2>2 DEF Forward
  <2>4. /\ MutationSteps[Turn(c, 22)][1] = verb /\ MutationSteps[Turn(c, 22)][2] = x
    BY <1>2 DEF Stands
  <2> DEFINE i == Turn(c, 22)
  <2> HIDE DEF i
  <2>5. /\ verb = "journal" => i = 1
        /\ verb = "build" => i = 2
        /\ verb = "open" => x \in Files /\ i = OfFile(x, 3, 5, 7)
        /\ verb = "copy" => x \in Files /\ i = OfFile(x, 4, 6, 8)
        /\ verb = "keep" => i = 9
        /\ verb = "aside" => x \in Parts /\ i = OfPart(x, 10, 12, 15)
        /\ verb = "in" => x \in Parts /\ i = OfPart(x, 11, 13, 16)
        /\ verb = "web" => i = 14
        /\ verb = "write" => x \in {"manifest", "scope"} /\ i = OfFile(x, 0, 17, 18)
        /\ verb = "probe" => i = 19
        /\ verb = "activate" => i = 20
        /\ verb = "committed" => i = 21
    BY <2>2, <2>4, MutationPlace DEF i
  <2>6. /\ OfFile(x, 4, 6, 8) = OfFile(x, 3, 5, 7) + 1
        /\ OfPart(x, 11, 13, 16) = OfPart(x, 10, 12, 15) + 1
    BY DEF OfFile, OfPart
  <2>7. Turn(c, Count(call[c].op)) = i
    BY <2>2 DEF i
  <2> QED
    BY <2>1, <2>3, <2>5, <2>6, <2>7 DEF OpenAt, AsideAt, KeepAt, WebAt
<1>3. CASE Uninstalling(c) /\ Stands(c, RemovalSteps, 17, verb, x)
  <2>1. Removes(call[c].op)
    BY <1>3 DEF Uninstalling
  <2>2. Count(call[c].op) = 17 /\ Turn(c, 17) \in 1..17
    BY <1>3, <2>1 DEF Count, Stands
  <2>3. Forward(c)
    BY <1>1, <1>3, <2>1, <2>2 DEF Forward
  <2>4. /\ RemovalSteps[Turn(c, 17)][1] = verb /\ RemovalSteps[Turn(c, 17)][2] = x
    BY <1>3 DEF Stands
  <2> DEFINE i == Turn(c, 17)
  <2> HIDE DEF i
  <2>5. /\ verb = "journal" => i = 1
        /\ verb = "open" => x \in Files /\ i = OfFile(x, 2, 4, 6)
        /\ verb = "copy" => x \in Files /\ i = OfFile(x, 3, 5, 7)
        /\ verb = "keep" => i = 8
        /\ verb = "web" => i = 9
        /\ verb = "aside" => x \in Parts /\ i = OfPart(x, 11, 10, 12)
        /\ verb = "committed" => i = 16
        /\ verb \notin {"build", "in", "write", "probe", "activate"}
    BY <2>2, <2>4, RemovalPlace DEF i
  <2>6. OfFile(x, 3, 5, 7) = OfFile(x, 2, 4, 6) + 1
    BY DEF OfFile
  <2>7. Turn(c, Count(call[c].op)) = i
    BY <2>2 DEF i
  <2> QED
    BY <2>1, <2>3, <2>5, <2>6, <2>7 DEF OpenAt, AsideAt, KeepAt, WebAt
<1> QED
  BY <1>2, <1>3, ForwardOnly

LEMMA ForwardNow ==
    ASSUME NEW c \in Callers, Forward(c), NEW op, op = call[c].op, NEW i, i = Turn(c, Count(op))
    PROVE  /\ i \in 1..Count(op) /\ i \in Nat
           /\ i <= Commits(op) => Preparing(c, i)
           /\ Removes(op) => Removed(i)
           /\ IF Removes(op) THEN Rest(call[c].todo, RemovalSteps, 17)
              ELSE Rest(call[c].todo, MutationSteps, 22)
<1>1. i \in 1..Count(op) /\ i \in Nat
  BY AtPlaces DEF Forward
<1>2. CASE Mutates(op) /\ Installing(c)
  <2>1. ~Removes(op) /\ Count(op) = 22 /\ Commits(op) = 20
    BY <1>2 DEF Mutates, Removes, Count, Commits
  <2> QED
    BY <1>1, <1>2, <2>1 DEF Installing
<1>3. CASE Removes(op) /\ Uninstalling(c)
  <2>1. Count(op) = 17 /\ Commits(op) = 13
    BY <1>3 DEF Count, Commits
  <2> QED
    BY <1>1, <1>3, <2>1 DEF Uninstalling
<1> QED
  BY <1>2, <1>3 DEF Forward

LEMMA PreparingNext ==
    ASSUME NEW c \in Callers, Goes(c), NEW op, op = call[c].op, NEW i \in Nat,
           Knows(call[c])', Entered(c)', i >= 1,
           \A p \in Parts : PartSaved(p, i + 1, AsideAt(op, p))',
           \A f \in Files : FileSaved(f, i + 1, OpenAt(op, f))',
           WebSaved(c, i + 1, KeepAt(op), WebAt(op))'
    PROVE  Preparing(c, i + 1)'
<1>1. call'[c].op = op
  BY DEF Goes
<1>2. tx'.journal # Absent /\ Names(call[c])' /\ Noted' /\ tx'.journal.touched = Touched(c)'
  BY DEF Entered
<1>3. \A p \in Parts : PartSaved(p, i + 1, AsideAt(call[c].op, p))'
  BY <1>1 DEF PartSaved
<1>4. \A f \in Files : FileSaved(f, i + 1, OpenAt(call[c].op, f))'
  BY <1>1 DEF FileSaved
<1>5. WebSaved(c, i + 1, KeepAt(call[c].op), WebAt(call[c].op))'
  BY <1>1 DEF WebSaved
<1> QED
  BY <1>2, <1>3, <1>4, <1>5 DEF Preparing

LEMMA ForwardOn ==
    ASSUME RecoveryInv, PathAssumption, NEW c \in Callers, Goes(c), Forward(c),
           NEW op, op = call[c].op, NEW i, i = Turn(c, Count(op)), i < Commits(op),
           Types', tx' # Absent, Preparing(c, i + 1)',
           Removes(op) => Removed(i + 1)', Mutates(op) /\ i = 19 => Built(call[c])'
    PROVE  RecoveryInv'
<1>1. /\ i \in 1..Count(op) /\ i \in Nat
      /\ IF Removes(op) THEN Rest(call[c].todo, RemovalSteps, 17)
         ELSE Rest(call[c].todo, MutationSteps, 22)
  BY ForwardNow
<1>2. call'[c].op = op /\ call[c].todo # <<>>
  BY DEF Goes, Forward
<1>3. /\ Installing(c)' \/ Uninstalling(c)'
      /\ Len(call'[c].todo) \in Nat \ {0, 1}
  <2>1. CASE Mutates(op)
    <3>1. ~Removes(op) /\ Count(op) = 22 /\ Commits(op) = 20 /\ Mutates(call'[c].op)
      BY <1>2, <2>1 DEF Mutates, Removes, Count, Commits
    <3>2. Turn(c, 22)' = i + 1 /\ Rest(call[c].todo, MutationSteps, 22)'
          /\ Len(call'[c].todo) = 22 - i
      BY <1>1, <1>2, <3>1, NextTurn
    <3>3. i + 1 <= 20
      BY <1>1, <3>1
    <3>4. Mutates(call[c].op)' /\ (i + 1 = 20 => Built(call[c])')
      BY <1>1, <2>1, <3>1 DEF Mutates
    <3> QED
      BY <1>1, <3>2, <3>3, <3>4 DEF Installing
  <2>2. CASE Removes(op)
    <3>1. Count(op) = 17 /\ Commits(op) = 13 /\ Removes(call'[c].op)
      BY <1>2, <2>2 DEF Count, Commits
    <3>2. Turn(c, 17)' = i + 1 /\ Rest(call[c].todo, RemovalSteps, 17)'
          /\ Len(call'[c].todo) = 17 - i
      BY <1>1, <1>2, <2>2, <3>1, NextTurn
    <3>3. i + 1 <= 13
      BY <1>1, <3>1
    <3>4. Removes(call[c].op)' /\ Removed(i + 1)'
      BY <2>2, <3>1 DEF Removes
    <3> QED
      BY <1>1, <3>2, <3>3, <3>4 DEF Uninstalling
  <2> QED
    BY <2>1, <2>2 DEF Forward
<1>4. call'[c].todo # <<>> /\ Len(call'[c].todo) # 1
  <2>1. call'[c].todo = <<>> => Len(call'[c].todo) = 0
    OBVIOUS
  <2> QED
    BY <1>3, <2>1
<1>5. Carries(c)'
  BY <1>3, <1>4 DEF Carries
<1>6. Disk'
  BY <1>3, <1>4, ForwardDiskNext
<1> QED
  BY <1>5, <1>6, GoneOn

-----------------------------------------------------------------------------
(* Steps that leave the directories, the files and the transaction alone    *)

LEMMA TypesStill ==
    ASSUME Types, parts' \in [Parts -> Path(Candidate)],
           \A f \in Files : files'[f] \in FilePath(f), web' \in Profiles,
           tx' # Absent => TxTyped(tx'), before' = before
    PROVE  Types'
BY DEF Types

LEMMA NudgedWeb ==
    ASSUME Types, Nudged
    PROVE  /\ web' \in Profiles /\ (web' = Absent <=> web = Absent)
           /\ web # Absent => web'.version = web.version
BY DEF Nudged, Types, Profiles

(* Nothing but the Web Profile, and that only by the user. *)
DiskStill == Nudged /\ UNCHANGED <<parts, files, tx, before>>

LEMMA StillClean ==
    ASSUME Types, DiskStill
    PROVE  /\ Whole(parts, files, web) => Whole(parts, files, web)'
           /\ CleanNow => CleanNow'
           /\ Committed' <=> Committed
           /\ Finished => Finished'
<1>1. (web' = Absent <=> web = Absent) /\ (web # Absent => web'.version = web.version)
  BY NudgedWeb DEF DiskStill
<1>2. UNCHANGED <<parts, files, tx, before>>
  BY DEF DiskStill
<1>3. Whole(parts, files, web) => Whole(parts, files, web)'
  BY <1>1, <1>2 DEF Whole
<1>4. CleanNow => CleanNow'
  BY <1>1, <1>2 DEF CleanNow, Clean, Vacant, Whole
<1>5. Committed' <=> Committed
  BY <1>2 DEF Committed, Readable
<1>6. Finished => Finished'
  BY <1>1, <1>2, <1>3 DEF Finished
<1> QED
  BY <1>3, <1>4, <1>5, <1>6

LEMMA StillReversible ==
    ASSUME InstallationAssumption, PathAssumption, Types, DiskStill, Reversible
    PROVE  Reversible'
<1>1. UNCHANGED <<parts, files, tx, before>> /\ (Kept(web) => Kept(web)')
  BY KeptStill DEF DiskStill
<1>2. CleanBefore'
  BY <1>1 DEF Reversible, CleanBefore, Clean, Vacant, Whole
<1>3. Noted'
  BY <1>1 DEF Reversible, Noted, Had
<1>4. WebBack'
  BY <1>1 DEF Reversible, WebBack
<1>5. \A p \in Parts : PartBack(p)'
  BY <1>1 DEF Reversible, PartBack
<1>6. \A f \in Files : FileBack(f)'
  BY <1>1 DEF Reversible, FileBack, Had
<1> QED
  BY <1>2, <1>3, <1>4, <1>5, <1>6 DEF Reversible

LEMMA StillDisk ==
    ASSUME InstallationAssumption, PathAssumption, Types, DiskStill
    PROVE  Types' /\ (Disk => Disk')
<1>1. UNCHANGED <<parts, files, tx, before>> /\ web' \in Profiles
  BY NudgedWeb DEF DiskStill
<1>2. Types'
  BY <1>1, TypesStill DEF Types
<1>3. Disk => Disk'
  BY <1>1, StillClean, StillReversible DEF Disk, Journalled
<1> QED
  BY <1>2, <1>3

(* What a call carries out is where it was. *)
LEMMA StillPreparing ==
    ASSUME InstallationAssumption, PathAssumption, Types, DiskStill,
           NEW c \in Callers, call'[c] = call[c], NEW i, Preparing(c, i)
    PROVE  Preparing(c, i)'
<1>1. UNCHANGED <<parts, files, tx, before>> /\ (Kept(web) => Kept(web)')
  BY KeptStill DEF DiskStill
<1>2. Touched(c)' <=> Touched(c)
  BY DEF Touched
<1>3. Knows(call[c])'
  BY <1>1 DEF Preparing, Knows, CleanBefore, Clean, Vacant, Whole
<1>4. i > 1 => Names(call[c])' /\ Noted' /\ tx'.journal.touched = Touched(c)'
  BY <1>1, <1>2 DEF Preparing, Names, Noted, Had, Touched
<1>5. \A p \in Parts : PartSaved(p, i, AsideAt(call[c].op, p))'
  BY <1>1 DEF Preparing, PartSaved
<1>6. \A f \in Files : FileSaved(f, i, OpenAt(call[c].op, f))'
  BY <1>1 DEF Preparing, FileSaved
<1>7. WebSaved(c, i, KeepAt(call[c].op), WebAt(call[c].op))'
  BY <1>1, <1>2 DEF Preparing, WebSaved
<1> QED
  BY <1>1, <1>3, <1>4, <1>5, <1>6, <1>7 DEF Preparing

LEMMA StillCarries ==
    ASSUME InstallationAssumption, PathAssumption, Types, DiskStill,
           NEW c \in Callers, call'[c] = call[c], Carries(c)
    PROVE  Carries(c)'
<1>1. UNCHANGED <<parts, files, tx, before>> /\ (Kept(web) => Kept(web)')
  BY KeptStill DEF DiskStill
<1>2. /\ web' = Absent <=> web = Absent
      /\ web # Absent => web'.version = web.version
      /\ Whole(parts, files, web) => Whole(parts, files, web)'
      /\ CleanNow => CleanNow'
      /\ Committed' <=> Committed
  BY NudgedWeb, StillClean DEF DiskStill
<1>3. \A n \in Nat : Turn(c, n)' = Turn(c, n)
  BY DEF Turn
<1>4. Installing(c) => Installing(c)'
  <2>1. PICK i : i = Turn(c, 22)
    OBVIOUS
  <2>2. Turn(c, 22)' = i
    BY <1>3, <2>1
  <2>3. Preparing(c, i) => Preparing(c, i)'
    BY StillPreparing
  <2>4. Built(call[c]) => Built(call[c])'
    BY <1>1, <1>2 DEF Built
  <2>5. Rest(call[c].todo, MutationSteps, 22) => Rest(call[c].todo, MutationSteps, 22)'
    BY DEF Rest
  <2> QED
    BY <1>1, <1>2, <2>1, <2>2, <2>3, <2>4, <2>5 DEF Installing
<1>5. Uninstalling(c) => Uninstalling(c)'
  <2>1. PICK i : i = Turn(c, 17)
    OBVIOUS
  <2>2. Turn(c, 17)' = i
    BY <1>3, <2>1
  <2>3. Preparing(c, i) => Preparing(c, i)'
    BY StillPreparing
  <2>4. Removed(i) => Removed(i)'
    BY <1>1, <1>2 DEF Removed
  <2>5. Rest(call[c].todo, RemovalSteps, 17) => Rest(call[c].todo, RemovalSteps, 17)'
    BY DEF Rest
  <2> QED
    BY <1>1, <1>2, <2>1, <2>2, <2>3, <2>4, <2>5 DEF Uninstalling
<1>6. RollingBack(c) => RollingBack(c)'
  <2>1. PICK i : i = Turn(c, 15)
    OBVIOUS
  <2>2. Turn(c, 15)' = i
    BY <1>3, <2>1
  <2>3. Rest(call[c].todo, RollbackSteps, 15) => Rest(call[c].todo, RollbackSteps, 15)'
    BY DEF Rest
  <2>4. \A f \in Files : Had(f)' <=> Had(f)
    BY <1>1 DEF Had
  <2>5. Undone(i) => Undone(i)'
    BY <1>1, <1>2, <2>4 DEF Undone
  <2> QED
    BY <1>1, <1>2, <2>1, <2>2, <2>3, <2>5 DEF RollingBack
<1>7. Clearing(c) => Clearing(c)'
  <2>1. Turn(c, 9)' = Turn(c, 9)
    BY <1>3
  <2>2. Rest(call[c].todo, CompletionSteps("uninstall"), 9)
          => Rest(call[c].todo, CompletionSteps("uninstall"), 9)'
    BY DEF Rest
  <2> QED
    BY <1>1, <1>2, <2>1, <2>2 DEF Clearing, Cleared
<1>8. Confirming(c) => Confirming(c)'
  <2>1. Turn(c, 2)' = Turn(c, 2)
    BY <1>3
  <2>2. Rest(call[c].todo, CompletionSteps("install"), 2)
          => Rest(call[c].todo, CompletionSteps("install"), 2)'
    BY DEF Rest
  <2> QED
    BY <1>1, <1>2, <2>1, <2>2 DEF Confirming
<1> QED
  BY <1>1, <1>2, <1>4, <1>5, <1>6, <1>7, <1>8 DEF Carries

LEMMA StillInv ==
    ASSUME InstallationAssumption, PathAssumption, RecoveryInv, DiskStill, Owners',
           \A d \in Callers : call'[d] = call[d] \/ (call'[d].todo = <<>> /\ Saw(d)')
    PROVE  RecoveryInv'
<1>1. Types' /\ Disk'
  BY StillDisk DEF RecoveryInv
<1>2. ASSUME NEW d \in Callers, call'[d] = call[d] PROVE Carries(d)' /\ Saw(d)'
  BY <1>2, StillCarries DEF RecoveryInv, Saw
<1>3. ASSUME NEW d \in Callers, call'[d].todo = <<>> PROVE Carries(d)'
  BY <1>3 DEF Carries
<1> QED
  BY <1>1, <1>2, <1>3 DEF RecoveryInv

(* A call that ends. *)
LEMMA ReleasedStill ==
    ASSUME InstallationAssumption, PathAssumption, RecoveryInv, IInv,
           DiskStill, NEW c \in Callers, Released(c)
    PROVE  RecoveryInv'
<1>1. PICK S : call \in [Callers -> AnyCall(S)]
  BY DEF IInv, Typed
<1>2. call'[c] = Idle /\ \A d \in Callers : d # c => call'[d] = call[d]
  BY <1>1 DEF Released
<1>3. Owners'
  BY DEF RecoveryInv, Owners, Released
<1>4. call'[c].todo = <<>> /\ Saw(c)'
  BY <1>2 DEF Idle, Saw
<1> QED
  BY <1>2, <1>3, <1>4, StillInv

-----------------------------------------------------------------------------
(* The steps of a transaction until it commits                              *)

LEMMA Apart ==
    ASSUME NEW op
    PROVE  /\ \A p \in Parts : AsideAt(op, p) > KeepAt(op) /\ AsideAt(op, p) # WebAt(op)
                               /\ AsideAt(op, p) < Commits(op)
           /\ \A f \in Files : OpenAt(op, f) + 1 < KeepAt(op)
           /\ \A p, q \in Parts : p # q => AsideAt(op, p) # AsideAt(op, q)
           /\ \A f, g \in Files : f # g => /\ OpenAt(op, f) # OpenAt(op, g)
                                           /\ OpenAt(op, f) # OpenAt(op, g) + 1
           /\ WebAt(op) < Commits(op) /\ KeepAt(op) < WebAt(op)
           /\ ~Removes(op) => \A p, q \in Parts : AsideAt(op, p) # AsideAt(op, q) + 1
<1>1. CASE Removes(op)
  BY <1>1 DEF AsideAt, OpenAt, KeepAt, WebAt, Commits, OfPart, OfFile, Parts, Files
<1>2. CASE ~Removes(op)
  BY <1>2 DEF AsideAt, OpenAt, KeepAt, WebAt, Commits, OfPart, OfFile, Parts, Files
<1> QED
  BY <1>1, <1>2

LEMMA PartsStill ==
    ASSUME NEW c \in Callers, Goes(c), NEW op, op = call[c].op, NEW i \in Nat, Preparing(c, i),
           \A p \in Parts : AsideAt(op, p) # i,
           \A p \in Parts : tx'.parts[p] = tx.parts[p],
           \A p \in Parts : i < AsideAt(op, p) => parts'[p] = parts[p]
    PROVE  \A p \in Parts : PartSaved(p, i + 1, AsideAt(op, p))'
<1>1. before' = before
  BY DEF Goes
<1>2. ASSUME NEW p \in Parts PROVE PartSaved(p, i + 1, AsideAt(op, p))'
  <2>1. PICK a \in Nat : a = AsideAt(op, p)
    BY AtPlaces
  <2>2. PartSaved(p, i, a) /\ i # a /\ tx'.parts[p] = tx.parts[p] /\ (i < a => parts'[p] = parts[p])
    BY <2>1 DEF Preparing
  <2>3. PartSaved(p, i + 1, a)'
    BY <1>1, <2>2, PartStill
  <2> QED
    BY <2>1, <2>3
<1> QED
  BY <1>2

LEMMA FilesStill ==
    ASSUME NEW c \in Callers, Goes(c), NEW op, op = call[c].op, NEW i \in Nat, Preparing(c, i),
           \A f \in Files : OpenAt(op, f) # i /\ OpenAt(op, f) + 1 # i,
           \A f \in Files : tx'.files[f] = tx.files[f],
           \A f \in Files : i < OpenAt(op, f) => files'[f] = files[f]
    PROVE  \A f \in Files : FileSaved(f, i + 1, OpenAt(op, f))'
<1>1. before' = before
  BY DEF Goes
<1>2. ASSUME NEW f \in Files PROVE FileSaved(f, i + 1, OpenAt(op, f))'
  <2>1. PICK o \in Nat : o = OpenAt(op, f)
    BY AtPlaces
  <2>2. /\ FileSaved(f, i, o) /\ i # o /\ i # o + 1
        /\ tx'.files[f] = tx.files[f] /\ (i < o => files'[f] = files[f])
    BY <2>1 DEF Preparing
  <2>3. FileSaved(f, i + 1, o)'
    BY <1>1, <2>2, FileStill
  <2> QED
    BY <2>1, <2>3
<1> QED
  BY <1>2

LEMMA ProfileStill ==
    ASSUME InstallationAssumption, PathAssumption, Types,
           NEW c \in Callers, Goes(c), NEW op, op = call[c].op, NEW i \in Nat, Preparing(c, i),
           Touched(c) => i # KeepAt(op), tx'.web = tx.web, Nudged
    PROVE  WebSaved(c, i + 1, KeepAt(op), WebAt(op))'
<1>1. PICK k \in Nat, w \in Nat : k = KeepAt(op) /\ w = WebAt(op)
  BY AtPlaces
<1>2. WebSaved(c, i, k, w) /\ (Touched(c) => i # k)
  BY <1>1 DEF Preparing
<1>3. WebSaved(c, i + 1, k, w)'
  BY <1>2, WebStill
<1> QED
  BY <1>1, <1>3

LEMMA RemovedStill ==
    ASSUME Types, NEW i \in Nat, Removed(i), i < 13, i # 9,
           \A p \in Parts : OfPart(p, 11, 10, 12) # i,
           \A p \in Parts : parts'[p] = parts[p], Nudged
    PROVE  Removed(i + 1)'
<1>1. (web' = Absent <=> web = Absent) /\ (web # Absent => web'.version = web.version)
  BY NudgedWeb
<1>2. ASSUME NEW p \in Parts, i + 1 > OfPart(p, 11, 10, 12) PROVE parts'[p] = Absent
  <2>1. OfPart(p, 11, 10, 12) \in Nat
    BY DEF OfPart
  <2>2. i > OfPart(p, 11, 10, 12)
    BY <1>2, <2>1
  <2> QED
    BY <2>2 DEF Removed
<1>3. i + 1 > 9 => web' # Absent /\ web'.version = 0
  BY <1>1 DEF Removed
<1> QED
  BY <1>2, <1>3 DEF Removed

(* What is known of a step of a transaction that goes on. *)
LEMMA ForwardStep ==
    ASSUME RecoveryInv, IInv, InstallationAssumption, PathAssumption,
           NEW c \in Callers, NEW verb, NEW x, At(c, verb, x), Advance(c), Forward(c),
           NEW op, op = call[c].op, NEW i, i = Turn(c, Count(op)), i <= Commits(op)
    PROVE  /\ Goes(c) /\ NextKept(c) /\ before' = before /\ call'[c].next = call[c].next
           /\ Types /\ tx # Absent /\ TxTyped(tx)
           /\ i \in Nat /\ i >= 1 /\ Preparing(c, i) /\ Knows(call[c])
           /\ Removes(op) => Removed(i)
           /\ Mutates(op) => ~Removes(op)
<1>1. Goes(c) /\ call'[c].next = call[c].next
  BY AtWorks, AdvanceGoes
<1>2. i \in Nat /\ i >= 1 /\ Preparing(c, i) /\ (Removes(op) => Removed(i))
  <2>1. i \in 1..Count(op) /\ Preparing(c, i) /\ (Removes(op) => Removed(i))
    BY ForwardNow
  <2> QED
    BY <2>1, AtPlaces
<1>3. Types /\ tx # Absent /\ TxTyped(tx)
  BY DEF RecoveryInv, Types, Forward
<1>4. before' = before /\ NextKept(c)
  BY <1>1 DEF Goes, NextKept
<1> QED
  BY <1>1, <1>2, <1>3, <1>4 DEF Preparing, Mutates, Removes

LEMMA CarriesAll == ASSUME RecoveryInv, NEW c \in Callers PROVE Carries(c) /\ Saw(c)
BY DEF RecoveryInv

LEMMA JournalRecovers ==
    ASSUME RecoveryInv, IInv, InstallationAssumption, PathAssumption,
           NEW c \in Callers, WriteJournal(c)
    PROVE  RecoveryInv'
<1> DEFINE r == [op |-> call[c].op, inst |-> call[c].next.inst, gen |-> call[c].next.gen,
                 stage |-> "open",
                 had |-> IF Mutates(call[c].op) THEN {p \in Parts : parts[p] # Absent}
                         ELSE {p \in Parts : p # "shared" \/ parts[p] # Absent},
                 active |-> call[c].seen # Absent, scope |-> files["scope"] # Absent,
                 touched |-> Touched(c), web |-> call[c].web # Absent]
<1>1. /\ At(c, "journal", "home") /\ Advance(c) /\ UNCHANGED <<parts, files, web>>
      /\ tx' = [tx EXCEPT !.journal = r]
  BY DEF WriteJournal
<1>2. PICK op, i : op = call[c].op /\ i = Turn(c, Count(op))
  OBVIOUS
<1>3. Forward(c) /\ i = 1
  BY <1>1, <1>2, CarriesAll, ForwardPlace
<1>4. /\ 1 < Commits(op) /\ Commits(op) \in Nat
      /\ KeepAt(op) > 1 /\ KeepAt(op) \in Nat
      /\ \A p \in Parts : AsideAt(op, p) > 1 /\ AsideAt(op, p) \in Nat
  BY AtPlaces
<1>5. \A f \in Files : OpenAt(op, f) > 1 /\ OpenAt(op, f) \in Nat
  BY AtPlaces
<1>6. i < Commits(op) /\ i <= Commits(op)
  BY <1>3, <1>4
<1>7. /\ Goes(c) /\ NextKept(c) /\ before' = before /\ call'[c].next = call[c].next
      /\ Types /\ tx # Absent /\ TxTyped(tx) /\ Preparing(c, i) /\ Knows(call[c])
      /\ (Removes(op) => Removed(i)) /\ (Mutates(op) => ~Removes(op))
  BY <1>6, <1>1, <1>2, <1>3, ForwardStep
<1>8. op = "install" \/ op = "upgrade" \/ op = "uninstall"
  BY <1>2, <1>3 DEF Forward, Mutates, Removes
<1>9. r \in Entry
  BY <1>2, <1>7, <1>8 DEF Entry, Knows, Touched
<1>10. /\ r.op = op /\ r.inst = call[c].next.inst /\ r.gen = call[c].next.gen
      /\ r.touched = Touched(c)
      /\ r.active = (call[c].seen # Absent) /\ r.scope = (files["scope"] # Absent)
      /\ r.web = (call[c].web # Absent)
  BY <1>2
<1>11. \A p \in Parts : p \in r.had <=>
          IF Mutates(op) THEN parts[p] # Absent ELSE p # "shared" \/ parts[p] # Absent
  BY <1>2
<1> HIDE DEF r
<1>12. /\ TxTyped(tx') /\ tx'.journal = r /\ tx'.parts = tx.parts
       /\ tx'.files = tx.files /\ tx'.web = tx.web
  <2>1. r \in {Absent} \cup Entry
    BY <1>9
  <2> QED
    BY <1>1, <1>7, <2>1, JournalSet
<1>13. tx' # Absent /\ tx'.journal # Absent
  BY <1>9, <1>12, TxPresent DEF PathAssumption
<1>14. Types'
  BY <1>1, <1>7, <1>12, TypesStill DEF Types
<1>15. Knows(call[c])'
  BY <1>1, <1>7, KnowsStill
<1>16. \A p \in Parts : parts[p] = before.parts[p]
  BY <1>2, <1>3, <1>4, <1>7 DEF Preparing, PartSaved
<1>17. \A f \in Files : files[f] = before.files[f]
  BY <1>2, <1>3, <1>5, <1>7 DEF Preparing, FileSaved
<1>18. Noted'
  <2>1. CleanBefore /\ call[c].web = before.web
        /\ (call[c].seen = Absent <=> before.files["active"] = Absent)
        /\ (Removes(op) => before.files["active"] # Absent)
    BY <1>2, <1>7 DEF Knows
  <2>2. ASSUME NEW p \in Parts PROVE p \in r.had <=> before.parts[p] # Absent
    <3>1. CASE Mutates(op)
      BY <1>11, <1>16, <3>1
    <3>2. CASE Removes(op)
      <4>1. Whole(before.parts, before.files, before.web)
        BY <2>1, <3>2 DEF CleanBefore, Clean, Vacant
      <4>2. before.parts[p] # Absent
        BY <4>1 DEF Whole, PathAssumption
      <4> QED
        BY <1>11, <1>16, <4>2
    <3> QED
      BY <1>8, <3>1, <3>2 DEF Mutates, Removes
  <2>3. ASSUME NEW f \in Files PROVE Had(f)' <=> before.files[f] # Absent
    <3>1. CASE f = "scope"
      BY <1>10, <1>12, <1>17, <3>1 DEF Had, Files
    <3>2. CASE f # "scope"
      <4>1. before.files["manifest"] = Absent <=> before.files["active"] = Absent
        BY <2>1 DEF CleanBefore, Clean, Vacant, Whole
      <4>2. f = "active" \/ f = "manifest"
        BY <3>2 DEF Files
      <4> QED
        BY <1>10, <1>12, <2>1, <3>2, <4>1, <4>2 DEF Had
    <3> QED
      BY <3>1, <3>2
  <2> QED
    BY <1>7, <1>8, <1>10, <1>12, <2>1, <2>2, <2>3 DEF Noted, Removes
<1>19. Entered(c)'
  <2>1. Touched(c)' = Touched(c)
    BY <1>7 DEF Goes, Touched
  <2>2. Names(call[c])'
    BY <1>2, <1>7, <1>10, <1>12 DEF Names, Goes
  <2> QED
    BY <1>10, <1>12, <1>13, <1>18, <2>1, <2>2 DEF Entered
<1>20. \A p \in Parts : PartSaved(p, i + 1, AsideAt(op, p))'
  <2>1. \A p \in Parts : AsideAt(op, p) # i
    BY <1>3, <1>4
  <2> QED
    BY <1>1, <1>2, <1>3, <1>7, <1>12, <2>1, PartsStill
<1>21. \A f \in Files : FileSaved(f, i + 1, OpenAt(op, f))'
  <2>1. \A f \in Files : OpenAt(op, f) # i /\ OpenAt(op, f) + 1 # i
    BY <1>3, <1>5
  <2> QED
    BY <1>1, <1>2, <1>3, <1>7, <1>12, <2>1, FilesStill
<1>22. WebSaved(c, i + 1, KeepAt(op), WebAt(op))'
  <2>1. KeepAt(op) # i
    BY <1>3, <1>4
  <2>2. Nudged
    BY <1>1 DEF Nudged
  <2> QED
    BY <1>2, <1>3, <1>7, <1>12, <2>1, <2>2, ProfileStill
<1>23. Preparing(c, i + 1)'
  BY <1>2, <1>3, <1>7, <1>15, <1>19, <1>20, <1>21, <1>22, PreparingNext
<1>24. Removes(op) => Removed(i + 1)'
  <2>1. \A p \in Parts : OfPart(p, 11, 10, 12) # i
    BY <1>3 DEF OfPart
  <2> QED
    BY <1>1, <1>3, <1>7, <2>1, RemovedStill DEF Nudged
<1>25. Mutates(op) /\ i = 19 => Built(call[c])'
  BY <1>3
<1> QED
  BY <1>6, <1>2, <1>3, <1>7, <1>13, <1>14, <1>23, <1>24, <1>25, ForwardOn

(* Every other step until it commits leaves the journal and the record alone. *)
LEMMA ForwardSame ==
    ASSUME RecoveryInv, PathAssumption, NEW c \in Callers, Goes(c), NextKept(c), Forward(c),
           NEW op, op = call[c].op, NEW i, i = Turn(c, Count(op)), i > 1, i < Commits(op),
           Types', tx' # Absent, tx'.journal = tx.journal, files'["active"] = files["active"],
           \A p \in Parts : PartSaved(p, i + 1, AsideAt(op, p))',
           \A f \in Files : FileSaved(f, i + 1, OpenAt(op, f))',
           WebSaved(c, i + 1, KeepAt(op), WebAt(op))',
           Removes(op) => Removed(i + 1)', Mutates(op) /\ i = 19 => Built(call[c])'
    PROVE  RecoveryInv'
<1>1. i \in Nat /\ i >= 1 /\ i <= Commits(op)
  BY ForwardNow, AtPlaces
<1>2. Preparing(c, i)
  BY <1>1, ForwardNow
<1>3. Entered(c)'
  BY <1>1, <1>2, EnteredStill
<1>4. Knows(call[c])'
  BY <1>2, KnowsStill DEF Preparing
<1>5. Preparing(c, i + 1)'
  BY <1>1, <1>3, <1>4, PreparingNext
<1> QED
  BY <1>5, ForwardOn

LEMMA OpenRecovers ==
    ASSUME RecoveryInv, IInv, InstallationAssumption, PathAssumption,
           NEW c \in Callers, OpenCopy(c)
    PROVE  RecoveryInv'
<1>1. PICK f \in Files :
        /\ At(c, "open", f) /\ Advance(c) /\ UNCHANGED <<parts, files, web>>
        /\ tx' = IF files[f] = Absent THEN tx
                 ELSE [tx EXCEPT !.files = [tx.files EXCEPT ![f] = Torn]]
  BY DEF OpenCopy
<1>2. PICK op, i : op = call[c].op /\ i = Turn(c, Count(op))
  OBVIOUS
<1>3. Forward(c) /\ i = OpenAt(op, f)
  BY <1>1, <1>2, CarriesAll, ForwardPlace
<1>4. i \in Nat /\ i > 1 /\ i + 1 < KeepAt(op) /\ KeepAt(op) \in Nat
  BY <1>3, AtPlaces, Apart
<1>5. i < Commits(op) /\ i <= Commits(op) /\ i < 9 /\ i # 19
  BY <1>4 DEF Commits, KeepAt
<1>6. /\ Goes(c) /\ NextKept(c) /\ before' = before
      /\ Types /\ tx # Absent /\ TxTyped(tx) /\ Preparing(c, i)
      /\ Removes(op) => Removed(i)
  BY <1>1, <1>2, <1>3, <1>5, ForwardStep
<1>7. /\ TxTyped(tx') /\ tx'.journal = tx.journal /\ tx'.parts = tx.parts /\ tx'.web = tx.web
      /\ \A g \in Files : g # f => tx'.files[g] = tx.files[g]
      /\ tx'.files[f] = IF files[f] = Absent THEN tx.files[f] ELSE Torn
  <2>1. CASE files[f] = Absent
    BY <1>1, <1>6, <2>1
  <2>2. CASE files[f] # Absent
    <3>1. Torn \in FilePath(f)
      BY DEF FilePath, Path
    <3>2. tx' = WithFile(tx, f, Torn)
      BY <1>1, <2>2 DEF WithFile
    <3>3. /\ TxTyped(tx') /\ tx'.journal = tx.journal /\ tx'.parts = tx.parts /\ tx'.web = tx.web
          /\ \A g \in Files : tx'.files[g] = IF g = f THEN Torn ELSE tx.files[g]
      BY <1>6, <3>1, <3>2, FileSet
    <3> QED
      BY <2>2, <3>3
  <2> QED
    BY <2>1, <2>2
<1>8. tx' # Absent
  BY <1>7, TxPresent
<1>9. Types'
  BY <1>1, <1>6, <1>7, TypesStill DEF Types
<1>10. \A p \in Parts : PartSaved(p, i + 1, AsideAt(op, p))'
  <2>1. \A p \in Parts : AsideAt(op, p) # i
    BY <1>4, Apart, AtPlaces
  <2> QED
    BY <1>1, <1>2, <1>4, <1>6, <1>7, <2>1, PartsStill
<1>11. ASSUME NEW g \in Files PROVE FileSaved(g, i + 1, OpenAt(op, g))'
  <2>1. PICK o \in Nat : o = OpenAt(op, g)
    BY AtPlaces
  <2>2. FileSaved(g, i, o)
    BY <1>2, <1>6, <2>1 DEF Preparing
  <2>3. CASE g = f
    <3>1. i = o
      BY <1>3, <2>1, <2>3
    <3>2. tx.files[g] = Absent /\ files[g] = before.files[g]
      BY <2>2, <3>1 DEF FileSaved
    <3>3. FileSaved(g, i + 1, o)'
      BY <1>1, <1>6, <1>7, <2>3, <3>1, <3>2 DEF FileSaved
    <3> QED
      BY <2>1, <3>3
  <2>4. CASE g # f
    <3>1. i # o /\ i # o + 1
      BY <1>3, <2>1, <2>4, Apart
    <3>2. FileSaved(g, i + 1, o)'
      BY <1>1, <1>4, <1>6, <1>7, <2>2, <2>4, <3>1, FileStill
    <3> QED
      BY <2>1, <3>2
  <2> QED
    BY <2>3, <2>4
<1>12. WebSaved(c, i + 1, KeepAt(op), WebAt(op))'
  <2>1. KeepAt(op) # i
    BY <1>4
  <2>2. Nudged
    BY <1>1 DEF Nudged
  <2> QED
    BY <1>2, <1>4, <1>6, <1>7, <2>1, <2>2, ProfileStill
<1>13. Removes(op) => Removed(i + 1)'
  <2>1. \A p \in Parts : OfPart(p, 11, 10, 12) # i
    BY <1>4, <1>5 DEF OfPart
  <2>2. i < 13 /\ i # 9 /\ Nudged
    BY <1>1, <1>4, <1>5 DEF Nudged
  <2> QED
    BY <1>1, <1>4, <1>6, <2>1, <2>2, RemovedStill
<1> QED
  BY <1>1, <1>2, <1>3, <1>4, <1>5, <1>6, <1>7, <1>8, <1>9, <1>10, <1>11, <1>12, <1>13, ForwardSame

LEMMA CopyRecovers ==
    ASSUME RecoveryInv, IInv, InstallationAssumption, PathAssumption,
           NEW c \in Callers, FinishCopy(c)
    PROVE  RecoveryInv'
<1>1. PICK f \in Files :
        /\ At(c, "copy", f) /\ Advance(c) /\ UNCHANGED <<parts, files, web>>
        /\ tx' = [tx EXCEPT !.files = [tx.files EXCEPT ![f] = files[f]]]
  BY DEF FinishCopy
<1>2. PICK op, i : op = call[c].op /\ i = Turn(c, Count(op))
  OBVIOUS
<1>3. Forward(c) /\ i = OpenAt(op, f) + 1
  BY <1>1, <1>2, CarriesAll, ForwardPlace
<1>4. i \in Nat /\ i > 1 /\ i < KeepAt(op) /\ KeepAt(op) \in Nat
  BY <1>3, AtPlaces, Apart
<1>5. i < Commits(op) /\ i <= Commits(op) /\ i < 9 /\ i # 19
  BY <1>4 DEF Commits, KeepAt
<1>6. /\ Goes(c) /\ NextKept(c) /\ before' = before
      /\ Types /\ tx # Absent /\ TxTyped(tx) /\ Preparing(c, i)
      /\ Removes(op) => Removed(i)
  BY <1>1, <1>2, <1>3, <1>5, ForwardStep
<1>7. /\ TxTyped(tx') /\ tx'.journal = tx.journal /\ tx'.parts = tx.parts /\ tx'.web = tx.web
      /\ \A g \in Files : g # f => tx'.files[g] = tx.files[g]
      /\ tx'.files[f] = files[f]
  <2>1. files[f] \in FilePath(f)
    BY <1>6 DEF Types
  <2>2. tx' = WithFile(tx, f, files[f])
    BY <1>1 DEF WithFile
  <2>3. /\ TxTyped(tx') /\ tx'.journal = tx.journal /\ tx'.parts = tx.parts /\ tx'.web = tx.web
        /\ \A g \in Files : tx'.files[g] = IF g = f THEN files[f] ELSE tx.files[g]
    BY <1>6, <2>1, <2>2, FileSet
  <2> QED
    BY <2>3
<1>8. tx' # Absent
  BY <1>7, TxPresent
<1>9. Types'
  BY <1>1, <1>6, <1>7, TypesStill DEF Types
<1>10. \A p \in Parts : PartSaved(p, i + 1, AsideAt(op, p))'
  <2>1. \A p \in Parts : AsideAt(op, p) # i
    BY <1>4, Apart, AtPlaces
  <2> QED
    BY <1>1, <1>2, <1>4, <1>6, <1>7, <2>1, PartsStill
<1>11. ASSUME NEW g \in Files PROVE FileSaved(g, i + 1, OpenAt(op, g))'
  <2>1. PICK o \in Nat : o = OpenAt(op, g)
    BY AtPlaces
  <2>2. FileSaved(g, i, o)
    BY <1>2, <1>6, <2>1 DEF Preparing
  <2>3. CASE g = f
    <3>1. i = o + 1
      BY <1>3, <2>1, <2>3
    <3>2. files[g] = before.files[g]
      BY <2>2, <3>1 DEF FileSaved
    <3>3. FileSaved(g, i + 1, o)'
      BY <1>1, <1>6, <1>7, <2>3, <3>1, <3>2 DEF FileSaved
    <3> QED
      BY <2>1, <3>3
  <2>4. CASE g # f
    <3>1. OpenAt(op, f) \in Nat /\ OpenAt(op, f) # o /\ OpenAt(op, g) # OpenAt(op, f) + 1
      BY <2>1, <2>4, Apart, AtPlaces
    <3>2. i # o /\ i # o + 1
      BY <1>3, <2>1, <3>1
    <3>3. FileSaved(g, i + 1, o)'
      BY <1>1, <1>4, <1>6, <1>7, <2>2, <2>4, <3>2, FileStill
    <3> QED
      BY <2>1, <3>3
  <2> QED
    BY <2>3, <2>4
<1>12. WebSaved(c, i + 1, KeepAt(op), WebAt(op))'
  <2>1. KeepAt(op) # i
    BY <1>4
  <2>2. Nudged
    BY <1>1 DEF Nudged
  <2> QED
    BY <1>2, <1>4, <1>6, <1>7, <2>1, <2>2, ProfileStill
<1>13. Removes(op) => Removed(i + 1)'
  <2>1. \A p \in Parts : OfPart(p, 11, 10, 12) # i
    BY <1>4, <1>5 DEF OfPart
  <2>2. i < 13 /\ i # 9 /\ Nudged
    BY <1>1, <1>4, <1>5 DEF Nudged
  <2> QED
    BY <1>1, <1>4, <1>6, <2>1, <2>2, RemovedStill
<1> QED
  BY <1>1, <1>2, <1>3, <1>4, <1>5, <1>6, <1>7, <1>8, <1>9, <1>10, <1>11, <1>12, <1>13, ForwardSame

(* The backup of the Web Profile, and its new content. *)
LEMMA KeepRecovers ==
    ASSUME RecoveryInv, IInv, InstallationAssumption, PathAssumption,
           NEW c \in Callers, KeepProfile(c)
    PROVE  RecoveryInv'
<1>1. At(c, "keep", "web") /\ UNCHANGED <<parts, files, web>>
  BY DEF KeepProfile
<1>2. CASE Leave(c) /\ UNCHANGED tx
  BY <1>1, <1>2, ReleasedStill DEF Leave, End, DiskStill, Nudged
<1>3. CASE PlanUnchanged(c) /\ Advance(c) /\ tx' = IF Touched(c) THEN [tx EXCEPT !.web = web] ELSE tx
  <2>1. PICK op, i : op = call[c].op /\ i = Turn(c, Count(op))
    OBVIOUS
  <2>2. Forward(c) /\ i = KeepAt(op)
    BY <1>1, <2>1, CarriesAll, ForwardPlace
  <2>3. i \in Nat /\ i > 1 /\ i < 10 /\ i # 19 /\ i < Commits(op) /\ i <= Commits(op)
    BY <2>2 DEF Commits, KeepAt
  <2>4. /\ Goes(c) /\ NextKept(c) /\ before' = before
        /\ Types /\ tx # Absent /\ TxTyped(tx) /\ Preparing(c, i) /\ Knows(call[c])
        /\ Removes(op) => Removed(i)
    BY <1>1, <1>3, <2>1, <2>2, <2>3, ForwardStep
  <2>5. /\ TxTyped(tx') /\ tx'.journal = tx.journal /\ tx'.parts = tx.parts /\ tx'.files = tx.files
        /\ tx'.web = IF Touched(c) THEN web ELSE tx.web
    <3>1. CASE ~Touched(c)
      BY <1>3, <2>4, <3>1
    <3>2. CASE Touched(c)
      <4>1. tx' = [tx EXCEPT !.web = web] /\ web \in Profiles
        BY <1>3, <2>4, <3>2 DEF Types
      <4> QED
        BY <2>4, <3>2, <4>1, WebSet
    <3> QED
      BY <3>1, <3>2
  <2>6. tx' # Absent
    BY <2>5, TxPresent
  <2>7. Types'
    BY <1>1, <2>4, <2>5, TypesStill DEF Types
  <2>8. \A p \in Parts : PartSaved(p, i + 1, AsideAt(op, p))'
    <3>1. \A p \in Parts : AsideAt(op, p) # i
      BY <2>2, <2>3, Apart, AtPlaces
    <3> QED
      BY <1>1, <2>1, <2>3, <2>4, <2>5, <3>1, PartsStill
  <2>9. \A f \in Files : FileSaved(f, i + 1, OpenAt(op, f))'
    <3>1. \A f \in Files : OpenAt(op, f) # i /\ OpenAt(op, f) + 1 # i
      BY <2>2, <2>3, Apart, AtPlaces
    <3> QED
      BY <1>1, <2>1, <2>3, <2>4, <2>5, <3>1, FilesStill
  <2>10. WebSaved(c, i + 1, KeepAt(op), WebAt(op))'
    <3>1. Touched(c)' <=> Touched(c)
      BY <2>4 DEF Goes, Touched
    <3>2. i < WebAt(op) /\ WebAt(op) \in Nat
      BY <2>2, Apart, AtPlaces
    <3>3. Kept(web) /\ tx.web = Absent
      BY <2>1, <2>2, <2>3, <2>4, <3>2 DEF Preparing, WebSaved
    <3>4. Kept(web)'
      BY <1>1, <2>4, <3>3 DEF Kept
    <3>5. Touched(c) => web = before.web
      BY <1>3, <2>4 DEF PlanUnchanged, Knows
    <3>6. i + 1 > KeepAt(op)
      BY <2>2, <2>3
    <3> QED
      BY <2>4, <2>5, <3>1, <3>3, <3>4, <3>5, <3>6 DEF WebSaved
  <2>11. Removes(op) => Removed(i + 1)'
    <3>1. ASSUME Removes(op) PROVE i = 8
      BY <2>2, <3>1 DEF KeepAt
    <3>2. ASSUME Removes(op) PROVE \A p \in Parts : OfPart(p, 11, 10, 12) # i
      BY <3>1, <3>2 DEF OfPart
    <3> QED
      BY <1>1, <2>4, <3>1, <3>2, RemovedStill DEF Nudged
  <2> QED
    BY <1>1, <2>1, <2>2, <2>3, <2>4, <2>5, <2>6, <2>7, <2>8, <2>9, <2>10, <2>11, ForwardSame
<1> QED
  BY <1>2, <1>3 DEF KeepProfile

LEMMA PublishRecovers ==
    ASSUME RecoveryInv, IInv, InstallationAssumption, PathAssumption,
           NEW c \in Callers, PublishProfile(c)
    PROVE  RecoveryInv'
<1>1. At(c, "web", "home") /\ UNCHANGED <<parts, files, tx>>
  BY DEF PublishProfile
<1>2. CASE Leave(c) /\ UNCHANGED web
  BY <1>1, <1>2, ReleasedStill DEF Leave, End, DiskStill, Nudged
<1>3. CASE PlanUnchanged(c) /\ Advance(c) /\ web' = IF Touched(c) THEN call[c].plan ELSE web
  <2>1. PICK op, i : op = call[c].op /\ i = Turn(c, Count(op))
    OBVIOUS
  <2>2. Forward(c) /\ i = WebAt(op)
    BY <1>1, <2>1, CarriesAll, ForwardPlace
  <2>3. i \in Nat /\ i > 1 /\ i < 19 /\ i < Commits(op) /\ i <= Commits(op) /\ i # 19
    BY <2>2 DEF Commits, WebAt
  <2>4. /\ Goes(c) /\ NextKept(c) /\ before' = before
        /\ Types /\ tx # Absent /\ TxTyped(tx) /\ Preparing(c, i) /\ Knows(call[c])
        /\ Removes(op) => Removed(i)
    BY <1>1, <1>3, <2>1, <2>2, <2>3, ForwardStep
  <2>5. tx' = tx /\ tx' # Absent /\ call[c].plan \in Profile /\ call[c].web = before.web
    BY <1>1, <2>4 DEF Knows
  <2>6. Types'
    <3>1. web' \in Profiles
      BY <1>3, <2>4, <2>5 DEF Profiles, Types
    <3> QED
      BY <1>1, <2>4, <2>5, <3>1, TypesStill DEF Types
  <2>7. \A p \in Parts : PartSaved(p, i + 1, AsideAt(op, p))'
    <3>1. \A p \in Parts : AsideAt(op, p) # i
      BY <2>2, Apart
    <3> QED
      BY <1>1, <2>1, <2>3, <2>4, <2>5, <3>1, PartsStill
  <2>8. \A f \in Files : FileSaved(f, i + 1, OpenAt(op, f))'
    <3>1. \A f \in Files : OpenAt(op, f) # i /\ OpenAt(op, f) + 1 # i
      BY <2>2, <2>3, Apart, AtPlaces
    <3> QED
      BY <1>1, <2>1, <2>3, <2>4, <2>5, <3>1, FilesStill
  <2>9. Kept(web) /\ (IF Touched(c) THEN tx.web = before.web ELSE tx.web = Absent)
    <3>1. i > KeepAt(op) /\ i <= WebAt(op)
      BY <2>2, <2>3, Apart, AtPlaces
    <3> QED
      BY <2>1, <2>4, <3>1 DEF Preparing, WebSaved
  <2>10. WebSaved(c, i + 1, KeepAt(op), WebAt(op))'
    <3>1. Touched(c)' <=> Touched(c)
      BY <2>4 DEF Goes, Touched
    <3>2. i + 1 > KeepAt(op) /\ ~(i + 1 <= WebAt(op))
      BY <2>2, <2>3, Apart, AtPlaces
    <3>3. ~Touched(c) => Kept(web)'
      BY <1>3, <2>4, <2>9 DEF Kept
    <3> QED
      BY <2>4, <2>5, <2>9, <3>1, <3>2, <3>3 DEF WebSaved
  <2>11. Removes(op) => Removed(i + 1)'
    <3> SUFFICES ASSUME Removes(op) PROVE Removed(i + 1)'
      OBVIOUS
    <3>1. i = 9 /\ call[c].plan.version = 0
      BY <2>1, <2>2, <2>4 DEF WebAt, Knows
    <3>2. web' # Absent /\ web'.version = 0
      <4>1. CASE Touched(c)
        BY <1>3, <2>5, <3>1, <4>1 DEF PathAssumption
      <4>2. CASE ~Touched(c)
        <5>1. before.web = call[c].plan /\ before.web # Absent
          BY <2>5, <4>2 DEF Touched, PathAssumption
        <5> QED
          BY <1>3, <2>9, <3>1, <4>2, <5>1 DEF Kept
      <4> QED
        BY <4>1, <4>2
    <3>3. \A p \in Parts : ~(i + 1 > OfPart(p, 11, 10, 12))
      BY <3>1 DEF OfPart
    <3>4. ~(i + 1 > 13) /\ ~(i + 1 > 14)
      BY <3>1
    <3> QED
      BY <3>2, <3>3, <3>4 DEF Removed
  <2> QED
    BY <1>1, <2>1, <2>2, <2>3, <2>4, <2>5, <2>6, <2>7, <2>8, <2>10, <2>11, ForwardSame
<1> QED
  BY <1>2, <1>3 DEF PublishProfile

LEMMA AsideRecovers ==
    ASSUME RecoveryInv, IInv, InstallationAssumption, PathAssumption,
           NEW c \in Callers, MoveAside(c)
    PROVE  RecoveryInv'
<1>1. PICK p \in Parts :
        /\ At(c, "aside", p) /\ Advance(c) /\ UNCHANGED <<files, web>>
        /\ tx' = [tx EXCEPT !.parts = [tx.parts EXCEPT ![p] = parts[p]]]
        /\ parts' = [parts EXCEPT ![p] = Absent]
  BY DEF MoveAside
<1>2. PICK op, i : op = call[c].op /\ i = Turn(c, Count(op))
  OBVIOUS
<1>3. Forward(c) /\ i = AsideAt(op, p)
  BY <1>1, <1>2, CarriesAll, ForwardPlace
<1>4. /\ i \in Nat /\ i > 1 /\ i < Commits(op) /\ i <= Commits(op) /\ i < 19 /\ i # 19
      /\ i > KeepAt(op) /\ KeepAt(op) \in Nat /\ i # KeepAt(op)
  BY <1>3 DEF AsideAt, OfPart, Commits, KeepAt
<1>5. /\ Goes(c) /\ NextKept(c) /\ before' = before
      /\ Types /\ tx # Absent /\ TxTyped(tx) /\ Preparing(c, i)
      /\ Removes(op) => Removed(i)
  BY <1>1, <1>2, <1>3, <1>4, ForwardStep
<1>6. /\ parts' \in [Parts -> Path(Candidate)]
      /\ \A q \in Parts : parts'[q] = IF q = p THEN Absent ELSE parts[q]
  BY <1>1, <1>5 DEF Types, Path
<1>7. parts[p] = before.parts[p] /\ before.parts[p] \in {Absent} \cup Candidate
  <2>1. PartSaved(p, i, AsideAt(op, p))
    BY <1>2, <1>5 DEF Preparing
  <2> QED
    BY <1>3, <1>4, <1>5, <2>1 DEF PartSaved, Types, Backups
<1>8. /\ TxTyped(tx') /\ tx'.journal = tx.journal /\ tx'.files = tx.files /\ tx'.web = tx.web
      /\ \A q \in Parts : tx'.parts[q] = IF q = p THEN parts[p] ELSE tx.parts[q]
  <2>1. tx' = WithPart(tx, p, parts[p])
    BY <1>1 DEF WithPart
  <2> QED
    BY <1>5, <1>7, <2>1, PartSet
<1>9. tx' # Absent
  BY <1>8, TxPresent
<1>10. Types'
  BY <1>1, <1>5, <1>6, <1>8, TypesStill DEF Types
<1>11. ASSUME NEW q \in Parts PROVE PartSaved(q, i + 1, AsideAt(op, q))'
  <2>1. PICK a \in Nat : a = AsideAt(op, q)
    BY AtPlaces
  <2>2. PartSaved(q, i, a)
    BY <1>2, <1>5, <2>1 DEF Preparing
  <2>3. CASE q = p
    <3>1. i = a
      BY <1>3, <2>1, <2>3
    <3>2. PartSaved(q, i + 1, a)'
      BY <1>5, <1>7, <1>8, <2>3, <3>1 DEF PartSaved
    <3> QED
      BY <2>1, <3>2
  <2>4. CASE q # p
    <3>1. i # a
      BY <1>3, <2>1, <2>4, Apart
    <3>2. tx'.parts[q] = tx.parts[q] /\ parts'[q] = parts[q]
      BY <1>6, <1>8, <2>4
    <3>3. PartSaved(q, i + 1, a)'
      BY <1>4, <1>5, <2>2, <3>1, <3>2, PartStill
    <3> QED
      BY <2>1, <3>3
  <2> QED
    BY <2>3, <2>4
<1>12. \A f \in Files : FileSaved(f, i + 1, OpenAt(op, f))'
  <2>1. \A f \in Files : OpenAt(op, f) # i /\ OpenAt(op, f) + 1 # i
    BY <1>4, Apart, AtPlaces
  <2> QED
    BY <1>1, <1>2, <1>4, <1>5, <1>8, <2>1, FilesStill
<1>13. WebSaved(c, i + 1, KeepAt(op), WebAt(op))'
  BY <1>1, <1>2, <1>4, <1>5, <1>8, ProfileStill DEF Nudged
<1>14. Removes(op) => Removed(i + 1)'
  <2> SUFFICES ASSUME Removes(op) PROVE Removed(i + 1)'
    OBVIOUS
  <2>1. i = OfPart(p, 11, 10, 12) /\ i \in 10..12
    BY <1>3 DEF AsideAt, OfPart
  <2>2. ASSUME NEW q \in Parts, i + 1 > OfPart(q, 11, 10, 12) PROVE parts'[q] = Absent
    <3>1. OfPart(q, 11, 10, 12) \in Nat
      BY DEF OfPart
    <3>2. CASE q = p
      BY <1>6, <3>2
    <3>3. CASE q # p
      <4>1. OfPart(q, 11, 10, 12) # i
        BY <2>1, <3>3 DEF OfPart, Parts
      <4>2. i > OfPart(q, 11, 10, 12)
        BY <1>4, <2>2, <3>1, <4>1
      <4> QED
        BY <1>5, <1>6, <3>3, <4>2 DEF Removed
    <3> QED
      BY <3>2, <3>3
  <2>3. web # Absent /\ web.version = 0
    BY <1>5, <2>1 DEF Removed
  <2> QED
    BY <1>1, <2>1, <2>2, <2>3 DEF Removed
<1> QED
  BY <1>1, <1>2, <1>3, <1>4, <1>5, <1>8, <1>9, <1>10, <1>11, <1>12, <1>13, <1>14, ForwardSame

(* The steps of a mutation only. *)
LEMMA MutationNow ==
    ASSUME RecoveryInv, IInv, InstallationAssumption, PathAssumption,
           NEW c \in Callers, Forward(c), NEW op, op = call[c].op, Mutates(op),
           NEW i, i = Turn(c, Count(op))
    PROVE  /\ i \in 1..22 /\ ~Removes(op) /\ Commits(op) = 20 /\ Turn(c, 22) = i
           /\ KeepAt(op) = 9 /\ WebAt(op) = 14
           /\ \A f \in Files : OpenAt(op, f) + 1 < 9
           /\ \A p \in Parts : AsideAt(op, p) \in 10..15
<1>1. ~Removes(op)
  BY DEF Mutates, Removes
<1>2. Count(op) = 22 /\ Commits(op) = 20 /\ KeepAt(op) = 9 /\ WebAt(op) = 14
  BY <1>1 DEF Count, Commits, KeepAt, WebAt
<1>3. i \in 1..22
  BY <1>2 DEF Forward
<1>4. \A f \in Files : OpenAt(op, f) + 1 < 9
  BY <1>1 DEF OpenAt, OfFile
<1>5. \A p \in Parts : AsideAt(op, p) \in 10..15
  BY <1>1 DEF AsideAt, OfPart
<1> QED
  BY <1>1, <1>2, <1>3, <1>4, <1>5

LEMMA MoveInRecovers ==
    ASSUME RecoveryInv, IInv, InstallationAssumption, PathAssumption,
           NEW c \in Callers, MoveIn(c)
    PROVE  RecoveryInv'
<1>1. PICK p \in Parts :
        /\ At(c, "in", p) /\ Advance(c) /\ UNCHANGED <<files, web, tx>>
        /\ parts' = [parts EXCEPT ![p] = call[c].next]
  BY DEF MoveIn
<1>2. PICK op, i : op = call[c].op /\ i = Turn(c, Count(op))
  OBVIOUS
<1>3. Forward(c) /\ Mutates(op) /\ i = AsideAt(op, p) + 1
  BY <1>1, <1>2, CarriesAll, ForwardPlace
<1>4. /\ i \in Nat /\ ~Removes(op) /\ Commits(op) = 20 /\ KeepAt(op) = 9
      /\ \A f \in Files : OpenAt(op, f) + 1 < 9
      /\ \A q \in Parts : AsideAt(op, q) \in 10..15
  BY <1>2, <1>3, MutationNow
<1>5. i > 9 /\ i < 19 /\ i > 1 /\ i < Commits(op) /\ i <= Commits(op) /\ i # 19 /\ i # KeepAt(op)
  BY <1>3, <1>4
<1>6. /\ Goes(c) /\ NextKept(c) /\ before' = before
      /\ Types /\ tx # Absent /\ TxTyped(tx) /\ Preparing(c, i) /\ Knows(call[c])
  BY <1>1, <1>2, <1>3, <1>5, ForwardStep
<1>7. call[c].next \in Candidate
  BY <1>2, <1>4, <1>6 DEF Knows
<1>8. /\ parts' \in [Parts -> Path(Candidate)]
      /\ \A q \in Parts : q # p => parts'[q] = parts[q]
  BY <1>1, <1>6, <1>7 DEF Types, Path
<1>9. Types' /\ tx' # Absent
  BY <1>1, <1>6, <1>8, TypesStill DEF Types
<1>10. \A q \in Parts : PartSaved(q, i + 1, AsideAt(op, q))'
  <2>1. \A q \in Parts : AsideAt(op, q) # i
    BY <1>3, <1>4, Apart
  <2>2. \A q \in Parts : i < AsideAt(op, q) => parts'[q] = parts[q]
    <3>1. ~(i < AsideAt(op, p))
      BY <1>3, <1>4
    <3> QED
      BY <1>8, <3>1
  <2> QED
    BY <1>1, <1>2, <1>4, <1>6, <2>1, <2>2, PartsStill
<1>11. \A f \in Files : FileSaved(f, i + 1, OpenAt(op, f))'
  <2>1. \A f \in Files : OpenAt(op, f) # i /\ OpenAt(op, f) + 1 # i
    BY <1>4, <1>5, AtPlaces
  <2> QED
    BY <1>1, <1>2, <1>4, <1>6, <2>1, FilesStill
<1>12. WebSaved(c, i + 1, KeepAt(op), WebAt(op))'
  BY <1>1, <1>2, <1>4, <1>5, <1>6, ProfileStill DEF Nudged
<1> QED
  BY <1>1, <1>2, <1>3, <1>4, <1>5, <1>6, <1>9, <1>10, <1>11, <1>12, ForwardSame

LEMMA FilePut ==
    ASSUME ActiveInv, Types, NEW f \in Files, NEW v \in FilePath(f), files' = [files EXCEPT ![f] = v]
    PROVE  /\ \A g \in Files : files'[g] = IF g = f THEN v ELSE files[g]
           /\ \A g \in Files : files'[g] \in FilePath(g)
<1>1. PICK S : files \in [Files -> S]
  BY DEF ActiveInv, Paths
<1>2. \A g \in Files : files'[g] = IF g = f THEN v ELSE files[g]
  BY <1>1
<1> QED
  BY <1>2 DEF Types

LEMMA WriteRecovers ==
    ASSUME RecoveryInv, IInv, ActiveInv, InstallationAssumption, PathAssumption,
           NEW c \in Callers, WriteFile(c)
    PROVE  RecoveryInv'
<1>1. PICK f \in Files :
        /\ At(c, "write", f) /\ Advance(c) /\ UNCHANGED <<parts, web, tx>>
        /\ files' = [files EXCEPT ![f] = IF f = "scope" THEN call[c].next.inst ELSE call[c].next]
  BY DEF WriteFile
<1>2. PICK op, i : op = call[c].op /\ i = Turn(c, Count(op))
  OBVIOUS
<1>3. Forward(c) /\ Mutates(op) /\ f # "active" /\ (i = 17 \/ i = 18)
  BY <1>1, <1>2, CarriesAll, ForwardPlace DEF OfFile
<1>4. /\ ~Removes(op) /\ Commits(op) = 20 /\ KeepAt(op) = 9
      /\ \A g \in Files : OpenAt(op, g) + 1 < 9
      /\ \A q \in Parts : AsideAt(op, q) \in 10..15
  BY <1>2, <1>3, MutationNow
<1>5. /\ i \in Nat /\ i > 16 /\ i < 19 /\ i > 1 /\ i < Commits(op) /\ i <= Commits(op) /\ i # 19
      /\ i # KeepAt(op)
  BY <1>3, <1>4
<1>6. /\ Goes(c) /\ NextKept(c) /\ before' = before
      /\ Types /\ tx # Absent /\ TxTyped(tx) /\ Preparing(c, i) /\ Knows(call[c])
  BY <1>1, <1>2, <1>3, <1>5, ForwardStep
<1>7. call[c].next \in Candidate /\ call[c].next.inst \in 1..MaxBuilds
  <2>1. call[c].next \in Candidate
    BY <1>2, <1>4, <1>6 DEF Knows
  <2> QED
    BY <2>1 DEF Candidate
<1> DEFINE v == IF f = "scope" THEN call[c].next.inst ELSE call[c].next
<1>8. v \in FilePath(f)
  BY <1>7 DEF FilePath, Path
<1>9. files' = [files EXCEPT ![f] = v]
  BY <1>1
<1> HIDE DEF v
<1>10. /\ \A g \in Files : g # f => files'[g] = files[g]
       /\ \A g \in Files : files'[g] \in FilePath(g)
       /\ files'["active"] = files["active"]
  <2>1. /\ \A g \in Files : files'[g] = IF g = f THEN v ELSE files[g]
        /\ \A g \in Files : files'[g] \in FilePath(g)
    BY <1>6, <1>8, <1>9, FilePut
  <2> QED
    BY <1>3, <2>1 DEF Files
<1>11. Types' /\ tx' # Absent
  BY <1>1, <1>6, <1>10, TypesStill DEF Types
<1>12. \A q \in Parts : PartSaved(q, i + 1, AsideAt(op, q))'
  <2>1. \A q \in Parts : AsideAt(op, q) # i
    BY <1>4, <1>5
  <2> QED
    BY <1>1, <1>2, <1>5, <1>6, <2>1, PartsStill
<1>13. \A g \in Files : FileSaved(g, i + 1, OpenAt(op, g))'
  <2>1. \A g \in Files : OpenAt(op, g) # i /\ OpenAt(op, g) + 1 # i /\ ~(i < OpenAt(op, g))
    BY <1>4, <1>5, AtPlaces
  <2> QED
    BY <1>1, <1>2, <1>5, <1>6, <2>1, FilesStill
<1>14. WebSaved(c, i + 1, KeepAt(op), WebAt(op))'
  BY <1>1, <1>2, <1>5, <1>6, ProfileStill DEF Nudged
<1> QED
  BY <1>1, <1>2, <1>3, <1>4, <1>5, <1>6, <1>10, <1>11, <1>12, <1>13, <1>14, ForwardSame

LEMMA BuildRecovers ==
    ASSUME RecoveryInv, IInv, ActiveInv, InstallationAssumption, PathAssumption,
           NEW c \in Callers, Build(c)
    PROVE  RecoveryInv'
<1>1. At(c, "build", "home") /\ UNCHANGED <<parts, files, web, tx>>
  BY DEF Build, disk
<1>2. CASE Leave(c)
  BY <1>1, <1>2, ReleasedStill DEF Leave, End, DiskStill, Nudged
<1>3. CASE /\ call' = [call EXCEPT ![c] = [call[c] EXCEPT !.todo = Tail(call[c].todo),
                          !.next = [call[c].next EXCEPT !.patch = patch]]]
           /\ UNCHANGED <<locks, patch, before, host, bounds>>
  <2>1. PICK op, i : op = call[c].op /\ i = Turn(c, Count(op))
    OBVIOUS
  <2>2. Forward(c) /\ Mutates(op) /\ i = 2
    BY <1>1, <2>1, CarriesAll, ForwardPlace
  <2>3. /\ ~Removes(op) /\ Commits(op) = 20 /\ KeepAt(op) = 9
        /\ \A q \in Parts : AsideAt(op, q) \in 10..15
    BY <2>1, <2>2, MutationNow
  <2>4. /\ i \in Nat /\ i < 19 /\ i > 1 /\ i < Commits(op) /\ i <= Commits(op) /\ i # 19
        /\ i # KeepAt(op)
    BY <2>2, <2>3
  <2>5. Preparing(c, i) /\ Knows(call[c])
    BY <2>1, <2>2, <2>4, ForwardNow DEF Preparing
  <2>6. call[c].next \in Candidate
    BY <2>1, <2>3, <2>5 DEF Knows
  <2> DEFINE next == [call[c].next EXCEPT !.patch = patch]
  <2>7. next \in Candidate /\ next.inst = call[c].next.inst /\ next.gen = call[c].next.gen
    BY <2>6 DEF Candidate, ActiveInv, Paths
  <2> HIDE DEF next
  <2>8. Goes(c) /\ NextKept(c)
    <3>1. PICK S : call \in [Callers -> AnyCall(S)]
      BY DEF IInv, Typed
    <3>2. call[c].at = "working"
      BY <1>1, AtWorks
    <3>3. \A d \in Callers \ {c} : call[d].todo = <<>>
      BY <3>2, OthersRest DEF Leased
    <3>4. call' = [call EXCEPT ![c] = [call[c] EXCEPT !.todo = Tail(call[c].todo), !.next = next]]
      BY <1>3 DEF next
    <3>5. /\ \A d \in Callers \ {c} : call'[d] = call[d]
          /\ call'[c] = [call[c] EXCEPT !.todo = Tail(call[c].todo), !.next = next]
      BY <3>1, <3>4
    <3>6. /\ call'[c].todo = Tail(call[c].todo) /\ call'[c].op = call[c].op
          /\ call'[c].next = next /\ call'[c].seen = call[c].seen
          /\ call'[c].web = call[c].web /\ call'[c].plan = call[c].plan
      BY <3>1, <3>5 DEF AnyCall
    <3>7. before' = before /\ UNCHANGED <<mutex, lease>>
      BY <1>3 DEF locks
    <3> QED
      BY <2>7, <3>3, <3>5, <3>6, <3>7 DEF Goes, NextKept
  <2>9. Types /\ tx # Absent /\ before' = before
    BY <2>2, <2>8 DEF RecoveryInv, Forward, Goes
  <2>10. Types' /\ tx' # Absent
    BY <1>1, <2>9, TypesStill DEF Types
  <2>11. \A q \in Parts : PartSaved(q, i + 1, AsideAt(op, q))'
    <3>1. \A q \in Parts : AsideAt(op, q) # i
      BY <2>2, <2>3
    <3> QED
      BY <1>1, <2>1, <2>4, <2>5, <2>8, <3>1, PartsStill
  <2>12. \A g \in Files : FileSaved(g, i + 1, OpenAt(op, g))'
    <3>1. \A g \in Files : OpenAt(op, g) # i /\ OpenAt(op, g) + 1 # i
      BY <2>2, <2>3 DEF OpenAt, OfFile
    <3> QED
      BY <1>1, <2>1, <2>4, <2>5, <2>8, <3>1, FilesStill
  <2>13. WebSaved(c, i + 1, KeepAt(op), WebAt(op))'
    BY <1>1, <2>1, <2>4, <2>5, <2>8, <2>9, ProfileStill DEF Nudged
  <2> QED
    BY <1>1, <2>1, <2>2, <2>3, <2>4, <2>8, <2>10, <2>11, <2>12, <2>13, ForwardSame
<1> QED
  BY <1>2, <1>3 DEF Build

(* The candidate passed its probe: it is what is on the disk. *)
LEMMA ProbeRecovers ==
    ASSUME RecoveryInv, IInv, InstallationAssumption, PathAssumption,
           NEW c \in Callers, Probe(c)
    PROVE  RecoveryInv'
<1>1. At(c, "probe", "home") /\ UNCHANGED <<parts, files, web, tx>>
  BY DEF Probe, disk
<1>2. CASE Leave(c)
  BY <1>1, <1>2, ReleasedStill DEF Leave, End, DiskStill, Nudged
<1>3. CASE Valid(call[c].next) /\ Advance(c)
  <2>1. PICK op, i : op = call[c].op /\ i = Turn(c, Count(op))
    OBVIOUS
  <2>2. Forward(c) /\ Mutates(op) /\ i = 19
    BY <1>1, <2>1, CarriesAll, ForwardPlace
  <2>3. /\ ~Removes(op) /\ Commits(op) = 20 /\ KeepAt(op) = 9
        /\ \A g \in Files : OpenAt(op, g) + 1 < 9
        /\ \A q \in Parts : AsideAt(op, q) \in 10..15
    BY <2>1, <2>2, MutationNow
  <2>4. i \in Nat /\ i > 1 /\ i < Commits(op) /\ i <= Commits(op) /\ i # KeepAt(op)
    BY <2>2, <2>3
  <2>5. /\ Goes(c) /\ NextKept(c) /\ before' = before /\ call'[c].next = call[c].next
        /\ Types /\ tx # Absent /\ TxTyped(tx) /\ Preparing(c, i)
    BY <1>1, <1>3, <2>1, <2>2, <2>4, ForwardStep
  <2>6. Types' /\ tx' # Absent
    BY <1>1, <2>5, TypesStill DEF Types
  <2>7. \A q \in Parts : PartSaved(q, i + 1, AsideAt(op, q))'
    <3>1. \A q \in Parts : AsideAt(op, q) # i
      BY <2>2, <2>3
    <3> QED
      BY <1>1, <2>1, <2>4, <2>5, <3>1, PartsStill
  <2>8. \A g \in Files : FileSaved(g, i + 1, OpenAt(op, g))'
    <3>1. \A g \in Files : OpenAt(op, g) # i /\ OpenAt(op, g) + 1 # i
      BY <2>2, <2>3, AtPlaces
    <3> QED
      BY <1>1, <2>1, <2>4, <2>5, <3>1, FilesStill
  <2>9. WebSaved(c, i + 1, KeepAt(op), WebAt(op))'
    BY <1>1, <2>1, <2>4, <2>5, ProfileStill DEF Nudged
  <2>10. Built(call[c])'
    BY <1>1, <1>3, <2>5 DEF Valid, Coherent, Built
  <2> QED
    BY <1>1, <2>1, <2>2, <2>3, <2>4, <2>5, <2>6, <2>7, <2>8, <2>9, <2>10, ForwardSame
<1> QED
  BY <1>2, <1>3 DEF Probe

-----------------------------------------------------------------------------
(* The steps of a transaction from the one that commits it                  *)

LEMMA InstalledOn ==
    ASSUME RecoveryInv, PathAssumption, NEW c \in Callers, Goes(c), Installing(c),
           call[c].todo # <<>>, NEW i, i = Turn(c, 22), i = 20 \/ i = 21,
           Types', tx' # Absent, tx'.journal # Absent, Committed', tx'.journal.op # "uninstall",
           Whole(parts, files, web)'
    PROVE  RecoveryInv'
<1>1. Rest(call[c].todo, MutationSteps, 22) /\ Mutates(call[c].op)
  BY DEF Installing
<1>2. /\ Turn(c, 22)' = i + 1 /\ Rest(call[c].todo, MutationSteps, 22)'
      /\ Len(call'[c].todo) = 22 - i
  BY <1>1, NextTurn
<1>3. Mutates(call[c].op)'
  BY <1>1 DEF Goes, Mutates
<1>4. i + 1 > 20 /\ ~(i + 1 <= 20) /\ i + 1 # 20
  OBVIOUS
<1>5. Installing(c)'
  BY <1>2, <1>3, <1>4 DEF Installing
<1>6. call'[c].todo # <<>>
  <2>1. call'[c].todo = <<>> => Len(call'[c].todo) = 0
    OBVIOUS
  <2> QED
    BY <1>2, <2>1
<1>7. CleanNow'
  BY DEF CleanNow, Clean
<1>8. Carries(c)'
  BY <1>5, <1>7 DEF Carries
<1>9. Disk'
  BY <1>5, <1>6, ForwardDiskNext
<1> QED
  BY <1>8, <1>9, GoneOn

LEMMA RemovedOn ==
    ASSUME RecoveryInv, PathAssumption, NEW c \in Callers, Goes(c), Uninstalling(c),
           call[c].todo # <<>>, NEW i, i = Turn(c, 17), i \in 13..16,
           Types', tx' # Absent, tx'.journal # Absent, tx'.journal.op = "uninstall",
           Removed(i + 1)'
    PROVE  RecoveryInv'
<1>1. Rest(call[c].todo, RemovalSteps, 17) /\ Removes(call[c].op)
  BY DEF Uninstalling
<1>2. /\ Turn(c, 17)' = i + 1 /\ Rest(call[c].todo, RemovalSteps, 17)'
      /\ Len(call'[c].todo) = 17 - i
  BY <1>1, NextTurn
<1>3. Removes(call[c].op)'
  BY <1>1 DEF Goes, Removes
<1>4. i + 1 > 13 /\ ~(i + 1 <= 13)
  OBVIOUS
<1>5. Uninstalling(c)'
  BY <1>2, <1>3, <1>4 DEF Uninstalling
<1>6. call'[c].todo # <<>>
  <2>1. call'[c].todo = <<>> => Len(call'[c].todo) = 0
    OBVIOUS
  <2> QED
    BY <1>2, <2>1
<1>7. Len(call'[c].todo) = 1 => CleanNow'
  <2> SUFFICES ASSUME Len(call'[c].todo) = 1 PROVE CleanNow'
    OBVIOUS
  <2>1. i + 1 = 17
    <3>1. 17 - i = 1
      BY <1>2
    <3> QED
      BY <3>1
  <2>2. \A p \in Parts : i + 1 > OfPart(p, 11, 10, 12)
    BY <2>1 DEF OfPart
  <2>3. i + 1 > 9 /\ i + 1 > 13 /\ i + 1 > 14
    BY <2>1
  <2> QED
    BY <2>2, <2>3 DEF Removed, CleanNow, Clean, Vacant
<1>8. Carries(c)'
  BY <1>5, <1>7 DEF Carries
<1>9. Disk'
  BY <1>5, <1>6, ForwardDiskNext
<1> QED
  BY <1>8, <1>9, GoneOn

LEMMA ActivateRecovers ==
    ASSUME RecoveryInv, IInv, ActiveInv, InstallationAssumption, PathAssumption,
           NEW c \in Callers, Activate(c)
    PROVE  RecoveryInv'
<1>1. At(c, "activate", "home") /\ UNCHANGED <<parts, web, tx>>
  BY DEF Activate
<1>2. CASE Leave(c) /\ UNCHANGED files
  BY <1>1, <1>2, ReleasedStill DEF Leave, End, DiskStill, Nudged
<1>3. CASE files' = [files EXCEPT !["active"] = call[c].next] /\ Advance(c)
  <2>1. PICK op, i : op = call[c].op /\ i = Turn(c, Count(op))
    OBVIOUS
  <2>2. Forward(c) /\ Mutates(op) /\ i = 20
    BY <1>1, <2>1, CarriesAll, ForwardPlace
  <2>3. ~Removes(op) /\ Commits(op) = 20 /\ Turn(c, 22) = i
    BY <2>1, <2>2, MutationNow
  <2>4. i <= Commits(op) /\ i > 1
    BY <2>2, <2>3
  <2>5. /\ Goes(c) /\ before' = before
        /\ Types /\ tx # Absent /\ TxTyped(tx) /\ Preparing(c, i) /\ Knows(call[c])
    BY <1>1, <1>3, <2>1, <2>2, <2>4, ForwardStep
  <2>6. Installing(c) /\ Built(call[c]) /\ call[c].todo # <<>>
    BY <2>1, <2>2, <2>3 DEF Forward, Installing
  <2>7. tx.journal # Absent /\ Names(call[c])
    BY <2>4, <2>5 DEF Preparing
  <2>8. call[c].next \in Candidate
    BY <2>1, <2>3, <2>5 DEF Knows
  <2>9. /\ \A g \in Files : files'[g] \in FilePath(g)
        /\ files'["active"] = call[c].next /\ files'["manifest"] = files["manifest"]
    <3>1. call[c].next \in FilePath("active") /\ "active" \in Files /\ "manifest" \in Files
      BY <2>8 DEF FilePath, Path, Files
    <3>2. /\ \A g \in Files : files'[g] = IF g = "active" THEN call[c].next ELSE files[g]
          /\ \A g \in Files : files'[g] \in FilePath(g)
      BY <1>3, <2>5, <3>1, FilePut
    <3> QED
      BY <3>1, <3>2
  <2>10. Types'
    BY <1>1, <2>5, <2>9, TypesStill DEF Types
  <2>11. tx.journal.op # "uninstall"
    BY <2>1, <2>3, <2>7 DEF Names, Removes
  <2>12. Committed'
    BY <1>1, <2>7, <2>8, <2>9, <2>11 DEF Committed, Readable, PathAssumption, Names
  <2>13. Whole(parts, files, web)'
    BY <1>1, <2>6, <2>8, <2>9 DEF Built, Whole
  <2> QED
    BY <1>1, <2>2, <2>3, <2>5, <2>6, <2>7, <2>10, <2>11, <2>12, <2>13, InstalledOn
<1> QED
  BY <1>2, <1>3 DEF Activate

LEMMA CommitRecovers ==
    ASSUME RecoveryInv, IInv, InstallationAssumption, PathAssumption,
           NEW c \in Callers, MarkCommitted(c)
    PROVE  RecoveryInv'
<1> DEFINE j == [tx.journal EXCEPT !.stage = "committed"]
<1>1. /\ At(c, "committed", "home") /\ Advance(c) /\ UNCHANGED <<parts, files, web>>
      /\ tx' = [tx EXCEPT !.journal = j]
  BY DEF MarkCommitted
<1>2. PICK op, i : op = call[c].op /\ i = Turn(c, Count(op))
  OBVIOUS
<1>3. Forward(c) /\ i = IF Removes(op) THEN 16 ELSE 21
  BY <1>1, <1>2, CarriesAll, ForwardPlace
<1>4. Goes(c)
  BY <1>1, AtWorks, AdvanceGoes
<1>5. Types /\ tx # Absent /\ TxTyped(tx) /\ call[c].todo # <<>> /\ before' = before
  BY <1>3, <1>4 DEF RecoveryInv, Types, Forward, Goes
<1>6. tx.journal # Absent /\ ((i = 21 /\ Turn(c, 22) = i /\ Installing(c)) \/ (i = 16 /\ Turn(c, 17) = i /\ Uninstalling(c)))
  <2>1. CASE Mutates(op)
    <3>1. ~Removes(op) /\ Turn(c, 22) = i
      BY <1>2, <1>3, <2>1, MutationNow
    <3>2. i = 21 /\ Installing(c)
      BY <1>2, <1>3, <3>1 DEF Forward
    <3> QED
      BY <3>1, <3>2 DEF Installing
  <2>2. CASE Removes(op)
    <3>1. i = 16 /\ Turn(c, 17) = i
      BY <1>2, <1>3, <2>2 DEF Count
    <3>2. Uninstalling(c)
      BY <1>2, <1>3, <2>2 DEF Forward, Mutates, Removes
    <3> QED
      BY <3>1, <3>2 DEF Uninstalling
  <2> QED
    BY <1>2, <1>3, <2>1, <2>2 DEF Forward
<1>7. j \in Entry /\ j.op = tx.journal.op /\ j.inst = tx.journal.inst /\ j.gen = tx.journal.gen
  <2>1. tx.journal \in Entry
    BY <1>5, <1>6 DEF TxTyped
  <2> QED
    BY <2>1 DEF Entry
<1> HIDE DEF j
<1>8. TxTyped(tx') /\ tx'.journal = j
  <2>1. j \in {Absent} \cup Entry
    BY <1>7
  <2> QED
    BY <1>1, <1>5, <2>1, JournalSet
<1>9. tx' # Absent /\ tx'.journal # Absent
  BY <1>7, <1>8, TxPresent DEF PathAssumption
<1>10. Types'
  BY <1>1, <1>5, <1>8, TypesStill DEF Types
<1>11. CASE i = 21 /\ Turn(c, 22) = i /\ Installing(c)
  <2>1. Whole(parts, files, web) /\ Committed /\ tx.journal.op # "uninstall"
    BY <1>6, <1>11 DEF Installing
  <2>2. Whole(parts, files, web)'
    BY <1>1, <2>1 DEF Whole
  <2>3. Committed'
    BY <1>1, <1>7, <1>8, <2>1 DEF Committed, Readable
  <2> QED
    BY <1>4, <1>5, <1>7, <1>8, <1>9, <1>10, <1>11, <2>1, <2>2, <2>3, InstalledOn
<1>12. CASE i = 16 /\ Turn(c, 17) = i /\ Uninstalling(c)
  <2>1. Removed(16) /\ tx.journal.op = "uninstall"
    BY <1>6, <1>12 DEF Uninstalling
  <2>2. Removed(16 + 1)'
    <3>1. \A p \in Parts : 16 > OfPart(p, 11, 10, 12)
      BY DEF OfPart
    <3> QED
      BY <1>1, <2>1, <3>1 DEF Removed
  <2>3. i \in 13..16
    BY <1>12
  <2> QED
    BY <1>4, <1>5, <1>7, <1>8, <1>9, <1>10, <1>12, <2>1, <2>2, <2>3, RemovedOn
<1> QED
  BY <1>6, <1>11, <1>12

-----------------------------------------------------------------------------
(* The removal of the records, by an uninstall or by its completion         *)

LEMMA UnlinkPlace ==
    ASSUME NEW c \in Callers, Carries(c), NEW f, At(c, "unlink", f)
    PROVE  /\ tx # Absent /\ call[c].todo # <<>>
           /\ \/ Uninstalling(c) /\ f \in Files /\ Turn(c, 17) = OfFile(f, 13, 14, 15)
              \/ Clearing(c) /\ f \in {"manifest", "scope"} /\ Turn(c, 9) = OfFile(f, 0, 7, 8)
<1>1. ~Stands(c, MutationSteps, 22, "unlink", f)
  BY MutationPlace DEF Stands
<1>2. ~Stands(c, RollbackSteps, 15, "unlink", f)
  BY RollbackPlace DEF Stands
<1>3. ~Stands(c, CompletionSteps("install"), 2, "unlink", f)
  <2>1. /\ CompletionSteps("install")[1][1] = "validate"
        /\ CompletionSteps("install")[2][1] = "remove"
    BY ShortList
  <2>2. Turn(c, 2) \in 1..2 => Turn(c, 2) = 1 \/ Turn(c, 2) = 2
    OBVIOUS
  <2> QED
    BY <2>1, <2>2 DEF Stands
<1>4. Stands(c, RemovalSteps, 17, "unlink", f) => f \in Files /\ Turn(c, 17) = OfFile(f, 13, 14, 15)
  BY RemovalPlace DEF Stands
<1>5. Stands(c, CompletionSteps("uninstall"), 9, "unlink", f)
         => f \in {"manifest", "scope"} /\ Turn(c, 9) = OfFile(f, 0, 7, 8)
  BY CompletionPlace DEF Stands
<1> QED
  BY <1>1, <1>2, <1>3, <1>4, <1>5, Doing

LEMMA ClearingOn ==
    ASSUME RecoveryInv, PathAssumption, NEW c \in Callers, Goes(c), Clearing(c),
           call[c].todo # <<>>, NEW i, i = Turn(c, 9), i \in 1..8,
           Types', UNCHANGED <<web, tx>>, files'["active"] = files["active"], Cleared(i + 1)'
    PROVE  RecoveryInv'
<1>1. /\ call[c].op = "recover" /\ Rest(call[c].todo, CompletionSteps("uninstall"), 9)
      /\ tx # Absent /\ tx.journal # Absent /\ Committed /\ tx.journal.op = "uninstall"
  BY DEF Clearing, RecoveryInv, Carries
<1>2. /\ Turn(c, 9)' = i + 1 /\ Rest(call[c].todo, CompletionSteps("uninstall"), 9)'
      /\ Len(call'[c].todo) = 9 - i
  BY <1>1, NextTurn
<1>3. Committed' /\ files'["active"] = Absent
  BY <1>1 DEF Committed
<1>4. web' = Absent \/ web'.version = 0
  BY <1>1 DEF RecoveryInv, Disk, Journalled, Finished
<1>5. Disk'
  BY <1>1, <1>3, <1>4 DEF Disk, Journalled, Finished
<1>6. Clearing(c)'
  <2>1. call'[c].op = "recover"
    BY <1>1 DEF Goes
  <2> QED
    BY <1>1, <1>2, <1>3, <2>1 DEF Clearing
<1>7. Len(call'[c].todo) = 1 => CleanNow'
  <2> SUFFICES ASSUME Len(call'[c].todo) = 1 PROVE CleanNow'
    OBVIOUS
  <2>1. 9 - i = 1
    BY <1>2
  <2>2. i + 1 > 7 /\ \A p \in Parts : i + 1 > OfPart(p, 2, 4, 6)
    BY <2>1 DEF OfPart
  <2> QED
    BY <1>3, <1>4, <2>2 DEF Cleared, CleanNow, Clean, Vacant
<1>8. Carries(c)'
  BY <1>1, <1>6, <1>7 DEF Carries
<1> QED
  BY <1>5, <1>8, GoneOn

LEMMA UnlinkRecovers ==
    ASSUME RecoveryInv, IInv, ActiveInv, InstallationAssumption, PathAssumption,
           NEW c \in Callers, Unlink(c)
    PROVE  RecoveryInv'
<1>1. PICK f \in Files :
        /\ At(c, "unlink", f) /\ Advance(c) /\ UNCHANGED <<parts, web, tx>>
        /\ files' = [files EXCEPT ![f] = Absent]
  BY DEF Unlink
<1>2. /\ tx # Absent /\ call[c].todo # <<>>
      /\ \/ Uninstalling(c) /\ Turn(c, 17) = OfFile(f, 13, 14, 15)
         \/ Clearing(c) /\ f \in {"manifest", "scope"} /\ Turn(c, 9) = OfFile(f, 0, 7, 8)
  BY <1>1, CarriesAll, UnlinkPlace
<1>3. Goes(c) /\ Types /\ before' = before
  BY <1>1, AtWorks, AdvanceGoes DEF Goes, RecoveryInv
<1>4. /\ \A g \in Files : files'[g] = IF g = f THEN Absent ELSE files[g]
      /\ \A g \in Files : files'[g] \in FilePath(g)
  <2>1. Absent \in FilePath(f)
    BY DEF FilePath, Path
  <2> QED
    BY <1>1, <1>3, <2>1, FilePut
<1>5. Types'
  BY <1>1, <1>3, <1>4, TypesStill DEF Types
<1>6. CASE Uninstalling(c) /\ Turn(c, 17) = OfFile(f, 13, 14, 15)
  <2>1. PICK i : i = Turn(c, 17)
    OBVIOUS
  <2>2. i \in 13..16 /\ i = OfFile(f, 13, 14, 15)
    BY <1>6, <2>1 DEF OfFile
  <2>3. /\ i <= 13 => Preparing(c, i)
        /\ Removed(i)
        /\ i > 13 /\ tx.journal # Absent => tx.journal.op = "uninstall"
        /\ i \in 14..16 => tx.journal # Absent
        /\ call[c].op = "uninstall"
    BY <1>6, <2>1 DEF Uninstalling, Removes
  <2>4. tx.journal # Absent /\ tx.journal.op = "uninstall"
    <3>1. CASE i = 13
      <4>1. Preparing(c, i) /\ i > 1 /\ i # 1
        BY <2>3, <3>1
      <4> QED
        BY <2>3, <4>1 DEF Preparing, Names
    <3>2. CASE i \in 14..16
      <4>1. i > 13
        BY <3>2
      <4> QED
        BY <2>3, <3>2, <4>1
    <3> QED
      BY <2>2, <3>1, <3>2
  <2>5. Removed(i + 1)'
    <3>1. /\ \A p \in Parts : i > OfPart(p, 11, 10, 12)
          /\ i > 9
      BY <2>2 DEF OfPart
    <3>2. (\A p \in Parts : parts'[p] = Absent) /\ web' # Absent /\ web'.version = 0
      BY <1>1, <2>3, <3>1 DEF Removed
    <3>3. i > 13 => files["active"] = Absent
      BY <2>3 DEF Removed
    <3>4. i > 14 => files["manifest"] = Absent
      BY <2>3 DEF Removed
    <3>5. files'["active"] = Absent
      <4>1. i > 13 \/ f = "active"
        BY <2>2 DEF OfFile, Files
      <4> QED
        BY <1>4, <3>3, <4>1 DEF Files
    <3>6. i + 1 > 14 => files'["manifest"] = Absent
      <4>1. i + 1 > 14 => i > 14 \/ f = "manifest"
        BY <2>2 DEF OfFile, Files
      <4> QED
        BY <1>4, <3>4, <4>1 DEF Files
    <3> QED
      BY <3>2, <3>5, <3>6 DEF Removed
  <2> QED
    BY <1>1, <1>2, <1>3, <1>5, <1>6, <2>1, <2>2, <2>4, <2>5, RemovedOn
<1>7. CASE Clearing(c) /\ f \in {"manifest", "scope"} /\ Turn(c, 9) = OfFile(f, 0, 7, 8)
  <2>1. PICK i : i = Turn(c, 9)
    OBVIOUS
  <2>2. i \in 1..8 /\ i >= 7 /\ f # "active" /\ (f = "manifest" \/ i > 7)
    BY <1>7, <2>1 DEF OfFile
  <2>3. Cleared(i)
    BY <1>7, <2>1 DEF Clearing
  <2>4. Cleared(i + 1)'
    <3>1. \A p \in Parts : i > OfPart(p, 2, 4, 6)
      BY <2>2 DEF OfPart
    <3>2. files'["manifest"] = Absent
      BY <1>4, <2>2, <2>3 DEF Cleared, Files
    <3> QED
      BY <1>1, <2>3, <3>1, <3>2 DEF Cleared
  <2>5. files'["active"] = files["active"]
    BY <1>4, <2>2 DEF Files
  <2> QED
    BY <1>1, <1>2, <1>3, <1>5, <1>7, <2>1, <2>2, <2>4, <2>5, ClearingOn
<1> QED
  BY <1>2, <1>6, <1>7

-----------------------------------------------------------------------------
(* The steps of a recovery                                                  *)

LEMMA BackPlace ==
    ASSUME NEW c \in Callers, Carries(c), NEW verb, NEW x, At(c, verb, x),
           verb \in {"tear", "drop", "return", "back", "validate"}
    PROVE  /\ tx # Absent /\ call[c].todo # <<>>
           /\ \/ /\ RollingBack(c) /\ Turn(c, 15) \in 1..15
                 /\ verb = "tear" => x \in Parts /\ Turn(c, 15) = OfPart(x, 1, 4, 7)
                 /\ verb = "drop" => x \in Parts /\ Turn(c, 15) = OfPart(x, 2, 5, 8)
                 /\ verb = "return" => x \in Parts /\ Turn(c, 15) = OfPart(x, 3, 6, 9)
                 /\ verb = "back" /\ x = "web" => Turn(c, 15) = 10
                 /\ verb = "back" /\ x # "web" => x \in Files /\ Turn(c, 15) = OfFile(x, 11, 12, 13)
                 /\ verb = "validate" => Turn(c, 15) = 14
              \/ /\ Clearing(c) /\ Turn(c, 9) \in 1..9
                 /\ verb = "tear" => x \in Parts /\ Turn(c, 9) = OfPart(x, 1, 3, 5)
                 /\ verb = "drop" => x \in Parts /\ Turn(c, 9) = OfPart(x, 2, 4, 6)
                 /\ verb \in {"tear", "drop"}
              \/ Confirming(c) /\ verb = "validate" /\ Turn(c, 2) = 1
<1>1. ~Stands(c, MutationSteps, 22, verb, x)
  BY MutationPlace DEF Stands
<1>2. ~Stands(c, RemovalSteps, 17, verb, x)
  BY RemovalPlace DEF Stands
<1>3. Stands(c, CompletionSteps("install"), 2, verb, x) => verb = "validate" /\ Turn(c, 2) = 1
  <2>1. /\ CompletionSteps("install")[1][1] = "validate"
        /\ CompletionSteps("install")[2][1] = "remove"
    BY ShortList
  <2>2. Turn(c, 2) \in 1..2 => Turn(c, 2) = 1 \/ Turn(c, 2) = 2
    OBVIOUS
  <2> QED
    BY <2>1, <2>2 DEF Stands
<1>4. ASSUME Stands(c, RollbackSteps, 15, verb, x)
      PROVE  /\ Turn(c, 15) \in 1..15
             /\ verb = "tear" => x \in Parts /\ Turn(c, 15) = OfPart(x, 1, 4, 7)
             /\ verb = "drop" => x \in Parts /\ Turn(c, 15) = OfPart(x, 2, 5, 8)
             /\ verb = "return" => x \in Parts /\ Turn(c, 15) = OfPart(x, 3, 6, 9)
             /\ verb = "back" /\ x = "web" => Turn(c, 15) = 10
             /\ verb = "back" /\ x # "web" => x \in Files /\ Turn(c, 15) = OfFile(x, 11, 12, 13)
             /\ verb = "validate" => Turn(c, 15) = 14
  BY <1>4, RollbackPlace DEF Stands
<1>5. ASSUME Stands(c, CompletionSteps("uninstall"), 9, verb, x)
      PROVE  /\ Turn(c, 9) \in 1..9
             /\ verb = "tear" => x \in Parts /\ Turn(c, 9) = OfPart(x, 1, 3, 5)
             /\ verb = "drop" => x \in Parts /\ Turn(c, 9) = OfPart(x, 2, 4, 6)
             /\ verb \in {"tear", "drop"}
  BY <1>5, CompletionPlace DEF Stands
<1> QED
  BY <1>1, <1>2, <1>3, <1>4, <1>5, Doing

(* What holds at a step of a rollback, and what it has to establish. *)
LEMMA RollbackNow ==
    ASSUME RecoveryInv, NEW c \in Callers, RollingBack(c), call[c].todo # <<>>, tx # Absent,
           NEW i, i = Turn(c, 15), i < 15
    PROVE  /\ Types /\ TxTyped(tx) /\ tx.journal # Absent /\ tx.journal \in Entry
           /\ ~Committed /\ Undone(i) /\ Reversible
<1>1. tx.journal # Absent /\ ~Committed /\ Undone(i)
  BY DEF RollingBack
<1>2. Types /\ TxTyped(tx) /\ Disk
  BY DEF RecoveryInv, Types
<1> QED
  BY <1>1, <1>2 DEF Disk, Journalled, TxTyped

LEMMA RollingBackOn ==
    ASSUME RecoveryInv, PathAssumption, NEW c \in Callers, Goes(c), RollingBack(c),
           call[c].todo # <<>>, NEW i, i = Turn(c, 15), i \in 1..14,
           Types', tx' # Absent, tx'.journal = tx.journal, ~Committed', Reversible',
           Undone(i + 1)', i = 14 => CleanNow'
    PROVE  RecoveryInv'
<1>1. call[c].op = "recover" /\ Rest(call[c].todo, RollbackSteps, 15) /\ tx.journal # Absent
  BY DEF RollingBack
<1>2. /\ Turn(c, 15)' = i + 1 /\ Rest(call[c].todo, RollbackSteps, 15)'
      /\ Len(call'[c].todo) = 15 - i
  BY <1>1, NextTurn
<1>3. RollingBack(c)'
  <2>1. call'[c].op = "recover"
    BY <1>1 DEF Goes
  <2> QED
    BY <1>1, <1>2, <2>1 DEF RollingBack
<1>4. Len(call'[c].todo) = 1 => CleanNow'
  <2>1. 15 - i = 1 => i = 14
    OBVIOUS
  <2> QED
    BY <1>2, <2>1
<1>5. Carries(c)'
  BY <1>3, <1>4 DEF Carries
<1>6. Disk'
  BY <1>1 DEF Disk, Journalled
<1> QED
  BY <1>5, <1>6, GoneOn

PutPart(p, v) == [parts EXCEPT ![p] = v]

LEMMA PartPut ==
    ASSUME Types, NEW p \in Parts, NEW v \in Path(Candidate), NEW new, new = PutPart(p, v)
    PROVE  /\ new \in [Parts -> Path(Candidate)]
           /\ \A q \in Parts : new[q] = IF q = p THEN v ELSE parts[q]
BY DEF Types, PutPart

(* A rollback changes the directories; the files and the profile stay. *)
LEMMA PartsBack ==
    ASSUME Reversible, UNCHANGED <<files, web, before>>, tx'.journal = tx.journal,
           tx'.files = tx.files, tx'.web = tx.web, \A p \in Parts : PartBack(p)'
    PROVE  Reversible'
<1>1. CleanBefore'
  BY DEF Reversible, CleanBefore, Clean, Vacant, Whole
<1>2. Noted'
  BY DEF Reversible, Noted, Had
<1>3. WebBack'
  BY DEF Reversible, WebBack, Kept
<1>4. \A f \in Files : FileBack(f)'
  BY DEF Reversible, FileBack, Had
<1> QED
  BY <1>1, <1>2, <1>3, <1>4 DEF Reversible

(* The places of the removals of the directories in a rollback. *)
LEMMA UndoneParts ==
    ASSUME NEW i \in 1..9, Undone(i), tx'.journal = tx.journal,
           \A q \in Parts : i >= OfPart(q, 2, 5, 8) /\ q \notin tx.journal.had => parts'[q] = Absent,
           \A q \in Parts : i >= OfPart(q, 3, 6, 9) => tx'.parts[q] = Absent
    PROVE  Undone(i + 1)'
<1>1. ~(i + 1 > 10) /\ \A f \in Files : ~(i + 1 > OfFile(f, 11, 12, 13))
  BY DEF OfFile
<1>2. ASSUME NEW q \in Parts
      PROVE  /\ OfPart(q, 2, 5, 8) \in Nat /\ OfPart(q, 3, 6, 9) \in Nat
             /\ i + 1 > OfPart(q, 2, 5, 8) /\ q \notin tx'.journal.had => parts'[q] = Absent
             /\ i + 1 > OfPart(q, 3, 6, 9) => tx'.parts[q] = Absent
  <2>1. OfPart(q, 2, 5, 8) \in Nat /\ OfPart(q, 3, 6, 9) \in Nat
    BY DEF OfPart
  <2>2. /\ i + 1 > OfPart(q, 2, 5, 8) => i >= OfPart(q, 2, 5, 8)
        /\ i + 1 > OfPart(q, 3, 6, 9) => i >= OfPart(q, 3, 6, 9)
    BY <2>1
  <2> QED
    BY <2>1, <2>2
<1> QED
  BY <1>1, <1>2 DEF Undone

LEMMA TearRecovers ==
    ASSUME RecoveryInv, IInv, InstallationAssumption, PathAssumption,
           NEW c \in Callers, Tear(c)
    PROVE  RecoveryInv'
<1>1. PICK p \in Parts :
        /\ At(c, "tear", p) /\ Advance(c) /\ UNCHANGED <<files, web, tx>>
        /\ parts' = IF Keeps(p) \/ parts[p] = Absent THEN parts ELSE [parts EXCEPT ![p] = Torn]
  BY DEF Tear
<1>2. /\ tx # Absent /\ call[c].todo # <<>>
      /\ \/ RollingBack(c) /\ Turn(c, 15) = OfPart(p, 1, 4, 7)
         \/ Clearing(c) /\ Turn(c, 9) = OfPart(p, 1, 3, 5)
  BY <1>1, CarriesAll, BackPlace
<1>3. Goes(c) /\ Types /\ before' = before
  BY <1>1, AtWorks, AdvanceGoes DEF Goes, RecoveryInv
<1>4. /\ parts' \in [Parts -> Path(Candidate)]
      /\ \A q \in Parts : q # p => parts'[q] = parts[q]
      /\ parts'[p] = IF Keeps(p) \/ parts[p] = Absent THEN parts[p] ELSE Torn
  <2>1. CASE Keeps(p) \/ parts[p] = Absent
    BY <1>1, <1>3, <2>1 DEF Types
  <2>2. CASE ~(Keeps(p) \/ parts[p] = Absent)
    <3>1. Torn \in Path(Candidate) /\ parts' = PutPart(p, Torn)
      BY <1>1, <2>2 DEF Path, PutPart
    <3>2. /\ parts' \in [Parts -> Path(Candidate)]
          /\ \A q \in Parts : parts'[q] = IF q = p THEN Torn ELSE parts[q]
      BY <1>3, <3>1, PartPut
    <3> QED
      BY <2>2, <3>2
  <2> QED
    BY <2>1, <2>2
<1>5. Types'
  BY <1>1, <1>3, <1>4, TypesStill DEF Types
<1>6. CASE RollingBack(c) /\ Turn(c, 15) = OfPart(p, 1, 4, 7)
  <2>1. PICK i : i = Turn(c, 15)
    OBVIOUS
  <2>2. i \in 1..14 /\ i \in 1..9 /\ i < 15 /\ i = OfPart(p, 1, 4, 7) /\ i # 14
    BY <1>6, <2>1 DEF OfPart
  <2>3. /\ Types /\ TxTyped(tx) /\ tx.journal # Absent /\ tx.journal \in Entry
        /\ ~Committed /\ Undone(i) /\ Reversible
    BY <1>2, <1>6, <2>1, <2>2, RollbackNow
  <2>4. ~Committed'
    BY <1>1, <2>3 DEF Committed, Readable
  <2>5. Keeps(p) <=> p \in tx.journal.had /\ tx.parts[p] = Absent
    BY <2>3 DEF Keeps, Completing
  <2>6. ASSUME NEW q \in Parts PROVE PartBack(q)'
    <3>1. PartBack(q)
      BY <2>3 DEF Reversible
    <3> QED
      BY <1>1, <1>3, <1>4, <2>5, <3>1 DEF PartBack
  <2>7. Reversible'
    BY <1>1, <1>3, <2>3, <2>6, PartsBack
  <2>8. Undone(i + 1)'
    <3>1. ASSUME NEW q \in Parts
          PROVE  /\ i >= OfPart(q, 2, 5, 8) => i > OfPart(q, 2, 5, 8) /\ q # p
                 /\ i >= OfPart(q, 3, 6, 9) => i > OfPart(q, 3, 6, 9)
      BY <2>2 DEF OfPart, Parts
    <3> QED
      BY <1>1, <1>4, <2>2, <2>3, <3>1, UndoneParts DEF Undone
  <2> QED
    BY <1>1, <1>2, <1>3, <1>5, <1>6, <2>1, <2>2, <2>4, <2>7, <2>8, RollingBackOn
<1>7. CASE Clearing(c) /\ Turn(c, 9) = OfPart(p, 1, 3, 5)
  <2>1. PICK i : i = Turn(c, 9)
    OBVIOUS
  <2>2. i \in 1..8 /\ i < 6 /\ i = OfPart(p, 1, 3, 5)
    BY <1>7, <2>1 DEF OfPart
  <2>3. Cleared(i)
    BY <1>7, <2>1 DEF Clearing
  <2>4. Cleared(i + 1)'
    <3>1. ASSUME NEW q \in Parts, i + 1 > OfPart(q, 2, 4, 6) PROVE parts'[q] = Absent
      <4>1. q # p /\ i > OfPart(q, 2, 4, 6)
        BY <2>2, <3>1 DEF OfPart, Parts
      <4> QED
        BY <1>4, <2>3, <4>1 DEF Cleared
    <3>2. ~(i + 1 > 7)
      BY <2>2
    <3> QED
      BY <3>1, <3>2 DEF Cleared
  <2> QED
    BY <1>1, <1>2, <1>3, <1>5, <1>7, <2>1, <2>2, <2>4, ClearingOn
<1> QED
  BY <1>2, <1>6, <1>7

LEMMA DropRecovers ==
    ASSUME RecoveryInv, IInv, InstallationAssumption, PathAssumption,
           NEW c \in Callers, Drop(c)
    PROVE  RecoveryInv'
<1>1. PICK p \in Parts :
        /\ At(c, "drop", p) /\ Advance(c) /\ UNCHANGED <<files, web, tx>>
        /\ parts' = IF Keeps(p) THEN parts ELSE [parts EXCEPT ![p] = Absent]
  BY DEF Drop
<1>2. /\ tx # Absent /\ call[c].todo # <<>>
      /\ \/ RollingBack(c) /\ Turn(c, 15) = OfPart(p, 2, 5, 8)
         \/ Clearing(c) /\ Turn(c, 9) = OfPart(p, 2, 4, 6)
  BY <1>1, CarriesAll, BackPlace
<1>3. Goes(c) /\ Types /\ before' = before
  BY <1>1, AtWorks, AdvanceGoes DEF Goes, RecoveryInv
<1>4. /\ parts' \in [Parts -> Path(Candidate)]
      /\ \A q \in Parts : q # p => parts'[q] = parts[q]
      /\ parts'[p] = IF Keeps(p) THEN parts[p] ELSE Absent
  <2>1. CASE Keeps(p)
    BY <1>1, <1>3, <2>1 DEF Types
  <2>2. CASE ~Keeps(p)
    <3>1. Absent \in Path(Candidate) /\ parts' = PutPart(p, Absent)
      BY <1>1, <2>2 DEF Path, PutPart
    <3>2. /\ parts' \in [Parts -> Path(Candidate)]
          /\ \A q \in Parts : parts'[q] = IF q = p THEN Absent ELSE parts[q]
      BY <1>3, <3>1, PartPut
    <3> QED
      BY <2>2, <3>2
  <2> QED
    BY <2>1, <2>2
<1>5. Types'
  BY <1>1, <1>3, <1>4, TypesStill DEF Types
<1>6. CASE RollingBack(c) /\ Turn(c, 15) = OfPart(p, 2, 5, 8)
  <2>1. PICK i : i = Turn(c, 15)
    OBVIOUS
  <2>2. i \in 1..14 /\ i \in 1..9 /\ i < 15 /\ i = OfPart(p, 2, 5, 8) /\ i # 14
    BY <1>6, <2>1 DEF OfPart
  <2>3. /\ Types /\ TxTyped(tx) /\ tx.journal # Absent /\ tx.journal \in Entry
        /\ ~Committed /\ Undone(i) /\ Reversible
    BY <1>2, <1>6, <2>1, <2>2, RollbackNow
  <2>4. ~Committed'
    BY <1>1, <2>3 DEF Committed, Readable
  <2>5. Keeps(p) <=> p \in tx.journal.had /\ tx.parts[p] = Absent
    BY <2>3 DEF Keeps, Completing
  <2>6. ASSUME NEW q \in Parts PROVE PartBack(q)'
    <3>1. PartBack(q)
      BY <2>3 DEF Reversible
    <3> QED
      BY <1>1, <1>3, <1>4, <2>5, <3>1 DEF PartBack
  <2>7. Reversible'
    BY <1>1, <1>3, <2>3, <2>6, PartsBack
  <2>8. Undone(i + 1)'
    <3>1. ASSUME NEW q \in Parts
          PROVE  /\ i >= OfPart(q, 2, 5, 8) => i > OfPart(q, 2, 5, 8) \/ q = p
                 /\ i >= OfPart(q, 3, 6, 9) => i > OfPart(q, 3, 6, 9)
      BY <2>2 DEF OfPart, Parts
    <3>2. ASSUME NEW q \in Parts, i >= OfPart(q, 2, 5, 8), q \notin tx.journal.had
          PROVE  parts'[q] = Absent
      <4>1. CASE q = p
        BY <1>4, <2>5, <3>2, <4>1
      <4>2. CASE q # p
        BY <1>4, <2>3, <3>1, <3>2, <4>2 DEF Undone
      <4> QED
        BY <4>1, <4>2
    <3> QED
      BY <1>1, <2>2, <2>3, <3>1, <3>2, UndoneParts DEF Undone
  <2> QED
    BY <1>1, <1>2, <1>3, <1>5, <1>6, <2>1, <2>2, <2>4, <2>7, <2>8, RollingBackOn
<1>7. CASE Clearing(c) /\ Turn(c, 9) = OfPart(p, 2, 4, 6)
  <2>1. PICK i : i = Turn(c, 9)
    OBVIOUS
  <2>2. i \in 1..8 /\ i < 7 /\ i = OfPart(p, 2, 4, 6)
    BY <1>7, <2>1 DEF OfPart
  <2>3. Cleared(i) /\ ~Keeps(p)
    BY <1>2, <1>7, <2>1, <2>2 DEF Clearing, Keeps, Completing
  <2>4. Cleared(i + 1)'
    <3>1. ASSUME NEW q \in Parts, i + 1 > OfPart(q, 2, 4, 6) PROVE parts'[q] = Absent
      <4>1. q = p \/ i > OfPart(q, 2, 4, 6)
        BY <2>2, <3>1 DEF OfPart, Parts
      <4> QED
        BY <1>4, <2>3, <4>1 DEF Cleared
    <3>2. ~(i + 1 > 7)
      BY <2>2
    <3> QED
      BY <3>1, <3>2 DEF Cleared
  <2> QED
    BY <1>1, <1>2, <1>3, <1>5, <1>7, <2>1, <2>2, <2>4, ClearingOn
<1> QED
  BY <1>2, <1>6, <1>7

LEMMA ReturnRecovers ==
    ASSUME RecoveryInv, IInv, InstallationAssumption, PathAssumption,
           NEW c \in Callers, Return(c)
    PROVE  RecoveryInv'
<1>1. PICK p \in Parts :
        /\ At(c, "return", p) /\ UNCHANGED <<files, web>>
        /\ IF p \in tx.journal.had /\ tx.parts[p] = Absent /\ parts[p] = Absent
           THEN Leave(c) /\ UNCHANGED <<parts, tx>>
           ELSE /\ parts' = IF tx.parts[p] = Absent THEN parts
                            ELSE [parts EXCEPT ![p] = tx.parts[p]]
                /\ tx' = [tx EXCEPT !.parts = [tx.parts EXCEPT ![p] = Absent]]
                /\ Advance(c)
  BY DEF Return
<1>2. CASE Leave(c) /\ UNCHANGED <<parts, tx>>
  BY <1>1, <1>2, ReleasedStill DEF Leave, End, DiskStill, Nudged
<1>3. CASE /\ parts' = IF tx.parts[p] = Absent THEN parts ELSE [parts EXCEPT ![p] = tx.parts[p]]
           /\ tx' = [tx EXCEPT !.parts = [tx.parts EXCEPT ![p] = Absent]]
           /\ Advance(c)
  <2>1. /\ tx # Absent /\ call[c].todo # <<>>
        /\ RollingBack(c) /\ Turn(c, 15) = OfPart(p, 3, 6, 9)
    BY <1>1, CarriesAll, BackPlace
  <2>2. PICK i : i = Turn(c, 15)
    OBVIOUS
  <2>3. i \in 1..14 /\ i \in 1..9 /\ i < 15 /\ i = OfPart(p, 3, 6, 9) /\ i # 14
    BY <2>1, <2>2 DEF OfPart
  <2>4. /\ Types /\ TxTyped(tx) /\ tx.journal # Absent /\ tx.journal \in Entry
        /\ ~Committed /\ Undone(i) /\ Reversible
    BY <2>1, <2>2, <2>3, RollbackNow
  <2>5. Goes(c) /\ before' = before
    BY <1>1, <1>3, AtWorks, AdvanceGoes DEF Goes
  <2>6. tx.parts[p] \in {Absent} \cup Candidate
    BY <2>4 DEF TxTyped, Backups
  <2>7. /\ parts' \in [Parts -> Path(Candidate)]
        /\ \A q \in Parts : q # p => parts'[q] = parts[q]
        /\ parts'[p] = IF tx.parts[p] = Absent THEN parts[p] ELSE tx.parts[p]
    <3>1. CASE tx.parts[p] = Absent
      BY <1>3, <2>4, <3>1 DEF Types
    <3>2. CASE tx.parts[p] # Absent
      <4>1. tx.parts[p] \in Path(Candidate) /\ parts' = PutPart(p, tx.parts[p])
        BY <1>3, <2>6, <3>2 DEF Path, PutPart
      <4>2. /\ parts' \in [Parts -> Path(Candidate)]
            /\ \A q \in Parts : parts'[q] = IF q = p THEN tx.parts[p] ELSE parts[q]
        BY <2>4, <4>1, PartPut
      <4> QED
        BY <3>2, <4>2
    <3> QED
      BY <3>1, <3>2
  <2>8. /\ TxTyped(tx') /\ tx'.journal = tx.journal /\ tx'.files = tx.files /\ tx'.web = tx.web
        /\ \A q \in Parts : tx'.parts[q] = IF q = p THEN Absent ELSE tx.parts[q]
    <3>1. tx' = WithPart(tx, p, Absent) /\ Absent \in {Absent} \cup Candidate
      BY <1>3 DEF WithPart
    <3> QED
      BY <2>4, <3>1, PartSet
  <2>9. Types' /\ tx' # Absent
    <3>1. tx' # Absent
      BY <2>8, TxPresent
    <3> QED
      BY <1>1, <2>4, <2>5, <2>7, <2>8, <3>1, TypesStill DEF Types
  <2>10. ~Committed'
    BY <1>1, <2>4, <2>8 DEF Committed, Readable
  <2>11. ASSUME NEW q \in Parts
         PROVE  PartBack(q)' /\ (q \notin tx.journal.had => parts'[q] = parts[q])
    <3>1. PartBack(q) /\ (q \in tx.journal.had <=> before.parts[q] # Absent)
      BY <2>4 DEF Reversible, Noted
    <3> QED
      BY <2>5, <2>7, <2>8, <3>1 DEF PartBack
  <2>12. Reversible'
    BY <1>1, <2>4, <2>5, <2>8, <2>11, PartsBack
  <2>13. Undone(i + 1)'
    <3>1. ASSUME NEW q \in Parts
          PROVE  /\ i >= OfPart(q, 2, 5, 8) => i > OfPart(q, 2, 5, 8)
                 /\ i >= OfPart(q, 3, 6, 9) => i > OfPart(q, 3, 6, 9) \/ q = p
      BY <2>3 DEF OfPart, Parts
    <3>2. \A q \in Parts : i >= OfPart(q, 2, 5, 8) /\ q \notin tx.journal.had => parts'[q] = Absent
      BY <2>4, <2>11, <3>1 DEF Undone
    <3>3. ASSUME NEW q \in Parts, i >= OfPart(q, 3, 6, 9) PROVE tx'.parts[q] = Absent
      <4>1. q = p \/ tx.parts[q] = Absent
        BY <2>4, <3>1, <3>3 DEF Undone
      <4> QED
        BY <2>8, <4>1
    <3> QED
      BY <2>3, <2>4, <2>8, <3>2, <3>3, UndoneParts
  <2> QED
    BY <2>1, <2>2, <2>3, <2>5, <2>8, <2>9, <2>10, <2>12, <2>13, RollingBackOn
<1> QED
  BY <1>1, <1>2, <1>3

(* The Web Profile is as it was found, or as the user has edited it since. *)
LEMMA RestoreProfileRecovers ==
    ASSUME RecoveryInv, IInv, InstallationAssumption, PathAssumption,
           NEW c \in Callers, RestoreProfile(c)
    PROVE  RecoveryInv'
<1>1. /\ At(c, "back", "web") /\ Advance(c) /\ UNCHANGED <<parts, files, tx>>
      /\ web' = IF tx.journal.touched THEN Restored(web, tx.web, tx.journal.web) ELSE web
  BY DEF RestoreProfile
<1>2. /\ tx # Absent /\ call[c].todo # <<>>
      /\ RollingBack(c) /\ Turn(c, 15) = 10
  BY <1>1, CarriesAll, BackPlace
<1>3. PICK i : i = Turn(c, 15)
  OBVIOUS
<1>4. i = 10 /\ i \in 1..14 /\ i < 15 /\ i # 14
  BY <1>2, <1>3
<1>5. /\ Types /\ TxTyped(tx) /\ tx.journal # Absent /\ tx.journal \in Entry
      /\ ~Committed /\ Undone(i) /\ Reversible
  BY <1>2, <1>3, <1>4, RollbackNow
<1>6. Goes(c) /\ before' = before
  BY <1>1, AtWorks, AdvanceGoes DEF Goes
<1>7. /\ WebBack /\ (tx.journal.web <=> before.web # Absent)
      /\ web \in Profiles /\ tx.web \in Profiles /\ before.web \in Profiles
  BY <1>5 DEF Reversible, Noted, Types, TxTyped
<1>8. web' \in Profiles
  BY <1>1, <1>7 DEF Restored, Profiles
<1>9. Types'
  BY <1>1, <1>5, <1>6, <1>8, TypesStill DEF Types
<1>10. ~Committed'
  BY <1>1, <1>5 DEF Committed, Readable
<1>11. before.web # Absent => before.web.edits >= before.web.edits
  BY <1>7 DEF Profiles, Profile, InstallationAssumption
<1>12. /\ tx.journal.touched => IF tx.journal.web THEN Kept(web)' ELSE web' = Absent
       /\ WebBack'
  <2>1. CASE ~tx.journal.touched
    BY <1>1, <1>6, <1>7, <2>1 DEF WebBack, Kept
  <2>2. CASE tx.journal.touched /\ tx.journal.web
    <3>1. Kept(web)'
      BY <1>1, <1>6, <1>7, <1>11, <2>2 DEF WebBack, Kept, Restored
    <3> QED
      BY <1>1, <1>6, <1>7, <2>2, <3>1 DEF WebBack
  <2>3. CASE tx.journal.touched /\ ~tx.journal.web
    BY <1>1, <1>6, <1>7, <2>3 DEF WebBack, Restored
  <2> QED
    BY <2>1, <2>2, <2>3
<1>13. Reversible'
  <2>1. CleanBefore'
    BY <1>5, <1>6 DEF Reversible, CleanBefore, Clean, Vacant, Whole
  <2>2. Noted'
    BY <1>1, <1>5, <1>6 DEF Reversible, Noted, Had
  <2>3. \A p \in Parts : PartBack(p)'
    BY <1>1, <1>5, <1>6 DEF Reversible, PartBack
  <2>4. \A f \in Files : FileBack(f)'
    BY <1>1, <1>5, <1>6 DEF Reversible, FileBack, Had
  <2> QED
    BY <1>12, <2>1, <2>2, <2>3, <2>4 DEF Reversible
<1>14. Undone(i + 1)'
  <2>1. /\ \A p \in Parts : i > OfPart(p, 2, 5, 8) /\ i > OfPart(p, 3, 6, 9)
        /\ \A f \in Files : ~(i + 1 > OfFile(f, 11, 12, 13))
    BY <1>4 DEF OfPart, OfFile
  <2>2. \A p \in Parts : /\ p \notin tx.journal.had => parts[p] = Absent
                         /\ tx.parts[p] = Absent
    BY <1>5, <2>1 DEF Undone
  <2> QED
    BY <1>1, <1>12, <2>1, <2>2 DEF Undone
<1> QED
  BY <1>1, <1>2, <1>3, <1>4, <1>6, <1>9, <1>10, <1>13, <1>14, RollingBackOn

LEMMA RestoreFileRecovers ==
    ASSUME RecoveryInv, IInv, ActiveInv, InstallationAssumption, PathAssumption,
           NEW c \in Callers, RestoreFile(c)
    PROVE  RecoveryInv'
<1>1. PICK f \in Files :
        /\ At(c, "back", f) /\ UNCHANGED <<parts, web, tx>>
        /\ IF Had(f) /\ tx.files[f] = Absent /\ files[f] = Absent
           THEN Leave(c) /\ UNCHANGED files
           ELSE /\ files' = [files EXCEPT ![f] = Restored(files[f], tx.files[f], Had(f))]
                /\ Advance(c)
  BY DEF RestoreFile
<1>2. CASE Leave(c) /\ UNCHANGED files
  BY <1>1, <1>2, ReleasedStill DEF Leave, End, DiskStill, Nudged
<1>3. CASE /\ ~(Had(f) /\ tx.files[f] = Absent /\ files[f] = Absent)
           /\ files' = [files EXCEPT ![f] = Restored(files[f], tx.files[f], Had(f))]
           /\ Advance(c)
  <2>1. /\ tx # Absent /\ call[c].todo # <<>>
        /\ RollingBack(c) /\ Turn(c, 15) = OfFile(f, 11, 12, 13)
    <3>1. f # "web"
      BY DEF Files
    <3> QED
      BY <1>1, <3>1, CarriesAll, BackPlace
  <2>2. PICK i : i = Turn(c, 15)
    OBVIOUS
  <2>3. i \in 11..13 /\ i \in 1..14 /\ i < 15 /\ i = OfFile(f, 11, 12, 13) /\ i # 14
    BY <2>1, <2>2 DEF OfFile
  <2>4. /\ Types /\ TxTyped(tx) /\ tx.journal # Absent /\ tx.journal \in Entry
        /\ ~Committed /\ Undone(i) /\ Reversible
    BY <2>1, <2>2, <2>3, RollbackNow
  <2>5. Goes(c) /\ before' = before
    BY <1>1, <1>3, AtWorks, AdvanceGoes DEF Goes
  <2>6. /\ Noted /\ FileBack(f) /\ (Had(f) <=> before.files[f] # Absent)
        /\ files[f] \in FilePath(f) /\ tx.files[f] \in FilePath(f)
    BY <2>4 DEF Reversible, Noted, Types, TxTyped
  <2> DEFINE v == Restored(files[f], tx.files[f], Had(f))
  <2>7. v \in FilePath(f)
    BY <2>6 DEF Restored, FilePath, Path
  <2>8. v \in {Torn, before.files[f]} /\ (~Had(f) => v = Absent)
    BY <2>6 DEF FileBack, Restored
  <2>9. files' = [files EXCEPT ![f] = v]
    BY <1>3
  <2>10. v = tx.files[f] \/ v = files[f] \/ v = Absent
    BY DEF Restored
  <2>11. Had(f) => v # Absent
    BY <1>3 DEF Restored
  <2> HIDE DEF v
  <2>12. /\ \A g \in Files : files'[g] = IF g = f THEN v ELSE files[g]
         /\ \A g \in Files : files'[g] \in FilePath(g)
    BY <2>4, <2>7, <2>9, FilePut
  <2>13. Types'
    BY <1>1, <2>4, <2>5, <2>12, TypesStill DEF Types
  <2>14. ~Committed'
    <3>1. CASE f # "active"
      <4>1. files'["active"] = files["active"]
        BY <2>12, <3>1 DEF Files
      <4> QED
        BY <1>1, <2>4, <4>1 DEF Committed, Readable
    <3>2. CASE f = "active"
      <4>1. files'["active"] = v
        BY <2>12, <3>2
      <4>2. tx.files["active"] \in {Absent, Torn, files["active"]}
        BY <2>1, <2>4 DEF ActiveInv, Paths, Backed
      <4>3. CASE tx.journal.op = "uninstall"
        <5>1. Had(f)
          BY <2>6, <3>2, <4>3 DEF Noted
        <5> QED
          BY <1>1, <2>11, <4>1, <4>3, <5>1 DEF Committed
      <4>4. CASE tx.journal.op # "uninstall"
        <5>1. v \in {Absent, Torn, files["active"]}
          BY <2>10, <3>2, <4>2
        <5> QED
          BY <1>1, <2>4, <4>1, <4>4, <5>1 DEF Committed, Readable
      <4> QED
        BY <4>3, <4>4
    <3> QED
      BY <3>1, <3>2
  <2>15. \A g \in Files : Had(g)' = Had(g)
    BY <1>1 DEF Had
  <2>16. Reversible'
    <3>1. CleanBefore'
      BY <2>4, <2>5 DEF Reversible, CleanBefore, Clean, Vacant, Whole
    <3>2. Noted'
      BY <1>1, <2>4, <2>5, <2>15 DEF Reversible, Noted
    <3>3. \A p \in Parts : PartBack(p)'
      BY <1>1, <2>4, <2>5 DEF Reversible, PartBack
    <3>4. ASSUME NEW g \in Files PROVE FileBack(g)'
      <4>1. FileBack(g)
        BY <2>4 DEF Reversible
      <4>2. CASE g = f
        BY <1>1, <2>5, <2>8, <2>12, <2>15, <4>1, <4>2 DEF FileBack
      <4>3. CASE g # f
        BY <1>1, <2>5, <2>12, <2>15, <4>1, <4>3 DEF FileBack
      <4> QED
        BY <4>2, <4>3
    <3>5. WebBack'
      BY <1>1, <2>4, <2>5 DEF Reversible, WebBack, Kept
    <3> QED
      BY <3>1, <3>2, <3>3, <3>4, <3>5 DEF Reversible
  <2>17. Undone(i + 1)'
    <3>1. /\ \A p \in Parts : i > OfPart(p, 2, 5, 8) /\ i > OfPart(p, 3, 6, 9)
          /\ i > 10
      BY <2>3 DEF OfPart
    <3>2. /\ \A p \in Parts : /\ p \notin tx'.journal.had => parts'[p] = Absent
                              /\ tx'.parts[p] = Absent
          /\ tx'.journal.touched => IF tx'.journal.web THEN Kept(web)' ELSE web' = Absent
      BY <1>1, <2>4, <2>5, <3>1 DEF Undone, Kept
    <3>3. ASSUME NEW g \in Files, i + 1 > OfFile(g, 11, 12, 13)
          PROVE  files'[g] \in {Torn, before.files[g]} /\ (~Had(g) => files'[g] = Absent)
      <4>1. i > OfFile(g, 11, 12, 13) \/ g = f
        BY <2>3, <3>3 DEF OfFile, Files
      <4>2. CASE g = f
        BY <2>8, <2>12, <4>2
      <4>3. CASE g # f
        BY <2>4, <2>12, <4>1, <4>3 DEF Undone
      <4> QED
        BY <4>2, <4>3
    <3> QED
      BY <2>5, <2>15, <3>2, <3>3 DEF Undone
  <2> QED
    BY <1>1, <2>1, <2>2, <2>3, <2>5, <2>13, <2>14, <2>16, <2>17, RollingBackOn
<1> QED
  BY <1>1, <1>2, <1>3

(* What has its backups restored is as it was found: the home is clean again. *)
LEMMA AllUndone ==
    ASSUME PathAssumption, Types, tx # Absent, tx.journal # Absent, Undone(14), Reversible,
           Valid(files["active"]) \/ ~tx.journal.active
    PROVE  CleanNow
<1>1. CASE Valid(files["active"])
  <2>1. Coherent(files["active"]) /\ files["active"] \in FilePath("active")
    BY <1>1 DEF Valid, Types, Files
  <2>2. files["active"] \in Candidate
    BY <2>1 DEF Coherent, Readable, FilePath, Path
  <2> QED
    BY <2>1, <2>2 DEF Coherent, CleanNow, Clean, Whole
<1>2. CASE ~tx.journal.active
  <2>1. ~Had("active") /\ ~Had("manifest") /\ Noted /\ WebBack /\ CleanBefore
    BY <1>2 DEF Had, Reversible
  <2>2. before.files["active"] = Absent
    BY <2>1 DEF Noted, Files
  <2>3. Vacant(before.parts, before.files, before.web)
    BY <2>1, <2>2 DEF CleanBefore, Clean, Whole, PathAssumption
  <2>4. /\ \A p \in Parts : 14 > OfPart(p, 2, 5, 8)
        /\ 14 > OfFile("active", 11, 12, 13) /\ 14 > OfFile("manifest", 11, 12, 13)
    BY DEF OfPart, OfFile
  <2>5. files["active"] = Absent /\ files["manifest"] = Absent
    BY <2>1, <2>4 DEF Undone, Files
  <2>6. \A p \in Parts : parts[p] = Absent
    BY <2>1, <2>3, <2>4 DEF Undone, Noted, Vacant
  <2>7. Kept(web)
    <3>1. CASE tx.journal.touched /\ tx.journal.web
      BY <3>1 DEF Undone
    <3>2. CASE tx.journal.touched /\ ~tx.journal.web
      BY <2>1, <3>2 DEF Undone, Noted, Kept
    <3>3. CASE ~tx.journal.touched
      BY <2>1, <3>3 DEF WebBack
    <3> QED
      BY <3>1, <3>2, <3>3
  <2>8. web = Absent \/ web.version = 0
    BY <2>3, <2>7 DEF Kept, Vacant
  <2> QED
    BY <2>5, <2>6, <2>8 DEF CleanNow, Clean, Vacant
<1> QED
  BY <1>1, <1>2

LEMMA ValidateRecovers ==
    ASSUME RecoveryInv, IInv, InstallationAssumption, PathAssumption,
           NEW c \in Callers, Validate(c)
    PROVE  RecoveryInv'
<1>1. At(c, "validate", "home") /\ UNCHANGED <<parts, files, web, tx>>
  BY DEF Validate, disk
<1>2. CASE Leave(c)
  BY <1>1, <1>2, ReleasedStill DEF Leave, End, DiskStill, Nudged
<1>3. CASE Accepted /\ Advance(c)
  <2>1. /\ tx # Absent /\ call[c].todo # <<>>
        /\ (RollingBack(c) /\ Turn(c, 15) = 14) \/ (Confirming(c) /\ Turn(c, 2) = 1)
    BY <1>1, CarriesAll, BackPlace
  <2>2. Goes(c) /\ before' = before /\ Types /\ Disk
    BY <1>1, <1>3, AtWorks, AdvanceGoes DEF Goes, RecoveryInv
  <2>3. DiskStill
    BY <1>1, <2>2 DEF DiskStill, Nudged
  <2>4. /\ Types' /\ Disk' /\ tx' # Absent
        /\ CleanNow => CleanNow'
        /\ Committed' <=> Committed
        /\ Reversible => Reversible'
    BY <1>1, <2>1, <2>2, <2>3, StillDisk, StillClean, StillReversible
  <2>5. CASE RollingBack(c) /\ Turn(c, 15) = 14
    <3>1. PICK i : i = Turn(c, 15)
      OBVIOUS
    <3>2. i = 14 /\ i < 15 /\ i \in 1..14
      BY <2>5, <3>1
    <3>3. /\ Types /\ TxTyped(tx) /\ tx.journal # Absent
          /\ ~Committed /\ Undone(i) /\ Reversible
      BY <2>1, <2>5, <3>1, <3>2, RollbackNow
    <3>4. CleanNow
      BY <1>3, <2>1, <3>2, <3>3, AllUndone DEF Accepted
    <3>5. Undone(i + 1)'
      <4>1. /\ \A p \in Parts : i > OfPart(p, 2, 5, 8) /\ i > OfPart(p, 3, 6, 9)
            /\ \A f \in Files : i > OfFile(f, 11, 12, 13)
            /\ i > 10
        BY <3>2 DEF OfPart, OfFile
      <4>2. \A f \in Files : Had(f)' = Had(f)
        BY <1>1 DEF Had
      <4> QED
        BY <1>1, <2>2, <3>3, <4>1, <4>2 DEF Undone, Kept
    <3> QED
      BY <1>1, <2>1, <2>2, <2>4, <2>5, <3>1, <3>2, <3>3, <3>4, <3>5, RollingBackOn
  <2>6. CASE Confirming(c) /\ Turn(c, 2) = 1
    <3>1. /\ call[c].op = "recover" /\ Rest(call[c].todo, CompletionSteps("install"), 2)
          /\ tx.journal # Absent /\ Committed /\ tx.journal.op # "uninstall"
      BY <2>6 DEF Confirming
    <3>2. CleanNow
      BY <3>1, <2>1, <2>2 DEF Disk, Journalled, Finished, CleanNow, Clean
    <3>3. Turn(c, 2)' = 1 + 1 /\ Rest(call[c].todo, CompletionSteps("install"), 2)'
      BY <2>1, <2>2, <2>6, <3>1, NextTurn
    <3>4. Confirming(c)'
      <4>1. call'[c].op = "recover"
        BY <2>2, <3>1 DEF Goes
      <4> QED
        BY <1>1, <2>4, <3>1, <3>3, <4>1 DEF Confirming
    <3>5. Carries(c)'
      BY <2>4, <3>2, <3>4 DEF Carries
    <3> QED
      BY <2>2, <2>4, <3>5, GoneOn
  <2> QED
    BY <2>1, <2>5, <2>6
<1> QED
  BY <1>2, <1>3 DEF Validate

-----------------------------------------------------------------------------
(* The removal of the transaction directory                                 *)

LEMMA RemovePlace ==
    ASSUME NEW c \in Callers, Carries(c), At(c, "remove", "home")
    PROVE  /\ tx # Absent /\ call[c].todo # <<>> /\ CleanNow
           /\ \/ Installing(c) /\ Turn(c, 22) = 22
              \/ Uninstalling(c) /\ Turn(c, 17) = 17
              \/ RollingBack(c) /\ Turn(c, 15) = 15
              \/ Clearing(c) /\ Turn(c, 9) = 9
              \/ Confirming(c) /\ Turn(c, 2) = 2
<1>1. Stands(c, MutationSteps, 22, "remove", "home") => Turn(c, 22) = 22
  BY MutationPlace DEF Stands
<1>2. Stands(c, RemovalSteps, 17, "remove", "home") => Turn(c, 17) = 17
  BY RemovalPlace DEF Stands
<1>3. Stands(c, RollbackSteps, 15, "remove", "home") => Turn(c, 15) = 15
  BY RollbackPlace DEF Stands
<1>4. Stands(c, CompletionSteps("uninstall"), 9, "remove", "home") => Turn(c, 9) = 9
  BY CompletionPlace DEF Stands
<1>5. Stands(c, CompletionSteps("install"), 2, "remove", "home") => Turn(c, 2) = 2
  <2>1. /\ CompletionSteps("install")[1][1] = "validate"
        /\ CompletionSteps("install")[2][1] = "remove"
    BY ShortList
  <2>2. Turn(c, 2) \in 1..2 => Turn(c, 2) = 1 \/ Turn(c, 2) = 2
    OBVIOUS
  <2> QED
    BY <2>1, <2>2 DEF Stands
<1>6. /\ tx # Absent /\ call[c].todo # <<>>
      /\ \/ Installing(c) /\ Turn(c, 22) = 22
         \/ Uninstalling(c) /\ Turn(c, 17) = 17
         \/ RollingBack(c) /\ Turn(c, 15) = 15
         \/ Clearing(c) /\ Turn(c, 9) = 9
         \/ Confirming(c) /\ Turn(c, 2) = 2
  BY <1>1, <1>2, <1>3, <1>4, <1>5, Doing
<1>7. Len(call[c].todo) = 1
  <2>1. ASSUME NEW n \in Nat, NEW L, Rest(call[c].todo, L, n), Turn(c, n) = n
        PROVE  Len(call[c].todo) = 1
    <3>1. Len(call[c].todo) = n + 1 - Turn(c, n)
      BY <1>6, <2>1, TurnIn
    <3> QED
      BY <2>1, <3>1
  <2> QED
    BY <1>6, <2>1 DEF Installing, Uninstalling, RollingBack, Clearing, Confirming
<1> QED
  BY <1>6, <1>7 DEF Carries

(* The backups go first, or the journal does: the home stays clean. *)
LEMMA RemovalOn ==
    ASSUME RecoveryInv, IInv, InstallationAssumption, NEW c \in Callers, At(c, "remove", "home"),
           UNCHANGED <<parts, files, web, call, before, mutex, lease>>, TxTyped(tx'), tx' # Absent,
           \/ tx'.journal = Absent
           \/ /\ tx'.journal = tx.journal /\ tx'.web = Absent
              /\ \A p \in Parts : tx'.parts[p] = Absent
              /\ \A f \in Files : tx'.files[f] = Absent
    PROVE  RecoveryInv'
<1>1. /\ tx # Absent /\ call[c].todo # <<>> /\ CleanNow
      /\ \/ Installing(c) /\ Turn(c, 22) = 22
         \/ Uninstalling(c) /\ Turn(c, 17) = 17
         \/ RollingBack(c) /\ Turn(c, 15) = 15
         \/ Clearing(c) /\ Turn(c, 9) = 9
         \/ Confirming(c) /\ Turn(c, 2) = 2
  BY CarriesAll, RemovePlace
<1>2. Types' /\ Types /\ Owners' /\ Disk
  BY TypesStill DEF RecoveryInv, Types, Owners
<1>3. CleanNow'
  BY <1>1 DEF CleanNow, Clean, Vacant, Whole
<1>4. tx'.journal # Absent => tx'.journal = tx.journal /\ (Committed' <=> Committed)
  BY DEF Committed, Readable
<1>5. \A n \in Nat : Turn(c, n)' = Turn(c, n)
  BY DEF Turn
<1>6. \A L : \A n \in Nat : Rest(call[c].todo, L, n) => Rest(call[c].todo, L, n)'
  BY DEF Rest
<1>7. ASSUME Installing(c), Turn(c, 22) = 22 PROVE Carries(c)' /\ Disk'
  <2>1. /\ Mutates(call[c].op) /\ Rest(call[c].todo, MutationSteps, 22)
        /\ Whole(parts, files, web)
        /\ tx.journal # Absent => Committed /\ tx.journal.op # "uninstall"
    BY <1>7 DEF Installing
  <2>2. Whole(parts, files, web)'
    BY <2>1 DEF Whole
  <2>3. Mutates(call[c].op)' /\ Rest(call[c].todo, MutationSteps, 22)' /\ Turn(c, 22)' = 22
    BY <1>5, <1>6, <1>7, <2>1 DEF Mutates
  <2>4. tx'.journal # Absent => Committed' /\ tx'.journal.op # "uninstall"
    BY <1>4, <2>1
  <2>5. Installing(c)'
    BY <2>2, <2>3, <2>4 DEF Installing
  <2>6. Disk'
    BY <2>2, <2>4 DEF Disk, Journalled, Finished
  <2> QED
    BY <1>3, <2>5, <2>6 DEF Carries
<1>8. ASSUME Uninstalling(c), Turn(c, 17) = 17 PROVE Carries(c)' /\ Disk'
  <2>1. /\ Removes(call[c].op) /\ Rest(call[c].todo, RemovalSteps, 17) /\ Removed(17)
        /\ tx.journal # Absent => tx.journal.op = "uninstall"
    BY <1>8 DEF Uninstalling
  <2>2. Removed(17)' /\ files'["active"] = Absent /\ web'.version = 0
    BY <2>1 DEF Removed
  <2>3. Removes(call[c].op)' /\ Rest(call[c].todo, RemovalSteps, 17)' /\ Turn(c, 17)' = 17
    BY <1>5, <1>6, <1>8, <2>1 DEF Removes
  <2>4. tx'.journal # Absent => tx'.journal.op = "uninstall"
    BY <1>4, <2>1
  <2>5. Uninstalling(c)'
    BY <2>2, <2>3, <2>4 DEF Uninstalling
  <2>6. Disk'
    BY <2>2, <2>4 DEF Disk, Journalled, Finished, Committed
  <2> QED
    BY <1>3, <2>5, <2>6 DEF Carries
<1>9. ASSUME RollingBack(c), Turn(c, 15) = 15 PROVE Carries(c)' /\ Disk'
  <2>1. /\ call[c].op = "recover" /\ Rest(call[c].todo, RollbackSteps, 15)
        /\ tx.journal # Absent => ~Committed /\ Undone(15)
    BY <1>9 DEF RollingBack
  <2>2. call'[c].op = "recover" /\ Rest(call[c].todo, RollbackSteps, 15)' /\ Turn(c, 15)' = 15
    BY <1>5, <1>6, <1>9, <2>1
  <2>3. ASSUME tx'.journal # Absent PROVE ~Committed' /\ Undone(15)' /\ Reversible'
    <3>1. /\ tx'.journal = tx.journal /\ tx'.web = Absent /\ tx.journal # Absent
          /\ \A p \in Parts : tx'.parts[p] = Absent
          /\ \A f \in Files : tx'.files[f] = Absent
      BY <2>3
    <3>2. ~Committed /\ Undone(15) /\ Reversible
      BY <1>1, <1>2, <2>1, <3>1 DEF Disk, Journalled
    <3>3. \A f \in Files : Had(f)' = Had(f)
      BY <3>1 DEF Had
    <3>4. Undone(15)'
      BY <3>1, <3>2, <3>3 DEF Undone, Kept
    <3>5. /\ \A p \in Parts : 15 > OfPart(p, 2, 5, 8) /\ 15 > OfPart(p, 3, 6, 9)
          /\ \A f \in Files : 15 > OfFile(f, 11, 12, 13)
      BY DEF OfPart, OfFile
    <3>6. CleanBefore' /\ Noted'
      BY <3>1, <3>2, <3>3 DEF Reversible, CleanBefore, Clean, Vacant, Whole, Noted
    <3>7. ASSUME NEW p \in Parts PROVE PartBack(p)'
      <4>1. PartBack(p) /\ tx.parts[p] = Absent /\ (p \in tx.journal.had <=> before.parts[p] # Absent)
        BY <3>2, <3>5 DEF Reversible, Undone, Noted
      <4> QED
        BY <3>1, <4>1 DEF PartBack
    <3>8. ASSUME NEW f \in Files PROVE FileBack(f)'
      <4>1. files[f] \in {Torn, before.files[f]}
        BY <3>2, <3>5 DEF Undone
      <4> QED
        BY <3>1, <4>1 DEF FileBack
    <3>9. WebBack'
      BY <3>1, <3>2 DEF Reversible, WebBack, Undone, Kept
    <3> QED
      BY <1>4, <3>1, <3>2, <3>4, <3>6, <3>7, <3>8, <3>9 DEF Reversible
  <2>4. RollingBack(c)'
    BY <2>2, <2>3 DEF RollingBack
  <2>5. Disk'
    BY <2>3 DEF Disk, Journalled
  <2> QED
    BY <1>3, <2>4, <2>5 DEF Carries
<1>10. ASSUME Clearing(c), Turn(c, 9) = 9 PROVE Carries(c)' /\ Disk'
  <2>1. /\ call[c].op = "recover" /\ Rest(call[c].todo, CompletionSteps("uninstall"), 9)
        /\ tx.journal # Absent => Committed /\ tx.journal.op = "uninstall"
        /\ Cleared(9)
    BY <1>10 DEF Clearing
  <2>2. /\ call'[c].op = "recover" /\ Rest(call[c].todo, CompletionSteps("uninstall"), 9)'
        /\ Turn(c, 9)' = 9
    BY <1>5, <1>6, <1>10, <2>1
  <2>3. tx'.journal # Absent => Committed' /\ tx'.journal.op = "uninstall"
    BY <1>4, <2>1
  <2>4. Cleared(9)'
    BY <2>1 DEF Cleared
  <2>5. Clearing(c)'
    BY <2>2, <2>3, <2>4 DEF Clearing
  <2>6. Disk'
    BY <1>1, <1>2, <1>4, <2>3 DEF Disk, Journalled, Finished
  <2> QED
    BY <1>3, <2>5, <2>6 DEF Carries
<1>11. ASSUME Confirming(c), Turn(c, 2) = 2 PROVE Carries(c)' /\ Disk'
  <2>1. /\ call[c].op = "recover" /\ Rest(call[c].todo, CompletionSteps("install"), 2)
        /\ tx.journal # Absent => Committed /\ tx.journal.op # "uninstall"
    BY <1>11 DEF Confirming
  <2>2. /\ call'[c].op = "recover" /\ Rest(call[c].todo, CompletionSteps("install"), 2)'
        /\ Turn(c, 2)' = 2
    BY <1>5, <1>6, <1>11, <2>1
  <2>3. tx'.journal # Absent => Committed' /\ tx'.journal.op # "uninstall"
    BY <1>4, <2>1
  <2>4. Confirming(c)'
    BY <2>2, <2>3 DEF Confirming
  <2>5. tx'.journal # Absent => Whole(parts, files, web)'
    BY <1>1, <1>2, <1>4, <2>1 DEF Disk, Journalled, Finished, Whole
  <2>6. Disk'
    BY <2>3, <2>5 DEF Disk, Journalled, Finished
  <2> QED
    BY <1>3, <2>4, <2>6 DEF Carries
<1>12. Carries(c)' /\ Disk'
  BY <1>1, <1>7, <1>8, <1>9, <1>10, <1>11
<1>13. ASSUME NEW d \in Callers PROVE Carries(d)' /\ Saw(d)'
  <2>1. Saw(d)'
    BY DEF RecoveryInv, Saw
  <2>2. CASE d = c
    BY <1>12, <2>1, <2>2
  <2>3. CASE d # c
    <3>1. call[d].todo = <<>>
      BY <2>3, AtWorks, OthersRest DEF Leased
    <3> QED
      BY <2>1, <3>1 DEF Carries
  <2> QED
    BY <2>2, <2>3
<1> QED
  BY <1>2, <1>12, <1>13 DEF RecoveryInv

LEMMA RemoveRecovers ==
    ASSUME RecoveryInv, IInv, InstallationAssumption, PathAssumption,
           NEW c \in Callers, RemoveTransaction(c)
    PROVE  RecoveryInv'
<1>1. At(c, "remove", "home") /\ UNCHANGED <<parts, files, web>>
  BY DEF RemoveTransaction
<1>2. tx # Absent /\ CleanNow /\ Types /\ TxTyped(tx)
  BY <1>1, CarriesAll, RemovePlace DEF RecoveryInv, Types
<1>3. CASE tx' = Absent /\ before' = Nothing /\ End(c)
  <2>1. PICK S : call \in [Callers -> AnyCall(S)]
    BY DEF IInv, Typed
  <2>2. call'[c] = Idle /\ \A d \in Callers : d # c => call'[d] = call[d]
    BY <1>3, <2>1 DEF End, Released
  <2>3. \A d \in Callers : d # c => call[d].todo = <<>>
    BY <1>1, AtWorks, OthersRest DEF Leased
  <2>4. ASSUME NEW d \in Callers PROVE Carries(d)' /\ Saw(d)'
    <3>1. call'[d].todo = <<>>
      BY <2>2, <2>3 DEF Idle
    <3>2. Saw(d)'
      BY <2>2 DEF Idle, Saw, RecoveryInv
    <3> QED
      BY <3>1, <3>2 DEF Carries
  <2>5. Owners'
    BY <1>3 DEF End, Released, Owners, RecoveryInv
  <2>6. Types'
    <3>1. /\ Nothing.parts = Empty /\ Nothing.files = NoFiles /\ Nothing.web = Absent
          /\ NoFiles \in [Files -> {Absent}]
          /\ \A f \in Files : NoFiles[f] \in FilePath(f)
      BY FilesTyped DEF Nothing
    <3> QED
      BY <1>1, <1>2, <1>3, <3>1, EmptyTyped DEF Types, Profiles
  <2>7. Disk'
    BY <1>1, <1>2, <1>3 DEF Disk, Journalled, CleanNow, Clean, Vacant, Whole
  <2> QED
    BY <2>4, <2>5, <2>6, <2>7 DEF RecoveryInv
<1>4. CASE /\ tx' = [tx EXCEPT !.journal = Absent]
           /\ UNCHANGED <<call, locks, patch, before, host, bounds>>
  <2>1. TxTyped(tx') /\ tx'.journal = Absent
    <3>1. Absent \in {Absent} \cup Entry
      OBVIOUS
    <3> QED
      BY <1>2, <1>4, <3>1, JournalSet
  <2>2. tx' # Absent
    BY <2>1, TxPresent
  <2> QED
    BY <1>1, <1>4, <2>1, <2>2, RemovalOn DEF locks
<1>5. CASE /\ tx' = [tx EXCEPT !.parts = Empty, !.files = NoFiles, !.web = Absent]
           /\ UNCHANGED <<call, locks, patch, before, host, bounds>>
  <2>1. /\ TxTyped(tx') /\ tx'.journal = tx.journal /\ tx'.web = Absent
        /\ tx'.parts = Empty /\ tx'.files = NoFiles
    BY <1>2, <1>5, TxWiped
  <2>2. tx' # Absent
    BY <2>1, TxPresent
  <2>3. (\A p \in Parts : tx'.parts[p] = Absent) /\ \A f \in Files : tx'.files[f] = Absent
    BY <2>1, EmptyTyped, FilesTyped
  <2> QED
    BY <1>1, <1>5, <2>1, <2>2, <2>3, RemovalOn DEF locks
<1> QED
  BY <1>3, <1>4, <1>5 DEF RemoveTransaction

-----------------------------------------------------------------------------
(* The beginning of a transaction, and of a recovery                        *)

(* What Begin finds is clean: a command that passed its checks on a clean home
   knows what it does with it. *)
LEMMA BeginKnows ==
    ASSUME RecoveryInv, IInv, ActiveInv, InstallationAssumption, PathAssumption,
           NEW c \in Callers, NEW version \in Versions, Begin(c, version), NEW k,
           k.op = call[c].op, k.seen = call[c].seen, k.web = web,
           k.plan = Planned(call[c].op, version),
           k.next = NextCandidate(call[c].op, call[c].seen, version), CleanNow,
           Mutates(call[c].op) \/ Removes(call[c].op)
    PROVE  Knows(k)'
<1> DEFINE op == call[c].op
           seen == call[c].seen
<1>1. /\ Unchanged(op, seen) /\ (op # "uninstall" => builds < MaxBuilds)
      /\ (op = "uninstall" => version = seen.version)
      /\ before' = [parts |-> parts, files |-> files, web |-> web, patch |-> patch]
      /\ UNCHANGED <<parts, files, web, patch>>
  BY DEF Begin
<1>2. before'.parts = parts /\ before'.files = files /\ before'.web = web
  BY <1>1
<1>3. CleanBefore' /\ files'["active"] = before'.files["active"] /\ k.web = before'.web
  BY <1>1, <1>2 DEF CleanNow, CleanBefore, Clean, Vacant, Whole
<1>4. web \in Profiles /\ version \in Nat \ {0} /\ Saw(c) /\ Paths
  BY DEF RecoveryInv, Types, InstallationAssumption, ActiveInv
<1>5. CASE Removes(op)
  <2>1. /\ op = "uninstall" /\ seen \in Candidate /\ version = seen.version
        /\ web # Absent /\ web.version = seen.version
    BY <1>1, <1>4, <1>5 DEF Saw, Removes, Unchanged, Mutates
  <2>2. web.version # 0 /\ web \in Profile
    BY <1>4, <2>1 DEF Profiles
  <2>3. Whole(parts, files, web)
    BY <2>1, <2>2 DEF CleanNow, Clean, Vacant
  <2>4. files["active"] # Absent /\ seen # Absent
    BY <2>1, <2>3 DEF Whole, PathAssumption
  <2>5. k.plan \in Profile /\ k.plan.version = 0
    <3>1. k.plan = [web EXCEPT !.version = 0]
      BY <2>1 DEF Planned
    <3> QED
      BY <2>2, <3>1 DEF Profile
  <2>6. k.next.inst \in Nat /\ k.next.gen \in Nat
    <3>1. k.next.inst = seen.inst /\ k.next.gen = seen.gen + 1
      BY <2>4 DEF NextCandidate
    <3>2. seen.inst \in 1..MaxBuilds /\ seen.gen \in 1..MaxBuilds /\ MaxBuilds \in Nat
      BY <2>1 DEF Candidate, InstallationAssumption
    <3> QED
      BY <3>1, <3>2
  <2> QED
    BY <1>2, <1>3, <1>5, <2>4, <2>5, <2>6 DEF Knows
<1>6. CASE Mutates(op)
  <2>1. ~Removes(op) /\ builds < MaxBuilds /\ SameGeneration(files["active"], seen)
    BY <1>1, <1>6 DEF Mutates, Removes, Unchanged
  <2>2. k.next \in Candidate /\ Follows(files["active"], k.next)
    BY <1>4, <1>6, <2>1, NextIsCandidate
  <2>3. seen = Absent <=> files["active"] = Absent
    BY <1>4, <1>6, <2>1 DEF SameGeneration, Readable, Saw, Mutates, PathAssumption
  <2>4. k.plan \in Profile
    <3>1. k.plan = [version |-> version, edits |-> IF web = Absent THEN 0 ELSE web.edits]
      BY <1>6 DEF Planned, Mutates
    <3>2. 0 \in 0..MaxEdits /\ (web # Absent => web.edits \in 0..MaxEdits)
      BY <1>4 DEF Profiles, Profile, InstallationAssumption
    <3> QED
      BY <3>1, <3>2 DEF Profile
  <2>5. k.next.inst \in Nat /\ k.next.gen \in Nat
    BY <2>2 DEF Candidate, InstallationAssumption
  <2>6. Follows(before'.files["active"], k.next)
    BY <1>2, <2>2
  <2> QED
    BY <1>2, <1>3, <2>1, <2>2, <2>3, <2>4, <2>5, <2>6 DEF Knows
<1> QED
  BY <1>5, <1>6

LEMMA BeginRecovers ==
    ASSUME RecoveryInv, IInv, ActiveInv, InstallationAssumption, PathAssumption,
           NEW c \in Callers, NEW version \in Versions, Begin(c, version)
    PROVE  RecoveryInv'
<1>1. /\ call[c].at = "leased" /\ call[c].op # "recover" /\ tx = Absent
      /\ tx' = [journal |-> Absent, parts |-> Empty, files |-> NoFiles, web |-> Absent]
      /\ before' = [parts |-> parts, files |-> files, web |-> web, patch |-> patch]
      /\ parts' = parts /\ files' = files /\ web' = web /\ mutex' = mutex /\ lease' = lease
  BY DEF Begin, locks
<1>2. PICK S : call \in [Callers -> AnyCall(S)]
  BY DEF IInv, Typed
<1>3. PICK op, k :
        /\ op = call[c].op
        /\ k = [call[c] EXCEPT !.at = "working", !.next = NextCandidate(op, call[c].seen, version),
                     !.web = web, !.plan = Planned(op, version),
                     !.todo = IF Mutates(op) THEN MutationSteps ELSE RemovalSteps]
        /\ call' = [call EXCEPT ![c] = k]
  BY DEF Begin
<1>4. /\ call'[c] = k /\ (\A d \in Callers : d # c => call'[d] = call[d] /\ call[d].todo = <<>>)
      /\ op = call[c].op /\ k.op = op /\ k.seen = call[c].seen /\ k.web = web /\ k.plan = Planned(op, version)
      /\ k.next = NextCandidate(op, call[c].seen, version)
      /\ k.todo = IF Mutates(op) THEN MutationSteps ELSE RemovalSteps
  BY <1>1, <1>2, <1>3, OthersRest DEF AnyCall, Leased
<1>5. Mutates(op) \/ Removes(op)
  <2>1. op \in Operations \cup {"none"} /\ op # "none"
    BY <1>1, <1>2, <1>3 DEF IInv, TodoOK, AnyCall
  <2> QED
    BY <1>1, <1>3, <2>1 DEF Operations, Mutates, Removes
<1>6. CleanNow /\ Types /\ Saw(c) /\ \A d \in Callers : Saw(d)
  BY <1>1 DEF RecoveryInv, Disk
<1>7. Knows(call[c])'
  <2>1. Knows(k)'
    BY <1>4, <1>5, <1>6, BeginKnows
  <2> QED
    BY <1>4, <2>1
<1>8. TxTyped(tx') /\ tx'.journal = Absent /\ tx'.parts = Empty /\ tx'.files = NoFiles /\ tx'.web = Absent
  <2>1. tx'.journal = Absent /\ tx'.parts = Empty /\ tx'.files = NoFiles /\ tx'.web = Absent
    BY <1>1
  <2>2. tx' \in TxOf({Absent, Empty})
    <3>1. NoFiles \in [Files -> {Absent, Empty}]
      BY FilesTyped
    <3> QED
      BY <1>1, <3>1 DEF TxOf
  <2> QED
    BY <2>1, <2>2, EmptyTyped, FilesTyped DEF TxTyped, Profiles
<1>9. tx' # Absent
  BY <1>8, TxPresent
<1>10. before'.parts = parts /\ before'.files = files /\ before'.web = web
  BY <1>1
<1>11. Types'
  <2>1. parts \in Backups
    BY <1>6 DEF Types, Backups, CleanNow, Clean, Vacant, Whole
  <2>2. \E T : files \in [Files -> T]
    BY DEF ActiveInv, Paths
  <2> QED
    BY <1>1, <1>6, <1>8, <1>10, <2>1, <2>2 DEF Types
<1>12. Preparing(c, 1)'
  <2>1. ASSUME NEW p \in Parts, NEW a \in Nat, a > 1 PROVE PartSaved(p, 1, a)'
    BY <1>1, <1>8, <1>10, <2>1, EmptyTyped DEF PartSaved
  <2>2. ASSUME NEW f \in Files, NEW o \in Nat, o > 1 PROVE FileSaved(f, 1, o)'
    BY <1>1, <1>8, <1>10, <2>2, FilesTyped DEF FileSaved
  <2>3. Kept(web)'
    <3>1. web # Absent => web.edits >= web.edits
      BY <1>6 DEF Types, Profiles, Profile, InstallationAssumption
    <3> QED
      BY <1>1, <1>10, <3>1 DEF Kept
  <2>4. ASSUME NEW keep \in Nat, NEW publish \in Nat, keep > 1, publish > 1
        PROVE  WebSaved(c, 1, keep, publish)'
    BY <1>8, <2>3, <2>4 DEF WebSaved
  <2>5. /\ \A p \in Parts : PartSaved(p, 1, AsideAt(op, p))'
        /\ \A f \in Files : FileSaved(f, 1, OpenAt(op, f))'
        /\ WebSaved(c, 1, KeepAt(op), WebAt(op))'
    <3>1. /\ \A p \in Parts : AsideAt(op, p) \in Nat /\ AsideAt(op, p) > 1
          /\ \A f \in Files : OpenAt(op, f) \in Nat /\ OpenAt(op, f) > 1
          /\ KeepAt(op) \in Nat /\ WebAt(op) \in Nat /\ KeepAt(op) > 1 /\ WebAt(op) > 1
      BY AtPlaces
    <3> QED
      BY <2>1, <2>2, <2>4, <3>1
  <2>6. call'[c].op = op
    BY <1>4
  <2> QED
    BY <1>7, <1>8, <2>5, <2>6 DEF Preparing
<1>13. ASSUME Mutates(op) PROVE Carries(c)'
  <2>1. call'[c].todo = MutationSteps /\ Mutates(call[c].op)'
    BY <1>4, <1>13 DEF Mutates
  <2>2. Rest(call[c].todo, MutationSteps, 22)' /\ Len(call'[c].todo) = 22
    BY <2>1, Lists, RestAll
  <2>3. Turn(c, 22)' = 1
    BY <2>2 DEF Turn
  <2>4. Installing(c)'
    BY <1>12, <2>1, <2>2, <2>3 DEF Installing
  <2> QED
    BY <1>9, <2>2, <2>4 DEF Carries
<1>14. ASSUME Removes(op) PROVE Carries(c)'
  <2>1. call'[c].todo = RemovalSteps /\ Removes(call[c].op)'
    BY <1>4, <1>14 DEF Mutates, Removes
  <2>2. Rest(call[c].todo, RemovalSteps, 17)' /\ Len(call'[c].todo) = 17
    BY <2>1, Lists, RestAll
  <2>3. Turn(c, 17)' = 1
    BY <2>2 DEF Turn
  <2>4. Removed(1)'
    <3>1. \A p \in Parts : ~(1 > OfPart(p, 11, 10, 12))
      BY DEF OfPart
    <3> QED
      BY <3>1 DEF Removed
  <2>5. Uninstalling(c)'
    BY <1>12, <2>1, <2>2, <2>3, <2>4 DEF Uninstalling
  <2> QED
    BY <1>9, <2>2, <2>5 DEF Carries
<1>15. ASSUME NEW d \in Callers PROVE Carries(d)' /\ Saw(d)'
  <2>1. Saw(d)'
    BY <1>3, <1>4, <1>6 DEF Saw
  <2>2. CASE d = c
    BY <1>5, <1>13, <1>14, <2>1, <2>2
  <2>3. CASE d # c
    BY <1>4, <2>1, <2>3 DEF Carries
  <2> QED
    BY <2>2, <2>3
<1>16. Disk' /\ Owners'
  BY <1>1, <1>8, <1>9 DEF Disk, Journalled, Owners, RecoveryInv
<1> QED
  BY <1>11, <1>15, <1>16 DEF RecoveryInv

LEMMA RecoverRecovers ==
    ASSUME RecoveryInv, IInv, InstallationAssumption, PathAssumption,
           NEW c \in Callers, Recover(c)
    PROVE  RecoveryInv'
<1> DEFINE steps == IF Committed THEN CompletionSteps(tx.journal.op) ELSE RollbackSteps
<1>1. /\ call[c].at = "leased" /\ call[c].op = "recover" /\ tx # Absent /\ tx.journal # Absent
      /\ parts' = parts /\ files' = files /\ web' = web /\ tx' = tx
      /\ before' = before /\ mutex' = mutex /\ lease' = lease
  BY DEF Recover, Journalled, disk, locks
<1>2. call' = [call EXCEPT ![c] = [call[c] EXCEPT !.at = "working", !.todo = steps]]
  BY DEF Recover
<1>3. PICK S : call \in [Callers -> AnyCall(S)]
  BY DEF IInv, Typed
<1>4. /\ call'[c].op = "recover" /\ call'[c].todo = steps /\ call'[c].seen = call[c].seen
      /\ \A d \in Callers : d # c => call'[d] = call[d] /\ call[d].todo = <<>>
  BY <1>2, <1>1, <1>3, OthersRest DEF AnyCall, Leased
<1> HIDE DEF steps
<1>5. Types /\ Disk /\ \A d \in Callers : Saw(d)
  BY DEF RecoveryInv
<1>6. DiskStill
  BY <1>1 DEF DiskStill, Nudged
<1>7. Types' /\ Disk' /\ (Committed' <=> Committed)
  BY <1>5, <1>6, StillDisk, StillClean
<1>8. ASSUME ~Committed PROVE Carries(c)'
  <2>1. Rest(call[c].todo, RollbackSteps, 15)' /\ Len(call'[c].todo) = 15
    BY <1>4, <1>8, Lists, RestAll DEF steps
  <2>2. Turn(c, 15)' = 1
    BY <2>1 DEF Turn
  <2>3. Undone(1)'
    <3>1. /\ \A p \in Parts : ~(1 > OfPart(p, 2, 5, 8)) /\ ~(1 > OfPart(p, 3, 6, 9))
          /\ \A f \in Files : ~(1 > OfFile(f, 11, 12, 13))
      BY DEF OfPart, OfFile
    <3> QED
      BY <3>1 DEF Undone
  <2>4. RollingBack(c)'
    BY <1>1, <1>4, <1>7, <1>8, <2>1, <2>2, <2>3 DEF RollingBack
  <2> QED
    BY <1>1, <2>1, <2>4 DEF Carries
<1>9. ASSUME Committed, tx.journal.op = "uninstall" PROVE Carries(c)'
  <2>1. Rest(call[c].todo, CompletionSteps("uninstall"), 9)' /\ Len(call'[c].todo) = 9
    <3>1. call'[c].todo = CompletionSteps("uninstall")
      BY <1>4, <1>9 DEF steps
    <3>2. Rest(CompletionSteps("uninstall"), CompletionSteps("uninstall"), 9)
      BY Lists, RestAll
    <3>3. Rest(call[c].todo, CompletionSteps("uninstall"), 9)'
      BY <3>1, <3>2 DEF Rest
    <3> QED
      BY <3>1, <3>3, Lists
  <2>2. Turn(c, 9)' = 1
    BY <2>1 DEF Turn
  <2>3. Cleared(1)'
    <3>1. \A p \in Parts : ~(1 > OfPart(p, 2, 4, 6))
      BY DEF OfPart
    <3> QED
      BY <3>1 DEF Cleared
  <2>4. Clearing(c)'
    BY <1>1, <1>4, <1>7, <1>9, <2>1, <2>2, <2>3 DEF Clearing
  <2> QED
    BY <1>1, <2>1, <2>4 DEF Carries
<1>10. ASSUME Committed, tx.journal.op # "uninstall" PROVE Carries(c)'
  <2>1. CompletionSteps(tx.journal.op) = CompletionSteps("install")
    BY <1>10 DEF CompletionSteps
  <2>2. Rest(call[c].todo, CompletionSteps("install"), 2)' /\ Len(call'[c].todo) = 2
    <3>1. call'[c].todo = CompletionSteps("install")
      BY <1>4, <1>10, <2>1 DEF steps
    <3>2. /\ \E T : CompletionSteps("install") \in Seq(T)
          /\ Len(CompletionSteps("install")) = 2
      BY ShortList
    <3>3. Rest(CompletionSteps("install"), CompletionSteps("install"), 2)
      BY <3>2, RestAll
    <3>4. Rest(call[c].todo, CompletionSteps("install"), 2)'
      BY <3>1, <3>3 DEF Rest
    <3> QED
      BY <3>1, <3>2, <3>4
  <2>3. Confirming(c)'
    BY <1>1, <1>4, <1>7, <1>10, <2>2 DEF Confirming
  <2> QED
    BY <1>1, <2>2, <2>3 DEF Carries
<1>11. ASSUME NEW d \in Callers PROVE Carries(d)' /\ Saw(d)'
  <2>1. Saw(d)'
    BY <1>1, <1>4, <1>5 DEF Saw
  <2>2. CASE d = c
    BY <1>8, <1>9, <1>10, <2>1, <2>2
  <2>3. CASE d # c
    BY <1>4, <2>1, <2>3 DEF Carries
  <2> QED
    BY <2>2, <2>3
<1>12. Owners'
  BY <1>1 DEF Owners, RecoveryInv
<1> QED
  BY <1>7, <1>11, <1>12 DEF RecoveryInv

-----------------------------------------------------------------------------
(* The calls that wait, the Hosts and the user                              *)

(* What a command saw is what it checked. *)
LEMMA StartRecovers ==
    ASSUME RecoveryInv, IInv, ActiveInv, InstallationAssumption, PathAssumption,
           NEW c \in Callers, NEW op \in Operations, Start(c, op)
    PROVE  RecoveryInv'
<1>1. PICK S : call \in [Callers -> AnyCall(S)]
  BY DEF IInv, Typed
<1>2. /\ Preflight(op) /\ UNCHANGED <<parts, files, web, tx, before, mutex, lease>>
      /\ call' = [call EXCEPT ![c] = [Idle EXCEPT !.at = "waiting", !.op = op,
                      !.seen = IF op = "recover" THEN Absent ELSE files["active"]]]
  BY DEF Start, disk, locks
<1>3. /\ call'[c].todo = <<>> /\ call'[c].op = op
      /\ call'[c].seen = IF op = "recover" THEN Absent ELSE files["active"]
      /\ \A d \in Callers : d # c => call'[d] = call[d]
  BY <1>1, <1>2 DEF Idle
<1>4. files["active"] \in Candidate \/ files["active"] = Absent \/ files["active"] = Torn
  BY DEF ActiveInv, Paths
<1>5. op = "install" => files["active"] = Absent
  BY <1>2 DEF Preflight
<1>6. op \in {"upgrade", "uninstall"} => files["active"] \in Candidate
  <2>1. op = "upgrade" => Readable(files["active"])
    BY <1>2 DEF Preflight
  <2>2. op = "uninstall" => Readable(files["active"])
    BY <1>2 DEF Preflight, Coherent
  <2> QED
    BY <1>4, <2>1, <2>2 DEF Readable
<1>7. Saw(c)'
  BY <1>3, <1>5, <1>6 DEF Saw
<1>8. DiskStill /\ Owners'
  BY <1>2 DEF DiskStill, Nudged, Owners, RecoveryInv
<1> QED
  BY <1>3, <1>7, <1>8, StillInv

LEMMA TakeMutexRecovers ==
    ASSUME RecoveryInv, IInv, InstallationAssumption, PathAssumption,
           NEW c \in Callers, TakeMutex(c)
    PROVE  RecoveryInv'
<1>1. PICK S : call \in [Callers -> AnyCall(S)]
  BY DEF IInv, Typed
<1>2. /\ call[c].at = "waiting" /\ UNCHANGED <<parts, files, web, tx, before, lease>>
      /\ IF abandoned
         THEN call' = [call EXCEPT ![c] = Idle] /\ UNCHANGED mutex
         ELSE call' = [call EXCEPT ![c].at = "locked"] /\ mutex' = c
  BY DEF TakeMutex, Waiting, disk
<1>3. call[c].todo = <<>>
  BY <1>2 DEF IInv, TodoOK
<1>4. DiskStill /\ Owners'
  BY <1>2 DEF DiskStill, Nudged, Owners, RecoveryInv
<1>5. /\ \A d \in Callers : d # c => call'[d] = call[d]
      /\ call'[c].todo = <<>> /\ Saw(c)'
  <2>1. CASE call' = [call EXCEPT ![c] = Idle]
    BY <1>1, <2>1 DEF Idle, Saw
  <2>2. CASE call' = [call EXCEPT ![c].at = "locked"]
    <3>1. /\ call'[c].todo = call[c].todo /\ call'[c].op = call[c].op
          /\ call'[c].seen = call[c].seen
          /\ \A d \in Callers : d # c => call'[d] = call[d]
      BY <1>1, <2>2 DEF AnyCall
    <3> QED
      BY <1>3, <3>1 DEF RecoveryInv, Saw
  <2> QED
    BY <1>2, <2>1, <2>2
<1> QED
  BY <1>4, <1>5, StillInv

LEMMA TakeLeaseRecovers ==
    ASSUME RecoveryInv, IInv, InstallationAssumption, PathAssumption,
           NEW c \in Callers, TakeLease(c)
    PROVE  RecoveryInv'
<1>1. CASE Leave(c) /\ UNCHANGED disk
  BY <1>1, ReleasedStill DEF Leave, End, disk, DiskStill, Nudged
<1>2. CASE /\ lease' = c /\ call' = [call EXCEPT ![c].at = "leased"]
           /\ UNCHANGED <<disk, patch, before, mutex, abandoned, host, bounds>>
  <2>1. PICK S : call \in [Callers -> AnyCall(S)]
    BY DEF IInv, Typed
  <2>2. call[c].todo = <<>>
    BY DEF TakeLease, IInv, TodoOK
  <2>3. /\ call'[c].todo = call[c].todo /\ call'[c].op = call[c].op
        /\ call'[c].seen = call[c].seen
        /\ \A d \in Callers : d # c => call'[d] = call[d]
    BY <1>2, <2>1 DEF AnyCall
  <2>4. Saw(c)' /\ call'[c].todo = <<>>
    BY <2>2, <2>3 DEF RecoveryInv, Saw
  <2>5. DiskStill /\ Owners'
    BY <1>2 DEF DiskStill, Nudged, Owners, RecoveryInv, disk
  <2> QED
    BY <2>3, <2>4, <2>5, StillInv
<1> QED
  BY <1>1, <1>2 DEF TakeLease

(* Hosts and the user, whatever they do, do not touch what a call goes by. *)
LEMMA HostRecovers ==
    ASSUME RecoveryInv, InstallationAssumption, PathAssumption,
           NEW h \in Hosts, Admit(h) \/ HostLease(h) \/ Stop(h)
    PROVE  RecoveryInv'
<1>1. DiskStill /\ call' = call
  BY DEF Admit, HostLease, Stop, disk, DiskStill, Nudged
<1>2. Owners'
  BY DEF Admit, HostLease, Stop, locks, Owners, RecoveryInv
<1> QED
  BY <1>1, <1>2, StillInv

LEMMA EditRecovers ==
    ASSUME RecoveryInv, InstallationAssumption, PathAssumption, Edit
    PROVE  RecoveryInv'
<1>1. Nudged
  <2>1. CASE web' = web
    BY <2>1 DEF Nudged
  <2>2. CASE web # Absent /\ web.edits < MaxEdits /\ web' = [web EXCEPT !.edits = @ + 1]
    <3>1. web \in Profile /\ web.edits \in 0..MaxEdits /\ MaxEdits \in Nat
      BY <2>2 DEF RecoveryInv, Types, Profiles, Profile, InstallationAssumption
    <3>2. web'.version = web.version /\ web'.edits = web.edits + 1 /\ web' \in Profile
      BY <2>2, <3>1 DEF Profile
    <3> QED
      BY <2>2, <3>1, <3>2 DEF Nudged, PathAssumption
  <2> QED
    BY <2>1, <2>2 DEF Edit
<1>2. DiskStill /\ call' = call /\ Owners'
  BY <1>1 DEF Edit, DiskStill, locks, Owners, RecoveryInv
<1> QED
  BY <1>2, StillInv

LEMMA RecoveryInit == ASSUME Init, InstallationAssumption PROVE RecoveryInv
<1>1. /\ parts = Empty /\ files = NoFiles /\ tx = Absent /\ before = Nothing
      /\ (web = Absent \/ web = [version |-> 0, edits |-> 0])
      /\ mutex = Nobody /\ lease = Nobody
      /\ \A c \in Callers : call[c] = Idle
  BY DEF Init
<1>2. web \in Profiles /\ (web = Absent \/ web.version = 0)
  <2>1. 0 \in 0..MaxEdits
    BY DEF InstallationAssumption
  <2> QED
    BY <1>1, <2>1 DEF Profiles, Profile
<1>3. parts \in [Parts -> Path(Candidate)] /\ \A p \in Parts : parts[p] = Absent
  BY <1>1 DEF Empty, Path
<1>4. /\ Nothing.parts = Empty /\ Nothing.files = NoFiles /\ Nothing.web = Absent
      /\ NoFiles \in [Files -> {Absent}]
      /\ \A f \in Files : NoFiles[f] \in FilePath(f) /\ NoFiles[f] = Absent
  BY FilesTyped DEF Nothing
<1>5. Types
  BY <1>1, <1>2, <1>3, <1>4, EmptyTyped DEF Types, Profiles
<1>6. CleanNow
  BY <1>1, <1>2, <1>3, <1>4 DEF CleanNow, Clean, Vacant, Files
<1>7. Disk /\ Owners
  BY <1>1, <1>6 DEF Disk, Journalled, Owners
<1>8. ASSUME NEW c \in Callers PROVE Carries(c) /\ Saw(c)
  <2>1. call[c].todo = <<>> /\ call[c].op = "none"
    BY <1>1 DEF Idle
  <2> QED
    BY <2>1 DEF Carries, Saw
<1> QED
  BY <1>5, <1>7, <1>8 DEF RecoveryInv

LEMMA RecoveryStep ==
    ASSUME RecoveryInv, IInv, ActiveInv, InstallationAssumption, PathAssumption, [Next]_vars
    PROVE  RecoveryInv'
<1>1. ASSUME NEW c \in Callers, Step(c) PROVE RecoveryInv'
  <2>1. CASE TakeMutex(c) \/ TakeLease(c)
    BY <2>1, TakeMutexRecovers, TakeLeaseRecovers
  <2>2. CASE MutexTimeout(c) \/ Refuse(c)
    BY <2>2, ReleasedStill DEF MutexTimeout, Refuse, Leave, End, disk, DiskStill, Nudged
  <2>3. ASSUME NEW v \in Versions, Begin(c, v) PROVE RecoveryInv'
    BY <2>3, BeginRecovers
  <2>4. CASE WriteJournal(c) \/ Build(c) \/ OpenCopy(c) \/ FinishCopy(c)
    BY <2>4, JournalRecovers, BuildRecovers, OpenRecovers, CopyRecovers
  <2>5. CASE KeepProfile(c) \/ PublishProfile(c) \/ MoveAside(c) \/ MoveIn(c) \/ WriteFile(c)
    BY <2>5, KeepRecovers, PublishRecovers, AsideRecovers, MoveInRecovers, WriteRecovers
  <2>6. CASE Probe(c) \/ Activate(c) \/ Unlink(c) \/ MarkCommitted(c) \/ RemoveTransaction(c)
    BY <2>6, ProbeRecovers, ActivateRecovers, UnlinkRecovers, CommitRecovers, RemoveRecovers
  <2>7. CASE Recover(c) \/ Tear(c) \/ Drop(c) \/ Return(c)
    BY <2>7, RecoverRecovers, TearRecovers, DropRecovers, ReturnRecovers
  <2>8. CASE RestoreFile(c) \/ RestoreProfile(c) \/ Validate(c)
    BY <2>8, RestoreFileRecovers, RestoreProfileRecovers, ValidateRecovers
  <2> QED
    BY <1>1, <2>1, <2>2, <2>3, <2>4, <2>5, <2>6, <2>7, <2>8 DEF Step
<1>2. ASSUME NEW c \in Callers, Interrupt(c) PROVE RecoveryInv'
  BY <1>2, ReleasedStill DEF Interrupt, disk, DiskStill, Nudged
<1>3. ASSUME NEW c \in Callers, NEW op \in Operations, Start(c, op) PROVE RecoveryInv'
  BY <1>3, StartRecovers
<1>4. ASSUME NEW h \in Hosts, Admit(h) \/ HostLease(h) \/ Stop(h) PROVE RecoveryInv'
  BY <1>4, HostRecovers
<1>5. CASE Edit
  BY <1>5, EditRecovers
<1>6. CASE UNCHANGED vars
  <2>1. DiskStill /\ call' = call /\ Owners'
    BY <1>6 DEF vars, disk, locks, DiskStill, Nudged, Owners, RecoveryInv
  <2> QED
    BY <2>1, StillInv
<1> QED
  BY <1>1, <1>2, <1>3, <1>4, <1>5, <1>6 DEF Next

(* Between any two steps of mutateInstallation, uninstall, rollbackTransaction and
   recover, and after a failure or a crash at any of them, the disk is clean, or a
   journal stands from which it can be taken back or completed, and every call is
   where its list of steps says. *)
THEOREM RecoveryInvariance == Spec => []RecoveryInv
<1>1. Init => RecoveryInv
  BY RecoveryInit, InstallationAssumption
<1>2. RecoveryInv /\ IInv /\ ActiveInv /\ [Next]_vars => RecoveryInv'
  BY RecoveryStep, InstallationAssumption, PathAssumption
<1> QED
  BY <1>1, <1>2, Invariance, ActiveInvariance, PTL DEF Spec

(* Whatever is interrupted and recovered, every path on the disk holds a
   candidate, nothing, or a piece of one, and only who holds the mutex and the
   lease works: TypeOK. *)
THEOREM TypeCorrect == Spec => []TypeOK
<1>1. RecoveryInv /\ IInv /\ ActiveInv => TypeOK
  <2> SUFFICES ASSUME RecoveryInv, IInv, ActiveInv PROVE TypeOK
    OBVIOUS
  <2>1. Types /\ Owners
    BY DEF RecoveryInv
  <2>2. patch \in 0..MaxEdits
    BY DEF ActiveInv, Paths
  <2>3. /\ \A c \in Callers : call[c].at \in {"leased", "working"} => mutex = c /\ lease = c
        /\ \A h \in Hosts : host[h] = "running" => lease = h
    BY DEF IInv, LocksOK, Locked, Leased
  <2> QED
    BY <2>1, <2>2, <2>3 DEF TypeOK, Types, Owners, TxTyped, Backups, Profiles
<1> QED
  BY <1>1, RecoveryInvariance, Invariance, ActiveInvariance, PTL

(* What a rollback makes of the directories, the files and the profile. *)
LEMMA RollsBack ==
    ASSUME InstallationAssumption, Types, tx # Absent, Reversible
    PROVE  /\ \A p \in Parts : RolledBackPart(p) = before.parts[p]
           /\ \A f \in Files : RolledBackFile(f) \in {Torn, before.files[f]}
           /\ (RolledBackProfile = Absent) <=> (before.web = Absent)
           /\ before.web # Absent => /\ RolledBackProfile.version = before.web.version
                                     /\ RolledBackProfile.edits >= before.web.edits
<1>1. /\ \A p \in Parts : PartBack(p) /\ (p \in tx.journal.had <=> before.parts[p] # Absent)
      /\ \A f \in Files : FileBack(f) /\ (Had(f) <=> before.files[f] # Absent)
      /\ WebBack /\ (tx.journal.web <=> before.web # Absent)
  BY DEF Reversible, Noted
<1>2. before.web \in Profiles
  BY DEF Types
<1>3. ASSUME NEW p \in Parts PROVE RolledBackPart(p) = before.parts[p]
  <2>1. PartBack(p) /\ (p \in tx.journal.had <=> before.parts[p] # Absent)
    BY <1>1
  <2> QED
    BY <2>1 DEF PartBack, RolledBackPart, Restored
<1>4. ASSUME NEW f \in Files PROVE RolledBackFile(f) \in {Torn, before.files[f]}
  <2>1. FileBack(f) /\ (Had(f) <=> before.files[f] # Absent)
    BY <1>1
  <2> QED
    BY <2>1 DEF FileBack, RolledBackFile, Restored
<1>5. Kept(RolledBackProfile)
  <2>1. before.web # Absent => before.web.edits >= before.web.edits
    BY <1>2 DEF Profiles, Profile, InstallationAssumption
  <2>2. CASE ~tx.journal.touched
    BY <1>1, <2>2 DEF WebBack, RolledBackProfile
  <2>3. CASE tx.journal.touched
    <3>1. RolledBackProfile = Restored(web, tx.web, tx.journal.web)
      BY <2>3 DEF RolledBackProfile
    <3>2. CASE tx.web # Absent
      BY <1>1, <2>1, <3>1, <3>2 DEF WebBack, Restored, Kept
    <3>3. CASE tx.web = Absent /\ tx.journal.web
      BY <1>1, <2>3, <3>1, <3>3 DEF WebBack, Restored
    <3>4. CASE tx.web = Absent /\ ~tx.journal.web
      BY <1>1, <3>1, <3>4 DEF Restored, Kept
    <3> QED
      BY <3>2, <3>3, <3>4
  <2> QED
    BY <2>2, <2>3
<1> QED
  BY <1>3, <1>4, <1>5 DEF Kept

(* At every moment of a transaction and of its recovery, however often interrupted,
   the disk holds what rolling it back needs, or the new generation is whole; only a
   file of which a backup copy was left incomplete may be lost (mutateInstallation,
   uninstall, recover; copyFileIfPresent, restoreFile): OnlyTornCopiesAreLost. *)
THEOREM OnlyTornLost == Spec => []OnlyTornCopiesAreLost
<1>1. RecoveryInv => OnlyTornCopiesAreLost
  <2> SUFFICES ASSUME RecoveryInv, Journalled
               PROVE  IF Committed
                      THEN tx.journal.op # "uninstall" => Coherent(files["active"])
                      ELSE /\ \A p \in Parts : RolledBackPart(p) = before.parts[p]
                           /\ \A f \in Files : RolledBackFile(f) \in {Torn, before.files[f]}
                           /\ (RolledBackProfile = Absent) <=> (before.web = Absent)
                           /\ before.web # Absent =>
                                /\ RolledBackProfile.version = before.web.version
                                /\ RolledBackProfile.edits >= before.web.edits
    BY DEF OnlyTornCopiesAreLost
  <2>1. Types /\ Disk /\ tx # Absent
    BY DEF RecoveryInv, Journalled
  <2>2. ASSUME Committed, tx.journal.op # "uninstall" PROVE Coherent(files["active"])
    <3>1. Whole(parts, files, web)
      BY <2>1, <2>2 DEF Disk, Finished
    <3> QED
      BY <3>1, PathAssumption DEF Whole, Coherent, Readable, PathAssumption
  <2>3. CASE ~Committed
    <3>1. Reversible
      BY <2>1, <2>3 DEF Disk
    <3> QED
      BY <2>1, <2>3, <3>1, RollsBack, InstallationAssumption
  <2> QED
    BY <2>2, <2>3
<1> QED
  BY <1>1, RecoveryInvariance, PTL

(* A rollback that has come to its validation has put back what the transaction
   found, but for a file of which a backup copy was left incomplete; only the user's
   edits stay. *)
RollbackRestores ==
    \A c \in Callers : At(c, "validate", "home") /\ ~Committed =>
        /\ parts = before.parts
        /\ \A f \in Files : files[f] \in {Torn, before.files[f]}
        /\ web = Absent <=> before.web = Absent
        /\ web # Absent => web.version = before.web.version /\ web.edits >= before.web.edits

(* RollbackRestores: restoreDirectory, restoreFile and restoreJournalProfileFiles,
   though interrupted and begun again any number of times, bring back the home that
   the failed install, upgrade or uninstall began with. *)
THEOREM Restoration == Spec => []RollbackRestores
<1>1. RecoveryInv /\ ActiveInv => RollbackRestores
  <2> SUFFICES ASSUME RecoveryInv, ActiveInv, NEW c \in Callers, At(c, "validate", "home"),
                      ~Committed
               PROVE  /\ parts = before.parts /\ Kept(web)
                      /\ \A f \in Files : files[f] \in {Torn, before.files[f]}
    BY DEF RollbackRestores, Kept
  <2>1. /\ tx # Absent /\ call[c].todo # <<>>
        /\ (RollingBack(c) /\ Turn(c, 15) = 14) \/ (Confirming(c) /\ Turn(c, 2) = 1)
    BY CarriesAll, BackPlace
  <2>2. RollingBack(c) /\ Turn(c, 15) = 14
    <3>1. Turn(c, 2) = 1 => Turn(c, 2) < 2
      OBVIOUS
    <3> QED
      BY <2>1, <3>1 DEF Confirming
  <2>3. PICK i : i = Turn(c, 15)
    OBVIOUS
  <2>4. i = 14 /\ i < 15
    BY <2>2, <2>3
  <2>5. Types /\ Undone(i) /\ Reversible
    BY <2>1, <2>2, <2>3, <2>4, RollbackNow
  <2>6. /\ \A p \in Parts : 14 > OfPart(p, 2, 5, 8) /\ 14 > OfPart(p, 3, 6, 9)
        /\ \A f \in Files : 14 > OfFile(f, 11, 12, 13)
    BY DEF OfPart, OfFile
  <2>8. ASSUME NEW p \in Parts PROVE parts[p] = before.parts[p]
    <3>1. /\ PartBack(p) /\ (p \in tx.journal.had <=> before.parts[p] # Absent)
          /\ tx.parts[p] = Absent /\ (p \notin tx.journal.had => parts[p] = Absent)
      BY <2>4, <2>5, <2>6 DEF Reversible, Noted, Undone
    <3> QED
      BY <3>1 DEF PartBack
  <2>9. ASSUME NEW f \in Files PROVE files[f] \in {Torn, before.files[f]}
    BY <2>4, <2>5, <2>6 DEF Undone
  <2>10. Kept(web)
    <3>1. WebBack /\ (tx.journal.web <=> before.web # Absent)
      BY <2>5 DEF Reversible, Noted
    <3> QED
      BY <2>4, <2>5, <3>1 DEF Undone, WebBack, Kept
  <2> QED
    BY <2>5, <2>8, <2>9, <2>10 DEF Types, Backups
<1> QED
  BY <1>1, RecoveryInvariance, ActiveInvariance, PTL

(* A home without a transaction directory has nothing installed, or one generation
   in every path; the scope of the operator outlives an installation. *)
WholeOrNothing ==
    tx = Absent =>
        \/ /\ \A p \in Parts : parts[p] = Absent
           /\ files["active"] = Absent /\ files["manifest"] = Absent
           /\ web = Absent \/ web.version = 0
        \/ Coherent(files["active"])

(* WholeOrNothing: removeTree of the transaction directory, the last step of an
   install, an upgrade, an uninstall and a recovery, never leaves a mixture of
   generations behind for which no journal stands. *)
THEOREM CleanWithoutJournal == Spec => []WholeOrNothing
<1>1. RecoveryInv => WholeOrNothing
  <2> SUFFICES ASSUME Clean(parts, files, web)
               PROVE  \/ Vacant(parts, files, web)
                      \/ Coherent(files["active"])
    BY DEF RecoveryInv, Disk, CleanNow, WholeOrNothing, Vacant
  <2>1. Whole(parts, files, web) => Coherent(files["active"])
    BY PathAssumption DEF Whole, Coherent, Readable, PathAssumption
  <2> QED
    BY <2>1 DEF Clean
<1> QED
  BY <1>1, RecoveryInvariance, PTL

(* What recovery refuses is a whole generation over which the user has edited the
   home patch, unless a file came back incomplete. *)
Intact == \A f \in Files : files[f] # Torn

RefusedForDrift ==
    \A c \in Callers : At(c, "validate", "home") /\ Intact /\ ~Accepted =>
        Coherent(files["active"]) /\ patch # files["active"].patch

(* RefusedForDrift: the validation at the end of recover fails for no other reason,
   wherever the transaction and its earlier recoveries were interrupted. *)
THEOREM OnlyDriftRefuses == Spec => []RefusedForDrift
<1>1. RecoveryInv /\ RollbackRestores => RefusedForDrift
  <2> SUFFICES ASSUME RecoveryInv, RollbackRestores, NEW c \in Callers,
                      At(c, "validate", "home"), Intact, ~Accepted
               PROVE  Coherent(files["active"])
    BY DEF RefusedForDrift, Accepted, Valid
  <2>1. /\ tx # Absent /\ call[c].todo # <<>>
        /\ (RollingBack(c) /\ Turn(c, 15) = 14) \/ (Confirming(c) /\ Turn(c, 2) = 1)
    BY CarriesAll, BackPlace
  <2>2. Whole(parts, files, web) => Coherent(files["active"])
    BY PathAssumption DEF Whole, Coherent, Readable, PathAssumption
  <2>3. CASE Committed
    <3>1. tx.journal # Absent /\ tx.journal.op # "uninstall"
      <4>1. Turn(c, 2) = 1 => Turn(c, 2) < 2
        OBVIOUS
      <4>2. Turn(c, 15) = 14 => Turn(c, 15) < 15
        OBVIOUS
      <4> QED
        BY <2>1, <2>3, <4>1, <4>2 DEF Confirming, RollingBack
    <3>2. Finished
      BY <2>1, <2>3, <3>1 DEF RecoveryInv, Disk, Journalled
    <3> QED
      BY <2>2, <3>1, <3>2 DEF Finished
  <2>4. CASE ~Committed
    <3>1. /\ parts = before.parts /\ Kept(web)
          /\ files["active"] = before.files["active"] /\ files["manifest"] = before.files["manifest"]
      BY <2>4 DEF RollbackRestores, Kept, Intact, Files
    <3>2. tx.journal.active
      BY <2>4 DEF Accepted
    <3>3. RollingBack(c) /\ Turn(c, 15) = 14
      <4>1. Turn(c, 2) = 1 => Turn(c, 2) < 2
        OBVIOUS
      <4> QED
        BY <2>1, <2>4, <4>1 DEF Confirming
    <3>4. PICK i : i = Turn(c, 15)
      OBVIOUS
    <3>5. i < 15
      BY <3>3, <3>4
    <3>6. CleanBefore /\ Noted
      BY <2>1, <3>3, <3>4, <3>5, RollbackNow DEF Reversible
    <3>7. before.files["active"] # Absent
      <4>1. "active" \in Files /\ Had("active") = tx.journal.active
        BY DEF Files, Had
      <4> QED
        BY <3>2, <3>6, <4>1 DEF Noted
    <3>8. Whole(before.parts, before.files, before.web)
      BY <3>6, <3>7 DEF CleanBefore, Clean, Vacant
    <3>9. Whole(parts, files, web)
      BY <3>1, <3>8 DEF Whole, Kept
    <3> QED
      BY <2>2, <3>9
  <2> QED
    BY <2>3, <2>4
<1> QED
  BY <1>1, RecoveryInvariance, Restoration, PTL
=============================================================================
