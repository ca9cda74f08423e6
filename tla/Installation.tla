---------------------------- MODULE Installation ----------------------------
(***************************************************************************)
(* The managed installation under one DSH home: the directories and files  *)
(* the installer publishes, its journalled transactions, the mutex between *)
(* installers, the runtime lease between them and the Host, and the guard  *)
(* that admits the Host. Installers crash or fail between any two disk     *)
(* steps; the user edits the home patch and the Web Profile meanwhile.     *)
(***************************************************************************)
EXTENDS Naturals, Sequences

CONSTANTS
    Callers,        \* installer processes
    Hosts,          \* processes that run the Host
    Nobody,         \* who owns a free mutex or lease
    Absent, Torn,   \* a path that is missing, and one that is incomplete
    Versions,       \* product versions an installer may carry
    MaxBuilds,      \* bound: candidates built
    MaxEdits,       \* bound: edits of the user
    MaxInterrupts   \* bound: crashes and failures of installers

ASSUME InstallationAssumption ==
    /\ Nobody \notin Callers \cup Hosts /\ Callers \cap Hosts = {}
    /\ Versions \subseteq Nat \ {0}
    /\ MaxBuilds \in Nat /\ MaxEdits \in Nat /\ MaxInterrupts \in Nat

VARIABLES
    parts,      \* the directories: Profile, shared packages, Preset
    files,      \* active.json, manifest.json, operator-scope.json
    web,        \* package.json of the Web Profile
    patch,      \* the user's home patch
    tx,         \* the transaction directory
    before,     \* history: what the transaction found
    mutex, abandoned, lease,
    call,       \* each installer process
    host,       \* each Host process
    builds, edits, interrupts

disk == <<parts, files, web, tx>>
locks == <<mutex, abandoned, lease>>
bounds == <<builds, edits, interrupts>>
vars == <<disk, patch, before, locks, call, host, bounds>>

Parts == {"profile", "shared", "preset"}
Files == {"active", "manifest", "scope"}

(* reconcileHomePatch is mutateInstallation on an installation that exists, as upgrade is. *)
Operations == {"install", "upgrade", "uninstall", "recover"}

(* What buildCandidate writes into every path of one generation. *)
Candidate == [id : 1..MaxBuilds, inst : 1..MaxBuilds, gen : 1..MaxBuilds,
              version : Versions, patch : 0..MaxEdits]
Profile == [version : {0} \cup Versions, edits : 0..MaxEdits]

(* What a path holds: one of S, nothing, or a piece of one. *)
Path(S) == {Absent, Torn} \cup S
FilePath(f) == Path(IF f = "scope" THEN 1..MaxBuilds ELSE Candidate)

(* transaction.json, and the transaction directory with the backups in it. *)
Entry == [op : {"install", "upgrade", "uninstall"}, inst : Nat, gen : Nat,
          stage : {"open", "committed"}, had : SUBSET Parts, active : BOOLEAN,
          scope : BOOLEAN, touched : BOOLEAN, web : BOOLEAN]
Transaction == [journal : {Absent} \cup Entry, parts : [Parts -> {Absent} \cup Candidate],
                files : [Files -> Path(Candidate \cup 1..MaxBuilds)], web : {Absent} \cup Profile]

ASSUME PathAssumption ==
    /\ Absent \notin Candidate \cup Profile \cup Entry \cup Transaction
    /\ Torn \notin Candidate

Empty == [p \in Parts |-> Absent]
NoFiles == [f \in Files |-> Absent]
Nothing == [parts |-> Empty, files |-> NoFiles, web |-> Absent, patch |-> 0]
Idle == [at |-> "idle", op |-> "none", seen |-> Absent, next |-> Absent,
         web |-> Absent, plan |-> Absent, todo |-> <<>>]

Init ==
    /\ parts = Empty /\ files = NoFiles
    /\ web \in {Absent, [version |-> 0, edits |-> 0]}
    /\ patch = 0 /\ tx = Absent
    /\ before = Nothing
    /\ mutex = Nobody /\ abandoned = FALSE /\ lease = Nobody
    /\ call = [c \in Callers |-> Idle]
    /\ host = [h \in Hosts |-> "off"]
    /\ builds = 0 /\ edits = 0 /\ interrupts = 0

-----------------------------------------------------------------------------
(* validateInstallation                                                     *)

Readable(record) == record \notin {Absent, Torn}

Journalled == tx # Absent /\ tx.journal # Absent
Settled == tx # Absent => Journalled /\ tx.journal.stage = "committed"

Coherent(active) ==
    /\ Readable(active)
    /\ files["manifest"] = active
    /\ \A p \in Parts : parts[p] = active
    /\ web # Absent /\ web.version = active.version

Valid(active) == Coherent(active) /\ patch = active.patch

SameGeneration(a, b) ==
    \/ a = Absent /\ b = Absent
    \/ Readable(a) /\ Readable(b) /\ a.inst = b.inst /\ a.gen = b.gen

-----------------------------------------------------------------------------
(* The mutex, the lease and the calls                                       *)

Waiting(c) == call[c].at = "waiting"

(* Mutant: the lease is given back whoever holds it. *)
ReleasedForAll(c) ==
    /\ call' = [call EXCEPT ![c] = Idle]
    /\ mutex' = IF mutex = c THEN Nobody ELSE mutex
    /\ lease' = Nobody

Released(c) ==
    /\ call' = [call EXCEPT ![c] = Idle]
    /\ mutex' = IF mutex = c THEN Nobody ELSE mutex
    /\ lease' = IF lease = c THEN Nobody ELSE lease

(* The call ends, by a result or by an error: its finally block. *)
End(c) == Released(c) /\ UNCHANGED <<abandoned, patch, host, bounds>>
Leave(c) == End(c) /\ UNCHANGED before

(* What a command checks before it waits for the mutex. *)
Preflight(op) ==
    CASE op = "install" -> files["active"] = Absent
      [] op = "upgrade" -> Readable(files["active"])
      [] op = "uninstall" -> Coherent(files["active"]) /\ Settled
      [] OTHER -> TRUE

Start(c, op) ==
    /\ call[c].at = "idle" /\ Preflight(op)
    /\ call' = [call EXCEPT ![c] = [Idle EXCEPT !.at = "waiting", !.op = op,
                           !.seen = IF op = "recover" THEN Absent ELSE files["active"]]]
    /\ UNCHANGED <<disk, patch, before, locks, host, bounds>>

(* An abandoned mutex is given back at once and the call refused. *)
TakeMutex(c) ==
    /\ Waiting(c) /\ mutex = Nobody
    /\ abandoned' = FALSE
    /\ IF abandoned
       THEN call' = [call EXCEPT ![c] = Idle] /\ UNCHANGED mutex
       ELSE call' = [call EXCEPT ![c].at = "locked"] /\ mutex' = c
    /\ UNCHANGED <<disk, patch, before, lease, host, bounds>>

MutexTimeout(c) ==
    /\ Waiting(c) /\ mutex # Nobody
    /\ Leave(c) /\ UNCHANGED disk

(* Mutant: the lease is taken without looking. *)
LeaseUnchecked == TRUE

LeaseFree == lease = Nobody

TakeLease(c) ==
    /\ call[c].at = "locked"
    /\ IF LeaseFree
       THEN /\ lease' = c
            /\ call' = [call EXCEPT ![c].at = "leased"]
            /\ UNCHANGED <<disk, patch, before, mutex, abandoned, host, bounds>>
       ELSE Leave(c) /\ UNCHANGED disk

-----------------------------------------------------------------------------
(* The steps of a transaction                                               *)

MutationSteps ==
    << <<"journal", "home">>, <<"build", "home">>,
       <<"open", "active">>, <<"copy", "active">>, <<"open", "manifest">>, <<"copy", "manifest">>,
       <<"open", "scope">>, <<"copy", "scope">>, <<"keep", "web">>,
       <<"aside", "profile">>, <<"in", "profile">>, <<"aside", "shared">>, <<"in", "shared">>,
       <<"web", "home">>, <<"aside", "preset">>, <<"in", "preset">>,
       <<"write", "manifest">>, <<"write", "scope">>, <<"probe", "home">>,
       <<"activate", "home">>, <<"committed", "home">>, <<"remove", "home">> >>

RemovalSteps ==
    << <<"journal", "home">>,
       <<"open", "active">>, <<"copy", "active">>, <<"open", "manifest">>, <<"copy", "manifest">>,
       <<"open", "scope">>, <<"copy", "scope">>, <<"keep", "web">>, <<"web", "home">>,
       <<"aside", "shared">>, <<"aside", "profile">>, <<"aside", "preset">>,
       <<"unlink", "active">>, <<"unlink", "manifest">>, <<"unlink", "scope">>,
       <<"committed", "home">>, <<"remove", "home">> >>

RollbackSteps ==
    << <<"tear", "profile">>, <<"drop", "profile">>, <<"return", "profile">>,
       <<"tear", "shared">>, <<"drop", "shared">>, <<"return", "shared">>,
       <<"tear", "preset">>, <<"drop", "preset">>, <<"return", "preset">>,
       <<"back", "web">>, <<"back", "active">>, <<"back", "manifest">>, <<"back", "scope">>,
       <<"validate", "home">>, <<"remove", "home">> >>

CompletionSteps(op) ==
    IF op = "uninstall"
    THEN << <<"tear", "profile">>, <<"drop", "profile">>, <<"tear", "shared">>,
            <<"drop", "shared">>, <<"tear", "preset">>, <<"drop", "preset">>,
            <<"unlink", "manifest">>, <<"unlink", "scope">>, <<"remove", "home">> >>
    ELSE << <<"validate", "home">>, <<"remove", "home">> >>

At(c, verb, x) == call[c].todo # <<>> /\ Head(call[c].todo) = <<verb, x>>
Advance(c) ==
    /\ call' = [call EXCEPT ![c].todo = Tail(@)]
    /\ UNCHANGED <<locks, patch, before, host, bounds>>

-----------------------------------------------------------------------------
(* mutateInstallation and uninstall, up to the transaction directory        *)

Mutates(op) == op \in {"install", "upgrade"}

(* planProfileIntegrations: what package.json is to become, or a conflict. *)
Integrated(seen) == Readable(seen) /\ parts["profile"] # Absent
NoConflict(seen) ==
    IF Integrated(seen) THEN web # Absent => web.version = seen.version
    ELSE web # Absent => web.version = 0
Planned(op, version) ==
    IF op = "uninstall" THEN [web EXCEPT !.version = 0]
    ELSE [version |-> version, edits |-> IF web = Absent THEN 0 ELSE web.edits]

Unchanged(op, seen) ==
    IF Mutates(op)
    THEN /\ SameGeneration(files["active"], seen)
         /\ (parts["shared"] # Absent) <=> Integrated(seen)
         /\ NoConflict(seen)
    ELSE web # Absent /\ web.version = seen.version

NextCandidate(op, seen, version) ==
    [id |-> builds + 1,
     inst |-> IF seen = Absent THEN builds + 1 ELSE seen.inst,
     gen |-> IF seen = Absent THEN 1 ELSE seen.gen + 1,
     version |-> version, patch |-> 0]

Begin(c, version) ==
    LET op == call[c].op  seen == call[c].seen IN
    /\ call[c].at = "leased" /\ op # "recover"
    /\ op # "uninstall" => builds < MaxBuilds
    /\ op = "uninstall" => version = seen.version
    /\ tx = Absent /\ Unchanged(op, seen)
    /\ tx' = [journal |-> Absent, parts |-> Empty, files |-> NoFiles, web |-> Absent]
    /\ before' = [parts |-> parts, files |-> files, web |-> web, patch |-> patch]
    /\ builds' = IF Mutates(op) THEN builds + 1 ELSE builds
    /\ call' = [call EXCEPT ![c] = [call[c] EXCEPT
           !.at = "working", !.next = NextCandidate(op, seen, version),
           !.web = web, !.plan = Planned(op, version),
           !.todo = IF Mutates(op) THEN MutationSteps ELSE RemovalSteps]]
    /\ UNCHANGED <<parts, files, web, patch, locks, host, edits, interrupts>>

Refuse(c) ==
    /\ call[c].at = "leased"
    /\ IF call[c].op = "recover" THEN ~(Journalled /\ files["active"] # Torn)
       ELSE ~(tx = Absent /\ Unchanged(call[c].op, call[c].seen))
    /\ Leave(c) /\ UNCHANGED disk

-----------------------------------------------------------------------------
(* Their steps                                                              *)

Touched(c) == call[c].plan # call[c].web

WriteJournal(c) ==
    /\ At(c, "journal", "home")
    /\ tx' = [tx EXCEPT !.journal =
           [op |-> call[c].op, inst |-> call[c].next.inst, gen |-> call[c].next.gen,
            stage |-> "open",
            had |-> IF Mutates(call[c].op) THEN {p \in Parts : parts[p] # Absent}
                    ELSE {p \in Parts : p # "shared" \/ parts[p] # Absent},
            active |-> call[c].seen # Absent, scope |-> files["scope"] # Absent,
            touched |-> Touched(c), web |-> call[c].web # Absent]]
    /\ Advance(c) /\ UNCHANGED <<parts, files, web>>

(* snapshotHomePatch and buildCandidate; a scope of another installation is refused. *)
Build(c) ==
    /\ At(c, "build", "home")
    /\ IF files["scope"] \in {Absent, call[c].next.inst}
       THEN /\ call' = [call EXCEPT ![c] = [call[c] EXCEPT !.todo = Tail(call[c].todo),
                              !.next = [call[c].next EXCEPT !.patch = patch]]]
            /\ UNCHANGED <<locks, patch, before, host, bounds>>
       ELSE Leave(c)
    /\ UNCHANGED disk

(* copyFileIfPresent writes the copy in place: it can be left incomplete. *)
OpenCopy(c) ==
    \E f \in Files :
        /\ At(c, "open", f)
        /\ tx' = IF files[f] = Absent THEN tx ELSE [tx EXCEPT !.files = [tx.files EXCEPT ![f] = Torn]]
        /\ Advance(c) /\ UNCHANGED <<parts, files, web>>

FinishCopy(c) ==
    \E f \in Files :
        /\ At(c, "copy", f)
        /\ tx' = [tx EXCEPT !.files = [tx.files EXCEPT ![f] = files[f]]]
        /\ Advance(c) /\ UNCHANGED <<parts, files, web>>

(* assertProfilePlanUnchanged, then backupProfilePlan or publishProfilePlan. *)
PlanUnchanged(c) == Touched(c) => web = call[c].web

KeepProfile(c) ==
    /\ At(c, "keep", "web")
    /\ IF PlanUnchanged(c)
       THEN /\ tx' = IF Touched(c) THEN [tx EXCEPT !.web = web] ELSE tx
            /\ Advance(c)
       ELSE Leave(c) /\ UNCHANGED tx
    /\ UNCHANGED <<parts, files, web>>

PublishProfile(c) ==
    /\ At(c, "web", "home")
    /\ IF PlanUnchanged(c)
       THEN web' = (IF Touched(c) THEN call[c].plan ELSE web) /\ Advance(c)
       ELSE Leave(c) /\ UNCHANGED web
    /\ UNCHANGED <<parts, files, tx>>

MoveAside(c) ==
    \E p \in Parts :
        /\ At(c, "aside", p)
        /\ tx' = [tx EXCEPT !.parts = [tx.parts EXCEPT ![p] = parts[p]]]
        /\ parts' = [parts EXCEPT ![p] = Absent]
        /\ Advance(c) /\ UNCHANGED <<files, web>>

MoveIn(c) ==
    \E p \in Parts :
        /\ At(c, "in", p)
        /\ parts' = [parts EXCEPT ![p] = call[c].next]
        /\ Advance(c) /\ UNCHANGED <<files, web, tx>>

WriteFile(c) ==
    \E f \in Files :
        /\ At(c, "write", f)
        /\ files' = [files EXCEPT ![f] = IF f = "scope" THEN call[c].next.inst ELSE call[c].next]
        /\ Advance(c) /\ UNCHANGED <<parts, web, tx>>

(* assertHomePatchUnchanged, validateInstallation with the candidate, the probe
   of a Host under maintenance. *)
Probe(c) ==
    /\ At(c, "probe", "home")
    /\ IF patch = call[c].next.patch /\ Valid(call[c].next) THEN Advance(c) ELSE Leave(c)
    /\ UNCHANGED disk

Activate(c) ==
    /\ At(c, "activate", "home")
    /\ IF patch = call[c].next.patch
       THEN files' = [files EXCEPT !["active"] = call[c].next] /\ Advance(c)
       ELSE Leave(c) /\ UNCHANGED files
    /\ UNCHANGED <<parts, web, tx>>

Unlink(c) ==
    \E f \in Files :
        /\ At(c, "unlink", f)
        /\ files' = [files EXCEPT ![f] = Absent]
        /\ Advance(c) /\ UNCHANGED <<parts, web, tx>>

MarkCommitted(c) ==
    /\ At(c, "committed", "home")
    /\ tx' = [tx EXCEPT !.journal = [tx.journal EXCEPT !.stage = "committed"]]
    /\ Advance(c) /\ UNCHANGED <<parts, files, web>>

(* removeTree deletes entry by entry, in no promised order. *)
RemoveTransaction(c) ==
    /\ At(c, "remove", "home")
    /\ \/ tx' = Absent /\ before' = Nothing /\ End(c)
       \/ /\ tx.journal # Absent
          /\ tx' = [tx EXCEPT !.journal = Absent]
          /\ UNCHANGED <<call, locks, patch, before, host, bounds>>
       \/ /\ tx.files # NoFiles
          /\ tx' = [tx EXCEPT !.parts = Empty, !.files = NoFiles, !.web = Absent]
          /\ UNCHANGED <<call, locks, patch, before, host, bounds>>
    /\ UNCHANGED <<parts, files, web>>

-----------------------------------------------------------------------------
(* recover                                                                  *)

(* Mutant: the journal's stage decides, not the activation record. *)
CommittedByStage == tx.journal.stage = "committed"

Committed ==
    IF tx.journal.op = "uninstall" THEN files["active"] = Absent
    ELSE /\ Readable(files["active"])
         /\ files["active"].inst = tx.journal.inst /\ files["active"].gen = tx.journal.gen

Recover(c) ==
    /\ call[c].at = "leased" /\ call[c].op = "recover"
    /\ Journalled /\ files["active"] # Torn
    /\ call' = [call EXCEPT ![c] = [call[c] EXCEPT !.at = "working",
           !.todo = IF Committed THEN CompletionSteps(tx.journal.op) ELSE RollbackSteps]]
    /\ UNCHANGED <<disk, patch, before, locks, host, bounds>>

Completing == Committed

(* Mutant: whatever is at the target is removed. *)
KeepsNothing(p) == FALSE

(* restoreDirectory keeps a target that existed and was never moved aside. *)
Keeps(p) == ~Completing /\ p \in tx.journal.had /\ tx.parts[p] = Absent

Tear(c) ==
    \E p \in Parts :
        /\ At(c, "tear", p)
        /\ parts' = IF Keeps(p) \/ parts[p] = Absent THEN parts ELSE [parts EXCEPT ![p] = Torn]
        /\ Advance(c) /\ UNCHANGED <<files, web, tx>>

Drop(c) ==
    \E p \in Parts :
        /\ At(c, "drop", p)
        /\ parts' = IF Keeps(p) THEN parts ELSE [parts EXCEPT ![p] = Absent]
        /\ Advance(c) /\ UNCHANGED <<files, web, tx>>

Return(c) ==
    \E p \in Parts :
        /\ At(c, "return", p)
        /\ IF p \in tx.journal.had /\ tx.parts[p] = Absent /\ parts[p] = Absent
           THEN Leave(c) /\ UNCHANGED <<parts, tx>>
           ELSE /\ parts' = IF tx.parts[p] = Absent THEN parts
                            ELSE [parts EXCEPT ![p] = tx.parts[p]]
                /\ tx' = [tx EXCEPT !.parts = [tx.parts EXCEPT ![p] = Absent]]
                /\ Advance(c)
        /\ UNCHANGED <<files, web>>

Had(f) == IF f = "scope" THEN tx.journal.scope ELSE tx.journal.active

(* restoreFile: what a path becomes, from its backup if there is one. *)
Restored(target, backup, had) ==
    IF backup # Absent THEN backup ELSE IF had THEN target ELSE Absent

RestoreFile(c) ==
    \E f \in Files :
        /\ At(c, "back", f)
        /\ IF Had(f) /\ tx.files[f] = Absent /\ files[f] = Absent
           THEN Leave(c) /\ UNCHANGED files
           ELSE /\ files' = [files EXCEPT ![f] = Restored(files[f], tx.files[f], Had(f))]
                /\ Advance(c)
        /\ UNCHANGED <<parts, web, tx>>

RestoreProfile(c) ==
    /\ At(c, "back", "web")
    /\ web' = IF tx.journal.touched THEN Restored(web, tx.web, tx.journal.web) ELSE web
    /\ Advance(c) /\ UNCHANGED <<parts, files, tx>>

(* The restored or completed generation must validate, else the transaction stays. *)
Accepted == (~Committed /\ ~tx.journal.active) \/ Valid(files["active"])

Validate(c) ==
    /\ At(c, "validate", "home")
    /\ IF Accepted THEN Advance(c) ELSE Leave(c)
    /\ UNCHANGED disk

(* A crash, or an error of the disk or of a probe, at any moment of a call. *)
Interrupt(c) ==
    /\ call[c].at # "idle" /\ interrupts < MaxInterrupts
    /\ interrupts' = interrupts + 1
    /\ Released(c)
    /\ abandoned' \in {abandoned, mutex = c}
    /\ abandoned' => \E d \in Callers \ {c} : Waiting(d)
    /\ UNCHANGED <<disk, patch, before, host, builds, edits>>

-----------------------------------------------------------------------------
(* The Host and the user                                                    *)

(* The guard validates, then the runtime lease is taken: two steps. *)
Admit(h) ==
    /\ host[h] = "off"
    /\ Valid(files["active"]) /\ Settled /\ files["scope"] = files["active"].inst
    /\ host' = [host EXCEPT ![h] = "admitted"]
    /\ UNCHANGED <<disk, patch, before, locks, call, bounds>>

HostLease(h) ==
    /\ host[h] = "admitted"
    /\ IF LeaseFree THEN lease' = h /\ host' = [host EXCEPT ![h] = "running"]
       ELSE host' = [host EXCEPT ![h] = "off"] /\ UNCHANGED lease
    /\ UNCHANGED <<disk, patch, before, mutex, abandoned, call, bounds>>

(* The Host ends, crashes, or its poll finds the installation invalid. *)
Stop(h) ==
    /\ host[h] # "off"
    /\ host' = [host EXCEPT ![h] = "off"]
    /\ lease' = IF lease = h THEN Nobody ELSE lease
    /\ UNCHANGED <<disk, patch, before, mutex, abandoned, call, bounds>>

Edit ==
    /\ edits < MaxEdits /\ edits' = edits + 1
    /\ \/ patch' \in 0..MaxEdits \ {patch} /\ UNCHANGED web
       \/ /\ web # Absent /\ web.edits < MaxEdits
          /\ web' = [web EXCEPT !.edits = @ + 1] /\ UNCHANGED patch
    /\ UNCHANGED <<parts, files, tx, before, locks, call, host, builds, interrupts>>

Step(c) ==
    \/ TakeMutex(c) \/ MutexTimeout(c) \/ TakeLease(c) \/ Refuse(c)
    \/ \E v \in Versions : Begin(c, v)
    \/ WriteJournal(c) \/ Build(c) \/ OpenCopy(c) \/ FinishCopy(c)
    \/ KeepProfile(c) \/ PublishProfile(c) \/ MoveAside(c) \/ MoveIn(c) \/ WriteFile(c)
    \/ Probe(c) \/ Activate(c) \/ Unlink(c) \/ MarkCommitted(c) \/ RemoveTransaction(c)
    \/ Recover(c) \/ Tear(c) \/ Drop(c) \/ Return(c) \/ RestoreFile(c)
    \/ RestoreProfile(c) \/ Validate(c)

Next ==
    \/ \E c \in Callers : Step(c) \/ Interrupt(c) \/ \E op \in Operations : Start(c, op)
    \/ \E h \in Hosts : Admit(h) \/ HostLease(h) \/ Stop(h)
    \/ Edit

Spec == Init /\ [][Next]_vars

-----------------------------------------------------------------------------
(* Properties                                                               *)

(* Every path holds a candidate, nothing, or a piece of one, and a backup of a
   directory is whole; who works holds the mutex and the lease. *)
TypeOK ==
    /\ parts \in [Parts -> Path(Candidate)]
    /\ \A f \in Files : files[f] \in FilePath(f)
    /\ web \in {Absent} \cup Profile /\ patch \in 0..MaxEdits
    /\ tx # Absent => /\ tx.journal \in {Absent} \cup Entry
                      /\ tx.parts \in [Parts -> {Absent} \cup Candidate]
                      /\ tx.web \in {Absent} \cup Profile
                      /\ \A f \in Files : tx.files[f] \in FilePath(f)
    /\ mutex \in Callers \cup {Nobody} /\ lease \in Callers \cup Hosts \cup {Nobody}
    /\ \A c \in Callers : call[c].at \in {"leased", "working"} => mutex = c /\ lease = c
    /\ \A h \in Hosts : host[h] = "running" => lease = h

RolledBackPart(p) ==
    IF p \in tx.journal.had THEN Restored(parts[p], tx.parts[p], TRUE) ELSE Absent
RolledBackFile(f) == Restored(files[f], tx.files[f], Had(f))
RolledBackProfile ==
    IF tx.journal.touched THEN Restored(web, tx.web, tx.journal.web) ELSE web

(* At every moment of a journalled transaction and of its recovery, however
   often interrupted: before the activation record changed, rolling back gives
   exactly what the transaction found, except that a file whose backup copy was
   interrupted may come back incomplete; afterwards the new generation is whole. *)
OnlyTornCopiesAreLost ==
    Journalled =>
        IF Committed
        THEN tx.journal.op # "uninstall" => Coherent(files["active"])
        ELSE /\ \A p \in Parts : RolledBackPart(p) = before.parts[p]
             /\ \A f \in Files : RolledBackFile(f) \in {Torn, before.files[f]}
             /\ (RolledBackProfile = Absent) <=> (before.web = Absent)
             /\ before.web # Absent => /\ RolledBackProfile.version = before.web.version
                                       /\ RolledBackProfile.edits >= before.web.edits

(* docs/installation-and-operations.md:175 "either rolls back the incomplete
   generation or completes a generation whose activation commit was durable". *)
RecoveryRollsBackOrCompletes ==
    \A c \in Callers : At(c, "validate", "home") =>
        \/ parts = before.parts /\ files = before.files
        \/ Coherent(files["active"])

(* The installation Hosts are admitted to goes to the next generation, to
   nothing or, from nothing, to a new installation, and never back, whatever is
   interrupted and recovered. *)
ActivationNeverGoesBack ==
    [][LET old == files["active"]  new == files'["active"] IN
       new # old /\ new # Torn /\ old # Torn =>
           \/ new = Absent
           \/ old = Absent /\ new.gen = 1
           \/ old # Absent /\ new.inst = old.inst /\ new.gen = old.gen + 1]_vars

(* While a Host runs, no installer touches what it was loaded from. *)
RunningHostsKeepTheirFiles ==
    [][\A h \in Hosts : host[h] = "running" => UNCHANGED <<parts, files, tx>>]_vars

(* A recovery that is not itself interrupted ends the transaction, by rolling
   it back or by completing it, when the user changed nothing meanwhile. *)
RecoveryEndsTheTransaction ==
    \A c \in Callers : At(c, "validate", "home") /\ patch = before.patch => Accepted
=============================================================================
