# TLA+ models of GeoResearch for DeepSeek Harness

GeoResearch keeps research Projects as typed, versioned records on disk and lets
several sessions, processes and child agents work on them. This directory holds
TLA+ models of the parts of it whose correctness depends on the order of steps:
the Project's event log and its locks, operations that are retried under one key,
formal runs of external processes, Artifacts with their stored content, the
installation and its transactions, the authority chain from evidence to manuscripts,
and the continuation tokens of literature searches. TLC
checks the models on small instances. TLAPS proves every safety property that the
passing runs check, for every value of the constants (any number of callers, processes,
events, crashes), and that the store, the operation records and
the search chains implement their abstract promises.

All paths below are relative to `src/packages/`.

## 1. The system

### Components, their state and operations

| Component | State it keeps | Operations that change it | What makes it correct |
| --- | --- | --- | --- |
| **Project store** `project-provider-files/src/store.ts`, `atomic.ts`, `reducer.ts` | `events.jsonl` (append-only, each line carries its number and its predecessor's digest), `state.json` (the reduction of the log), one promise chain per process and Project, a named mutex between processes | `createProject`, `load`, `commit`, `withMutationLease`, `recover` | The log stays readable and is never rewritten; the snapshot is a prefix of it; what a caller was given survives; a commit extends the state its caller validated; nobody waits for a call that is over |
| **Operation records** `store.ts` | one JSON record per operation key, a mutex per key, a process-wide set of live keys | `executeOperation`, its recovery, the Recovery Scan's sweep | Committed again only where its effect was undone and nobody answered, the same answer to every retry, one live call per key |
| **Objects, Artifacts, deliverables** `artifact.ts`, `reducer.ts`, `project-service/src/index.ts` | content-addressed objects, the Artifacts of the ProjectState, files under `deliverables/` | `artifact_commit`, uploads and their rollback, `deliverable_publish` and its recovery, drift, orphan collection | A committed Artifact's content is stored; one current deliverable per path; a file is replaced only by a caller who named its digest |
| **Platform mutexes and paths** `win32.ts`, `paths.ts` | named mutex (Windows), socket (POSIX) | acquire, release | One owner; abandonment is reported |
| **Run coordinator** `run-service/src/index.ts` | the RunRecord in the Project, `pending` completions and timeouts in memory | `submitFormalRun`, `runLocalTest`, `status`, `cancel`, operation recovery, `reconcileAll` at startup | A run becomes terminal once, with evidence; no run is forgotten |
| **Run supervisor** `run-supervisor/src/index.ts` | launch intent, launch receipt and exit marker on disk, the `active` map, the operating-system process | `launch`, `collect`, `cancel`, `reconcile` | Without a crash no unidentified process is left running; the exit marker is the evidence |
| **project-service** | Workspace binding; commits of every typed record | attach, rebind, `commitXxx` | Records refer to records that exist and are current |
| **runtime-lease** | one lease per DSH home | acquire, release | One runtime or installer at a time |
| **provider-lifecycle** | admission and drain of provider calls | admit, drain, dispose | Nothing admitted after the drain |
| **installer** `transaction.ts`, `mutex.ts`, `filesystem.ts`, `profile-integration.ts` | journal, backups, staged candidate, three managed directories, `active.json`, `manifest.json`, `operator-scope.json`, the Web Profile's `package.json` | install, upgrade, reconcile, uninstall, recover | A crash leaves the old or the new generation recoverable (but see finding 5); a durable activation is never undone |
| **installation-guard** `index.ts`, `validation.ts` | none of its own; a timer | admit the Host, revalidate it | A Host runs only on a coherent installation that nobody changes under it |
| **evidence-service** `store.ts`, `coordinator.ts` | per Project one `store.json`: chains, continuations, advance outcomes, credential bindings; PDF receipts | search, continue, recover; read, verify | One answer per token, no item twice in a chain, no new request to the provider once its outcome is recorded |
| **validation, claim, writing services** | ValidationReports, ReviewRecords, Claims, packets, manuscripts | validate, review, commit a claim (with approval), build a packet, audit | Status rests on an active review; a claim is written about only while its support is current and uncontested |
| **experiment, reproduction services** | frozen specs and amendments, plans, TestSpecs, reports | freeze, amend, plan, report | Records bound to one Workspace version |
| **agent-lifecycle, delegation-tools, policy-service** | delegations in memory, role of a session | delegate, bootstrap, resume, authorize | A role calls only its own tools |
| **file-service, evidence-/repository-/geospatial providers** | caches, checkouts, external helpers | conversions and I/O | Mostly data conversion |
| **contracts, bundle, compatibility, prompt** | none | parsers, wiring | Types |

### How they interact

Tool handlers call a service; the service wraps the call in `executeOperation`
under an operation key; its action loads the Project, validates, and commits
through `commit` (compare-and-swap on the generation) or inside
`withMutationLease`. The Project mutex is therefore taken *inside* the operation
mutex; a Recovery Scan takes them the other way round. The run coordinator commits
RunRecords with the same compare-and-swap in a retry loop while the supervisor's
completion, a timeout, callers of `run_status` / `run_cancel` and the startup
reconciliation drive the same record. Objects are written outside the Project
mutex, before the event that refers to them; the Recovery Scan removes aged ones
that nothing refers to.

The authority chain is a sequence of such commits; a claim waits for the user's
approval between its assessment and its commit, and a manuscript is audited on one load
of the Project and committed on a later one. The evidence coordinator keeps its
continuations in a file of its own under the Project mutex, one transaction per method,
and awaits the provider between them. The installer and the Host meet at the runtime
lease: the guard validates the installation, then takes the lease; the installer takes
its mutex, then the lease, then changes the files.

### What is hard

* A Windows mutex belongs to a thread, so it does not exclude two calls of one
  Node process; a promise chain does. Both together must exclude.
* Node awaits between almost all steps: what was read before an await may be stale.
* Every disk step may fail part way or be the last before a crash; an `fsync` may
  report failure after the bytes are there; `WAIT_ABANDONED` tells one acquirer only.
* Retries of an operation race its first call, its recovery and the sweep.
* External processes outlive the Host that started them.
* An installation is a dozen renames and copies in several directories; recovery has
  only the journal and the backups to tell how far it came, and may be interrupted too.
* A reservation is taken over when its lease ends, while the first holder's response is
  still under way.
* Reviews supersede reviews, records are immutable, and what a claim may be used for is
  computed again at each use: from current state, or from what the record says.

`PROJECT.json` lists the hazards line by line, with the properties that cover them.

## 2. Modules and their correspondence with the code

`PROJECT.json` ("map") names the source lines of every definition that models code.

| Module | Models |
| --- | --- |
| `ProjectHistory` | The abstract promise of the store: one history that only grows; callers are handed it as it is; a commit extends the history its caller knows, or is made under an exclusive lease. |
| `ProjectStore` | `store.ts` over the files. `events`/`tail`/`snapshot` are the two files, `chain` the promise chains, `owner`/`abandoned` the mutex, `pc` the point between two awaits. `Scan`, `Rebuild` are `readConsistentLocked`; `AppendEvent`, `Publish` are `commitLocked`; the `...Fails` actions are writes that stop part way or throw after they landed; `Crash` may fall between any two. |
| `ProjectStoreProofs` | Its inductive invariant and theorems, and the proof that every step of `ProjectStore` is a step of `ProjectHistory` or a stutter. |
| `IdempotentOperation` | The abstract promise of an operation key: it belongs to the first request made under it, the operation never takes effect where its effect stands nor after an answer, and everybody who is given a result is given the same one, for that request, after the effect. |
| `Operations` | `executeOperation` for one key: `Begin` to `Unlock` is one call, `Sweep...` the record part of `recoverLocked`. `reentrant` says which platform's mutex it is. The action of the operation is the commit of one event; its recovery commits it again unless what it is to bring about stands in the Project (`stands`), as `publishDeliverable` asks whether the Artifact is current; others undo or bring about that effect at any time. A first write torn by a crash stays torn: no retry gets past it, and a sweep that reads it throws. |
| `RunLifecycle` | One run: `Submit` ... `Track` is a submission (intent, spawn, creation time, receipt, active map, `running`, `pending`), `BuildMarker` ... `Complete` the collector, `Join`, `AwaitExit` the reclaiming of a launch that failed (it may fail too), `Finalize` the tracked completion, `Call`/`Continue` what `run_status`, `run_cancel`, recovery and startup do, `Transition` the compare-and-swap loop of `transition()`. |
| `ArtifactStore` | One path and its contents: snapshots and uploads (`Ingest`, `Verify`, commits), publications (`EnterLease` ... `Publish`, with the recovery as the `re...` steps), rollback, drift, the orphan collection and a user who edits the file. |
| `Installation` | One DSH home: `parts`, `files`, `web` are what is installed, `tx` the transaction directory with its journal, backups and candidate, `call[c].todo` the stages an installer process has left. `Start` ... `TakeLease` come before the transaction, `Begin`, `WriteJournal`, `Build` open it, the step kinds (`OpenCopy`, `MoveAside`, `MoveIn`, `WriteFile`, `Activate`, ...) carry it out, `RollbackSteps` and `CompletionSteps` are the two ways of `recover`. A failed step ends the command and leaves its transaction for `recover`, as a crash does (`Interrupt`); either may fall between any two steps and inside a copy or a removal. `Admit`, `HostLease`, `Stop` are the guard. |
| `Authority` | The chain evidence/result, report, review, claim, packet, manuscript. `SupportState` is `assessClaimSupport`, `Eligible` is `claimEligibleForWriting`, `Review` is `assertReviewRecordAuthority` with the reducer's effect, `Ask`/`Answer`/`Commit` are a claim that waits for the user, `Audit` and `CommitManuscript` are the two halves of `manuscript_validate`. Any other commit that succeeds is one step with its load, which `CommitsExtendValidatedState` of `ProjectStore` justifies. |
| `PagedSearch` | The abstract promise of a literature search: one sequence of results within the limit, each going on where the one before ended, with no item twice and the totals it reports; every answer is one of them. |
| `Continuations` | One search chain. Every method of the store is one action; `flight[f].at` is the coordinator's await between two of them. `ReservationCase` is the order of `reserve`'s checks. `LeaseEnds`, `TokenExpires`, `Rotate` are time and the user's configuration; `Crash` ends a call anywhere. |
| `OperationsProofs` | Its inductive invariant and theorems, and the proof that every step of `Operations` is a step of `IdempotentOperation` or a stutter. |
| `RunLifecycleProofs`, `ArtifactStoreProofs`, `InstallationProofs`, `AuthorityProofs` | The inductive invariant and the theorems of each. |
| `ContinuationsProofs` | Its inductive invariant and theorems, and the proof that every step of `Continuations` is a step of `PagedSearch` or a stutter. |
| `RecoveryProofs` | On top of `InstallationProofs`: what is on the disk under every transaction and recovery of the installer. |
| `MC...` | Instances for TLC. |

Conventions. An event's digest is its place in the order of all digests ever
computed (`minted`), so that two digests are equal only if the events are. The
reducer's state is the sequence of the digests it was reduced from: two states are
equal exactly if they come from the same log. A line of the log is whole, whole
without its newline, or torn. Data the properties do not tell apart (payloads of
events, texts of errors, schemas) is left out; error codes are kept where a
property is about them.

## 3. Runs

Bounds are CONSTANTS of the modules, given in the `.cfg` of the run.

| Run | Question and result | Bounds, and why they are enough |
| --- | --- | --- |
| `store_safety` | Do crashes and failed writes ever make the log unreadable, the snapshot run ahead, a returned state vanish, or an intact Project be reported corrupt? Does a commit extend what its caller validated? Does a call ever wait, in a promise chain or at the mutex, for one that is over? Does the store implement `ProjectHistory`? All holds. | Three callers, two in one process (only the chain separates them, and one waits behind the other) and one in another (only the mutex does); two digested events (a creation and a commit, or a failed one and its repetition); one crash; any number of failed writes. Proved without bounds (section 4), as are the safety properties of the runs below unless that section says otherwise. |
| `operations` | Does the key implement `IdempotentOperation` (one request, one answer, no effect where it stands or after an answer); is what was answered recorded; does one call run at a time; and does every call return, although an operation takes its mutex and then the Project's and a scan the other way round? Holds: the sweep tries and skips. | Two calls in one process and one in another, two request digests under the key, one crash (which is enough for a record in any of its states to be found by a retry, a recovery or a sweep), any number of failed writes, one change of the Project meanwhile; both kinds of mutex (chosen in `Init`). |
| `run_lifecycle` | Terminal records final, verdicts with evidence, no process behind a verdict unless its launch and its reclaiming both failed, no unidentified process without a crash; without failures and torn receipts every recorded run becomes terminal, across crashes. Holds. | One submission, one caller at a time beside the startup reconciliation (each may call any number of times, one after the other), two Host crashes, two failures (a launch and the reclaiming of its process). |
| `run_timed` | A sentence of the documents the code does not keep; see Findings. | No crashes, no failures. |
| `artifacts_safety` | Deliverables keep their content, one is current per path, what a publication left in the file is accounted for, no publication silently replaces another. Holds. | Two calls of any kind, two contents, two interruptions, two edits, drift while the generation is below three. |
| `artifacts_orphan` | A promise the code does not keep; see Findings. | Two calls. |
| `installation` | Until the activation, would a rollback bring back what the transaction found, and is the new generation whole after it; is a durable activation ever undone; does anybody change files under a running Host? Holds, except that a file of which a copy was interrupted may come back incomplete (finding 5). | Two installer processes, one Host, two versions, two candidates, one edit by the user (the home patch or the Web Profile), two interruptions: one of the transaction and one of its recovery. |
| `install_recover` | Recovery ends the transaction. It does not; see Findings. | One installer, one version, one edit, one interruption. |
| `install_torn` | Recovery brings back the old generation or completes the new one. It does not; see Findings. | One installer, one version, one interruption. |
| `authority` | Does a status rest on an active review, is an eligible claim uncontested, is an approved claim eligible when it is recorded, is a manuscript validated on the state it is committed on, although its audit read an earlier one? Holds. | One evidence, one result, three claim types, two reports, two reviews, one claim, one packet, one manuscript, a writer whose audit waits, one change from outside, five commits: enough for an audit of an eligible claim (validate, review, claim, packet) with one event between the audit and its commit, and for each shorter chain with an event at any place. The theorems cover every bound. |
| `authority_claims` | Do supporting claims stay eligible? They do not; see Findings. | Two pieces of evidence, two claims, seven commits. |
| `continuations` | Does a chain implement `PagedSearch` (results in order, one answer per continuation); no item twice, late responses rejected, the issuing credential, no request after an outcome but those superseded before it. Holds. | Two calls in progress, two operation keys, two items (the chain's limit), two continuations, three reservations of each (first holder, a takeover, a recovery), one rotation, four calls. |

Symmetry is used only where no liveness property is checked: callers of one process
in `store_safety`, calls and contents in `artifacts_safety`, flights, keys and items in
`continuations`, the evidence in `authority_claims`. `CHECK_DEADLOCK FALSE` is set for
`RunLifecycle`, `ArtifactStore`, `Installation`, `Authority` and `Continuations`, where
the system is at rest when a run is terminal and nobody calls, when every call is over,
or when the bounds on calls and commits are reached; in `ProjectStore` and
`Operations` a caller may always call again and deadlock is checked. Every property
has a mutant in `PROJECT.json`: a plausible bug in a modelled definition that
makes TLC find it violated.

### Fairness

* `ProjectStore`: none. Liveness of three callers, two in one chain, is too large for a
  temporal check, and one caller per process never waits in a chain; what is checked, and
  proved, is that no call waits for one that is over (`NobodyWaitsForTheGone`).
* `Operations`: weak fairness of a call's and a sweep's next step, and strong
  fairness of entering the Project mutex: the promise chain of a process is first
  in, first out, and waiting for another process times out.
* `RunLifecycle`: weak fairness of the launch, the collector, the completion, the
  timer of a tracked run and each reconciliation; a process that was told to end
  ends; a Host that went down is started again. Nothing makes a process end by itself.

No fairness is assumed of callers, users, crashes or failures.

### Assumptions about the environment

* A process that was told to end ends, sooner or later; telling it to end, or waiting for
  it, may fail. Processes survive the crash of the Host.
* `orphanGraceMs` (an hour) outlasts a call: no object ages between its ingest and the
  end of the call that relies on it. `artifacts_orphan` is the case of an object
  that had aged *before* the call.
* A Windows mutex may be acquired again by its owner's thread, and waiting for one
  blocks the event loop; both are as `win32.ts` calls the system.
* Two events have different digests, and so have two fences and two tokens.
* Renames and writes through `atomic.ts` are atomic; copies and removals of directories
  are not, and leave any part behind when they are interrupted.
* Only the installer, the Host and the user's edits of the home patch and the Web Profile
  change the files under the DSH home.

## 4. Proofs

Every theorem follows from the specification and the named assumptions on the constants
of its module (`StoreAssumption`, `NoStateAssumption`, ...): model values that stand for
"nobody" or "nothing" differ from what they stand beside, bounds are numbers. No bound is
small. Each invariant below is inductive and was checked by TLC, without the conjuncts that
quantify over all sets, on the run's instance;
each proof has one lemma per action, or per kind of step, and the theorems follow from
the invariant and the step lemmas by temporal logic.

**`ProjectStoreProofs`**: `TypeCorrect`, `LogStaysReadable`, `SnapshotNeverAhead`,
`ReturnedStatesDurable`, `CorruptionNeverFalse`, `Exclusion`, `CompareAndSwap`,
`NobodyLeftWaiting`. None of
the invariants is inductive alone. That a commit leaves the log chained needs to know that
the state it extends is what the log *still* says, which needs mutual exclusion; mutual
exclusion needs the shape of the promise chains. `IInv` is:

* `ChainOK`: a chain holds distinct waiting or running calls of its own process, and
  only its head runs;
* `HoldingOK`: a call past the mutex runs in the owner and is the head of its chain.
  Two such calls share the owner, hence the chain, hence are one (`OneHolder`);
* `RequestOK`: which request can be at which step;
* `CurrentOK`: what the running call has read is the reduction of the log as it is,
  and after a scan the tail of the log is not torn;
* the invariants of the runs themselves.

`CommitStep` is the core: reducing the new event onto what was read gives the state the
longer log leads to. `CompareAndSwap` follows from `IInv`: a state the store returned is a
prefix of the log (`ReturnedStatesPersist`), and a prefix with the generation of the whole
is the whole.

In the same module, `Refinement`: every step of the store is one of `ProjectHistory` or a
stutter. The history is the log, the lease is held by the
single holder whose request is a lease. Each disk step is one step of the history or a
stutter: the append is the commit (`CommitGuarded` of the abstract module holds by
`CompareAndSwap` or by the lease), the answer to a caller is the abstract read, and locks,
scans, snapshots and failures change nothing the history shows.

**`OperationsProofs`**: `AnswersKept`, `ReplayIsExact`, `OneCallAtATime`,
`Refinement`, `AnsweredFinal`. The invariant says who may be past the operation mutex,
and of the call that is, what its record says at each step. The sweep can share a
re-entrant mutex with a later call of its own process; it is the record that keeps them
apart: such a call finds it live or writes it after the sweep has tried.

For `Refinement` the key belongs to the request whose digest the record holds. `OnceOK`, on
top of that invariant, says what results there may be, that a record without a completed
first write belongs to nobody, and that a call about to record its failure asked for what the
record says (the sweep, which may rewrite the record meanwhile, keeps its digest). Then the first
write of the record is `Bind`, the commit of the action or of its recovery is `Apply`, or
`Find` where the effect stands, a lost result is `Lose`, what others commit is `Others`, the
return of a result is `Answer`; errors, retries, interruptions, crashes and sweeps change
nothing the caller of a key can see. `AnsweredFinal`: once a caller was given the result, no
step changes the record or commits again.

**`RunLifecycleProofs`**: `VerdictsEvidenced`, `NoProcessLeft`, `Identified`,
`EvidenceFinal`, `TerminalFinal`. A run is launched at most once; the marker is written
once, after the exit; every verdict still on its way to the record (a collector's, a
cancel's, a reconciliation's) was read from that marker or belongs to a launch that
failed and was joined or could not be; and the compare-and-swap loop never writes over a terminal
record.

**`ArtifactStoreProofs`**: `DeliverablesStored`, `OneIsCurrent`, `FileAccounted`,
`PublicationsKept`. What a publication compared and wrote stays so while it holds the
lease, except for the user's edits; the collection removes objects only while nobody can
commit, and only objects to which the state it began with does not refer.

**`InstallationProofs`**: `Exclusion`, `HostsUndisturbed`, `ActivationOnward`. `IInv` is the
locks: a call past the mutex holds it, a call past the lease holds that too, and only such a
call has steps left. `ActiveInv` is about the activation record. `Backed` says that until the
transaction is committed the backup of the record is missing, incomplete or equal to the
record; hence a rollback cannot bring an older one back. For that, `Work` tells what a call
that still has a step knows: a candidate to be activated follows the record, the journal
describes the candidate, a record is restored only while the journal is not committed. The
order of the steps carries the argument, so `Shape` states the places of the five steps that
matter (the journal first, the activation third from the end, ...) and is proved of the four
step lists and preserved as they are worked off. An incomplete (`Torn`) record, left by the
interruption of a copy, is outside this property as in the run.

**`RecoveryProofs`**: `TypeCorrect`, `OnlyTornLost`, `CleanWithoutJournal`, `Restoration`,
`OnlyDriftRefuses`. `OnlyTornCopiesAreLost` compares what a rollback would bring back with
`before`, which only `Begin` sets; it is far from inductive, since one backup that is moved
too early, or one directory removed before its backup is there, breaks it many steps later.
`RecoveryInv`, on top of `IInv` and `ActiveInv`, is:

* `Types`, `Owners`: the types of the disk, of the journal and of the backups;
* `Disk`, which needs no call: without a transaction the home is `Clean` (nothing
  installed, or one generation whole); under a journal, the home is `Finished` once the
  activation record says so, and `Reversible` until then: each path is as it was found or
  its backup is, and the journal says which paths there were. This is what a crash leaves
  and the next recovery finds;
* `Carries`: what each call has done. Its remaining steps are the end of one of the five
  lists (`Rest`), so its place in the list (`Turn`) says of each directory, file and the Web
  Profile whether it is as found, copied, moved aside or replaced (`PartSaved`, `FileSaved`,
  `WebSaved`, `Removed`, `Undone`, `Cleared`); the last step, which removes the transaction,
  finds the home clean;
* `Saw`: what a command knew before it waited for the mutex.

An interruption only drops what a call carries, so `Disk` must follow from `Carries` at every
place of every list; a recovery is entered from `Disk` alone, whatever a first recovery has
already done. A step of a transaction is then one lemma: it moves `Turn` by one and changes
one path. Three theorems say what no run states: without a transaction directory the home
holds one whole generation or none (`CleanWithoutJournal`); at its validation, a rollback has
put back exactly the directories, the files and the Web Profile that were found, with the
user's edits since (`Restoration`); and the drift of the home patch is the only reason for
which recovery refuses an installation whose copies are whole (`OnlyDriftRefuses`, the other
side of finding 3).

**`AuthorityProofs`**: `StatusReviewed`, `EligibleUncontested`, `ApprovedEligible`,
`ValidatedCurrent`. Records are only appended; reviews supersede only reviews of the same
subject; the generation counts every append, so that a claim whose generation still matches
when its user answers was assessed on the very state it is committed on, and so was a
manuscript audited (`AnsweredIsReassessed`, `AuditedIsTrue`).

**`ContinuationsProofs`**: `Refinement`, `AnsweredOnce`, `NoItemTwice`,
`SupersededRejected`, `CredentialKept`, `OutcomeEndsAsking`. At most one continuation of
a chain is unspent, and only spending it changes what the chain has returned; what the
holder of a reservation read of the chain is therefore what the chain still says.
Credential secrets differ by epoch.

For `Refinement` the abstract sequence is what the chain handed out: the first result and
the results that spent its tokens. `SearchOK`, on top of that invariant, says that the chain
has seen exactly the items of these, and that the one unspent continuation follows the last
of them, whose totals the chain has. Every step is then one of three: the first commit and
the spending of a continuation (by its holder, a late caller's `reserve` or a recovery) hand
out the next result, and every other step hands out nothing and answers, if at all, with
what was handed out before.

Only model-checked: the liveness properties (`CallsReturn`, `RunsFinish`),
which are beyond the prover, as is what fairness enables. Every other property of a passing
run is a theorem. The properties of the runs that expect a violation do not hold.

## 5. Findings

Each is checked by a run that expects a violation; `PROJECT.json` quotes the text.

1. `run_timed`: `run_status` during a launch reconciles the run (it is not in `pending`
   yet) to `recovery-required`; the launch then finds the record terminal and tracks
   neither completion nor timeout of its live process.
2. `artifacts_orphan`: an object that is already an aged orphan is relied on without
   being renewed, and may be collected before the commit of the Artifact.
3. `install_recover`: a reconcile that fails after the home patch drifted is rolled back
   to the drifted patch; recovery then validates with the drift and refuses for ever.
4. `authority_claims`: a claim is judged as a support by what its record says; when it
   lost its own support it is not eligible any more, but the claims built on it are.
5. `install_torn`: the backup of a record or manifest is copied in place; a crash in the
   middle of the copy leaves half a file, recovery copies that over the intact original
   (`installer/src/transaction.ts:804`) and then refuses what it made.

Observed while modelling, without a run of their own:

* A Host crash between the spawn and the launch receipt leaves a live process nobody can
  find (`run-supervisor/src/index.ts:176`).
* A launch that fails reclaims its process; when that fails too (`terminate` or `waitForExit`
  throws, or the wait ends without an exit), the run is recorded as failed while the process
  may live (`run-supervisor/src/index.ts:438`, `run-service/src/index.ts:794`). The path
  docs/phase2-gate.md:51-52 gives, "collection, and terminate-and-join", ends in no join here.
* `collect()` reads the termination reason again after the exit marker is on disk; a
  cancellation in between makes the record contradict its marker (`:274`).
* A user's edit between the comparison of a deliverable with the expected digest and its
  replacement is replaced unseen (`project-provider-files/src/artifact.ts:224`).
* The recovery of a publication decides from the Artifact's current validity; when it was
  staled or superseded meanwhile, the event is committed twice
  (`project-service/src/index.ts:549`). `RefinesOnce` allows this, and only this.
* The first write of an operation record is made in place; torn by a crash, it can be read
  by no retry of its key, and `readOperation` throws in every later Recovery Scan, which
  ends there (`project-provider-files/src/store.ts:342`, `:785`).
* Evidence sent back for revision, on which no earlier report had passed, can never be
  accepted: its validation is blocked "until it is reviewed again", and a review may accept
  only what a report passed (`validation-service/src/index.ts:572`).
* A review of an older Workspace binding can never be superseded after a rebind
  (`project-service/src/index.ts:2165`); a later failed validation withdraws no claim.
* `review.recorded` changes an EvidenceRecord's `reviewStatus`
  (`project-provider-files/src/reducer.ts:285`), although docs/phase6-gate.md:12 says that
  a reviewer's output never mutates Evidence.
* In an autonomous workflow a claim is approved without asking, and recorded as approved by
  the user (`claim-service/src/index.ts:194`); docs/phase6-gate.md:14-15 says that an approved
  claim always requires the user's approval.
* A holder whose reservation was taken over goes on asking the provider page after page
  (`evidence-service/src/coordinator.ts:857`), even after the new holder has recorded its
  outcome; only its response is rejected.
* After a credential rotation a retry revokes even a consumed continuation, whose exact
  result can then not be replayed: `reserve` compares the binding before it looks for
  `consumed` (`evidence-service/src/store.ts:229`). `revoke` has no fence: a stale holder
  can revoke what another has reserved (`:392`).
* A transaction directory without a readable journal (a crash before the journal is
  written, or during the last removal) is refused by every later command
  (`installer/src/transaction.ts:379`).
* `assertNoIncompleteContinuationAdvance` (`project-provider-files/src/store.ts:855`) looks
  for a field that the evidence service's `store.json` does not have.
* On POSIX `validateManagedFiles` compares paths with a backslash prefix
  (`installation-guard/src/validation.ts:240`), so the guard admits no Host there.

## 6. Not modelled, and the plan

Out of scope: network and literature services, git and Python helpers, conversion of
documents, media and archives, prompt texts, and the field-by-field parsers of
`contracts`: pure I/O or data conversion without shared state. In modelled components
these are left out: the checks of paths and file identity, quotas, the sets of generated
Artifacts, registration of environments and TestSpecs, several runs at a time (so
`reconcileAll` stopping at one run's failure is a hazard without a property), the socket
lease and the socket mutex of POSIX (no Host is admitted there), the maintenance nonce,
calls that join a search of their own process, the reading of papers, the individual
checks of a citation or an experiment (their verdict is chosen), the wording checks of
the audit.

Candidates for an extension, in this order: `Delegation` and the policy decision as an
operator checked against a reference table; `WorkspaceBinding`; experiments and
reproduction plans on top of `Authority`. Of proofs: an abstract run with one verdict and an
abstract home with one generation, as `RunLifecycle` and `Installation` implement them.
