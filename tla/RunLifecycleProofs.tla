------------------------- MODULE RunLifecycleProofs -------------------------
(***************************************************************************)
(* Proofs about RunLifecycle, for any submissions, callers, crashes and     *)
(* failures.  A run is launched once, so its marker is written once and     *)
(* after its process has ended; every verdict but a failed launch rests on  *)
(* that marker, and a launch that fails has joined its process unless that  *)
(* failed as well.                                                          *)
(***************************************************************************)
EXTENDS RunLifecycle, TLAPS

-----------------------------------------------------------------------------
(* The inductive invariant *)

Launching == {"intent", "spawn", "identify", "join", "receipt", "activate", "fail", "failed"}
\* The process of a launch that failed may be there still, told to end, after n failures.
Reclaiming(n) == process = "live" => doomed /\ failures >= n
Uncollected == collector = "none" /\ marker = NoMarker /\ completion = NoMarker

\* One submission launches the run, and until it is active nothing is collected.
LaunchOK ==
    /\ \A s, t \in Submitters : step[s] # "idle" /\ step[t] # "idle" => s = t
    /\ \A s \in Submitters : step[s] # "idle" => record # "none"
    /\ record = "none" => Uncollected /\ process = "none"
    /\ \A s \in Submitters :
           /\ step[s] \in Launching => Uncollected
           /\ step[s] \in {"intent", "spawn"} => process = "none" /\ record \notin Finished
           /\ step[s] = "join" => Reclaiming(1)
           /\ step[s] \in {"fail", "failed"} => Reclaiming(2)

\* What is resolved agrees with the marker, which is written once, after the exit.
MarkerOK ==
    /\ process = "exited" => exitCode # "none"
    /\ collector \in {"waiting", "marker"} => marker = NoMarker
    /\ collector \in {"waiting", "marker", "complete"} => completion = NoMarker
    /\ collector \in {"marker", "complete"} =>
           built \in Markers /\ process = "exited" /\ (reason = "none" => built.reason = "none")
    /\ collector = "complete" => marker = built
    /\ marker # NoMarker => process = "exited"
    /\ completion \in Markers =>
           /\ marker # NoMarker /\ marker.code = completion.code
           /\ completion.reason = "none" => marker.reason = "none"
    /\ finalizer = "verdict" => completion \in Markers

\* What a caller read of the marker is what it says.
ReadOK ==
    \A c \in Callers :
        /\ sawMarker[c] # NoMarker => sawMarker[c] = marker
        /\ at[c] \in {"collect", "verdict"} => sawMarker[c] # NoMarker

IInv ==
    /\ TypeOK
    /\ LaunchOK /\ MarkerOK /\ ReadOK
    /\ VerdictsHaveEvidence /\ NoProcessBehindVerdict /\ SpawnedProcessesAreIdentified

-----------------------------------------------------------------------------

LEMMA NotAMarker == NoMarker \notin Markers /\ Rejected \notin Markers
BY DEF NoMarker, Rejected, Markers

LEMMA InitInvariant == Init => IInv
<1> SUFFICES ASSUME Init PROVE IInv
  OBVIOUS
<1>1. TypeOK
  BY DEF Init, TypeOK, Reasons
<1>2. LaunchOK
  BY DEF Init, LaunchOK, Launching, Uncollected
<1>3. MarkerOK /\ ReadOK
  BY NotAMarker DEF Init, MarkerOK, ReadOK
<1>4. VerdictsHaveEvidence /\ NoProcessBehindVerdict /\ SpawnedProcessesAreIdentified
  BY DEF Init, VerdictsHaveEvidence, NoProcessBehindVerdict, SpawnedProcessesAreIdentified, Finished
<1> QED
  BY <1>1, <1>2, <1>3, <1>4 DEF IInv

\* A transition reaches its target or leaves the record, and a terminal one stays.
LEMMA AfterIs ==
    ASSUME NEW target
    PROVE /\ After(target) = target \/ After(target) = record
          /\ record \in Terminal => After(target) = record
          /\ record = "none" => After(target) = "none"
BY DEF After, Settled, ValidRunTransition, Terminal, Finished

\* The marker's verdict.
LEMMA VerdictIs ==
    ASSUME NEW m
    PROVE /\ Verdict(m) \in Finished
          /\ Verdict(m) = "succeeded" => m.code = "zero" /\ m.reason = "none"
          /\ Verdict(m) = "cancelled" => m.reason = "cancelled"
BY DEF Verdict, Finished

-----------------------------------------------------------------------------
(* Types *)

LEMMA TransitionTyped ==
    ASSUME TypeOK, NEW target \in RunStates, record' \in {record, After(target)}
    PROVE record' \in RunStates \cup {"none"}
BY AfterIs DEF TypeOK

LEMMA Failures ==
    ASSUME TypeOK, Fails \/ Works
    PROVE failures' \in Nat
BY DEF TypeOK, Fails, Works

LEMMA TypeStep ==
    ASSUME TypeOK, MarkerOK, [Next]_vars
    PROVE TypeOK'
<1> USE DEF files, os, collecting, supervisor, calls
<1>0. /\ "running" \in RunStates /\ "collecting" \in RunStates /\ "failed" \in RunStates
      /\ "recovery-required" \in RunStates /\ "starting" \in RunStates
      /\ Finished \subseteq RunStates
  BY DEF RunStates, Terminal, Finished
<1>1. CASE UNCHANGED vars
  BY <1>1 DEF TypeOK, vars
<1>2. ASSUME NEW s \in Submitters, Submit(s)
      PROVE TypeOK'
  <2>1. failures' \in Nat
    BY <1>2, Failures DEF Submit
  <2> QED
    BY <1>0, <1>2, <2>1 DEF TypeOK, Submit, Goto
<1>3. ASSUME NEW s \in Submitters, Launch(s)
      PROVE TypeOK'
  <2>1. CASE WriteIntent(s) \/ Spawn(s) \/ Identify(s)
    <3>1. failures' \in Nat
      BY <2>1, Failures DEF WriteIntent, Spawn, Identify
    <3>2. intent' \in BOOLEAN /\ doomed' \in BOOLEAN
      BY <2>1, Zenon DEF TypeOK, WriteIntent, Spawn, Identify, Reclaimed
    <3>3. step' \in [Submitters -> {"idle", "intent", "spawn", "identify", "join", "receipt",
                                   "activate", "promote", "track", "fail", "failed"}]
      BY <2>1 DEF TypeOK, WriteIntent, Spawn, Identify, Goto
    <3> QED
      BY <2>1, <3>1, <3>2, <3>3 DEF TypeOK, WriteIntent, Spawn, Identify
  <2>2. CASE Join(s) \/ Activate(s) \/ Track(s)
    <3>1. active' \in BOOLEAN
      BY <2>2, Zenon DEF TypeOK, Join, Activate, Track
    <3>2. failures' \in Nat
      BY <2>2, Failures DEF Join, Activate, Track, TypeOK
    <3> QED
      BY <2>2, <3>1, <3>2 DEF TypeOK, Join, Activate, Track, Goto, Reasons
  <2>3. CASE WriteReceipt(s)
    <3>1. failures' \in Nat
      BY <2>3, Failures DEF WriteReceipt
    <3>2. doomed' \in BOOLEAN
      BY <2>3, Zenon DEF TypeOK, WriteReceipt, Reclaimed
    <3> QED
      BY <2>3, <3>1, <3>2 DEF TypeOK, WriteReceipt, Goto
  <2>4. CASE Promote(s) \/ FailLaunch(s)
    <3>1. failures' \in Nat
      BY <2>4, Failures DEF Promote, FailLaunch, TransitionFails
    <3>2. record' \in RunStates \cup {"none"}
      BY <1>0, <2>4, TransitionTyped DEF Promote, FailLaunch, Transition, TransitionFails
    <3> QED
      BY <2>4, <3>1, <3>2 DEF TypeOK, Promote, FailLaunch, Goto
  <2> QED
    BY <1>3, <2>1, <2>2, <2>3, <2>4 DEF Launch
<1>4. ASSUME NEW code \in {"zero", "nonzero"}, Exit(code)
      PROVE TypeOK'
  BY <1>4 DEF TypeOK, Exit
<1>5. CASE Collect
  <2>1. failures' \in Nat
    BY <1>5, Failures DEF Collect, BuildMarker, WriteMarker, Complete, TypeOK
  <2>0. active' \in BOOLEAN
    BY <1>5, Zenon DEF Collect, BuildMarker, WriteMarker, Complete, Reject, TypeOK
  <2>2. CASE BuildMarker
    <3>1. [code |-> exitCode, reason |-> reason] \in Markers
      BY <2>2 DEF BuildMarker, OutputComplete, MarkerOK, TypeOK, Markers
    <3> QED
      BY <2>0, <2>1, <2>2, <3>1 DEF TypeOK, BuildMarker, Reject
  <2>3. CASE WriteMarker
    BY <2>0, <2>1, <2>3 DEF TypeOK, WriteMarker, Reject
  <2>4. CASE Complete
    <3>1. [code |-> built.code, reason |-> reason] \in Markers
      BY <2>4 DEF Complete, MarkerOK, TypeOK, Markers
    <3> QED
      BY <2>0, <2>1, <2>4, <3>1 DEF TypeOK, Complete
  <2> QED
    BY <1>5, <2>2, <2>3, <2>4 DEF Collect
<1>6. CASE Finalize
  <2>1. failures' \in Nat
    BY <1>6, Failures DEF Finalize, TransitionFails
  <2>2. Verdict(completion) \in RunStates
    BY <1>0, VerdictIs
  <2>3. record' \in RunStates \cup {"none"}
    BY <1>0, <1>6, <2>2, TransitionTyped DEF Finalize, Transition, TransitionFails, TypeOK
  <2> QED
    BY <1>6, <2>1, <2>3 DEF TypeOK, Finalize
<1>7. CASE Timeout
  BY <1>7 DEF TypeOK, Timeout, Cancel, Reasons
<1>8. ASSUME NEW c \in Callers, NEW k \in {"status", "cancel", "recover"}, Call(c, k)
      PROVE TypeOK'
  BY <1>8 DEF TypeOK, Call, To
<1>9. ASSUME NEW c \in Callers, Continue(c)
      PROVE TypeOK'
  <2>1. CASE CancelCall(c)
    BY <2>1 DEF TypeOK, CancelCall, Cancel, To, Reads, Reasons
  <2>2. CASE AwaitExit(c) \/ ReadReceipt(c) \/ ReadMarker(c)
    <3>1. failures' \in Nat
      BY <2>2, Failures DEF AwaitExit, ReadReceipt, ReadMarker, TypeOK
    <3> QED
      BY <2>2, <3>1 DEF TypeOK, AwaitExit, ReadReceipt, ReadMarker, To, Reads
  <2>3. CASE Inspect(c)
    <3>1. failures' \in Nat
      BY <2>3, Failures DEF Inspect
    <3>2. doomed' \in BOOLEAN
      BY <2>3, Zenon DEF TypeOK, Inspect
    <3> QED
      BY <2>3, <3>1, <3>2 DEF TypeOK, Inspect, To, Reads
  <2>4. CASE Reconcile(c)
    <3>1. failures' \in Nat
      BY <2>4, Failures DEF Reconcile, TransitionFails
    <3>2. Verdict(sawMarker[c]) \in RunStates
      BY <1>0, VerdictIs
    <3>3. record' \in RunStates \cup {"none"}
      BY <1>0, <2>4, <3>2, TransitionTyped DEF Reconcile, Transition, TransitionFails
    <3> QED
      BY <2>4, <3>1, <3>3 DEF TypeOK, Reconcile, To, Reads
  <2> QED
    BY <1>9, <2>1, <2>2, <2>3, <2>4 DEF Continue
<1>10. CASE Crash
  <2>1. active' \in BOOLEAN /\ up' \in BOOLEAN
    BY <1>10, Zenon DEF TypeOK, Crash
  <2> QED
    BY <1>10, <2>1 DEF TypeOK, Crash, Reads, Reasons
<1>11. CASE Restart
  BY <1>11, RunAssumption DEF TypeOK, Restart, To
<1> QED
  BY <1>1, <1>2, <1>3, <1>4, <1>5, <1>6, <1>7, <1>8, <1>9, <1>10, <1>11 DEF Next

-----------------------------------------------------------------------------
(* How the record, the marker and the process move *)

\* A transition leaves the record, or takes one that is not terminal to its target.
LEMMA TransitionMoves ==
    ASSUME NEW target, record' \in {record, After(target)}
    PROVE \/ record' = record
          \/ record \notin Terminal /\ record # "none" /\ record' = target
BY AfterIs

LEMMA RecordMoves ==
    ASSUME IInv, [Next]_vars
    PROVE \/ record' = record
          \/ record = "none" /\ record' = "starting"
          \/ /\ record \notin Terminal /\ record # "none"
             /\ \/ record' \in {"running", "collecting", "recovery-required"}
                \/ record' = "failed" /\ \E s \in Submitters : step[s] \in {"fail", "failed"}
                \/ completion \in Markers /\ record' = Verdict(completion)
                \/ \E c \in Callers : sawMarker[c] # NoMarker /\ record' = Verdict(sawMarker[c])
<1>1. CASE UNCHANGED vars
  BY <1>1 DEF vars
<1>2. ASSUME NEW s \in Submitters, Submit(s)
      PROVE record = "none" /\ record' = "starting"
  BY <1>2 DEF Submit, NewRunId
<1>3. ASSUME NEW s \in Submitters, Launch(s)
      PROVE \/ record' = record
            \/ /\ record \notin Terminal /\ record # "none"
               /\ \/ record' \in {"running", "collecting"}
                  \/ record' = "failed" /\ step[s] \in {"fail", "failed"}
  <2>1. CASE Promote(s)
    BY <2>1, TransitionMoves DEF Promote, Transition, TransitionFails
  <2>2. CASE FailLaunch(s)
    BY <2>2, TransitionMoves DEF FailLaunch, Transition, TransitionFails
  <2> QED
    BY <1>3, <2>1, <2>2
    DEF Launch, WriteIntent, Spawn, Identify, Join, WriteReceipt, Activate, Track
<1>4. ASSUME NEW code \in {"zero", "nonzero"}, Exit(code)
      PROVE record' = record
  BY <1>4 DEF Exit
<1>5. CASE Collect
  BY <1>5 DEF Collect, BuildMarker, WriteMarker, Complete
<1>6. CASE Finalize
  <2>1. finalizer = "verdict" => completion \in Markers
    BY DEF IInv, MarkerOK
  <2> QED
    BY <1>6, <2>1, TransitionMoves DEF Finalize, Transition, TransitionFails
<1>7. CASE Timeout
  BY <1>7 DEF Timeout
<1>8. ASSUME NEW c \in Callers, NEW k \in {"status", "cancel", "recover"}, Call(c, k)
      PROVE record' = record
  BY <1>8 DEF Call
<1>9. ASSUME NEW c \in Callers, Continue(c)
      PROVE \/ record' = record
            \/ /\ record \notin Terminal /\ record # "none"
               /\ \/ record' \in {"running", "collecting", "recovery-required"}
                  \/ sawMarker[c] # NoMarker /\ record' = Verdict(sawMarker[c])
  <2>1. at[c] = "verdict" => sawMarker[c] # NoMarker
    BY DEF IInv, ReadOK
  <2>2. CASE Reconcile(c)
    BY <2>1, <2>2, TransitionMoves DEF Reconcile, Transition, TransitionFails
  <2> QED
    BY <1>9, <2>2 DEF Continue, CancelCall, AwaitExit, ReadReceipt, ReadMarker, Inspect
<1>10. CASE Crash \/ Restart
  BY <1>10 DEF Crash, Restart
<1> QED
  BY <1>1, <1>2, <1>3, <1>4, <1>5, <1>6, <1>7, <1>8, <1>9, <1>10 DEF Next

\* The marker is written once, after the exit of the process.
LEMMA MarkerMoves ==
    ASSUME IInv, [Next]_vars
    PROVE \/ marker' = marker
          \/ /\ collector = "marker" /\ marker = NoMarker /\ marker' = built
             /\ built \in Markers /\ process = "exited" /\ process' = process
<1>1. CASE WriteMarker
  BY <1>1 DEF WriteMarker, IInv, MarkerOK, os
<1> QED
  BY <1>1 DEF Next, vars, files, Submit, Launch, WriteIntent, Spawn, Identify, Join, WriteReceipt,
     Activate, Promote, Track, FailLaunch, Exit, Collect, BuildMarker, Complete, Finalize, Timeout,
     Call, Continue, CancelCall, AwaitExit, ReadReceipt, ReadMarker, Inspect, Reconcile,
     Crash, Restart

\* The process is spawned once, by the launch, and exits once.
LEMMA ProcessMoves ==
    ASSUME [Next]_vars
    PROVE \/ process' = process
          \/ /\ process' = "live" /\ record' = record
             /\ \E s \in Submitters : Spawn(s)
          \/ process = "live" /\ process' = "exited" /\ exitCode' \in {"zero", "nonzero"}
<1>1. ASSUME NEW code \in {"zero", "nonzero"}, Exit(code)
      PROVE process = "live" /\ process' = "exited" /\ exitCode' \in {"zero", "nonzero"}
  BY <1>1 DEF Exit
<1>2. ASSUME NEW s \in Submitters, Launch(s)
      PROVE process' = process \/ (process' = "live" /\ record' = record /\ Spawn(s))
  BY <1>2 DEF Launch, WriteIntent, Spawn, Identify, Join, WriteReceipt, Activate, Promote, Track,
     FailLaunch, os
<1> QED
  BY <1>1, <1>2 DEF Next, vars, os, Submit, Collect, BuildMarker, WriteMarker, Complete, Finalize,
     Timeout, Call, Continue, CancelCall, AwaitExit, ReadReceipt, ReadMarker, Inspect, Reconcile,
     Crash, Restart

\* Failures are counted, and a process that was told to end stays so.
LEMMA FailuresGrow ==
    ASSUME IInv, [Next]_vars
    PROVE /\ failures \in Nat /\ failures' \in Nat /\ failures' >= failures
          /\ doomed => doomed' \/ process # "live"
<1> USE DEF Fails, Works, files, os, supervisor, collecting, calls
<1>0. failures \in Nat /\ failures' \in Nat
  BY TypeStep DEF IInv, TypeOK
<1>1. failures' = failures \/ failures' = failures + 1
  <2>1. ASSUME NEW s \in Submitters, Submit(s) \/ Launch(s)
        PROVE failures' = failures \/ failures' = failures + 1
    BY <2>1 DEF Submit, Launch, WriteIntent, Spawn, Identify, Join, WriteReceipt, Activate, Promote,
       Track, FailLaunch, TransitionFails
  <2>2. ASSUME NEW c \in Callers, Continue(c)
        PROVE failures' = failures \/ failures' = failures + 1
    BY <2>2 DEF Continue, CancelCall, AwaitExit, ReadReceipt, ReadMarker, Inspect, Reconcile,
       TransitionFails
  <2>3. CASE Collect \/ Finalize
    BY <2>3 DEF Collect, BuildMarker, WriteMarker, Complete, Finalize, TransitionFails
  <2> QED
    BY <2>1, <2>2, <2>3 DEF Next, vars, Exit, Timeout, Call, Crash, Restart
<1>2. doomed => doomed' \/ process # "live"
  <2>1. ASSUME NEW s \in Submitters, Submit(s) \/ Launch(s), doomed
        PROVE doomed'
    BY <2>1 DEF Submit, Launch, WriteIntent, Spawn, Identify, Join, WriteReceipt, Activate, Promote,
       Track, FailLaunch, Reclaimed
  <2>2. ASSUME NEW c \in Callers, Continue(c), doomed
        PROVE doomed'
    BY <2>2 DEF Continue, CancelCall, Cancel, AwaitExit, ReadReceipt, ReadMarker, Inspect, Reconcile
  <2>3. ASSUME Collect \/ Finalize, doomed
        PROVE doomed'
    BY <2>3 DEF Collect, BuildMarker, WriteMarker, Complete, Finalize
  <2> QED
    BY <2>1, <2>2, <2>3 DEF Next, vars, Exit, Timeout, Cancel, Call, Crash, Restart
<1> QED
  BY <1>0, <1>1, <1>2

\* A process being reclaimed is not spawned anew, so what is known of it stays known.
LEMMA ReclaimingKept ==
    ASSUME IInv, [Next]_vars, NEW n \in Nat, Reclaiming(n), \A s \in Submitters : ~Spawn(s)
    PROVE Reclaiming(n)'
<1>1. process' = "live" => process = "live"
  BY ProcessMoves
<1> QED
  BY <1>1, FailuresGrow DEF Reclaiming

-----------------------------------------------------------------------------
(* Verdicts *)

LEMMA VerdictsStep ==
    ASSUME IInv, [Next]_vars
    PROVE VerdictsHaveEvidence'
<1> USE NotAMarker
<1>1. /\ marker \in Markers \cup {NoMarker}
      /\ completion \in Markers =>
             /\ marker \in Markers /\ marker.code = completion.code
             /\ completion.reason = "none" => marker.reason = "none"
  BY DEF IInv, TypeOK, MarkerOK
<1>2. \A c \in Callers : sawMarker[c] # NoMarker => sawMarker[c] = marker /\ marker \in Markers
  BY <1>1 DEF IInv, ReadOK
<1>3. marker \in Markers => marker' = marker
  BY MarkerMoves
<1>4. \A m \in Markers : m.code = "zero" /\ m.reason = "none" => m = [code |-> "zero", reason |-> "none"]
  BY DEF Markers
<1>5. ASSUME record' \in {"succeeded", "cancelled"}, record' # record
      PROVE /\ marker \in Markers
            /\ record' = "succeeded" => marker.code = "zero" /\ marker.reason = "none"
  <2>1. CASE completion \in Markers /\ record' = Verdict(completion)
    BY <1>1, <1>5, <2>1, VerdictIs
  <2>2. CASE \E c \in Callers : sawMarker[c] # NoMarker /\ record' = Verdict(sawMarker[c])
    BY <1>2, <1>5, <2>2, VerdictIs
  <2> QED
    BY <1>5, <2>1, <2>2, RecordMoves
<1>6. [code |-> "zero", reason |-> "none"] \in Markers
  BY DEF Markers, Reasons
<1>7. CASE record' = record
  BY <1>1, <1>3, <1>6, <1>7 DEF IInv, VerdictsHaveEvidence
<1>8. CASE record' # record
  BY <1>3, <1>4, <1>5, <1>8 DEF VerdictsHaveEvidence
<1> QED
  BY <1>7, <1>8

LEMMA ProcessStep ==
    ASSUME IInv, [Next]_vars
    PROVE NoProcessBehindVerdict'
<1> USE NotAMarker
<1>0. process' = "live" /\ process = "live" => (doomed => doomed') /\ failures' >= failures
  BY FailuresGrow
<1>1. marker # NoMarker => process = "exited"
  BY DEF IInv, MarkerOK
<1>2. /\ completion \in Markers => marker # NoMarker
      /\ \A c \in Callers : sawMarker[c] # NoMarker => marker # NoMarker
  BY DEF IInv, MarkerOK, ReadOK
<1>3. ASSUME record' \in Finished, record' # record
      PROVE process = "live" => record' = "failed" /\ Reclaiming(2)
  <2>1. \A s \in Submitters : step[s] \in {"fail", "failed"} => Reclaiming(2)
    BY DEF IInv, LaunchOK
  <2> QED
    BY <1>1, <1>2, <1>3, <2>1, RecordMoves DEF Finished
<1>4. \A s \in Submitters : Spawn(s) => record \notin Finished
  BY DEF IInv, LaunchOK, Spawn
<1>5. ASSUME record' \in Finished, process' = "live"
      PROVE process = "live"
  <2>1. CASE \E s \in Submitters : Spawn(s)
    BY <1>4, <1>5, <2>1 DEF Spawn
  <2> QED
    BY <1>5, <2>1, ProcessMoves
<1>6. ASSUME record' \in Finished, process' = "live", record' = record
      PROVE record' = "failed" /\ doomed' /\ failures' >= 2
  BY <1>0, <1>5, <1>6, FailuresGrow DEF IInv, NoProcessBehindVerdict
<1>7. ASSUME record' \in Finished, process' = "live", record' # record
      PROVE record' = "failed" /\ doomed' /\ failures' >= 2
  BY <1>0, <1>3, <1>5, <1>7, FailuresGrow DEF Reclaiming
<1> QED
  BY <1>6, <1>7 DEF NoProcessBehindVerdict

-----------------------------------------------------------------------------
(* The launch *)

\* Nothing is collected, nor judged, of a run that is being launched.
LEMMA LaunchingKept ==
    ASSUME IInv, [Next]_vars, NEW s \in Submitters, step[s] \in Launching
    PROVE /\ Uncollected' \/ Activate(s)
          /\ step[s] \in {"intent", "spawn"} => record' \notin Finished
<1> USE NotAMarker
<1>1. /\ Uncollected /\ step[s] # "idle" /\ \A t \in Submitters : step[t] # "idle" => t = s
      /\ step[s] \in {"intent", "spawn"} => record \notin Finished
  BY DEF IInv, LaunchOK, Launching
<1>2. \A t \in Submitters : Activate(t) => t = s
  BY <1>1 DEF Activate
<1>3. ~Collect
  BY <1>1 DEF Collect, BuildMarker, WriteMarker, Complete, Uncollected
<1>4. Uncollected' \/ Activate(s)
  BY <1>1, <1>2, <1>3 DEF Uncollected, Next, vars, files, supervisor, collecting, Submit, Launch,
     WriteIntent, Spawn, Identify, Join, WriteReceipt, Promote, Track, FailLaunch, Exit, Finalize,
     Timeout, Call, Continue, CancelCall, AwaitExit, ReadReceipt, ReadMarker, Inspect, Reconcile,
     Crash, Restart
<1>5. ASSUME step[s] \in {"intent", "spawn"}
      PROVE record' \notin Finished
  <2>1. completion \notin Markers /\ \A c \in Callers : sawMarker[c] = NoMarker
    BY <1>1 DEF IInv, ReadOK, Uncollected
  <2>2. ~\E t \in Submitters : step[t] \in {"fail", "failed"}
    BY <1>1, <1>5
  <2> QED
    BY <1>1, <1>5, <2>1, <2>2, RecordMoves DEF Finished
<1> QED
  BY <1>4, <1>5

\* What a step of one submission leaves of the launch's invariant to be shown.
LEMMA LaunchStep ==
    ASSUME IInv, [Next]_vars
    PROVE LaunchOK'
<1>0. /\ step \in [Submitters -> {"idle", "intent", "spawn", "identify", "join", "receipt",
                                  "activate", "promote", "track", "fail", "failed"}]
      /\ LaunchOK
  BY DEF IInv, TypeOK
<1>1. record # "none" => record' # "none"
  <2>1. \A m : Verdict(m) # "none"
    BY VerdictIs DEF Finished
  <2> QED
    BY <2>1, RecordMoves
<1>2. record' = "none" => Uncollected' /\ process' = "none"
  <2> SUFFICES ASSUME record' = "none"
               PROVE Uncollected' /\ process' = "none"
    OBVIOUS
  <2>1. record = "none" /\ Uncollected /\ process = "none" /\ \A s \in Submitters : step[s] = "idle"
    BY <1>0, <1>1 DEF LaunchOK
  <2>2. /\ ~Collect /\ \A s \in Submitters : ~Launch(s)
        /\ \A code \in {"zero", "nonzero"} : ~Exit(code)
    BY <2>1 DEF Collect, BuildMarker, WriteMarker, Complete, Uncollected, Exit, Launch, WriteIntent,
       Spawn, Identify, Join, WriteReceipt, Activate, Promote, Track, FailLaunch
  <2> QED
    BY <2>1, <2>2 DEF Uncollected, Next, vars, files, os, supervisor, collecting, Submit, Finalize,
       Timeout, Call, Continue, CancelCall, AwaitExit, ReadReceipt, ReadMarker, Inspect, Reconcile,
       Crash, Restart
<1>3. \/ \A s \in Submitters : step'[s] = step[s]
      \/ \A s \in Submitters : step'[s] = "idle"
      \/ \E s \in Submitters : Submit(s) \/ Launch(s)
  BY <1>0 DEF Next, vars, Exit, Collect, BuildMarker, WriteMarker, Complete, Finalize, Timeout, Call,
     Continue, CancelCall, AwaitExit, ReadReceipt, ReadMarker, Inspect, Reconcile, Crash, Restart
<1>4. CASE \A s \in Submitters : step'[s] = "idle"
  BY <1>2, <1>4 DEF LaunchOK, Launching
<1>5. CASE \A s \in Submitters : step'[s] = step[s]
  <2>1. ASSUME NEW s \in Submitters, step[s] \in Launching
        PROVE Uncollected'
    BY <1>5, <2>1, LaunchingKept, <1>0 DEF Activate, Goto
  <2>2. \A s \in Submitters : ~Spawn(s)
    BY <1>0, <1>5 DEF Spawn, Goto
  <2>3. process' = process \/ (process = "live" /\ process' = "exited")
    BY <2>2, ProcessMoves
  <2>4. ASSUME NEW s \in Submitters, step[s] \in {"intent", "spawn"}
        PROVE process' = "none" /\ record' \notin Finished
    BY <1>0, <2>3, <2>4, LaunchingKept DEF LaunchOK, Launching
  <2>5. \A s \in Submitters :
            /\ step[s] = "join" => Reclaiming(1)'
            /\ step[s] \in {"fail", "failed"} => Reclaiming(2)'
    BY <1>0, <2>2, ReclaimingKept DEF LaunchOK
  <2>6. \A s, t \in Submitters : step'[s] # "idle" /\ step'[t] # "idle" => s = t
    BY <1>0, <1>5 DEF LaunchOK
  <2>7. \A s \in Submitters : step'[s] # "idle" => record' # "none"
    BY <1>0, <1>1, <1>5 DEF LaunchOK
  <2> QED
    BY <1>2, <1>5, <2>1, <2>4, <2>5, <2>6, <2>7 DEF LaunchOK
<1>6. ASSUME NEW s \in Submitters, Submit(s)
      PROVE LaunchOK'
  <2>1. /\ record = "none" /\ \A t \in Submitters : step[t] = "idle"
        /\ Uncollected /\ process = "none"
    BY <1>0, <1>6 DEF LaunchOK, Submit, NewRunId
  <2>2. record' = "starting" /\ Uncollected' /\ process' = "none"
    BY <1>6, <2>1 DEF Submit, Uncollected, files, os, supervisor, collecting
  <2>3. \/ step' = step
        \/ step' = [step EXCEPT ![s] = "intent"]
    BY <1>6 DEF Submit, Goto
  <2>4. \A t \in Submitters : step'[t] = "idle" \/ (t = s /\ step'[t] = "intent")
    BY <1>0, <2>1, <2>3
  <2> QED
    BY <2>2, <2>4 DEF LaunchOK, Launching, Finished
<1>7. ASSUME NEW s \in Submitters, Launch(s)
      PROVE LaunchOK'
  <2>1. step[s] # "idle" /\ record # "none"
    BY <1>0, <1>7 DEF Launch, WriteIntent, Spawn, Identify, Join, WriteReceipt, Activate, Promote,
       Track, FailLaunch, LaunchOK
  <2>2. \A t \in Submitters : t # s => step[t] = "idle" /\ step'[t] = "idle"
    <3>1. \A t \in Submitters : t # s => step[t] = "idle"
      BY <1>0, <2>1 DEF LaunchOK
    <3>2. step' = [step EXCEPT ![s] = step'[s]]
      BY <1>0, <1>7 DEF Launch, WriteIntent, Spawn, Identify, Join, WriteReceipt, Activate, Promote,
         Track, FailLaunch, Goto
    <3> QED
      BY <1>0, <3>1, <3>2
  <2> DEFINE Shown ==
        /\ step'[s] \in Launching => Uncollected'
        /\ step'[s] \in {"intent", "spawn"} => process' = "none" /\ record' \notin Finished
        /\ step'[s] = "join" => Reclaiming(1)'
        /\ step'[s] \in {"fail", "failed"} => Reclaiming(2)'
  <2>3. ASSUME WriteIntent(s) \/ Spawn(s) \/ Identify(s) \/ Join(s) \/ WriteReceipt(s)
        PROVE Shown
    <3>1. step[s] \in Launching
      BY <2>3 DEF WriteIntent, Spawn, Identify, Join, WriteReceipt, Launching
    <3>2. Uncollected'
      BY <1>0, <2>3, <3>1, LaunchingKept DEF WriteIntent, Spawn, Identify, Join, WriteReceipt, Activate
    <3>3. step[s] \in {"intent", "spawn"} => process = "none" /\ record \notin Finished
      BY <1>0 DEF LaunchOK
    <3>4. step'[s] \in {"intent", "spawn"} => process' = "none" /\ record' \notin Finished
      BY <1>0, <2>3, <3>3, <2>1 DEF WriteIntent, Spawn, Identify, Join, WriteReceipt, Goto, os
    <3>5. step'[s] = "join" => Reclaiming(1)'
      BY <1>0, <2>3, FailuresGrow
      DEF WriteIntent, Spawn, Identify, Join, WriteReceipt, Goto, os, Reclaiming, Reclaimed, Fails
    <3>6. step'[s] \in {"fail", "failed"} => Reclaiming(2)'
      <4>1. CASE WriteIntent(s) \/ Spawn(s)
        BY <1>0, <3>3, <4>1 DEF WriteIntent, Spawn, Goto, os, Reclaiming
      <4>2. CASE Join(s)
        <5>1. Reclaiming(1)
          BY <1>0, <4>2 DEF Join, LaunchOK
        <5> QED
          BY <4>2, <5>1, FailuresGrow DEF Join, Joined, os, Reclaiming, Fails
      <4>3. CASE Identify(s) \/ WriteReceipt(s)
        BY <1>0, <4>3 DEF Identify, WriteReceipt, Goto
      <4> QED
        BY <2>3, <4>1, <4>2, <4>3
    <3> QED
      BY <3>2, <3>4, <3>5, <3>6
  <2>4. ASSUME Activate(s) \/ Promote(s) \/ Track(s)
        PROVE Shown
    BY <1>0, <2>4 DEF Activate, Promote, Track, Goto, Launching
  <2>5. ASSUME FailLaunch(s)
        PROVE Shown
    <3>1. step[s] \in {"fail", "failed"} /\ Uncollected /\ Reclaiming(2)
      BY <1>0, <2>5 DEF FailLaunch, LaunchOK, Launching
    <3>2. Uncollected' /\ process' = process /\ doomed' = doomed
      BY <2>5, <3>1 DEF FailLaunch, Uncollected, files, os, supervisor, collecting
    <3>3. step'[s] \in {"idle", "failed"}
      BY <1>0, <2>5 DEF FailLaunch, Goto
    <3>4. Reclaiming(2)'
      BY <3>1, <3>2, FailuresGrow DEF Reclaiming
    <3> QED
      BY <3>2, <3>3, <3>4
  <2>6. Shown
    BY <1>7, <2>3, <2>4, <2>5 DEF Launch
  <2> QED
    BY <1>1, <1>2, <2>1, <2>2, <2>6 DEF LaunchOK, Launching
<1> QED
  BY <1>3, <1>4, <1>5, <1>6, <1>7

-----------------------------------------------------------------------------
(* The collector, the marker and those who read it *)

\* A termination reason once given stays while the run is collected.
LEMMA ReasonKept ==
    ASSUME [Next]_vars, reason' = "none"
    PROVE \/ reason = "none"
          \/ \E s \in Submitters : Activate(s)
          \/ Crash
BY DEF Next, vars, supervisor, Submit, Launch, WriteIntent, Spawn, Identify, Join, WriteReceipt,
   Promote, Track, FailLaunch, Exit, Collect, BuildMarker, WriteMarker, Complete, Finalize,
   Timeout, Cancel, Call, Continue, CancelCall, AwaitExit, ReadReceipt, ReadMarker, Inspect,
   Reconcile, Restart

LEMMA MarkerStep ==
    ASSUME IInv, [Next]_vars
    PROVE MarkerOK'
<1> USE NotAMarker
<1>0. /\ MarkerOK /\ marker \in Markers \cup {NoMarker} /\ reason \in Reasons
      /\ exitCode \in {"none", "zero", "nonzero"}
  BY DEF IInv, TypeOK
<1>1. ASSUME NEW s \in Submitters, Activate(s)
      PROVE MarkerOK'
  <2>1. Uncollected
    BY <1>1 DEF Activate, IInv, LaunchOK, Launching
  <2> QED
    BY <1>0, <1>1, <2>1 DEF Activate, MarkerOK, Uncollected, files, os
<1>2. CASE Crash
  BY <1>0, <1>2 DEF Crash, MarkerOK, os
<1>3. CASE BuildMarker
  <2>1. ASSUME Works, built' = [code |-> exitCode, reason |-> reason]
        PROVE built' \in Markers /\ (reason = "none" => built'.reason = "none")
    BY <1>0, <1>3, <2>1 DEF BuildMarker, OutputComplete, MarkerOK, Markers
  <2> QED
    BY <1>0, <1>3, <2>1 DEF BuildMarker, OutputComplete, MarkerOK, Reject, files, os
<1>4. CASE WriteMarker
  BY <1>0, <1>4 DEF WriteMarker, MarkerOK, Reject, os
<1>5. CASE Complete
  <2>1. completion'.code = built.code /\ completion'.reason = reason
    BY <1>5 DEF Complete
  <2> QED
    BY <1>0, <1>5, <2>1 DEF Complete, MarkerOK, files, os
<1>6. CASE Finalize
  <2>1. UNCHANGED <<marker, process, exitCode, collector, built, completion, reason>>
    BY <1>6 DEF Finalize, files, os, supervisor, collecting
  <2>2. finalizer' = "verdict" => completion \in Markers
    BY <1>0, <1>6 DEF Finalize, MarkerOK
  <2> QED
    BY <1>0, <2>1, <2>2 DEF MarkerOK
<1>7. ASSUME ~(\E s \in Submitters : Activate(s)), ~Crash, ~Collect, ~Finalize
      PROVE MarkerOK'
  <2>1. UNCHANGED <<marker, collector, built, completion>> /\ finalizer' \in {finalizer, "waiting"}
    BY <1>7 DEF Next, vars, files, supervisor, collecting, Submit, Launch, WriteIntent, Spawn,
       Identify, Join, WriteReceipt, Promote, Track, FailLaunch, Exit, Timeout, Call, Continue,
       CancelCall, AwaitExit, ReadReceipt, ReadMarker, Inspect, Reconcile, Restart
  <2>2. reason' = "none" => reason = "none"
    BY <1>7, ReasonKept
  <2>3. /\ process = "exited" => process' = "exited"
        /\ process' = "exited" => exitCode' # "none"
    <3>1. ASSUME NEW s \in Submitters, Spawn(s)
          PROVE process' # "exited" /\ process # "exited"
      BY <3>1 DEF Spawn, IInv, LaunchOK, Launching
    <3>2. ASSUME NEW code \in {"zero", "nonzero"}, Exit(code)
          PROVE process = "live" /\ exitCode' # "none"
      BY <3>2 DEF Exit
    <3>3. UNCHANGED <<process, exitCode>> \/ (\E s \in Submitters : Spawn(s))
          \/ \E code \in {"zero", "nonzero"} : Exit(code)
      BY <1>7 DEF Next, vars, os, Submit, Launch, WriteIntent, Identify, Join, WriteReceipt,
         Promote, Track, FailLaunch, Timeout, Call, Continue, CancelCall, AwaitExit, ReadReceipt,
         ReadMarker, Inspect, Reconcile, Restart
    <3> QED
      BY <1>0, <3>1, <3>2, <3>3, ProcessMoves DEF MarkerOK
  <2> QED
    BY <1>0, <2>1, <2>2, <2>3 DEF MarkerOK
<1> QED
  BY <1>1, <1>2, <1>3, <1>4, <1>5, <1>6, <1>7 DEF Collect

LEMMA ReadStep ==
    ASSUME IInv, [Next]_vars
    PROVE ReadOK'
<1> USE NotAMarker
<1>0. /\ ReadOK
      /\ sawMarker \in [Callers -> Markers \cup {NoMarker}]
      /\ at \in [Callers -> {"idle", "cancel", "await", "receipt", "marker", "inspect",
                             "promote", "collect", "verdict", "give-up"}]
  BY DEF IInv, TypeOK
<1>1. marker = NoMarker \/ marker' = marker
  BY MarkerMoves
<1>2. CASE at' = at /\ sawMarker' = sawMarker
  BY <1>0, <1>1, <1>2 DEF ReadOK
<1>3. ASSUME NEW c \in Callers, Continue(c)
      PROVE ReadOK'
  <2>1. CASE ReadMarker(c)
    BY <1>0, <1>1, <2>1 DEF ReadMarker, ReadOK, To, files
  <2>2. CASE Inspect(c)
    BY <1>0, <1>1, <2>2 DEF Inspect, ReadOK, To, Reads
  <2>3. CASE Reconcile(c)
    BY <1>0, <1>1, <2>3 DEF Reconcile, ReadOK, To, Reads
  <2>4. CASE CancelCall(c) \/ AwaitExit(c) \/ ReadReceipt(c)
    BY <1>0, <1>1, <2>4 DEF CancelCall, AwaitExit, ReadReceipt, ReadOK, To, Reads
  <2> QED
    BY <1>3, <2>1, <2>2, <2>3, <2>4 DEF Continue
<1>4. ASSUME NEW c \in Callers, NEW k \in {"status", "cancel", "recover"}, Call(c, k)
      PROVE ReadOK'
  BY <1>0, <1>1, <1>4 DEF Call, ReadOK, To
<1>5. CASE Crash
  BY <1>0, <1>1, <1>5 DEF Crash, ReadOK, Reads
<1>6. CASE Restart
  BY <1>0, <1>1, <1>6 DEF Restart, ReadOK, To
<1> QED
  BY <1>2, <1>3, <1>4, <1>5, <1>6 DEF Next, vars, calls, Submit, Launch, WriteIntent, Spawn,
     Identify, Join, WriteReceipt, Activate, Promote, Track, FailLaunch, Exit, Collect, BuildMarker,
     WriteMarker, Complete, Finalize, Timeout

-----------------------------------------------------------------------------
(* What identifies a process *)

LEMMA IdentifiedStep ==
    ASSUME IInv, [Next]_vars
    PROVE SpawnedProcessesAreIdentified'
<1> DEFINE Held == \E s \in Submitters : step[s] \in {"identify", "receipt"}
<1>0. /\ step \in [Submitters -> {"idle", "intent", "spawn", "identify", "join", "receipt",
                                  "activate", "promote", "track", "fail", "failed"}]
      /\ crashes \in Nat /\ SpawnedProcessesAreIdentified /\ LaunchOK
  BY DEF IInv, TypeOK
<1>1. ASSUME NEW s \in Submitters, Spawn(s)
      PROVE SpawnedProcessesAreIdentified'
  <2>1. process = "none"
    BY <1>0, <1>1 DEF Spawn, LaunchOK
  <2> QED
    BY <1>0, <1>1, <2>1 DEF Spawn, Goto, SpawnedProcessesAreIdentified
<1>2. ASSUME NEW s \in Submitters, Identify(s)
      PROVE SpawnedProcessesAreIdentified'
  BY <1>0, <1>2 DEF Identify, Reclaimed, Goto, SpawnedProcessesAreIdentified
<1>3. ASSUME NEW s \in Submitters, WriteReceipt(s)
      PROVE SpawnedProcessesAreIdentified'
  BY <1>0, <1>3 DEF WriteReceipt, Reclaimed, Goto, SpawnedProcessesAreIdentified
<1>4. ASSUME NEW s \in Submitters, Submit(s) \/ Launch(s),
             ~Spawn(s), ~Identify(s), ~WriteReceipt(s)
      PROVE SpawnedProcessesAreIdentified'
  <2>1. UNCHANGED <<process, doomed, receipt, crashes>>
    BY <1>4 DEF Submit, Launch, WriteIntent, Join, Activate, Promote, Track, FailLaunch, files, os
  <2>2. step[s] \notin {"identify", "receipt"}
    BY <1>4 DEF Submit, Launch, WriteIntent, Join, Activate, Promote, Track, FailLaunch
  <2>3. step' = [step EXCEPT ![s] = step'[s]]
    BY <1>0, <1>4 DEF Submit, Launch, WriteIntent, Join, Activate, Promote, Track, FailLaunch, Goto
  <2>4. \A t \in Submitters : step[t] \in {"identify", "receipt"} => step'[t] = step[t]
    BY <1>0, <2>2, <2>3
  <2> QED
    BY <1>0, <2>1, <2>4 DEF SpawnedProcessesAreIdentified
<1>5. CASE Crash
  BY <1>0, <1>5 DEF Crash, SpawnedProcessesAreIdentified
<1>6. ASSUME ~Crash, ~(\E s \in Submitters : Submit(s) \/ Launch(s))
      PROVE SpawnedProcessesAreIdentified'
  <2>1. UNCHANGED <<receipt, crashes, step>>
    BY <1>6 DEF Next, vars, files, Exit, Collect, BuildMarker, WriteMarker, Complete, Finalize,
       Timeout, Call, Continue, CancelCall, AwaitExit, ReadReceipt, ReadMarker, Inspect, Reconcile,
       Restart
  <2>2. process' = process \/ process' = "exited"
    BY <1>6, ProcessMoves DEF Launch
  <2>3. doomed => doomed'
    BY <1>6 DEF Next, vars, os, Exit, Collect, BuildMarker, WriteMarker, Complete, Finalize,
       Timeout, Cancel, Call, Continue, CancelCall, AwaitExit, ReadReceipt, ReadMarker, Inspect,
       Reconcile, Restart
  <2> QED
    BY <1>0, <2>1, <2>2, <2>3 DEF SpawnedProcessesAreIdentified
<1> QED
  BY <1>1, <1>2, <1>3, <1>4, <1>5, <1>6

-----------------------------------------------------------------------------
(* The theorems *)

LEMMA NextInvariant == IInv /\ [Next]_vars => IInv'
<1> SUFFICES ASSUME IInv, [Next]_vars PROVE IInv'
  OBVIOUS
<1>1. TypeOK'
  BY TypeStep DEF IInv
<1> QED
  BY <1>1, LaunchStep, MarkerStep, ReadStep, VerdictsStep, ProcessStep, IdentifiedStep DEF IInv

\* The inductive invariant holds throughout the life of a run.
THEOREM Invariance == Spec => []IInv
BY InitInvariant, NextInvariant, PTL DEF Spec

\* Every variable of the run, its process and its callers keeps its type.
THEOREM TypeCorrect == Spec => []TypeOK
<1>1. IInv => TypeOK
  BY DEF IInv
<1> QED
  BY <1>1, Invariance, PTL

\* A verdict of success or cancellation rests on the exit marker.
THEOREM VerdictsEvidenced == Spec => []VerdictsHaveEvidence
<1>1. IInv => VerdictsHaveEvidence
  BY DEF IInv
<1> QED
  BY <1>1, Invariance, PTL

\* No process is left behind a run that has its verdict; where both the launch and the
\* reclaiming of its process fail (terminateAndJoinSpawnedProcess, failLaunch), the run is
\* failed and its process was told to end.
THEOREM NoProcessLeft == Spec => []NoProcessBehindVerdict
<1>1. IInv => NoProcessBehindVerdict
  BY DEF IInv
<1> QED
  BY <1>1, Invariance, PTL

\* A process that a launch gave up is told to end, or its receipt identifies it.
THEOREM Identified == Spec => []SpawnedProcessesAreIdentified
<1>1. IInv => SpawnedProcessesAreIdentified
  BY DEF IInv
<1> QED
  BY <1>1, Invariance, PTL

\* A terminal RunRecord is never changed, by whatever call or process works on the run.
THEOREM TerminalFinal == Spec => TerminalIsFinal
<1>1. IInv /\ [Next]_vars => [(record \in Terminal) => UNCHANGED record]_vars
  <2> SUFFICES ASSUME IInv, [Next]_vars, record \in Terminal
               PROVE record' = record
    OBVIOUS
  <2>1. record # "none"
    BY DEF Terminal, Finished
  <2> QED
    BY <2>1, RecordMoves
<1> QED
  BY <1>1, Invariance, PTL DEF Spec, TerminalIsFinal

\* A run is launched once, whatever is submitted, retried, lost or restarted: its process
\* does not live again once it has ended, and neither how it ended nor its exit marker
\* is ever replaced.
EvidenceIsFinal ==
    [][/\ process # "none" => process' \in {process, "exited"}
       /\ process = "exited" => UNCHANGED <<process, exitCode>>
       /\ marker # NoMarker => UNCHANGED marker]_vars

EvidenceKept ==
    /\ process # "none" => process' \in {process, "exited"}
    /\ process = "exited" => UNCHANGED <<process, exitCode>>
    /\ marker # NoMarker => UNCHANGED marker

\* EvidenceIsFinal, of launch, its spawn, and collect, over any number of submissions
\* and Hosts.
THEOREM EvidenceFinal == Spec => EvidenceIsFinal
<1>1. IInv /\ [Next]_vars => [EvidenceKept]_vars
  <2> SUFFICES ASSUME IInv, [Next]_vars
               PROVE EvidenceKept
    OBVIOUS
  <2>1. marker # NoMarker => marker' = marker
    BY MarkerMoves
  <2>2. \A s \in Submitters : Spawn(s) => process = "none"
    BY DEF IInv, LaunchOK, Spawn
  <2>3. CASE \E s \in Submitters : Spawn(s)
    BY <2>1, <2>2, <2>3 DEF EvidenceKept
  <2>4. CASE \E code \in {"zero", "nonzero"} : Exit(code)
    BY <2>1, <2>4 DEF EvidenceKept, Exit
  <2>5. ASSUME ~\E s \in Submitters : Spawn(s), ~\E code \in {"zero", "nonzero"} : Exit(code)
        PROVE UNCHANGED <<process, exitCode>>
    BY <2>5 DEF Next, vars, os, Submit, Launch, WriteIntent, Identify, Join, WriteReceipt,
       Activate, Promote, Track, FailLaunch, Collect, BuildMarker, WriteMarker, Complete,
       Finalize, Timeout, Call, Continue, CancelCall, AwaitExit, ReadReceipt, ReadMarker,
       Inspect, Reconcile, Crash, Restart
  <2> QED
    BY <2>1, <2>3, <2>4, <2>5 DEF EvidenceKept
<1> QED
  BY <1>1, Invariance, PTL DEF Spec, EvidenceIsFinal, EvidenceKept
=============================================================================
