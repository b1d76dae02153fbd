----------------------- MODULE RevisionBarrierProofs -----------------------
(***************************************************************************)
(* Theorems about RevisionBarrier, for every number of revisions, clock    *)
(* readings and rechecks.  Every operation of the barrier is one of three  *)
(* things: a wake generation, a step that resolves the waiter or leaves    *)
(* what it knows of the source alone, or nothing.  NoLostWakeup is         *)
(* inductive together with TypeOK: a pending registered waiter goes from   *)
(* "a note with the source's revision is under way" to "told" by a wake    *)
(* generation, and back only by an advance of the source.                  *)
(***************************************************************************)
EXTENDS RevisionBarrier, TLAPS

\* A wake generation at a published revision keeps the type, and records that
\* the source at that revision was found wanting unless it satisfies.
LEMMA WakeEffect ==
  ASSUME TypeOK, status = "pending", NEW rev \in 0 .. src, Wake(rev),
         last_now' \in Times \cup {None}, UNCHANGED <<request, source>>,
         notes' \subseteq 0 .. src, registered' \in BOOLEAN
  PROVE  /\ TypeOK'
         /\ status' = "satisfied" => Ready(src) /\ revision' <= src
         /\ status' = "pending" /\ rev = src => revision' = src /\ ~Ready(src)
         /\ status' \in {"pending", "satisfied"}
         /\ revision' >= revision
         /\ status' = "pending" /\ revision = src => revision' = src
<1>1. revision' \in 0 .. src /\ revision' >= rev /\ revision' >= revision
  BY DEF TypeOK, Wake, Greater, Revisions
<1>2. status' = IF Ready(revision') THEN "satisfied" ELSE "pending"
  BY DEF Wake
<1>3. Ready(revision') => Ready(src)
  BY <1>1 DEF Ready, TypeOK, Revisions
<1>4. generation' \in Nat /\ reason' = None
  BY DEF Wake, TypeOK
<1>5. src' = src /\ predicate' = predicate /\ required_revision' = required_revision
      /\ deadline' = deadline
  BY DEF source, request
<1>6. TypeOK'
  BY <1>1, <1>2, <1>4, <1>5 DEF TypeOK, Statuses
<1>7. src \in Int
  BY DEF TypeOK, Revisions
<1>8. rev = src => revision' = src
  BY <1>1, <1>7
<1>9. revision = src => revision' = src
  BY <1>1, <1>7
<1> QED
  BY <1>1, <1>2, <1>3, <1>6, <1>8, <1>9

\* What a step of the barrier that is no wake generation may do: it leaves
\* what the barrier knows of the source, and resolves the waiter, to satisfied
\* only if the source is ready, or leaves it pending.
Quiet ==
  /\ UNCHANGED <<revision, generation, request, source, registered, notes>>
  /\ last_now' \in Times \cup {None}
  /\ status' \in Statuses
  /\ IF status' = "unavailable" THEN reason' \in Reasons ELSE reason' = None
  /\ status' = "satisfied" => Ready(revision)

\* An observation is such a step.
LEMMA ObserveQuiet ==
  ASSUME TypeOK, status = "pending", NEW now \in Times,
         NEW cancellation \in Cancellations, observe(now, cancellation)
  PROVE  /\ Quiet
         /\ CancelsBeforeDeadline
<1>1. Clocked(now,
        /\ status' = Outcome(now, cancellation)
        /\ reason' = IF status' = "unavailable"
                     THEN "cancellation_unavailable" ELSE reason
        /\ UNCHANGED <<revision, generation>>)
      /\ UNCHANGED <<request, source, registered, notes>>
  BY DEF observe, Latched
<1>2. reason = None /\ None # "cancellation_unavailable" /\ None \notin Nat
  BY ConstantsAssumption DEF TypeOK, Reasons
<1>3. CASE last_now # None /\ now < last_now
  BY <1>1, <1>2, <1>3 DEF Clocked, Quiet, TypeOK, Statuses, Reasons, CancelsBeforeDeadline
<1>4. CASE ~(last_now # None /\ now < last_now)
  <2>1. /\ last_now' = now /\ status' = Outcome(now, cancellation)
        /\ reason' = IF status' = "unavailable"
                     THEN "cancellation_unavailable" ELSE reason
        /\ UNCHANGED <<revision, generation>>
    BY <1>1, <1>4 DEF Clocked
  <2>2. Outcome(now, cancellation) \in Statuses
        /\ (Outcome(now, cancellation) = "satisfied" => Ready(revision))
    BY DEF Outcome, Statuses, Cancellations
  <2>3. Outcome(now, cancellation) \in {"cancelled", "unavailable"} => ~DeadlineReached(now)
    BY DEF Outcome
  <2>4. Quiet
    BY <1>1, <1>2, <2>1, <2>2 DEF Quiet, Reasons
  <2>5. ~DeadlineReached(now) => deadline = None \/ now < deadline
    BY DEF DeadlineReached, TypeOK, Times
  <2>6. CancelsBeforeDeadline
    BY <1>2, <2>1, <2>2, <2>3, <2>5 DEF CancelsBeforeDeadline, Statuses
  <2> QED
    BY <2>4, <2>6
<1> QED
  BY <1>3, <1>4

\* A quiet step keeps the type and the knowledge of the source.
LEMMA QuietEffect ==
  ASSUME TypeOK, NoLostWakeup, status = "pending", Quiet
  PROVE  TypeOK' /\ NoLostWakeup' /\ BecomesSatisfied
<1>1. TypeOK'
  BY DEF TypeOK, Quiet, request, source
<1>2. NoLostWakeup'
  BY DEF NoLostWakeup, Quiet, source, request, Ready
<1>3. Ready(revision) => Ready(src)
  BY DEF Ready, TypeOK, Revisions
<1>4. BecomesSatisfied
  BY <1>1, <1>3 DEF BecomesSatisfied, Quiet, TypeOK, Revisions, source
<1> QED
  BY <1>1, <1>2, <1>4

-----------------------------------------------------------------------------

Inv == TypeOK /\ NoLostWakeup

\* The initial states satisfy the invariant: nobody is registered yet.
LEMMA InitInv == Init => Inv
<1> SUFFICES ASSUME Init PROVE TypeOK /\ NoLostWakeup
  BY DEF Inv
<1>1. src \in Nat /\ revision \in 0 .. src /\ notes \subseteq 0 .. src
  BY DEF Init, Revisions
<1> QED
  BY <1>1 DEF Init, TypeOK, NoLostWakeup, Statuses

Safe == BecomesSatisfied /\ StaysResolved /\ CancelsBeforeDeadline

\* After the waiter resolved, no operation changes the barrier.
LEMMA ResolvedStep ==
  ASSUME Inv, status # "pending", [Next]_vars
  PROVE  Inv' /\ Safe
<1>1. UNCHANGED barrier /\ UNCHANGED request
  BY DEF Next, vars, dispose, receipt, advance, register_recheck, observe,
         SourceAdvances, Latched, barrier, request
<1>2. /\ src' \in Revisions /\ src' >= src
      /\ predicate' \in BOOLEAN /\ registered' \in BOOLEAN
      /\ notes' \subseteq 0 .. src'
  <2> USE DEF Inv, TypeOK, Revisions
  <2>1. CASE SourceAdvances
    <3>1. /\ src' \in Revisions /\ src' > src /\ predicate' \in BOOLEAN
          /\ notes' \subseteq notes \cup {src'} /\ registered' \in BOOLEAN
      BY <2>1 DEF SourceAdvances
    <3>2. 0 .. src \subseteq 0 .. src' /\ src' \in 0 .. src'
      BY <3>1
    <3> QED
      BY <3>1, <3>2
  <2>2. CASE UNCHANGED source /\ UNCHANGED registered /\ notes' \subseteq notes
    BY <2>2 DEF source
  <2>3. CASE \E now \in Times : register_recheck(now)
    BY <2>3 DEF register_recheck, source
  <2> QED
    BY <2>1, <2>2, <2>3 DEF Next, vars, dispose, receipt, advance, observe
<1>3. TypeOK'
  BY <1>1, <1>2 DEF Inv, TypeOK, barrier, request, Revisions
<1>4. NoLostWakeup'
  BY <1>1 DEF NoLostWakeup, barrier
<1>5. Safe
  BY <1>1 DEF Safe, BecomesSatisfied, StaysResolved, CancelsBeforeDeadline, barrier
<1> QED
  BY <1>3, <1>4, <1>5 DEF Inv

\* While the waiter is pending, every step keeps the invariant, satisfies it
\* only truly and cancels it only before its deadline.
LEMMA PendingStep ==
  ASSUME Inv, status = "pending", [Next]_vars
  PROVE  Inv' /\ Safe
<1> USE DEF Inv
<1>0. /\ reason = None /\ StaysResolved
      /\ None # "cancellation_unavailable"
  BY ConstantsAssumption DEF TypeOK, StaysResolved, Reasons
<1>1. CASE dispose
  <2>1. Quiet
    BY <1>0, <1>1 DEF dispose, Latched, Quiet, TypeOK, Statuses
  <2>2. CancelsBeforeDeadline
    BY <1>0, <1>1 DEF dispose, Latched, CancelsBeforeDeadline
  <2> QED
    BY <1>0, <2>1, <2>2, QuietEffect DEF Safe
<1>2. CASE receipt
  <2>1. Quiet /\ CancelsBeforeDeadline
    BY <1>0, <1>2 DEF receipt, Latched, Quiet, TypeOK, Statuses, barrier, CancelsBeforeDeadline
  <2> QED
    BY <1>0, <2>1, QuietEffect DEF Safe
<1>3. ASSUME NEW rev \in Revisions, advance(rev) PROVE Inv' /\ Safe
  <2>1. /\ rev \in 0 .. src /\ Wake(rev) /\ UNCHANGED last_now
        /\ UNCHANGED <<request, source, registered>> /\ notes' = notes \ {rev}
    BY <1>3 DEF advance, Latched, TypeOK
  <2>2. last_now' \in Times \cup {None} /\ notes' \subseteq 0 .. src /\ registered' \in BOOLEAN
    BY <2>1 DEF TypeOK
  <2>3. /\ TypeOK'
        /\ status' = "satisfied" => Ready(src) /\ revision' <= src
        /\ status' = "pending" /\ rev = src => revision' = src /\ ~Ready(src)
        /\ status' \in {"pending", "satisfied"}
        /\ status' = "pending" /\ revision = src => revision' = src
    BY <2>1, <2>2, WakeEffect
  <2>4. src' = src /\ Ready(src)' = Ready(src)
    BY <2>1 DEF source, request, Ready
  <2>5. NoLostWakeup'
    BY <2>1, <2>3, <2>4 DEF NoLostWakeup
  <2>6. reason' = None
    BY <1>0, <2>1 DEF Wake
  <2> QED
    BY <1>0, <2>3, <2>5, <2>6 DEF Safe, BecomesSatisfied, CancelsBeforeDeadline
<1>4. ASSUME NEW now \in Times, register_recheck(now) PROVE Inv' /\ Safe
  <2>1. Clocked(now, Wake(src)) /\ registered' = TRUE /\ UNCHANGED <<request, source, notes>>
    BY <1>4 DEF register_recheck, Latched
  <2>2. CASE last_now # None /\ now < last_now
    <3>1. /\ status' = "unavailable" /\ reason' = "clock_regression"
          /\ UNCHANGED <<revision, generation, last_now>>
      BY <2>1, <2>2 DEF Clocked
    <3>2. TypeOK'
      BY <2>1, <3>1 DEF TypeOK, Statuses, Reasons, request, source
    <3> QED
      BY <1>0, <3>1, <3>2 DEF NoLostWakeup, Safe, BecomesSatisfied, CancelsBeforeDeadline
  <2>3. CASE ~(last_now # None /\ now < last_now)
    <3>1. last_now' = now /\ Wake(src)
      BY <2>1, <2>3 DEF Clocked
    <3>2. /\ src \in 0 .. src /\ last_now' \in Times \cup {None}
          /\ notes' \subseteq 0 .. src /\ registered' \in BOOLEAN
      BY <2>1, <3>1 DEF TypeOK, Revisions
    <3>3. /\ TypeOK'
          /\ status' = "satisfied" => Ready(src) /\ revision' <= src
          /\ status' = "pending" => revision' = src /\ ~Ready(src)
          /\ status' \in {"pending", "satisfied"}
      BY <2>1, <3>1, <3>2, WakeEffect
    <3>4. src' = src /\ Ready(src)' = Ready(src)
      BY <2>1 DEF source, request, Ready
    <3>5. reason' = None
      BY <1>0, <3>1 DEF Wake
    <3> QED
      BY <1>0, <3>3, <3>4, <3>5 DEF NoLostWakeup, Safe, BecomesSatisfied, CancelsBeforeDeadline
  <2> QED
    BY <2>2, <2>3
<1>5. ASSUME NEW now \in Times, NEW cancellation \in Cancellations, observe(now, cancellation)
      PROVE  Inv' /\ Safe
  BY <1>0, <1>5, ObserveQuiet, QuietEffect DEF Safe
<1>6. CASE SourceAdvances
  <2>1. /\ src' \in Revisions /\ src' > src /\ predicate' \in BOOLEAN
        /\ \/ notes' = notes \cup {src'}
           \/ ~registered /\ notes' = notes
        /\ UNCHANGED <<barrier, request, registered>>
    BY <1>6 DEF SourceAdvances, TypeOK, Revisions
  <2>2. 0 .. src \subseteq 0 .. src' /\ src' \in 0 .. src'
    BY <2>1 DEF TypeOK, Revisions
  <2>3. TypeOK'
    BY <2>1, <2>2 DEF TypeOK, barrier, request
  <2>4. NoLostWakeup'
    BY <2>1 DEF NoLostWakeup, barrier
  <2> QED
    BY <1>0, <2>1, <2>3, <2>4
       DEF Safe, BecomesSatisfied, CancelsBeforeDeadline, barrier
<1>7. CASE UNCHANGED vars
  <2>1. TypeOK' /\ NoLostWakeup'
    BY <1>7 DEF TypeOK, NoLostWakeup, Ready, vars, barrier, request, source
  <2> QED
    BY <1>0, <1>7, <2>1
       DEF Safe, BecomesSatisfied, CancelsBeforeDeadline, vars, barrier
<1> QED
  BY <1>1, <1>2, <1>3, <1>4, <1>5, <1>6, <1>7 DEF Next

\* Every reachable state satisfies the invariant.
LEMMA InvHolds == Spec => []Inv
<1>1. Inv /\ [Next]_vars => Inv'
  BY ResolvedStep, PendingStep
<1> QED
  BY InitInv, <1>1, PTL DEF Spec

-----------------------------------------------------------------------------

\* The fields of run_barrier's state always have the types the code gives
\* them, a reason goes exactly with the unavailable outcome, and the barrier
\* never knows a revision the source has not reached.
THEOREM TypeCorrect == Spec => []TypeOK
<1>1. Inv => TypeOK
  BY DEF Inv
<1> QED
  BY InvHolds, <1>1, PTL

\* No advance is lost between check and sleep, however many revisions the
\* source has and whenever the waiter registers (register_recheck, advance).
THEOREM WakeupNotLost == Spec => []NoLostWakeup
<1>1. Inv => NoLostWakeup
  BY DEF Inv
<1> QED
  BY InvHolds, <1>1, PTL

\* run_barrier reports satisfied only at a moment when the source has the
\* required revision and the predicate holds.
THEOREM OnlySatisfiedTruly == Spec => SatisfiedTruly
<1>1. Inv /\ [Next]_vars => [BecomesSatisfied]_vars
  BY ResolvedStep, PendingStep DEF Safe
<1> QED
  BY InvHolds, <1>1, PTL DEF Spec, SatisfiedTruly

\* The first terminal result is latched, in every behaviour.
THEOREM ResultLatched == Spec => TerminalLatched
<1>1. Inv /\ [Next]_vars => [StaysResolved]_vars
  BY ResolvedStep, PendingStep DEF Safe
<1> QED
  BY InvHolds, <1>1, PTL DEF Spec, TerminalLatched

\* A waiter is cancelled, or told its cancellation adapter failed, only before
\* its deadline (observe).
THEOREM CancelledInTime == Spec => DeadlineDominates
<1>1. Inv /\ [Next]_vars => [CancelsBeforeDeadline]_vars
  BY ResolvedStep, PendingStep DEF Safe
<1> QED
  BY InvHolds, <1>1, PTL DEF Spec, DeadlineDominates

-----------------------------------------------------------------------------
(* Waking *)

\* What the fairness of EventuallyWoken has to work with.  While a registered
\* waiter of a ready source is pending, the note that wakes it is under way and is
\* only taken by a step that resolves the waiter (advance); and a poll whose
\* reading is past every deadline resolves a waiter that has one (observe).
NothingHoldsUp ==
  status = "pending" =>
    /\ registered /\ Ready(src) => src \in notes /\ (src \in notes' \/ status' # "pending")
    /\ deadline # None /\ observe(MaxNow, "pending") => status' # "pending"

THEOREM WaiterIsNotHeldUp == Spec => [][NothingHoldsUp]_vars
<1>1. ASSUME Inv, [Next]_vars, status = "pending", registered, Ready(src)
      PROVE  src \in notes /\ (src \in notes' \/ status' # "pending")
  <2>1. src \in notes
    BY <1>1 DEF Inv, NoLostWakeup
  <2>2. ASSUME NEW rev \in Revisions, advance(rev), src \notin notes' PROVE status' # "pending"
    <3>1. rev = src /\ Wake(rev)
      BY <1>1, <2>1, <2>2 DEF advance, Latched
    <3>2. revision' = src
      BY <1>1, <3>1 DEF Wake, Greater, Inv, TypeOK, Revisions
    <3> QED
      BY <1>1, <3>1, <3>2 DEF Wake
  <2>3. (\A rev \in Revisions : ~advance(rev)) => notes \subseteq notes'
    BY <1>1 DEF Next, vars, dispose, receipt, register_recheck, observe, SourceAdvances
  <2> QED
    BY <2>1, <2>2, <2>3
<1>2. ASSUME Inv, status = "pending", deadline # None, observe(MaxNow, "pending")
      PROVE  status' # "pending"
  <2>1. MaxNow \in Nat /\ deadline \in 0 .. MaxNow /\ (last_now # None => last_now \in 0 .. MaxNow)
    BY <1>2, ConstantsAssumption DEF Inv, TypeOK, Times
  <2>2. DeadlineReached(MaxNow)
    BY <1>2, <2>1 DEF DeadlineReached
  <2> QED
    BY <1>2, <2>1, <2>2 DEF observe, Latched, Clocked, Outcome
<1>3. Inv /\ [Next]_vars => NothingHoldsUp
  BY <1>1, <1>2 DEF NothingHoldsUp
<1> QED
  BY <1>3, InvHolds, PTL DEF Spec
=============================================================================
