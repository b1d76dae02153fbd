-------------------------- MODULE RevisionBarrier --------------------------
(***************************************************************************)
(* RevisionBarrier, the standard-library primitive that waits for a source *)
(* to reach a revision at which a predicate holds: run_barrier, together   *)
(* with the source it watches and the caller that drives it.               *)
(*                                                                         *)
(* The source is external.  It advances at any time; an advance made while *)
(* the waiter is registered leaves a note, delivered once, in any order;   *)
(* one made before registration may reach it or not.  The predicate is a   *)
(* function of the source's state, read when the barrier asks for it.      *)
(* The caller supplies the clock readings, which may go backwards.         *)
(***************************************************************************)
EXTENDS Integers

CONSTANTS
  MaxRevision,  \* bound: revisions of the source
  MaxNow,       \* bound: clock readings; every deadline is within it
  MaxRechecks,  \* bound: the wake generation up to which a caller registers
  None          \* Python's None

Reasons == {"clock_regression", "cancellation_unavailable"}

ASSUME ConstantsAssumption ==
  /\ MaxRevision \in Nat /\ MaxNow \in Nat /\ MaxRechecks \in Nat
  /\ None \notin Nat /\ None \notin Reasons

VARIABLES
  status, reason, revision, generation, last_now,  \* what the operations change
  required_revision, deadline,                     \* fixed by start
  src,        \* external: the source's revision
  predicate,  \* external: the predicate at that revision
  registered, \* external: advances are announced to this waiter
  notes       \* external: announced revisions not delivered yet

barrier == <<status, reason, revision, generation, last_now>>
request == <<required_revision, deadline>>
source  == <<src, predicate>>
vars    == <<barrier, request, source, registered, notes>>

Revisions     == 0 .. MaxRevision
Times         == 0 .. MaxNow
Cancellations == {"pending", "cancelled", "unavailable"}
Statuses == {"pending", "satisfied", "timed_out", "cancelled", "disposed", "unavailable"}

\* A reason is recorded exactly with the unavailable outcome, the barrier's
\* revision never leads the source, and only published revisions are announced.
TypeOK ==
  /\ status \in Statuses
  /\ IF status = "unavailable" THEN reason \in Reasons ELSE reason = None
  /\ generation \in Nat
  /\ last_now \in Times \cup {None}
  /\ required_revision \in Revisions
  /\ deadline \in Times \cup {None}
  /\ src \in Revisions
  /\ revision \in 0 .. src
  /\ predicate \in BOOLEAN
  /\ registered \in BOOLEAN
  /\ notes \subseteq 0 .. src

\* start
Init ==
  /\ src \in Revisions /\ predicate \in BOOLEAN
  /\ required_revision \in Revisions
  /\ deadline \in Times \cup {None}
  /\ status = "pending" /\ reason = None
  /\ revision = src /\ generation = 0 /\ last_now = None
  /\ registered = FALSE /\ notes = {}

-----------------------------------------------------------------------------
(* What the operations share *)

\* The first terminal result is latched: every later call returns it.
Latched(Operation) ==
  IF status = "pending" THEN Operation ELSE UNCHANGED barrier

\* A reading behind the last accepted one resolves the waiter.
Clocked(now, Operation) ==
  IF last_now # None /\ now < last_now
  THEN /\ status' = "unavailable" /\ reason' = "clock_regression"
       /\ UNCHANGED <<revision, generation, last_now>>
  ELSE last_now' = now /\ Operation

Ready(rev) == rev >= required_revision /\ predicate

Greater(a, b) == IF a >= b THEN a ELSE b

\* A wake generation in which the barrier sees revision rev and the predicate.
Wake(rev) ==
  /\ revision' = Greater(revision, rev)
  /\ generation' = generation + 1
  /\ status' = IF Ready(revision') THEN "satisfied" ELSE "pending"
  /\ UNCHANGED reason

-----------------------------------------------------------------------------
(* The operations *)

dispose ==
  /\ Latched(status' = "disposed"
             /\ UNCHANGED <<reason, revision, generation, last_now>>)
  /\ UNCHANGED <<request, source, registered, notes>>

\* The application records an effect receipt.
receiptIsAuthority ==
  /\ Latched(/\ revision' = Greater(revision, required_revision)
             /\ generation' = generation + 1
             /\ status' = "satisfied"
             /\ UNCHANGED <<reason, last_now>>)
  /\ UNCHANGED <<request, source, registered, notes>>

receipt ==
  /\ Latched(UNCHANGED barrier)
  /\ UNCHANGED <<request, source, registered, notes>>

\* One announced revision is delivered.
advance(rev) ==
  /\ rev \in notes /\ notes' = notes \ {rev}
  /\ Latched(Wake(rev) /\ UNCHANGED last_now)
  /\ UNCHANGED <<request, source, registered>>

\* The waiter registers, then reads the source again.
skipRecheck(now) ==
  /\ generation < MaxRechecks
  /\ Latched(Clocked(now, generation' = generation + 1
                          /\ UNCHANGED <<status, reason, revision>>))
  /\ registered' = TRUE
  /\ UNCHANGED <<request, source, notes>>

register_recheck(now) ==
  /\ generation < MaxRechecks
  /\ Latched(Clocked(now, Wake(src)))
  /\ registered' = TRUE
  /\ UNCHANGED <<request, source, notes>>

DeadlineIfSet(now) == deadline \notin {None, 0} /\ now >= deadline

DeadlineReached(now) == deadline # None /\ now >= deadline

Outcome(now, cancellation) ==
  IF DeadlineReached(now) THEN "timed_out"
  ELSE IF Ready(revision) THEN "satisfied" ELSE cancellation

reasonAlways(now, cancellation) ==
  /\ Latched(Clocked(now,
       /\ status' = Outcome(now, cancellation)
       /\ reason' = IF cancellation = "unavailable"
                    THEN "cancellation_unavailable" ELSE reason
       /\ UNCHANGED <<revision, generation>>))
  /\ UNCHANGED <<request, source, registered, notes>>

observe(now, cancellation) ==
  /\ Latched(Clocked(now,
       /\ status' = Outcome(now, cancellation)
       /\ reason' = IF status' = "unavailable"
                    THEN "cancellation_unavailable" ELSE reason
       /\ UNCHANGED <<revision, generation>>))
  /\ UNCHANGED <<request, source, registered, notes>>

-----------------------------------------------------------------------------
(* The source *)

\* The source moves to a later revision; registered waiters are told, others
\* may be.
SourceAdvances ==
  /\ src' \in src + 1 .. MaxRevision
  /\ predicate' \in BOOLEAN
  /\ \/ notes' = notes \cup {src'}
     \/ ~registered /\ notes' = notes
  /\ UNCHANGED <<barrier, request, registered>>

Next ==
  \/ dispose
  \/ receipt
  \/ \E rev \in Revisions : advance(rev)
  \/ \E now \in Times : register_recheck(now)
  \/ \E now \in Times, cancellation \in Cancellations : observe(now, cancellation)
  \/ SourceAdvances

Spec == Init /\ [][Next]_vars

\* Announcements are delivered, and the caller keeps polling while its clock
\* passes every deadline ("waiting is driven by a caller-owned clock/wait
\* seam").  Nothing makes it register, cancel or dispose, nor the source move.
Fairness ==
  /\ \A rev \in Revisions : WF_vars(advance(rev))
  /\ WF_vars(observe(MaxNow, "pending"))

FairSpec == Spec /\ Fairness

-----------------------------------------------------------------------------
(* Properties *)

\* Register-then-recheck closes the check-to-sleep race: a registered waiter
\* still pending has been told the source's current revision and found it
\* wanting, or a note with that revision is on its way (register_recheck,
\* advance).
NoLostWakeup ==
  registered /\ status = "pending" /\ src \notin notes
    => revision = src /\ ~Ready(src)

\* The barrier is satisfied only when, at that moment, the source has reached
\* the required revision and the predicate holds, however late or reordered
\* the notes are and whatever receipts are recorded (run_barrier).
BecomesSatisfied ==
  status # "satisfied" /\ status' = "satisfied" => Ready(src) /\ revision' <= src

SatisfiedTruly == [][BecomesSatisfied]_vars

\* The first terminal result is latched: advances, rechecks, observations and
\* disposal arriving later change nothing of what the barrier reports.
StaysResolved == status # "pending" => UNCHANGED barrier

TerminalLatched == [][StaysResolved]_vars

\* Deadline dominance comes before cancellation: a waiter is cancelled, or its
\* cancellation adapter consulted, only before the deadline (observe).
CancelsBeforeDeadline ==
  status = "pending" /\ (status' = "cancelled" \/ reason' = "cancellation_unavailable")
    => deadline = None \/ last_now' < deadline

DeadlineDominates == [][CancelsBeforeDeadline]_vars

\* A waiter with a deadline, or registered with a source that comes to rest
\* ready, does not wait for ever.
EventuallyWoken ==
  /\ deadline # None => <>(status # "pending")
  /\ <>[](registered /\ Ready(src)) => <>(status # "pending")
=============================================================================
