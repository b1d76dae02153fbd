--------------------------- MODULE StdlibTimers ----------------------------
(***************************************************************************)
(* Timer and Timeout, the deadline primitives of the standard library:     *)
(* run_timer and run_timeout.  A caller starts each once, at any instant   *)
(* for any duration, and then reads it with clock readings of its own,     *)
(* which may go backwards.  External: the operation and the cancellation   *)
(* token a Timeout probes; each resolves once, at any time.                *)
(***************************************************************************)
EXTENDS Integers

CONSTANTS
  U64_MAX,  \* the largest instant
  None      \* an absent value

Reasons == {"deadline_overflow", "clock_regression", "operation_unavailable",
            "cancellation_unavailable"}

ASSUME ConstantsAssumption == U64_MAX \in Nat /\ None \notin Nat /\ None \notin Reasons

VARIABLES
  timer, timeout,  \* the two state dictionaries, or None before start
  operation,       \* external: the operation's state
  cancellation,    \* external: the cancellation token's state
  asked            \* history: the start instant and duration asked of each

vars == <<timer, timeout, operation, cancellation, asked>>

Instants == 0 .. U64_MAX
States(statuses) ==
  [status : statuses, reason : Reasons \cup {None}, deadline : Instants \cup {None},
   last_now : Instants \cup {None}]

\* A started primitive is unavailable exactly when it has a reason, and only
\* one whose deadline overflowed has no deadline.
WellFormed(p) ==
  /\ (p.status = "unavailable") <=> (p.reason # None)
  /\ (p.deadline = None) <=> (p.reason = "deadline_overflow")
  /\ (p.last_now = None) <=> (p.reason = "deadline_overflow")

TypeOK ==
  /\ timer # None => /\ timer \in States({"pending", "fired", "unavailable"})
                     /\ WellFormed(timer)
  /\ timeout # None => /\ timeout \in States({"pending", "completed", "timed_out",
                                              "cancelled", "unavailable"})
                       /\ WellFormed(timeout)
  /\ operation \in {"pending", "completed", "unavailable"}
  /\ cancellation \in {"pending", "cancelled", "unavailable"}

Init ==
  /\ timer = None /\ timeout = None
  /\ operation = "pending" /\ cancellation = "pending"
  /\ asked = [timer |-> None, timeout |-> None]

-----------------------------------------------------------------------------
(* What the operations share *)

StartedWrapping(now, duration) ==
  [status |-> "pending", reason |-> None,
   deadline |-> (now + duration) % (U64_MAX + 1), last_now |-> now]

\* start: the deadline is checked, never wrapped.
Started(now, duration) ==
  IF duration > U64_MAX - now
  THEN [status |-> "unavailable", reason |-> "deadline_overflow",
        deadline |-> None, last_now |-> None]
  ELSE [status |-> "pending", reason |-> None,
        deadline |-> now + duration, last_now |-> now]

ReachedStrictly(p, now) == now > p.deadline

Reached(p, now) == now >= p.deadline

-----------------------------------------------------------------------------
(* Timer *)

startTimer(now, duration) ==
  /\ timer = None
  /\ timer' = Started(now, duration)
  /\ asked' = [asked EXCEPT !.timer = [start |-> now, duration |-> duration]]
  /\ UNCHANGED <<timeout, operation, cancellation>>

observe(now) ==
  /\ timer # None
  /\ timer' = IF timer.status # "pending" \/ now < timer.last_now THEN timer
              ELSE [timer EXCEPT !.last_now = now,
                      !.status = IF Reached(timer, now) THEN "fired" ELSE "pending"]
  /\ UNCHANGED <<timeout, operation, cancellation, asked>>

-----------------------------------------------------------------------------
(* Timeout *)

startTimeout(now, duration) ==
  /\ timeout = None
  /\ timeout' = Started(now, duration)
  /\ asked' = [asked EXCEPT !.timeout = [start |-> now, duration |-> duration]]
  /\ UNCHANGED <<timer, operation, cancellation>>

UnavailableUntyped(p, why) == [p EXCEPT !.status = "unavailable"]

Unavailable(p, why) == [p EXCEPT !.status = "unavailable", !.reason = why]

Sampled(p) ==
  CASE operation = "completed"   -> [p EXCEPT !.status = "completed"]
    [] operation = "unavailable" -> Unavailable(p, "operation_unavailable")
    [] operation = "pending" /\ cancellation = "cancelled" -> [p EXCEPT !.status = "cancelled"]
    [] operation = "pending" /\ cancellation = "unavailable" ->
         Unavailable(p, "cancellation_unavailable")
    [] operation = "pending" /\ cancellation = "pending" -> p

\* What a pending timeout becomes at a reading.
Polled(p, now) ==
  IF now < p.last_now THEN Unavailable(p, "clock_regression")
  ELSE LET read == [p EXCEPT !.last_now = now]
       IN  IF Reached(p, now) THEN [read EXCEPT !.status = "timed_out"] ELSE Sampled(read)

poll(now) ==
  /\ timeout # None
  /\ timeout' = IF timeout.status # "pending" THEN timeout ELSE Polled(timeout, now)
  /\ UNCHANGED <<timer, operation, cancellation, asked>>

-----------------------------------------------------------------------------
(* External *)

Resolve ==
  /\ \/ /\ operation = "pending" /\ operation' \in {"completed", "unavailable"}
        /\ UNCHANGED cancellation
     \/ /\ cancellation = "pending" /\ cancellation' \in {"cancelled", "unavailable"}
        /\ UNCHANGED operation
  /\ UNCHANGED <<timer, timeout, asked>>

Next ==
  \/ \E now, duration \in Instants : startTimer(now, duration) \/ startTimeout(now, duration)
  \/ \E now \in Instants : observe(now) \/ poll(now)
  \/ Resolve

Spec == Init /\ [][Next]_vars

\* The caller keeps reading while its clock runs on ("waiting is driven by a
\* caller-owned clock/wait seam"); the probes may stay pending for ever.
Fairness == WF_vars(observe(U64_MAX)) /\ WF_vars(poll(U64_MAX))

FairSpec == Spec /\ Fairness

-----------------------------------------------------------------------------
(* Properties *)

\* Measured from start, a primitive expires not before the duration asked and
\* a timeout completes or is cancelled only before it: the checked addition,
\* the inclusive deadline and the order of the poll's tests together.
DurationRespected ==
  /\ timer # None /\ timer.status = "fired"
       => timer.last_now - asked.timer.start >= asked.timer.duration
  /\ timeout # None /\ timeout.status = "timed_out"
       => timeout.last_now - asked.timeout.start >= asked.timeout.duration
  /\ timeout # None /\ timeout.status \in {"completed", "cancelled"}
       => timeout.last_now - asked.timeout.start < asked.timeout.duration

\* Every started primitive resolves although its probes never do.
EventuallyResolved ==
  /\ timer # None ~> timer # None /\ timer.status # "pending"
  /\ timeout # None ~> timeout # None /\ timeout.status # "pending"
=============================================================================
