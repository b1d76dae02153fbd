------------------------- MODULE StdlibTimersProofs -------------------------
(***************************************************************************)
(* Theorems about StdlibTimers, for every largest instant.  What is asked  *)
(* of a primitive is tied to its state by its deadline: unless the         *)
(* addition overflowed, the deadline is the start and the duration added,  *)
(* and the last reading is on the side of it that the status says.         *)
(***************************************************************************)
EXTENDS StdlibTimers, TLAPS

Ask == [start : Instants, duration : Instants]

\* A reading that expired a primitive was not before its deadline, one that
\* completed or cancelled it was, and one that left it pending is not past it.
OnItsSide(p, ask) ==
  p.status # "unavailable" =>
    /\ ask \in Ask /\ p.deadline = ask.start + ask.duration /\ p.last_now \in Instants
    /\ p.status \in {"fired", "timed_out"} => p.last_now >= p.deadline
    /\ p.status \in {"completed", "cancelled"} => p.last_now < p.deadline
    /\ p.status = "pending" => p.last_now <= p.deadline

Inv ==
  /\ TypeOK
  /\ asked \in [timer : Ask \cup {None}, timeout : Ask \cup {None}]
  /\ timer # None => OnItsSide(timer, asked.timer)
  /\ timeout # None => OnItsSide(timeout, asked.timeout)

TimerStatus == {"pending", "fired", "unavailable"}
TimeoutStatus == {"pending", "completed", "timed_out", "cancelled", "unavailable"}

LEMMA StartedWell ==
  ASSUME NEW now \in Instants, NEW duration \in Instants,
         NEW statuses, {"pending", "unavailable"} \subseteq statuses
  PROVE  /\ Started(now, duration) \in States(statuses)
         /\ WellFormed(Started(now, duration))
         /\ OnItsSide(Started(now, duration), [start |-> now, duration |-> duration])
<1>1. now \in Nat /\ duration \in Nat /\ now <= U64_MAX /\ U64_MAX \in Nat
  BY ConstantsAssumption DEF Instants
<1>2. now # None /\ now + duration # None
  BY <1>1, ConstantsAssumption
<1>3. "deadline_overflow" # None /\ "deadline_overflow" \in Reasons
  BY ConstantsAssumption DEF Reasons
<1>4. CASE duration > U64_MAX - now
  BY <1>1, <1>3, <1>4 DEF Started, States, WellFormed, OnItsSide
<1>5. CASE ~(duration > U64_MAX - now)
  <2>1. now + duration \in Instants
    BY <1>1, <1>5 DEF Instants
  <2> QED
    BY <1>1, <1>2, <1>3, <1>5, <2>1 DEF Started, States, WellFormed, OnItsSide, Ask
<1> QED
  BY <1>4, <1>5

LEMMA InitInv == Init => Inv
BY DEF Init, Inv, TypeOK

LEMMA StartTimerStep ==
  ASSUME Inv, NEW now \in Instants, NEW duration \in Instants, startTimer(now, duration)
  PROVE  Inv'
<1>1. /\ timer' \in States(TimerStatus) /\ WellFormed(timer')
      /\ OnItsSide(timer', [start |-> now, duration |-> duration])
  BY StartedWell DEF startTimer, TimerStatus
<1>2. /\ asked' \in [timer : Ask \cup {None}, timeout : Ask \cup {None}]
      /\ asked'.timer = [start |-> now, duration |-> duration]
      /\ asked'.timeout = asked.timeout
  BY DEF startTimer, Inv, Ask
<1>3. UNCHANGED <<timeout, operation, cancellation>>
  BY DEF startTimer
<1> QED
  BY <1>1, <1>2, <1>3 DEF Inv, TypeOK, TimerStatus

LEMMA StartTimeoutStep ==
  ASSUME Inv, NEW now \in Instants, NEW duration \in Instants, startTimeout(now, duration)
  PROVE  Inv'
<1>1. /\ timeout' \in States(TimeoutStatus) /\ WellFormed(timeout')
      /\ OnItsSide(timeout', [start |-> now, duration |-> duration])
  BY StartedWell DEF startTimeout, TimeoutStatus
<1>2. /\ asked' \in [timer : Ask \cup {None}, timeout : Ask \cup {None}]
      /\ asked'.timer = asked.timer
      /\ asked'.timeout = [start |-> now, duration |-> duration]
  BY DEF startTimeout, Inv, Ask
<1>3. UNCHANGED <<timer, operation, cancellation>>
  BY DEF startTimeout
<1> QED
  BY <1>1, <1>2, <1>3 DEF Inv, TypeOK, TimeoutStatus

LEMMA ObserveStep ==
  ASSUME Inv, NEW now \in Instants, observe(now) PROVE Inv'
<1>1. CASE timer.status # "pending" \/ now < timer.last_now
  BY <1>1 DEF observe, Inv, TypeOK
<1>2. CASE ~(timer.status # "pending" \/ now < timer.last_now)
  <2>1. /\ timer \in States(TimerStatus) /\ WellFormed(timer) /\ OnItsSide(timer, asked.timer)
        /\ timer.status = "pending" /\ now # None
    BY <1>2, ConstantsAssumption DEF observe, Inv, TypeOK, TimerStatus, Instants
  <2>2. /\ timer' = [timer EXCEPT !.last_now = now,
                       !.status = IF Reached(timer, now) THEN "fired" ELSE "pending"]
        /\ UNCHANGED <<timeout, operation, cancellation, asked>>
    BY <1>2 DEF observe
  <2>3. /\ timer.deadline \in Instants /\ timer.reason = None
        /\ timer.deadline = asked.timer.start + asked.timer.duration /\ asked.timer \in Ask
    BY <2>1, ConstantsAssumption DEF OnItsSide, WellFormed, States
  <2>4. /\ timer' \in States(TimerStatus) /\ timer'.deadline = timer.deadline
        /\ timer'.reason = timer.reason /\ timer'.last_now = now
        /\ timer'.status = IF now >= timer.deadline THEN "fired" ELSE "pending"
    BY <2>1, <2>2 DEF States, TimerStatus, Reached
  <2>5. WellFormed(timer') /\ OnItsSide(timer', asked.timer)
    <3>1. timer.deadline # None /\ "deadline_overflow" # None
      BY <2>1, <2>3, ConstantsAssumption DEF Instants, Reasons
    <3>2. /\ (timer'.status = "unavailable") <=> (timer'.reason # None)
          /\ timer'.deadline # None /\ timer'.last_now # None
          /\ timer'.reason # "deadline_overflow"
      BY <2>1, <2>3, <2>4, <3>1
    <3>3. WellFormed(timer')
      BY <3>2 DEF WellFormed
    <3>4. OnItsSide(timer', asked.timer)
      <4>1. timer'.deadline \in Nat /\ now \in Nat /\ now \in Instants
        BY <2>3, <2>4, ConstantsAssumption DEF Instants
      <4> QED
        BY <2>3, <2>4, <4>1 DEF OnItsSide
    <3> QED
      BY <3>3, <3>4
  <2> QED
    BY <2>2, <2>4, <2>5 DEF Inv, TypeOK, TimerStatus
<1> QED
  BY <1>1, <1>2

LEMMA PolledWell ==
  ASSUME Inv, timeout # None, timeout.status = "pending", NEW now \in Instants
  PROVE  /\ Polled(timeout, now) \in States(TimeoutStatus)
         /\ WellFormed(Polled(timeout, now)) /\ OnItsSide(Polled(timeout, now), asked.timeout)
<1> DEFINE p == timeout
           read == [p EXCEPT !.last_now = now]
<1>1. /\ p \in States(TimeoutStatus) /\ WellFormed(p) /\ OnItsSide(p, asked.timeout)
      /\ now # None
  BY ConstantsAssumption DEF Inv, TypeOK, TimeoutStatus, Instants
<1>2. /\ p.deadline \in Instants /\ p.reason = None /\ p.last_now \in Instants
      /\ p.deadline = asked.timeout.start + asked.timeout.duration /\ asked.timeout \in Ask
  BY <1>1, ConstantsAssumption DEF OnItsSide, WellFormed, States
<1>3. /\ read \in States(TimeoutStatus) /\ read.deadline = p.deadline /\ read.reason = None
      /\ read.last_now = now /\ read.status = "pending"
  BY <1>1, <1>2 DEF States
<1>4. /\ \A why \in {"clock_regression", "operation_unavailable", "cancellation_unavailable"} :
           why # None /\ why \in Reasons /\ why # "deadline_overflow"
      /\ p.deadline # None /\ p.last_now # None
  BY <1>2, ConstantsAssumption DEF Instants, Reasons
<1>5. ASSUME NEW q \in {p, read}, NEW why \in {"clock_regression", "operation_unavailable",
                                               "cancellation_unavailable"}
      PROVE  /\ Unavailable(q, why) \in States(TimeoutStatus)
             /\ WellFormed(Unavailable(q, why)) /\ OnItsSide(Unavailable(q, why), asked.timeout)
  BY <1>1, <1>2, <1>3, <1>4 DEF Unavailable, States, WellFormed, OnItsSide, TimeoutStatus
<1>6. ASSUME NEW status \in {"timed_out", "completed", "cancelled", "pending"},
             status = "timed_out" => now >= p.deadline,
             status \in {"completed", "cancelled", "pending"} => now < p.deadline
      PROVE  /\ [read EXCEPT !.status = status] \in States(TimeoutStatus)
             /\ WellFormed([read EXCEPT !.status = status])
             /\ OnItsSide([read EXCEPT !.status = status], asked.timeout)
  <2> DEFINE q == [read EXCEPT !.status = status]
  <2>1. /\ q \in States(TimeoutStatus) /\ q.status = status /\ q.reason = None
        /\ q.deadline = p.deadline /\ q.last_now = now
    BY <1>3, <1>6 DEF States, TimeoutStatus
  <2>2. p.deadline \in Nat /\ now \in Nat
    BY <1>2, ConstantsAssumption DEF Instants
  <2> HIDE DEF q
  <2>3. WellFormed(q)
    BY <1>1, <1>4, <1>6, <2>1 DEF WellFormed
  <2>4. OnItsSide(q, asked.timeout)
    BY <1>2, <1>6, <2>1, <2>2 DEF OnItsSide
  <2> QED
    BY <2>1, <2>3, <2>4 DEF q
<1>7. CASE now < p.last_now
  BY <1>5, <1>7 DEF Polled
<1>8. CASE ~(now < p.last_now) /\ Reached(p, now)
  BY <1>6, <1>8 DEF Polled, Reached
<1>9. CASE ~(now < p.last_now) /\ ~Reached(p, now)
  <2>1. Polled(p, now) = Sampled(read) /\ now < p.deadline
    BY <1>2, <1>9 DEF Polled, Reached, Instants
  <2>2. operation \in {"pending", "completed", "unavailable"}
        /\ cancellation \in {"pending", "cancelled", "unavailable"}
    BY DEF Inv, TypeOK
  <2>3. read = [read EXCEPT !.status = "pending"]
    BY <1>3 DEF States
  <2>4. \/ \E why \in {"operation_unavailable", "cancellation_unavailable"} :
             Sampled(read) = Unavailable(read, why)
        \/ \E status \in {"completed", "cancelled"} :
             Sampled(read) = [read EXCEPT !.status = status]
        \/ Sampled(read) = read
    BY <2>2 DEF Sampled
  <2> HIDE DEF read
  <2> QED
    BY <1>5, <1>6, <2>1, <2>3, <2>4
<1> QED
  BY <1>7, <1>8, <1>9

LEMMA PollStep ==
  ASSUME Inv, NEW now \in Instants, poll(now) PROVE Inv'
<1>1. CASE timeout.status # "pending"
  BY <1>1 DEF poll, Inv, TypeOK
<1>2. CASE timeout.status = "pending"
  <2>1. /\ timeout' = Polled(timeout, now) /\ timeout # None
        /\ UNCHANGED <<timer, operation, cancellation, asked>>
    BY <1>2 DEF poll
  <2> QED
    BY <1>2, <2>1, PolledWell DEF Inv, TypeOK, TimeoutStatus
<1> QED
  BY <1>1, <1>2

LEMMA InvHolds == Spec => []Inv
<1>1. Inv /\ [Next]_vars => Inv'
  <2>1. ASSUME Inv, Resolve PROVE Inv'
    BY <2>1 DEF Resolve, Inv, TypeOK
  <2>2. ASSUME Inv, UNCHANGED vars PROVE Inv'
    BY <2>2 DEF vars, Inv, TypeOK
  <2> QED
    BY <2>1, <2>2, StartTimerStep, StartTimeoutStep, ObserveStep, PollStep DEF Next
<1> QED
  BY <1>1, InitInv, PTL DEF Spec

-----------------------------------------------------------------------------

\* A started primitive is unavailable exactly when it has a reason and keeps a
\* deadline unless the checked addition overflowed (run_timer, run_timeout).
THEOREM TypeCorrect == Spec => []TypeOK
<1>1. Inv => TypeOK
  BY DEF Inv
<1> QED
  BY InvHolds, <1>1, PTL

\* For every largest instant, a primitive expires not before the duration asked
\* of it and completes or is cancelled only before (start's checked addition,
\* the inclusive deadline, and the order of poll's tests).
THEOREM DurationsRespected == Spec => []DurationRespected
<1>1. Inv => DurationRespected
  <2>1. ASSUME NEW p, NEW ask, OnItsSide(p, ask)
        PROVE  /\ p.status \in {"fired", "timed_out"} => p.last_now - ask.start >= ask.duration
               /\ p.status \in {"completed", "cancelled"} => p.last_now - ask.start < ask.duration
    <3>1. CASE p.status = "unavailable"
      BY <3>1
    <3>2. CASE p.status # "unavailable"
      <4>1. /\ ask.start \in Nat /\ ask.duration \in Nat /\ p.last_now \in Nat
            /\ p.deadline = ask.start + ask.duration
        BY <2>1, <3>2, ConstantsAssumption DEF OnItsSide, Ask, Instants
      <4> QED
        BY <2>1, <3>2, <4>1 DEF OnItsSide
    <3> QED
      BY <3>1, <3>2
  <2> QED
    BY <2>1 DEF Inv, DurationRespected
<1> QED
  BY InvHolds, <1>1, PTL

-----------------------------------------------------------------------------
(* Expiry and the first result *)

\* A pending primitive expires at a reading exactly when the duration asked has
\* gone by since start, whatever readings came before and whatever the probes say,
\* and a reading at the end of the clock leaves none pending.
ExpiresOnTime ==
  \A now \in Instants :
    /\ observe(now) /\ timer.status = "pending" =>
         /\ (timer'.status = "fired") <=> (now - asked.timer.start >= asked.timer.duration)
         /\ now = U64_MAX => timer'.status # "pending"
    /\ poll(now) /\ timeout.status = "pending" =>
         /\ (timeout'.status = "timed_out")
              <=> (now - asked.timeout.start >= asked.timeout.duration)
         /\ now = U64_MAX => timeout'.status # "pending"

\* The first result of a primitive stands.
FirstResultStands ==
  /\ timer # None /\ timer.status # "pending" => UNCHANGED timer
  /\ timeout # None /\ timeout.status # "pending" => UNCHANGED timeout

LEMMA PendingIs ==
  ASSUME NEW p, NEW ask, OnItsSide(p, ask), p.status = "pending"
  PROVE  /\ ask.start \in Nat /\ ask.duration \in Nat /\ p.last_now \in Nat
         /\ p.deadline = ask.start + ask.duration /\ p.last_now <= p.deadline
BY ConstantsAssumption DEF OnItsSide, Ask, Instants

\* Together with DurationsRespected, a primitive expires neither early nor late, its
\* deadline comes before its probes, and its first result is its last (run_timer,
\* run_timeout).  This is what EventuallyResolved leaves to the caller's readings.
THEOREM ExpiryExact == Spec => [][ExpiresOnTime /\ FirstResultStands]_vars
<1>1. ASSUME Inv, NEW now \in Instants, observe(now), timer.status = "pending"
      PROVE  /\ (timer'.status = "fired") <=> (now - asked.timer.start >= asked.timer.duration)
             /\ now = U64_MAX => timer'.status # "pending"
  <2>1. /\ timer # None /\ OnItsSide(timer, asked.timer) /\ timer \in States(TimerStatus)
        /\ now \in Nat /\ now <= U64_MAX
    BY <1>1, ConstantsAssumption DEF Inv, TypeOK, observe, TimerStatus, Instants
  <2>2. /\ asked.timer.start \in Nat /\ asked.timer.duration \in Nat /\ timer.last_now \in Nat
        /\ timer.deadline = asked.timer.start + asked.timer.duration
        /\ timer.last_now <= timer.deadline
    BY <1>1, <2>1, PendingIs
  <2>3. timer.deadline <= U64_MAX
    BY <1>1, <2>1, <2>2, ConstantsAssumption DEF States, Instants
  <2>4. /\ now < timer.last_now => timer' = timer
        /\ ~(now < timer.last_now) =>
             timer'.status = IF now >= timer.deadline THEN "fired" ELSE "pending"
    BY <1>1, <2>1 DEF observe, Reached, States
  <2> QED
    BY <1>1, <2>1, <2>2, <2>3, <2>4
<1>2. ASSUME Inv, NEW now \in Instants, poll(now), timeout.status = "pending"
      PROVE  /\ (timeout'.status = "timed_out")
                  <=> (now - asked.timeout.start >= asked.timeout.duration)
             /\ now = U64_MAX => timeout'.status # "pending"
  <2>1. /\ timeout # None /\ OnItsSide(timeout, asked.timeout) /\ timeout \in States(TimeoutStatus)
        /\ now \in Nat /\ now <= U64_MAX /\ timeout' = Polled(timeout, now)
        /\ operation \in {"pending", "completed", "unavailable"}
        /\ cancellation \in {"pending", "cancelled", "unavailable"}
    BY <1>2, ConstantsAssumption DEF Inv, TypeOK, poll, TimeoutStatus, Instants
  <2>2. /\ asked.timeout.start \in Nat /\ asked.timeout.duration \in Nat
        /\ timeout.last_now \in Nat
        /\ timeout.deadline = asked.timeout.start + asked.timeout.duration
        /\ timeout.last_now <= timeout.deadline
    BY <1>2, <2>1, PendingIs
  <2>3. timeout.deadline <= U64_MAX
    BY <1>2, <2>1, <2>2, ConstantsAssumption DEF States, Instants
  <2>4. CASE now < timeout.last_now
    <3>1. timeout'.status = "unavailable"
      BY <2>1, <2>4 DEF Polled, Unavailable, States
    <3> QED
      BY <2>1, <2>2, <2>3, <2>4, <3>1
  <2>5. CASE ~(now < timeout.last_now) /\ now >= timeout.deadline
    <3>1. timeout'.status = "timed_out"
      BY <2>1, <2>5 DEF Polled, Reached, States
    <3> QED
      BY <2>1, <2>2, <2>5, <3>1
  <2>6. CASE ~(now < timeout.last_now) /\ ~(now >= timeout.deadline)
    <3> DEFINE read == [timeout EXCEPT !.last_now = now]
    <3>1. timeout' = Sampled(read) /\ read.status = "pending" /\ read \in States(TimeoutStatus)
      BY <1>2, <2>1, <2>6 DEF Polled, Reached, States
    <3> HIDE DEF read
    <3>2. timeout'.status \in {"pending", "completed", "cancelled", "unavailable"}
      BY <2>1, <3>1 DEF Sampled, Unavailable, States
    <3> QED
      BY <2>1, <2>2, <2>3, <2>6, <3>2
  <2> QED
    BY <2>4, <2>5, <2>6
<1>3. ASSUME Inv, [Next]_vars PROVE FirstResultStands
  BY <1>3 DEF Next, startTimer, startTimeout, observe, poll, Resolve, vars, FirstResultStands
<1>4. Inv /\ [Next]_vars => ExpiresOnTime /\ FirstResultStands
  BY <1>1, <1>2, <1>3 DEF ExpiresOnTime
<1> QED
  BY InvHolds, <1>4, PTL DEF Spec
=============================================================================
