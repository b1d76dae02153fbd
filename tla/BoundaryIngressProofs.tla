----------------------- MODULE BoundaryIngressProofs -----------------------
(***************************************************************************)
(* Theorems about BoundaryIngress, for every number of keys, members,      *)
(* generations and events and every policy.  The projection is faithful    *)
(* because the buffer only ever holds published events beyond the cursor:  *)
(* draining a contiguous run of them retraces the producer's own steps.    *)
(*                                                                         *)
(* That needs induction along the run.  It is carried out by the least     *)
(* counterexample, which the well-foundedness of finite sets provides.     *)
(***************************************************************************)
EXTENDS BoundaryIngress, TLAPS, FiniteSetTheorems, WellFoundedInduction

State == [keys : SUBSET Keys, validation : {"valid", "invalid"}]

\* Per generation the producer's states follow from its events.
ProducerOK ==
  /\ produced \in 1 .. MaxGen
  /\ log \in [1 .. MaxGen -> Seq(Actions)]
  /\ DOMAIN truth = 1 .. MaxGen
  /\ \A g \in 1 .. MaxGen :
       /\ Len(log[g]) <= MaxCursor
       /\ DOMAIN truth[g] = 0 .. Len(log[g])
       /\ \A c \in 0 .. Len(log[g]) : truth[g][c] \in State
       /\ \A c \in 1 .. Len(log[g]) : truth[g][c] = Effect(truth[g][c - 1], log[g][c])

\* Before its first generation the adapter has nothing.
Detached == generation = 0 => cursor = None /\ DOMAIN buffered = {}

Inv == TypeOK /\ ProducerOK /\ Detached /\ ProjectionFaithful /\ BufferSound

-----------------------------------------------------------------------------
(* Draining *)

LEMMA Least ==
  ASSUME NEW T \in SUBSET Nat, T # {} PROVE \E m \in T : \A y \in T : m <= y
<1> DEFINE Up == {1 .. y : y \in T}
<1>1. Up \subseteq FiniteSubsetsOf(Nat) /\ Up # {}
  <2>1. \A y \in T : y \in Int /\ 1 .. y \subseteq Nat
    OBVIOUS
  <2>2. \A y \in T : IsFiniteSet(1 .. y)
    BY <2>1, FS_Interval
  <2> QED
    BY <2>1, <2>2 DEF FiniteSubsetsOf
<1>2. PICK I \in Up : \A J \in Up : ~(<<J, I>> \in StrictSubsetOrdering(Nat))
  BY <1>1, FS_StrictSubsetOrderingWellFounded, WFMin
<1>3. PICK m \in T : I = 1 .. m
  OBVIOUS
<1>4. ASSUME NEW y \in T PROVE ~(y < m)
  <2>1. ~(<<1 .. y, 1 .. m>> \in StrictSubsetOrdering(Nat))
    BY <1>2, <1>3
  <2> QED
    BY <2>1 DEF StrictSubsetOrdering
<1> QED
  BY <1>3, <1>4

\* The run of buffered events after c, up to the first that is missing.
LEMMA DrainEndIs ==
  ASSUME NEW buf, DOMAIN buf \subseteq Cursors, NEW c \in 0 .. MaxCursor
  PROVE  /\ DrainEnd(buf, c) \in c .. MaxCursor
         /\ \A x \in c + 1 .. DrainEnd(buf, c) : x \in DOMAIN buf
         /\ DrainEnd(buf, c) + 1 \notin DOMAIN buf
<1> DEFINE Stops == {d \in c .. MaxCursor : d + 1 \notin DOMAIN buf}
<1>1. MaxCursor \in Stops /\ Stops \in SUBSET Nat
  BY ConstantsAssumption DEF Cursors
<1>2. PICK m \in Stops : \A y \in Stops : m <= y
  BY <1>1, Least
<1>3. ASSUME NEW x \in c + 1 .. m PROVE x \in DOMAIN buf
  <2>1. x - 1 \in c .. MaxCursor /\ x - 1 < m /\ (x - 1) + 1 = x
    BY ConstantsAssumption
  <2>2. x - 1 \notin Stops
    BY <1>1, <1>2, <2>1
  <2> QED
    BY <2>1, <2>2
<1> QED
  BY <1>2, <1>3 DEF DrainEnd

\* Applying a run of the producer's events to its state of cursor c gives its
\* state at the end of the run.
LEMMA DrainedIs ==
  ASSUME NEW c \in Nat, NEW d \in Nat, c <= d, NEW buf, NEW states,
         \A x \in c + 1 .. d : states[x] = Effect(states[x - 1], buf[x])
  PROVE  Drained(buf, states[c], c, d) = states[d]
<1> DEFINE F(f) == [x \in c .. d |-> IF x = c THEN states[c] ELSE Effect(f[x - 1], buf[x])]
           g == CHOOSE f : f = F(f)
           h == [x \in c .. d |-> states[x]]
<1>1. h = F(h)
  <2>1. \A x \in c .. d : x # c => x - 1 \in c .. d /\ h[x - 1] = states[x - 1]
    OBVIOUS
  <2> QED
    BY <2>1
<1>2. g = F(g)
  <2> HIDE DEF F, h
  <2> QED
    BY <1>1
<1>3. \A x \in c .. d : g[x] = IF x = c THEN states[c] ELSE Effect(g[x - 1], buf[x])
  <2> HIDE DEF g
  <2> QED
    BY <1>2
<1>4. Drained(buf, states[c], c, d) = g[d]
  BY DEF Drained
<1> DEFINE Bad == {x \in c .. d : g[x] # states[x]}
<1>5. Bad = {}
  <2> SUFFICES ASSUME Bad # {} PROVE FALSE
    OBVIOUS
  <2> HIDE DEF g
  <2>1. Bad \in SUBSET Nat
    OBVIOUS
  <2>2. PICK m \in Bad : \A y \in Bad : m <= y
    BY <2>1, Least
  <2>3. m # c
    BY <1>3
  <2>4. m - 1 \in c .. d /\ m - 1 \notin Bad
    BY <2>2, <2>3
  <2> QED
    BY <1>3, <2>3, <2>4
<1> QED
  BY <1>4, <1>5

LEMMA EffectIsState ==
  ASSUME NEW st \in State, NEW a \in Actions PROVE Effect(st, a) \in State
<1>1. CASE a \in [action : {"upsert", "remove"}, key : Keys]
  BY <1>1 DEF Effect, State
<1>2. CASE a \in [action : {"validate"}, validation : {"valid", "invalid"}]
  BY <1>2 DEF Effect, State
<1> QED
  BY <1>1, <1>2 DEF Actions

\* What Settle leaves when the buffer holds published events after c.
LEMMA SettleIsFaithful ==
  ASSUME TypeOK, ProducerOK, NEW g \in 1 .. MaxGen, generation' = g, NEW c \in DOMAIN truth[g],
         NEW st, st = truth[g][c], NEW buf, Settle(c, st, buf), UNCHANGED producer,
         Cardinality(DOMAIN buf) <= MaxBuffered,
         \A x \in DOMAIN buf : x > c /\ x \in DOMAIN log[g] /\ buf[x] = log[g][x]
  PROVE  /\ ProjectionFaithful' /\ BufferSound' /\ cursor' # None
         /\ cursor' \in c .. MaxCursor /\ source_keys' \subseteq Keys
         /\ validation' \in {"valid", "invalid"} /\ last_stamped_at' \in 0 .. MaxCursor
         /\ replay_from' \in 0 .. MaxCursor \cup {None}
         /\ phase' \in {"live", "invalid", "replay_required"}
         /\ DOMAIN buffered' \subseteq Cursors
         /\ \A x \in DOMAIN buffered' : buffered'[x] \in Actions
<1> DEFINE n    == Len(log[g])
           d    == DrainEnd(buf, c)
           rest == [x \in DOMAIN buf \ (c + 1 .. d) |-> buf[x]]
<1>1. /\ n \in Nat /\ n <= MaxCursor /\ DOMAIN log[g] = 1 .. n /\ DOMAIN truth[g] = 0 .. n
      /\ \A x \in 1 .. n : log[g][x] \in Actions
      /\ c \in 0 .. n /\ MaxCursor \in Nat
  BY ConstantsAssumption DEF ProducerOK
<1>2. DOMAIN buf \subseteq 1 .. n /\ DOMAIN buf \subseteq Cursors
  BY <1>1 DEF Cursors
<1>3. /\ d \in c .. MaxCursor /\ \A x \in c + 1 .. d : x \in DOMAIN buf
      /\ d + 1 \notin DOMAIN buf
  BY <1>1, <1>2, DrainEndIs
<1> HIDE DEF d
<1>4. d \in c .. n
  <2>1. CASE d = c
    BY <1>1, <2>1
  <2>2. CASE d # c
    BY <1>1, <1>2, <1>3, <2>2
  <2> QED
    BY <2>1, <2>2
<1>5. Drained(buf, st, c, d) = truth[g][d]
  <2>1. \A x \in c + 1 .. d : truth[g][x] = Effect(truth[g][x - 1], buf[x])
    BY <1>1, <1>3, <1>4 DEF ProducerOK
  <2> DEFINE states == truth[g]
  <2>2. c \in Nat /\ d \in Nat /\ c <= d /\ st = states[c]
    BY <1>1, <1>4
  <2>3. \A x \in c + 1 .. d : states[x] = Effect(states[x - 1], buf[x])
    BY <2>1
  <2> HIDE DEF states
  <2>4. Drained(buf, states[c], c, d) = states[d]
    BY <2>2, <2>3, DrainedIs
  <2> QED
    BY <2>2, <2>4 DEF states
<1>6. truth[g][d] \in State
  BY <1>1, <1>4 DEF ProducerOK
<1>7. /\ cursor' = d /\ source_keys' = truth[g][d].keys
      /\ validation' = truth[g][d].validation /\ last_stamped_at' = d /\ buffered' = rest
      /\ replay_from' = (IF DOMAIN rest # {} THEN d + 1 ELSE None)
      /\ phase' = (IF DOMAIN rest # {} THEN "replay_required"
                   ELSE IF truth[g][d].validation = "valid" THEN "live" ELSE "invalid")
  BY <1>5 DEF Settle, Stamp, d
<1>8. /\ DOMAIN rest \subseteq DOMAIN buf
      /\ \A x \in DOMAIN rest : x > d + 1 /\ rest[x] = buf[x]
  BY <1>1, <1>2, <1>3, <1>4
<1>9. DOMAIN rest # {} => d + 1 <= MaxCursor
  BY <1>1, <1>2, <1>4, <1>8
<1>10. Cardinality(DOMAIN rest) <= MaxBuffered
  <2>1. IsFiniteSet(DOMAIN buf)
    <3> HIDE DEF n
    <3>1. IsFiniteSet(1 .. n)
      BY <1>1, FS_Interval, 1 \in Int, n \in Int
    <3> QED
      BY <1>2, <3>1, FS_Subset
  <2>2. /\ Cardinality(DOMAIN rest) <= Cardinality(DOMAIN buf)
        /\ Cardinality(DOMAIN rest) \in Nat /\ Cardinality(DOMAIN buf) \in Nat
    BY <1>8, <2>1, FS_Subset, FS_CardinalityType
  <2> QED
    BY <2>2, ConstantsAssumption
<1>11. truth' = truth /\ log' = log
  BY DEF producer
<1>12. ProjectionFaithful'
  <2>1. truth[g][d] = [keys |-> truth[g][d].keys, validation |-> truth[g][d].validation]
    BY <1>6 DEF State
  <2> QED
    BY <1>1, <1>4, <1>7, <1>11, <2>1 DEF ProjectionFaithful
<1> HIDE DEF rest
<1>13. BufferHoldsPublished'
  BY <1>7, <1>8, <1>10, <1>11 DEF BufferHoldsPublished
<1>14. cursor' # None /\ cursor' \in c .. MaxCursor /\ cursor' \in 0 .. MaxCursor
  BY <1>1, <1>4, <1>7, ConstantsAssumption
<1>15. DOMAIN buffered' \subseteq Cursors /\ \A x \in DOMAIN buffered' : buffered'[x] \in Actions
  BY <1>1, <1>2, <1>7, <1>8
<1>16. replay_from' \in 0 .. MaxCursor \cup {None}
  BY <1>1, <1>4, <1>7, <1>9
<1>17. PhaseTellsGap'
  BY <1>7, <1>14 DEF PhaseTellsGap
<1> QED
  BY <1>1, <1>4, <1>6, <1>7, <1>12, <1>13, <1>14, <1>15, <1>16, <1>17 DEF State, BufferSound

\* A step that leaves the projection and the producer's logs alone.
LEMMA ProjectionUntouched ==
  ASSUME Inv, UNCHANGED <<projection, log, truth, last_stamped_at>>, produced' \in 1 .. MaxGen,
         members' \subseteq Members, delivery' \in Delivery \cup {None}, now' \in 0 .. MaxNow,
         revision' \in {0, 1}
  PROVE  Inv'
BY DEF Inv, projection, TypeOK, ProducerOK, Detached, ProjectionFaithful, BufferSound,
       BufferHoldsPublished, PhaseTellsGap

LEMMA InitInv == Init => Inv
<1> SUFFICES ASSUME Init PROVE Inv
  OBVIOUS
<1>1. DOMAIN NoEvents = {}
  BY DEF NoEvents
<1>2. TypeOK
  BY <1>1, ConstantsAssumption DEF Init, TypeOK
<1>3. ProducerOK
  BY ConstantsAssumption DEF Init, ProducerOK, Fresh0, State
<1>4. Cardinality({}) = 0
  BY FS_EmptySet
<1> QED
  BY <1>1, <1>2, <1>3, <1>4, ConstantsAssumption
  DEF Init, Inv, Detached, ProjectionFaithful, BufferSound, BufferHoldsPublished, PhaseTellsGap

LEMMA RevisionStep ==
  ASSUME TypeOK, Changed PROVE revision' \in {0, 1} /\ revision' # revision
BY DEF TypeOK, Changed

\* A published event or snapshot is of a generation the bounds allow.
LEMMA Generations ==
  ASSUME Inv, NEW g \in 1 .. produced
  PROVE  /\ g \in 1 .. MaxGen /\ Len(log[g]) \in Nat /\ Len(log[g]) <= MaxCursor
         /\ log[g] \in Seq(Actions) /\ DOMAIN truth[g] = 0 .. Len(log[g])
<1>1. produced \in 1 .. MaxGen
  BY DEF Inv, ProducerOK
<1>2. g \in 1 .. MaxGen
  BY <1>1, ConstantsAssumption
<1> QED
  BY <1>2 DEF Inv, ProducerOK

-----------------------------------------------------------------------------
(* The adapter's inputs *)

LEMMA SubscribeStep ==
  ASSUME Inv, NEW g \in 1 .. produced, subscribe(g) PROVE Inv'
<1>1. DOMAIN NoEvents = {} /\ Cardinality({}) = 0
  BY FS_EmptySet DEF NoEvents
<1>2. g \in 1 .. MaxGen
  BY Generations
<1>3. TypeOK'
  BY <1>1, <1>2, RevisionStep, ConstantsAssumption DEF Inv, TypeOK, subscribe, clock
<1>4. ProducerOK'
  BY DEF Inv, ProducerOK, subscribe, producer
<1>5. BufferSound' /\ ProjectionFaithful' /\ Detached'
  BY <1>1, <1>2, ConstantsAssumption
  DEF subscribe, BufferSound, BufferHoldsPublished, PhaseTellsGap, ProjectionFaithful, Detached
<1> QED
  BY <1>3, <1>4, <1>5 DEF Inv

LEMMA StaleStep ==
  ASSUME Inv, NEW g, StaleMessage(g) PROVE Inv'
BY RevisionStep, ProjectionUntouched
DEF StaleMessage, Inv, TypeOK, ProducerOK, receipts, clock, producer

LEMMA InstallStep ==
  ASSUME Inv, NEW g \in 1 .. produced, NEW c \in 0 .. Len(log[g]), NEW ms \in SUBSET Members,
         InstallSnapshot(g, c, ms)
  PROVE  Inv' /\ cursor' >= c /\ phase' \in {"live", "invalid", "replay_required"}
<1> DEFINE kept == IF g > generation THEN NoEvents
                   ELSE [x \in {y \in DOMAIN buffered : y > c} |-> buffered[x]]
<1>1. /\ g \in 1 .. MaxGen /\ c \in DOMAIN truth[g] /\ generation' = g
      /\ Settle(c, truth[g][c], kept) /\ UNCHANGED producer /\ Changed
      /\ members' = ms /\ UNCHANGED <<delivery, now>> /\ g >= generation
  BY Generations DEF InstallSnapshot
<1>2. \A x \in DOMAIN kept : x > c /\ x \in DOMAIN log[g] /\ kept[x] = log[g][x]
  <2>1. CASE g > generation
    BY <2>1 DEF NoEvents
  <2>2. CASE ~(g > generation)
    <3>1. g = generation
      BY <1>1, <2>2 DEF Inv, TypeOK
    <3> QED
      BY <2>2, <3>1 DEF Inv, BufferSound, BufferHoldsPublished
  <2> QED
    BY <2>1, <2>2
<1>3. Cardinality(DOMAIN kept) <= MaxBuffered
  <2>1. DOMAIN kept \subseteq DOMAIN buffered
    BY DEF NoEvents
  <2>2. IsFiniteSet(Cursors)
    BY ConstantsAssumption, FS_Interval, 1 \in Int, MaxCursor \in Int DEF Cursors
  <2>3. IsFiniteSet(DOMAIN buffered)
    BY <2>2, FS_Subset DEF Inv, TypeOK
  <2>4. /\ Cardinality(DOMAIN kept) <= Cardinality(DOMAIN buffered)
        /\ Cardinality(DOMAIN kept) \in Nat /\ Cardinality(DOMAIN buffered) \in Nat
    BY <2>1, <2>3, FS_Subset, FS_CardinalityType
  <2> QED
    BY <2>4, ConstantsAssumption DEF Inv, BufferSound, BufferHoldsPublished
<1> HIDE DEF kept
<1>4. /\ ProjectionFaithful' /\ BufferSound' /\ cursor' # None /\ cursor' \in c .. MaxCursor
      /\ source_keys' \subseteq Keys
      /\ validation' \in {"valid", "invalid"} /\ last_stamped_at' \in 0 .. MaxCursor
      /\ replay_from' \in 0 .. MaxCursor \cup {None}
      /\ phase' \in {"live", "invalid", "replay_required"}
      /\ DOMAIN buffered' \subseteq Cursors
      /\ \A x \in DOMAIN buffered' : buffered'[x] \in Actions
  BY <1>1, <1>2, <1>3, SettleIsFaithful DEF Inv
<1>5. TypeOK'
  <2>1. cursor' \in 0 .. MaxCursor
    BY <1>1, <1>4, Generations
  <2> QED
    BY <1>1, <1>4, <2>1, RevisionStep DEF Inv, TypeOK
<1>6. ProducerOK' /\ Detached'
  BY <1>1 DEF Inv, ProducerOK, Detached, producer
<1>7. cursor' >= c
  BY <1>4, Generations, ConstantsAssumption
<1> QED
  BY <1>4, <1>5, <1>6, <1>7 DEF Inv

LEMMA ApplyStep ==
  ASSUME Inv, NEW g \in 1 .. produced, NEW c \in 1 .. Len(log[g]), ApplyNext(g, c)
  PROVE  Inv'
<1> DEFINE before == [keys |-> source_keys, validation |-> validation]
           st     == Effect(before, log[g][c])
<1>1. /\ g \in 1 .. MaxGen /\ g = generation /\ cursor # None /\ c = cursor + 1
      /\ generation' = g /\ Settle(c, st, buffered) /\ UNCHANGED <<producer, receipts, now>>
      /\ Changed
  BY Generations DEF ApplyNext
<1>2. c \in DOMAIN truth[g] /\ st = truth[g][c]
  <2>1. truth[g][cursor] = before
    BY <1>1 DEF Inv, ProjectionFaithful
  <2>2. cursor = c - 1 /\ c \in 1 .. Len(log[g])
    BY <1>1 DEF Inv, TypeOK
  <2>3. /\ truth[g][c] = Effect(truth[g][c - 1], log[g][c])
        /\ DOMAIN truth[g] = 0 .. Len(log[g]) /\ Len(log[g]) \in Nat
    BY <1>1 DEF Inv, ProducerOK
  <2> QED
    BY <2>1, <2>2, <2>3
<1>3. \A x \in DOMAIN buffered : x > c /\ x \in DOMAIN log[g] /\ buffered[x] = log[g][x]
  BY <1>1 DEF Inv, BufferSound, BufferHoldsPublished
<1> HIDE DEF st
<1>4. /\ ProjectionFaithful' /\ BufferSound' /\ cursor' # None /\ cursor' \in c .. MaxCursor
      /\ source_keys' \subseteq Keys
      /\ validation' \in {"valid", "invalid"} /\ last_stamped_at' \in 0 .. MaxCursor
      /\ replay_from' \in 0 .. MaxCursor \cup {None}
      /\ phase' \in {"live", "invalid", "replay_required"}
      /\ DOMAIN buffered' \subseteq Cursors
      /\ \A x \in DOMAIN buffered' : buffered'[x] \in Actions
  BY <1>1, <1>2, <1>3, SettleIsFaithful DEF Inv, BufferSound, BufferHoldsPublished
<1>5. TypeOK'
  <2>1. cursor' \in 0 .. MaxCursor
    BY <1>1, <1>4, Generations
  <2> QED
    BY <1>1, <1>4, <2>1, RevisionStep DEF Inv, TypeOK, receipts
<1>6. ProducerOK' /\ Detached'
  BY <1>1 DEF Inv, ProducerOK, Detached, producer
<1> QED
  BY <1>4, <1>5, <1>6 DEF Inv

\* A buffer that is not full has room for one more event.
LEMMA RoomForOne ==
  ASSUME NEW S \in SUBSET Cursors, NEW c, Cardinality(S) < MaxBuffered
  PROVE  Cardinality(S \cup {c}) <= MaxBuffered
<1>1. IsFiniteSet(Cursors)
  BY ConstantsAssumption, FS_Interval, 1 \in Int, MaxCursor \in Int DEF Cursors
<1>2. IsFiniteSet(S)
  BY <1>1, FS_Subset
<1>3. Cardinality(S) \in Nat
  BY <1>2, FS_CardinalityType
<1>4. Cardinality(S \cup {c}) \in {Cardinality(S), Cardinality(S) + 1}
  BY <1>2, FS_AddElement
<1> QED
  BY <1>3, <1>4, ConstantsAssumption

\* An event that stays in the buffer, or is refused, of the generation g the
\* adapter is then at.
LEMMA BufferStep ==
  ASSUME Inv, NEW g \in 1 .. produced, NEW c \in 1 .. Len(log[g]), NEW buf,
         DOMAIN buf \subseteq Cursors, Cardinality(DOMAIN buf) <= MaxBuffered,
         \A x \in DOMAIN buf : buf[x] \in Actions /\ x \in DOMAIN log[g] /\ buf[x] = log[g][x],
         cursor' \in 0 .. MaxCursor \cup {None},
         cursor' # None => /\ cursor' = cursor /\ g = generation /\ c > cursor + 1
                           /\ \A x \in DOMAIN buf : x > cursor + 1,
         buffered' = buf \/ (Cardinality(DOMAIN buf) < MaxBuffered /\ buffered' = Put(buf, c, log[g][c])),
         generation' = g, phase' \in {"bootstrapping", "replay_required", "backpressured", phase},
         replay_from' \in 0 .. MaxCursor \cup {None}, PhaseTellsGap', Changed,
         UNCHANGED <<source_keys, validation, receipts, clock, producer>>
  PROVE  Inv'
<1>1. /\ g \in 1 .. MaxGen /\ Len(log[g]) \in Nat /\ Len(log[g]) <= MaxCursor
      /\ log[g] \in Seq(Actions)
  BY Generations
<1>2. c \in Cursors /\ c \in DOMAIN log[g] /\ log[g][c] \in Actions
  BY <1>1, ConstantsAssumption DEF Cursors
<1>3. /\ DOMAIN buffered' \subseteq DOMAIN buf \cup {c}
      /\ Cardinality(DOMAIN buffered') <= MaxBuffered
      /\ \A x \in DOMAIN buffered' : buffered'[x] = log[g][x]
  <2>1. CASE buffered' = buf
    BY <2>1
  <2>2. CASE Cardinality(DOMAIN buf) < MaxBuffered /\ buffered' = Put(buf, c, log[g][c])
    <3>1. Cardinality(DOMAIN buf \cup {c}) <= MaxBuffered
      BY <2>2, RoomForOne
    <3>2. DOMAIN buffered' = DOMAIN buf \cup {c}
      BY <2>2 DEF Put
    <3>3. \A x \in DOMAIN buffered' : buffered'[x] = log[g][x]
      BY <2>2 DEF Put
    <3> QED
      BY <3>1, <3>2, <3>3
  <2> QED
    BY <2>1, <2>2
<1>4. /\ DOMAIN buffered' \subseteq Cursors
      /\ \A x \in DOMAIN buffered' : x \in DOMAIN log[g] /\ buffered'[x] \in Actions
  BY <1>2, <1>3
<1>5. TypeOK'
  BY <1>1, <1>4, RevisionStep DEF Inv, TypeOK, receipts, clock
<1>6. ProducerOK' /\ Detached'
  BY <1>1 DEF Inv, ProducerOK, Detached, producer
<1>7. ProjectionFaithful'
  BY DEF Inv, ProjectionFaithful, producer
<1>8. BufferSound'
  BY <1>3, <1>4 DEF BufferSound, BufferHoldsPublished, producer
<1> QED
  BY <1>5, <1>6, <1>7, <1>8 DEF Inv

LEMMA BufferForSnapshotStep ==
  ASSUME Inv, NEW g \in 1 .. produced, NEW c \in 1 .. Len(log[g]), BufferForSnapshot(g, c)
  PROVE  Inv'
<1> DEFINE buf  == IF g > generation THEN NoEvents ELSE buffered
           full == Cardinality(DOMAIN buf) >= MaxBuffered /\ c \notin DOMAIN buf
<1>1. /\ g > generation \/ g = generation
      /\ generation' = g /\ cursor' = None /\ Changed
      /\ buffered' = (IF full \/ c \in DOMAIN buf THEN buf ELSE Put(buf, c, log[g][c]))
      /\ phase' = (IF full THEN "backpressured"
                   ELSE IF g > generation THEN "bootstrapping" ELSE phase)
      /\ g = generation => g > generation \/ cursor = None
      /\ replay_from' = (IF full THEN 0 ELSE replay_from)
      /\ UNCHANGED <<source_keys, validation, receipts, clock, producer>>
  BY DEF BufferForSnapshot
<1>2. /\ DOMAIN buf \subseteq Cursors /\ Cardinality(DOMAIN buf) <= MaxBuffered
      /\ Cardinality(DOMAIN buf) \in Nat
      /\ \A x \in DOMAIN buf : buf[x] \in Actions /\ x \in DOMAIN log[g] /\ buf[x] = log[g][x]
  <2>1. CASE g > generation
    BY <2>1, FS_EmptySet, ConstantsAssumption DEF NoEvents
  <2>2. CASE g = generation /\ ~(g > generation)
    <3>1. IsFiniteSet(Cursors)
      BY ConstantsAssumption, FS_Interval, 1 \in Int, MaxCursor \in Int DEF Cursors
    <3>2. Cardinality(DOMAIN buffered) \in Nat
      BY <3>1, FS_Subset, FS_CardinalityType DEF Inv, TypeOK
    <3> QED
      BY <2>2, <3>2 DEF Inv, TypeOK, BufferSound, BufferHoldsPublished
  <2> QED
    BY <1>1, <2>1, <2>2
<1> HIDE DEF buf
<1>3. buffered' = buf \/ (Cardinality(DOMAIN buf) < MaxBuffered /\ buffered' = Put(buf, c, log[g][c]))
  BY <1>1, <1>2, ConstantsAssumption
<1>4. replay_from' \in 0 .. MaxCursor \cup {None}
  BY <1>1, ConstantsAssumption DEF Inv, TypeOK
<1>5. PhaseTellsGap'
  <2>1. CASE full
    BY <1>1, <2>1 DEF PhaseTellsGap
  <2>2. CASE ~full /\ g > generation
    BY <1>1, <2>2 DEF PhaseTellsGap
  <2>3. CASE ~full /\ ~(g > generation)
    BY <1>1, <2>3 DEF Inv, BufferSound, PhaseTellsGap
  <2> QED
    BY <2>1, <2>2, <2>3
<1> HIDE DEF full
<1> QED
  BY <1>1, <1>2, <1>3, <1>4, <1>5, BufferStep

LEMMA BufferGapStep ==
  ASSUME Inv, NEW g \in 1 .. produced, NEW c \in 1 .. Len(log[g]), BufferGap(g, c)
  PROVE  Inv'
<1>1. /\ g = generation /\ generation' = g /\ cursor # None /\ cursor' = cursor
      /\ c > cursor + 1 /\ replay_from' = cursor + 1 /\ Changed
      /\ buffered' = (IF Cardinality(DOMAIN buffered) >= MaxBuffered THEN buffered
                      ELSE Put(buffered, c, log[g][c]))
      /\ phase' = (IF Cardinality(DOMAIN buffered) >= MaxBuffered THEN "backpressured"
                   ELSE "replay_required")
      /\ UNCHANGED <<source_keys, validation, receipts, clock, producer>>
  BY DEF BufferGap
<1>2. Len(log[g]) \in Nat /\ Len(log[g]) <= MaxCursor
  BY Generations
<1>3. cursor \in 0 .. MaxCursor /\ replay_from' \in 0 .. MaxCursor \cup {None}
  BY <1>1, <1>2, ConstantsAssumption DEF Inv, TypeOK
<1>4. /\ DOMAIN buffered \subseteq Cursors /\ Cardinality(DOMAIN buffered) <= MaxBuffered
      /\ \A x \in DOMAIN buffered : /\ buffered[x] \in Actions /\ x \in DOMAIN log[g]
                                    /\ buffered[x] = log[g][x] /\ x > cursor + 1
  BY <1>1 DEF Inv, TypeOK, BufferSound, BufferHoldsPublished
<1>5. Cardinality(DOMAIN buffered) \in Nat
  <2>1. IsFiniteSet(Cursors)
    BY ConstantsAssumption, FS_Interval, 1 \in Int, MaxCursor \in Int DEF Cursors
  <2> QED
    BY <1>4, <2>1, FS_Subset, FS_CardinalityType
<1>6. \/ buffered' = buffered
      \/ Cardinality(DOMAIN buffered) < MaxBuffered /\ buffered' = Put(buffered, c, log[g][c])
  BY <1>1, <1>5, ConstantsAssumption
<1>7. PhaseTellsGap'
  <2>1. phase' = "replay_required" => DOMAIN buffered' # {}
    BY <1>1 DEF Put
  <2> QED
    BY <1>1, <2>1 DEF PhaseTellsGap
<1> QED
  BY <1>1, <1>3, <1>4, <1>6, <1>7, BufferStep

-----------------------------------------------------------------------------
(* The whole specification *)

\* A published event extends the log of the current generation and leaves what
\* earlier cursors mean alone.
LEMMA PublishStep ==
  ASSUME Inv, NEW a \in Actions, Publish(a) PROVE Inv'
<1> DEFINE n   == Len(log[produced])
           old == truth[produced]
           new == [c \in 0 .. n + 1 |-> IF c <= n THEN old[c] ELSE Effect(old[n], a)]
<1>1. /\ produced \in 1 .. MaxGen /\ n \in Nat /\ n < MaxCursor /\ log[produced] \in Seq(Actions)
      /\ DOMAIN old = 0 .. n /\ \A c \in 0 .. n : old[c] \in State
      /\ \A c \in 1 .. n : old[c] = Effect(old[c - 1], log[produced][c])
      /\ log \in [1 .. MaxGen -> Seq(Actions)] /\ DOMAIN truth = 1 .. MaxGen
  BY DEF Publish, Inv, ProducerOK
<1>2. /\ log' = [log EXCEPT ![produced] = Append(log[produced], a)]
      /\ truth' = [truth EXCEPT ![produced] = new]
      /\ UNCHANGED <<projection, receipts, clock, revision, produced>>
  BY DEF Publish
<1>3. /\ log' \in [1 .. MaxGen -> Seq(Actions)] /\ DOMAIN truth' = 1 .. MaxGen
      /\ Append(log[produced], a) \in Seq(Actions)
      /\ Len(Append(log[produced], a)) = n + 1
      /\ \A c \in 1 .. n : Append(log[produced], a)[c] = log[produced][c]
      /\ Append(log[produced], a)[n + 1] = a
  BY <1>1, <1>2
<1>4. \A g \in 1 .. MaxGen : g # produced => log'[g] = log[g] /\ truth'[g] = truth[g]
  BY <1>1, <1>2
<1>5. log'[produced] = Append(log[produced], a) /\ truth'[produced] = new
  BY <1>1, <1>2
<1> DEFINE l == Append(log[produced], a)
<1>6. /\ DOMAIN new = 0 .. n + 1 /\ \A c \in 0 .. n : new[c] = old[c]
      /\ new[n + 1] = Effect(old[n], a)
  BY <1>1
<1>7. /\ \A c \in 0 .. n + 1 : new[c] \in State
      /\ \A c \in 1 .. n + 1 : new[c] = Effect(new[c - 1], l[c])
  <2>1. Effect(old[n], a) \in State
    BY <1>1, EffectIsState
  <2> HIDE DEF n, old, new
  <2>2. \A c \in 0 .. n + 1 : c \in 0 .. n \/ c = n + 1
    BY <1>1
  <2>3. \A c \in 0 .. n + 1 : new[c] \in State
    BY <1>1, <1>6, <2>1, <2>2
  <2>4. ASSUME NEW c \in 1 .. n + 1 PROVE new[c] = Effect(new[c - 1], l[c])
    <3>1. CASE c \in 1 .. n
      <4>1. c \in 0 .. n /\ c - 1 \in 0 .. n
        BY <1>1, <3>1
      <4>2. new[c] = old[c] /\ new[c - 1] = old[c - 1] /\ l[c] = log[produced][c]
        BY <1>3, <1>6, <3>1, <4>1
      <4>3. old[c] = Effect(old[c - 1], log[produced][c])
        BY <1>1, <3>1
      <4> QED
        BY <4>2, <4>3
    <3>2. CASE c = n + 1
      <4>1. c - 1 = n /\ n \in 0 .. n
        BY <1>1, <3>2
      <4>2. new[c - 1] = old[n] /\ l[c] = a
        BY <1>3, <1>6, <3>2, <4>1
      <4> QED
        BY <1>6, <3>2, <4>2
    <3>3. c \in 1 .. n \/ c = n + 1
      BY <1>1
    <3> QED
      BY <3>1, <3>2, <3>3
  <2> QED
    BY <2>3, <2>4
<1> HIDE DEF new, l
<1>8. ProducerOK'
  <2>1. ASSUME NEW g \in 1 .. MaxGen
        PROVE  /\ Len(log'[g]) <= MaxCursor
               /\ DOMAIN truth'[g] = 0 .. Len(log'[g])
               /\ \A c \in 0 .. Len(log'[g]) : truth'[g][c] \in State
               /\ \A c \in 1 .. Len(log'[g]) : truth'[g][c] = Effect(truth'[g][c - 1], log'[g][c])
    <3>1. CASE g = produced
      <4>1. log'[g] = l /\ truth'[g] = new /\ Len(l) = n + 1
        BY <1>3, <1>5, <3>1 DEF l
      <4>2. n + 1 <= MaxCursor
        BY <1>1, ConstantsAssumption
      <4> QED
        BY <1>6, <1>7, <4>1, <4>2
    <3>2. CASE g # produced
      BY <1>4, <3>2 DEF Inv, ProducerOK
    <3> QED
      BY <3>1, <3>2
  <2> QED
    BY <1>1, <1>2, <1>3, <2>1 DEF ProducerOK
<1>9. /\ \A g \in 1 .. MaxGen : \A c \in DOMAIN log[g] : c \in DOMAIN log'[g] /\ log'[g][c] = log[g][c]
      /\ \A g \in 1 .. MaxGen : \A c \in DOMAIN truth[g] :
           c \in DOMAIN truth'[g] /\ truth'[g][c] = truth[g][c]
  <2>1. ASSUME NEW g \in 1 .. MaxGen, g = produced, NEW c \in DOMAIN log[g]
        PROVE  c \in DOMAIN log'[g] /\ log'[g][c] = log[g][c]
    BY <1>1, <1>3, <1>5, <2>1
  <2>2. ASSUME NEW g \in 1 .. MaxGen, g = produced, NEW c \in DOMAIN truth[g]
        PROVE  c \in DOMAIN truth'[g] /\ truth'[g][c] = truth[g][c]
    BY <1>1, <1>5, <1>6, <2>2
  <2> QED
    BY <1>4, <2>1, <2>2
<1>10. TypeOK'
  BY <1>2 DEF Inv, TypeOK, projection, receipts, clock
<1>11. generation = 0 \/ generation \in 1 .. MaxGen
  BY ConstantsAssumption DEF Inv, TypeOK
<1>12. ProjectionFaithful' /\ BufferSound' /\ Detached'
  BY <1>2, <1>9, <1>11 DEF Inv, Detached, ProjectionFaithful, BufferSound, BufferHoldsPublished, PhaseTellsGap,
                              projection
<1> QED
  BY <1>8, <1>10, <1>12 DEF Inv

LEMMA ReceiptInputs ==
  ASSUME Inv,
         \/ \E m \in Members : member_join(m) \/ member_leave(m)
         \/ \E r \in Receipts : open_receipt(r)
         \/ \E r \in Receipts, m \in Members : ack(r, m)
         \/ \E n \in 0 .. MaxNow : tick(n)
  PROVE  Inv'
<1>1. members \subseteq Members /\ delivery \in Delivery \cup {None} /\ revision \in {0, 1}
      /\ now \in 0 .. MaxNow /\ produced \in 1 .. MaxGen
  BY DEF Inv, TypeOK, ProducerOK
<1>2. ASSUME NEW m \in Members, member_join(m) PROVE Inv'
  <2>1. delivery' \in Delivery \cup {None}
    BY <1>1, <1>2 DEF member_join, Delivery
  <2> QED
    BY <1>1, <1>2, <2>1, ProjectionUntouched DEF member_join, clock, producer
<1>3. ASSUME NEW m \in Members, member_leave(m) PROVE Inv'
  BY <1>1, <1>3, ProjectionUntouched DEF member_leave, Changed, clock, producer
<1>4. ASSUME NEW r \in Receipts, open_receipt(r) PROVE Inv'
  BY <1>1, <1>4, ProjectionUntouched DEF open_receipt, Changed, Delivery, clock, producer
<1>5. ASSUME NEW r \in Receipts, NEW m \in Members, ack(r, m) PROVE Inv'
  <2>1. delivery' \in Delivery
    BY <1>1, <1>5 DEF ack, Delivery
  <2> QED
    BY <1>1, <1>5, <2>1, ProjectionUntouched DEF ack, Changed, clock, producer
<1>6. ASSUME NEW n \in 0 .. MaxNow, tick(n) PROVE Inv'
  BY <1>1, <1>6, ProjectionUntouched DEF tick, receipts, producer
<1> QED
  BY <1>2, <1>3, <1>4, <1>5, <1>6

LEMMA NextInv == Inv /\ [Next]_vars => Inv'
<1> SUFFICES ASSUME Inv, [Next]_vars PROVE Inv'
  OBVIOUS
<1>1. ASSUME NEW g \in 1 .. produced, subscribe(g) PROVE Inv'
  BY <1>1, SubscribeStep
<1>2. ASSUME NEW g \in 1 .. produced, NEW c \in 0 .. Len(log[g]), NEW ms \in SUBSET Members,
             snapshot(g, c, ms)
      PROVE  Inv'
  BY <1>2, StaleStep, InstallStep DEF snapshot
<1>3. CASE UNCHANGED vars
  BY <1>3 DEF vars, projection, receipts, clock, producer, Inv, TypeOK, ProducerOK, Detached,
              ProjectionFaithful, BufferSound, BufferHoldsPublished, PhaseTellsGap
<1>4. ASSUME NEW g \in 1 .. produced, NEW c \in 1 .. Len(log[g]), event(g, c) PROVE Inv'
  <2>1. CASE IgnoreCovered(g, c)
    BY <1>3, <2>1 DEF IgnoreCovered
  <2> QED
    BY <1>4, <2>1, StaleStep, BufferForSnapshotStep, ApplyStep, BufferGapStep DEF event
<1>5. ASSUME NEW a \in Actions, Publish(a) PROVE Inv'
  BY <1>5, PublishStep
<1>6. CASE Restart
  <2>1. produced' \in 1 .. MaxGen
    BY <1>6, ConstantsAssumption DEF Restart, Inv, ProducerOK
  <2> QED
    BY <1>6, <2>1, ProjectionUntouched DEF Restart, Inv, TypeOK, receipts, clock
<1> QED
  BY <1>1, <1>2, <1>3, <1>4, <1>5, <1>6, ReceiptInputs DEF Next

LEMMA InvHolds == Spec => []Inv
BY InitInv, NextInv, PTL DEF Spec

\* Every field of the adapter keeps its type: cursors and buffered positions stay
\* within what the producer can publish, in whatever order messages arrive.
THEOREM TypeCorrect == Spec => []TypeOK
<1>1. Inv => TypeOK
  BY DEF Inv
<1> QED
  BY <1>1, InvHolds, PTL

\* Whatever is delayed, repeated, reordered or lost, an adapter with a cursor
\* shows exactly the producer's state at that cursor of that generation.
THEOREM ProjectionsFaithful == Spec => []ProjectionFaithful
<1>1. Inv => ProjectionFaithful
  BY DEF Inv
<1> QED
  BY <1>1, InvHolds, PTL

\* The buffer never exceeds the policy and holds only events of the current
\* generation that could not be applied yet; the phase tells whether it holds
\* any, and a replay is always asked from the first cursor that is missing.
THEOREM BuffersSound == Spec => []BufferSound
<1>1. Inv => BufferSound
  BY DEF Inv
<1> QED
  BY <1>1, InvHolds, PTL

\* No reader misses a change of the projection, of the receipt or of the
\* freshness: each comes with a new observation revision.
THEOREM ChangesArePublished == Spec => EveryChangePublished
<1> DEFINE Quiet == Observable' # Observable => revision' # revision
<1>1. ASSUME Inv, [Next]_vars PROVE Quiet
  <2>2. Changed => Quiet
    BY <1>1, RevisionStep DEF Inv
  <2>3. UNCHANGED <<projection, receipts, clock>> => Quiet
    BY DEF Observable, fresh, FreshAt, clock
  <2>4. CASE \E g \in 1 .. produced : \E c \in 0 .. Len(log[g]), ms \in SUBSET Members :
               snapshot(g, c, ms)
    BY <2>2, <2>4 DEF snapshot, StaleMessage, InstallSnapshot
  <2>5. CASE \E g \in 1 .. produced : \E c \in 1 .. Len(log[g]) : event(g, c)
    BY <2>2, <2>3, <2>5
    DEF event, StaleMessage, BufferForSnapshot, IgnoreCovered, ApplyNext, BufferGap, vars
  <2>6. ASSUME NEW m \in Members, member_join(m) PROVE Quiet
    <3>1. CASE UNCHANGED receipts
      BY <2>3, <2>6, <3>1 DEF member_join
    <3>2. CASE ~(UNCHANGED receipts)
      <4>1. Changed
        BY <2>6, <3>2 DEF member_join, Changed
      <4> QED
        BY <2>2, <4>1
    <3> QED
      BY <3>1, <3>2
  <2>7. ASSUME NEW n \in 0 .. MaxNow, tick(n) PROVE Quiet
    <3>1. CASE FreshAt(n) = fresh
      <4>1. fresh' = FreshAt(n)
        BY <2>7 DEF tick, fresh, FreshAt
      <4>2. UNCHANGED <<projection, receipts>>
        BY <2>7 DEF tick
      <4> QED
        BY <3>1, <4>1, <4>2 DEF Observable
    <3>2. CASE FreshAt(n) # fresh
      <4>1. Changed
        BY <2>7, <3>2 DEF tick, Changed
      <4> QED
        BY <2>2, <4>1
    <3> QED
      BY <3>1, <3>2
  <2>8. CASE (\E a \in Actions : Publish(a)) \/ Restart
    BY <2>3, <2>8 DEF Publish, Restart
  <2>9. CASE \E g \in 1 .. produced : subscribe(g)
    BY <2>2, <2>9 DEF subscribe
  <2>10. CASE \/ \E m \in Members : member_leave(m)
              \/ \E r \in Receipts : open_receipt(r)
              \/ \E r \in Receipts, m \in Members : ack(r, m)
    BY <2>2, <2>10 DEF member_leave, open_receipt, ack
  <2>11. CASE UNCHANGED vars
    BY <2>3, <2>11 DEF vars
  <2> HIDE DEF Quiet
  <2> QED
    BY <1>1, <2>4, <2>5, <2>6, <2>7, <2>8, <2>9, <2>10, <2>11 DEF Next
<1> QED
  BY <1>1, InvHolds, PTL DEF EveryChangePublished, Spec

\* An open receipt keeps its targets and its acknowledgements through joins,
\* leaves, snapshots and resubscriptions.
THEOREM ReceiptsKeepTheirFrontier == Spec => ReceiptFrontier
<1>1. ASSUME Inv, [Next]_vars PROVE ReceiptStep
  <2> SUFFICES ASSUME delivery # None, delivery' # None, ~(\E r \in Receipts : open_receipt(r))
               PROVE  /\ delivery'.receipt_id = delivery.receipt_id
                      /\ delivery.targets # {} => delivery'.targets = delivery.targets
                      /\ delivery.acked \subseteq delivery'.acked
                      /\ converged(delivery) => converged(delivery')
    BY DEF ReceiptStep
  <2>1. delivery \in Delivery
    BY <1>1 DEF Inv, TypeOK
  <2>2. /\ delivery'.receipt_id = delivery.receipt_id
        /\ delivery.targets # {} => delivery'.targets = delivery.targets
        /\ delivery.acked \subseteq delivery'.acked
    <3>1. CASE UNCHANGED delivery
      BY <3>1
    <3>2. CASE \E m \in Members : member_join(m)
      BY <2>1, <3>2 DEF member_join, Delivery
    <3>3. CASE \E r \in Receipts, m \in Members : ack(r, m)
      BY <2>1, <3>3 DEF ack, Delivery
    <3>4. CASE \/ \E g \in 1 .. produced : subscribe(g)
               \/ \E g \in 1 .. produced : \E c \in 0 .. Len(log[g]), ms \in SUBSET Members :
                    snapshot(g, c, ms)
               \/ \E g \in 1 .. produced : \E c \in 1 .. Len(log[g]) : event(g, c)
               \/ \E m \in Members : member_leave(m)
               \/ \E n \in 0 .. MaxNow : tick(n)
               \/ \E a \in Actions : Publish(a)
               \/ Restart \/ UNCHANGED vars
      <4>1. UNCHANGED delivery
        BY <3>4
        DEF subscribe, snapshot, StaleMessage, InstallSnapshot, event, BufferForSnapshot,
            IgnoreCovered, ApplyNext, BufferGap, member_leave, tick, Publish, Restart,
            vars, receipts
      <4> QED
        BY <4>1
    <3> QED
      BY <1>1, <3>1, <3>2, <3>3, <3>4 DEF Next
  <2> QED
    BY <2>1, <2>2 DEF converged, Delivery
<1> QED
  BY <1>1, InvHolds, PTL DEF ReceiptFrontier, Spec
-----------------------------------------------------------------------------
(* Recovery *)

\* The adapter follows generations that exist.
NotAhead == generation <= produced

LEMMA NeverAhead == Spec => []NotAhead
<1>1. Init => NotAhead
  BY DEF Init, NotAhead
<1>2. Inv /\ NotAhead /\ [Next]_vars => NotAhead'
  <2> SUFFICES ASSUME Inv, NotAhead, [Next]_vars PROVE NotAhead'
    OBVIOUS
  <2>1. generation \in Nat /\ produced \in Nat
    BY DEF Inv, TypeOK, ProducerOK
  <2>2. CASE \/ \E g \in 1 .. produced : subscribe(g)
             \/ \E g \in 1 .. produced : \E c \in 0 .. Len(log[g]), ms \in SUBSET Members :
                  snapshot(g, c, ms)
             \/ \E g \in 1 .. produced : \E c \in 1 .. Len(log[g]) : event(g, c)
    <3>1. produced' = produced /\ (generation' = generation \/ generation' \in 1 .. produced)
      BY <2>2
      DEF subscribe, snapshot, StaleMessage, InstallSnapshot, event, BufferForSnapshot,
          IgnoreCovered, ApplyNext, BufferGap, vars, projection, producer
    <3> QED
      BY <2>1, <3>1 DEF NotAhead
  <2>3. CASE \/ \E m \in Members : member_join(m) \/ member_leave(m)
             \/ \E r \in Receipts : open_receipt(r)
             \/ \E r \in Receipts, m \in Members : ack(r, m)
             \/ \E n \in 0 .. MaxNow : tick(n)
             \/ \E a \in Actions : Publish(a)
             \/ UNCHANGED vars
    BY <2>3
    DEF member_join, member_leave, open_receipt, ack, tick, Publish, vars, projection, producer,
        NotAhead
  <2>4. CASE Restart
    BY <2>1, <2>4 DEF Restart, projection, NotAhead
  <2> QED
    BY <2>2, <2>3, <2>4 DEF Next
<1> QED
  BY <1>1, <1>2, InvHolds, PTL DEF Spec

\* The step that recovery rests on: whatever is buffered, and in whatever phase, a
\* snapshot of the producer's head leaves no gap, no backpressure and no wait for a
\* snapshot behind; the adapter is then at the head of the current generation.
THEOREM HeadSnapshotRecovers ==
  Spec => [][ServeSnapshot => /\ phase' \in {"live", "invalid"}
                              /\ generation' = produced
                              /\ cursor' = Len(log[produced])]_vars
<1> DEFINE Recovered == /\ phase' \in {"live", "invalid"}
                        /\ generation' = produced
                        /\ cursor' = Len(log[produced])
<1>1. ASSUME Inv, NotAhead, ServeSnapshot PROVE Recovered
  <2> DEFINE n == Len(log[produced])
  <2>1. PICK ms \in SUBSET Members : snapshot(produced, n, ms)
    BY <1>1 DEF ServeSnapshot
  <2>2. produced \in 1 .. produced /\ n \in 0 .. n /\ n \in Nat
    BY <1>1, ConstantsAssumption DEF Inv, ProducerOK
  <2>3. InstallSnapshot(produced, n, ms)
    BY <1>1, <2>1 DEF snapshot, StaleMessage, NotAhead, Inv, TypeOK, ProducerOK
  <2>4. /\ Inv' /\ cursor' >= n /\ phase' \in {"live", "invalid", "replay_required"}
        /\ generation' = produced /\ UNCHANGED producer
    <3> HIDE DEF n
    <3>1. generation' = produced /\ UNCHANGED producer
      BY <2>3 DEF InstallSnapshot
    <3>2. \A g \in 1 .. produced : \A c \in 0 .. Len(log[g]) :
            InstallSnapshot(g, c, ms) =>
              Inv' /\ cursor' >= c /\ phase' \in {"live", "invalid", "replay_required"}
      BY <1>1, InstallStep
    <3> QED
      BY <2>2, <2>3, <3>1, <3>2 DEF n
  <2>5. DOMAIN truth'[produced] = 0 .. n /\ DOMAIN log'[produced] = 1 .. n
    BY <1>1, <2>2, <2>4 DEF Inv, ProducerOK, producer
  <2>6. cursor' = n
    <3>1. cursor' \in 0 .. n \/ cursor' = None
      BY <2>4, <2>5 DEF Inv, ProjectionFaithful
    <3>2. cursor' # None
      BY <2>4 DEF Inv, BufferSound, PhaseTellsGap
    <3> QED
      BY <2>2, <2>4, <3>1, <3>2
  <2>7. DOMAIN buffered' = {}
    <3>1. \A x \in DOMAIN buffered' : x \in 1 .. n /\ x > n + 1
      BY <2>2, <2>4, <2>5, <2>6, ConstantsAssumption DEF Inv, BufferSound, BufferHoldsPublished
    <3> QED
      BY <2>2, <3>1
  <2>8. phase' # "replay_required"
    BY <2>4, <2>7 DEF Inv, BufferSound, PhaseTellsGap
  <2> QED
    BY <2>4, <2>6, <2>8
<1> QED
  BY <1>1, InvHolds, NeverAhead, PTL
=============================================================================
