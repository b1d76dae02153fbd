-------------------------- MODULE BoundaryIngress --------------------------
(***************************************************************************)
(* The boundary-ingress adapter: the reference Model of the ingress corpus *)
(* and the producer it follows.                                            *)
(*                                                                         *)
(* The adapter keeps a projection of the producer's keyed state: it        *)
(* subscribes to a generation, installs a snapshot, applies events in      *)
(* cursor order, buffers early ones and asks for a replay when one is      *)
(* missing.  The producer is external: per generation it has a log of      *)
(* events, and any event or snapshot it ever published may reach the       *)
(* adapter at any later time, in any order, several times or never.        *)
(***************************************************************************)
EXTENDS Integers, Sequences, FiniteSets

CONSTANTS
  Keys,             \* keys of the source map
  Members,          \* members a delivery may wait for
  Receipts,         \* receipt identifiers
  MaxBuffered,      \* policy.max_buffered
  FreshnessHorizon, \* policy.freshness_horizon
  MaxGen,           \* bound: generations of the producer
  MaxCursor,        \* bound: events per generation
  MaxEvents,        \* bound: events of all generations together
  MaxNow,           \* bound: the clock readings of tick
  None              \* Python's None

ASSUME ConstantsAssumption ==
  /\ MaxBuffered \in Nat /\ FreshnessHorizon \in Nat
  /\ MaxGen \in Nat \ {0} /\ MaxCursor \in Nat /\ MaxEvents \in Nat
  /\ MaxNow \in Nat
  /\ None \notin Nat

VARIABLES
  phase, generation, cursor, buffered, source_keys, validation, replay_from,
  members, delivery, last_stamped_at, now,
  revision,   \* self.revision, modulo 2: only "did it change" is observed
  log,        \* external: the producer's events, per generation
  truth,      \* external: the producer's state after each cursor
  produced    \* external: the producer's current generation

projection == <<phase, generation, cursor, buffered, source_keys, validation, replay_from>>
receipts   == <<members, delivery>>
clock      == <<last_stamped_at, now>>
producer   == <<log, truth, produced>>
vars       == <<projection, receipts, clock, revision, producer>>

Cursors == 1 .. MaxCursor
Actions == [action : {"upsert", "remove"}, key : Keys]
             \cup [action : {"validate"}, validation : {"valid", "invalid"}]
Delivery == [receipt_id : Receipts, targets : SUBSET Members, acked : SUBSET Members]

TypeOK ==
  /\ phase \in {"detached", "bootstrapping", "live", "invalid",
                "replay_required", "backpressured"}
  /\ generation \in 0 .. MaxGen
  /\ cursor \in 0 .. MaxCursor \cup {None}
  /\ DOMAIN buffered \subseteq Cursors
  /\ \A c \in DOMAIN buffered : buffered[c] \in Actions
  /\ source_keys \subseteq Keys
  /\ validation \in {"valid", "invalid"}
  /\ replay_from \in 0 .. MaxCursor \cup {None}
  /\ members \subseteq Members
  /\ delivery \in Delivery \cup {None}
  /\ last_stamped_at \in 0 .. MaxCursor \cup {None}
  /\ now \in 0 .. MaxNow
  /\ revision \in {0, 1}

-----------------------------------------------------------------------------
(* Pure parts of the adapter *)

NoEvents == [c \in {} |-> None]

\* The effect of an event on the projected state.
Effect(st, a) ==
  CASE a.action = "upsert"   -> [st EXCEPT !.keys = @ \cup {a.key}]
    [] a.action = "remove"   -> [st EXCEPT !.keys = @ \ {a.key}]
    [] a.action = "validate" -> [st EXCEPT !.validation = a.validation]

\* The producer stamps an event and a snapshot with the logical time of its
\* cursor.
Stamp(c) == c

\* _changed()
Changed == revision' = 1 - revision

Put(buf, c, a) == [x \in DOMAIN buf \cup {c} |-> IF x = c THEN a ELSE buf[x]]

\* The last cursor of the contiguous run of buffered events after c.
DrainEnd(buf, c) ==
  CHOOSE d \in c .. MaxCursor :
    /\ \A x \in c + 1 .. d : x \in DOMAIN buf
    /\ d + 1 \notin DOMAIN buf

\* The state st of cursor c, with the buffered events up to cursor d applied.
Drained(buf, st, c, d) ==
  LET f[x \in c .. d] == IF x = c THEN st ELSE Effect(f[x - 1], buf[x])
  IN f[d]

\* Mutant: the buffer is not drained after the state is installed.
SettleNoDrain(c, st, buf) ==
  /\ cursor' = c
  /\ source_keys' = st.keys
  /\ validation' = st.validation
  /\ last_stamped_at' = Stamp(c)
  /\ buffered' = buf
  /\ replay_from' = None
  /\ phase' = IF st.validation = "valid" THEN "live" ELSE "invalid"

\* The adapter at cursor c with state st, then _drain_contiguous(): the run of
\* buffered successors is applied, and what is left marks a gap.
Settle(c, st, buf) ==
  LET d    == DrainEnd(buf, c)
      end  == Drained(buf, st, c, d)
      rest == [x \in DOMAIN buf \ (c + 1 .. d) |-> buf[x]]
      gap  == DOMAIN rest # {}
  IN /\ cursor' = d
     /\ source_keys' = end.keys
     /\ validation' = end.validation
     /\ last_stamped_at' = Stamp(d)
     /\ buffered' = rest
     /\ replay_from' = IF gap THEN d + 1 ELSE None
     /\ phase' = IF gap THEN "replay_required"
                 ELSE IF end.validation = "valid" THEN "live" ELSE "invalid"

ready == phase = "live" /\ validation = "valid"

FreshAt(n) == last_stamped_at # None /\ n - last_stamped_at <= FreshnessHorizon
fresh == FreshAt(now)

converged(d) == d.targets # {} /\ d.targets \subseteq d.acked

-----------------------------------------------------------------------------
(* The inputs of the adapter *)

\* Mutant: a restart keeps the events of the old subscription.
subscribeKeepsBuffer(g) ==
  /\ generation' = g
  /\ cursor' = None
  /\ source_keys' = {} /\ members' = {}
  /\ replay_from' = None
  /\ phase' = "bootstrapping"
  /\ Changed
  /\ UNCHANGED <<buffered, validation, delivery, clock, producer>>

\* subscribe neither compares generations nor touches validation, the delivery
\* or the clock.
subscribe(g) ==
  /\ generation' = g
  /\ cursor' = None
  /\ buffered' = NoEvents
  /\ source_keys' = {} /\ members' = {}
  /\ replay_from' = None
  /\ phase' = "bootstrapping"
  /\ Changed
  /\ UNCHANGED <<validation, delivery, clock, producer>>

\* A message of a fenced generation is counted and dropped.
StaleMessage(g) ==
  /\ g < generation
  /\ Changed
  /\ UNCHANGED <<projection, receipts, clock, producer>>

\* A snapshot of the current or a newer generation replaces the state; events it
\* covers leave the buffer and the others are drained.
InstallSnapshot(g, c, ms) ==
  LET kept == IF g > generation THEN NoEvents
              ELSE [x \in {y \in DOMAIN buffered : y > c} |-> buffered[x]]
  IN /\ g >= generation
     /\ generation' = g
     /\ members' = ms
     /\ Settle(c, truth[g][c], kept)
     /\ Changed
     /\ UNCHANGED <<delivery, now, producer>>

\* Mutant: a snapshot is only expected while there is no cursor.
snapshotOnce(g, c, ms) ==
  StaleMessage(g) \/ (cursor = None /\ InstallSnapshot(g, c, ms))

snapshot(g, c, ms) == StaleMessage(g) \/ InstallSnapshot(g, c, ms)

\* Without a cursor (bootstrapping, or handed off to generation g) an event is
\* buffered for the snapshot to come, unless the buffer is full.
BufferForSnapshot(g, c) ==
  LET handoff == g > generation
      buf  == IF handoff THEN NoEvents ELSE buffered
      full == Cardinality(DOMAIN buf) >= MaxBuffered /\ c \notin DOMAIN buf
  IN /\ handoff \/ (g = generation /\ cursor = None)
     /\ generation' = g
     /\ cursor' = None
     /\ buffered' = IF full \/ c \in DOMAIN buf THEN buf ELSE Put(buf, c, log[g][c])
     /\ phase' = IF full THEN "backpressured" ELSE IF handoff THEN "bootstrapping" ELSE phase
     /\ replay_from' = IF full THEN 0 ELSE replay_from
     /\ Changed
     /\ UNCHANGED <<source_keys, validation, receipts, clock, producer>>

\* An event at or before the cursor is ignored, without a new revision.
IgnoreCovered(g, c) ==
  /\ g = generation /\ cursor # None /\ c <= cursor
  /\ UNCHANGED vars

ApplyNext(g, c) ==
  /\ g = generation /\ cursor # None /\ c = cursor + 1
  /\ Settle(c, Effect([keys |-> source_keys, validation |-> validation], log[g][c]), buffered)
  /\ Changed
  /\ UNCHANGED <<generation, receipts, now, producer>>

\* Mutant: the replay is asked from behind the early event.
BufferGapAfter(g, c) ==
  LET full == Cardinality(DOMAIN buffered) >= MaxBuffered
  IN /\ g = generation /\ cursor # None /\ c > cursor + 1
     /\ buffered' = IF full THEN buffered ELSE Put(buffered, c, log[g][c])
     /\ phase' = IF full THEN "backpressured" ELSE "replay_required"
     /\ replay_from' = c + 1
     /\ Changed
     /\ UNCHANGED <<generation, cursor, source_keys, validation, receipts, clock, producer>>

\* An event beyond a missing one is buffered, or refused when the buffer is full
\* (also when it is already buffered).
BufferGap(g, c) ==
  LET full == Cardinality(DOMAIN buffered) >= MaxBuffered
  IN /\ g = generation /\ cursor # None /\ c > cursor + 1
     /\ buffered' = IF full THEN buffered ELSE Put(buffered, c, log[g][c])
     /\ phase' = IF full THEN "backpressured" ELSE "replay_required"
     /\ replay_from' = cursor + 1
     /\ Changed
     /\ UNCHANGED <<generation, cursor, source_keys, validation, receipts, clock, producer>>

event(g, c) ==
  \/ StaleMessage(g)
  \/ BufferForSnapshot(g, c)
  \/ IgnoreCovered(g, c)
  \/ ApplyNext(g, c)
  \/ BufferGap(g, c)

\* The first member to join while a receipt has no target becomes its target.
member_join(m) ==
  LET adopts == delivery # None /\ delivery.targets = {}
  IN /\ members' = members \cup {m}
     /\ delivery' = IF adopts THEN [delivery EXCEPT !.targets = {m}] ELSE delivery
     /\ revision' = IF UNCHANGED receipts THEN revision ELSE 1 - revision
     /\ UNCHANGED <<projection, clock, producer>>

\* Mutant: a leaving member is taken out of the receipt's targets.
member_leaveForgets(m) ==
  /\ m \in members
  /\ members' = members \ {m}
  /\ delivery' = IF delivery = None THEN None ELSE [delivery EXCEPT !.targets = @ \ {m}]
  /\ Changed
  /\ UNCHANGED <<projection, clock, producer>>

member_leave(m) ==
  /\ m \in members
  /\ members' = members \ {m}
  /\ Changed
  /\ UNCHANGED <<projection, delivery, clock, producer>>

open_receipt(r) ==
  /\ delivery' = [receipt_id |-> r, targets |-> members, acked |-> {}]
  /\ Changed
  /\ UNCHANGED <<projection, members, clock, producer>>

ack(r, m) ==
  /\ delivery # None /\ delivery.receipt_id = r
  /\ m \in delivery.targets \ delivery.acked
  /\ delivery' = [delivery EXCEPT !.acked = @ \cup {m}]
  /\ Changed
  /\ UNCHANGED <<projection, members, clock, producer>>

\* Mutant: crossing the horizon is not published.
tickSilent(n) ==
  /\ now' = n
  /\ UNCHANGED <<projection, receipts, last_stamped_at, revision, producer>>

tick(n) ==
  /\ now' = n
  /\ revision' = IF FreshAt(n) = fresh THEN revision ELSE 1 - revision
  /\ UNCHANGED <<projection, receipts, last_stamped_at, producer>>

-----------------------------------------------------------------------------
(* The producer (external) *)

\* The events published so far, by generation and cursor.
Published == {p \in (1 .. MaxGen) \X Cursors : p[2] <= Len(log[p[1]])}

Publish(a) ==
  LET n == Len(log[produced])
  IN /\ n < MaxCursor /\ Cardinality(Published) < MaxEvents
     /\ log' = [log EXCEPT ![produced] = Append(@, a)]
     /\ truth' = [truth EXCEPT ![produced] =
                    [c \in 0 .. n + 1 |-> IF c <= n THEN @[c] ELSE Effect(@[n], a)]]
     /\ UNCHANGED <<projection, receipts, clock, revision, produced>>

Restart ==
  /\ produced < MaxGen
  /\ produced' = produced + 1
  /\ UNCHANGED <<projection, receipts, clock, revision, log, truth>>

-----------------------------------------------------------------------------

Fresh0 == [keys |-> {}, validation |-> "valid"]

Init ==
  /\ phase = "detached" /\ generation = 0 /\ cursor = None
  /\ buffered = NoEvents /\ source_keys = {} /\ validation = "valid"
  /\ replay_from = None
  /\ members = {} /\ delivery = None
  /\ last_stamped_at = None /\ now = 0
  /\ revision = 0
  /\ log = [g \in 1 .. MaxGen |-> << >>]
  /\ truth = [g \in 1 .. MaxGen |-> [c \in 0 .. 0 |-> Fresh0]]
  /\ produced = 1

Next ==
  \/ \E g \in 1 .. produced : subscribe(g)
  \/ \E g \in 1 .. produced : \E c \in 0 .. Len(log[g]), ms \in SUBSET Members :
       snapshot(g, c, ms)
  \/ \E g \in 1 .. produced : \E c \in 1 .. Len(log[g]) : event(g, c)
  \/ \E m \in Members : member_join(m)
  \/ \E m \in Members : member_leave(m)
  \/ \E r \in Receipts : open_receipt(r)
  \/ \E r \in Receipts, m \in Members : ack(r, m)
  \/ \E n \in 0 .. MaxNow : tick(n)
  \/ \E a \in Actions : Publish(a)
  \/ Restart

Spec == Init /\ [][Next]_vars

\* The effect that serves a replay request delivers a snapshot of the head of
\* the current generation.
ServeSnapshot ==
  \E ms \in SUBSET Members : snapshot(produced, Len(log[produced]), ms)

LiveSpec == Spec /\ WF_vars(ServeSnapshot)

-----------------------------------------------------------------------------
(* Properties *)

\* Whenever the adapter has a cursor, its keys and its validation are those the
\* producer had at that cursor of that generation: no event was skipped,
\* applied twice, or taken from another generation, in whatever order events
\* and snapshots arrived.
ProjectionFaithful ==
  cursor # None =>
    /\ cursor \in DOMAIN truth[generation]
    /\ truth[generation][cursor] = [keys |-> source_keys, validation |-> validation]

\* The buffer holds only events of the current generation, as published, that
\* could not be applied yet, and never more than the policy allows.
BufferHoldsPublished ==
  /\ Cardinality(DOMAIN buffered) <= MaxBuffered
  /\ \A c \in DOMAIN buffered :
       /\ c \in DOMAIN log[generation] /\ buffered[c] = log[generation][c]
       /\ cursor # None => c > cursor + 1

\* The phase, derived anew by every handler, tells the gap: a settled adapter
\* has nothing waiting, and whoever is told to replay is told the first cursor
\* that is missing, never one behind an event already held.
PhaseTellsGap ==
  /\ phase \in {"detached", "bootstrapping"} => cursor = None
  /\ phase \in {"live", "invalid"} =>
       /\ cursor # None /\ DOMAIN buffered = {} /\ replay_from = None
       /\ phase = "live" <=> validation = "valid"
  /\ phase = "replay_required" =>
       cursor # None /\ DOMAIN buffered # {} /\ replay_from = cursor + 1
  /\ phase = "backpressured" => replay_from = IF cursor = None THEN 0 ELSE cursor + 1

BufferSound == BufferHoldsPublished /\ PhaseTellsGap

\* The target frontier of an open receipt survives joins, leaves, snapshots and
\* resubscriptions: it is only filled while empty, and acknowledgements are
\* never taken back, so a converged receipt stays converged.
ReceiptStep ==
  delivery # None /\ delivery' # None /\ ~(\E r \in Receipts : open_receipt(r)) =>
    /\ delivery'.receipt_id = delivery.receipt_id
    /\ delivery.targets # {} => delivery'.targets = delivery.targets
    /\ delivery.acked \subseteq delivery'.acked
    /\ converged(delivery) => converged(delivery')

ReceiptFrontier == [][ReceiptStep]_vars

\* Nothing a reader can observe changes without a new observation revision:
\* the projected fields, the delivery, and the freshness derived from the clock.
Observable == <<projection, receipts, fresh>>

EveryChangePublished == [][Observable' # Observable => revision' # revision]_vars

\* Every gap, backpressure or bootstrap is left again once the requested
\* snapshots are served, whatever else keeps arriving.
Recovers ==
  phase \in {"bootstrapping", "replay_required", "backpressured"}
    ~> phase \in {"live", "invalid"}
=============================================================================
