--------------------------- MODULE LatestDurable ---------------------------
(***************************************************************************)
(* The keyed latest-durable projection: the reducer                        *)
(* LatestDurableProjectionReference of the egress corpus, together with    *)
(* the application-owned sink it hands envelopes to.                       *)
(*                                                                         *)
(* The reducer keeps one global sink generation and, per key, at most one  *)
(* desired revision, one in-flight envelope and a durable frontier.  The   *)
(* sink is external: a worker holds every claimed envelope until it has    *)
(* applied it or given up, and the replies travel back as messages.        *)
(* Acknowledgements may be late, lost, reordered or duplicated; a worker   *)
(* of an old generation keeps running after a reconnect.                   *)
(***************************************************************************)
EXTENDS Naturals

CONSTANTS
  Keys,        \* the keys of the projection
  Values,      \* the values a caller projects
  Epochs,      \* the epochs callers issue (a bound for TLC, Nat in general)
  MaxGen,      \* bound: the last sink generation a reconnect may name
  MaxClaims,   \* bound: how many envelopes are ever claimed
  MaxFailures, \* bound: how many attempts the sink fails
  DupFailures, \* may a failure report be delivered more than once?
  None         \* Python's None

Revision == [epoch : Epochs, value : Values]
Envelope == [generation : Nat, key : Keys, epoch : Epochs, value : Values]
EntryT   == [desired         : Revision \cup {None},
             inflight        : Envelope \cup {None},
             durable_through : Epochs \cup {None}]

ASSUME ConstantsAssumption ==
  /\ Epochs \subseteq Nat
  /\ MaxGen \in Nat
  /\ MaxClaims \in Nat
  /\ MaxFailures \in Nat
  /\ DupFailures \in BOOLEAN
  /\ None \notin Epochs
  /\ None \notin Revision
  /\ None \notin Envelope
  /\ None \notin EntryT

VARIABLES
  generation,  \* self.generation
  entries,     \* self.entries; None for a key no call has touched yet
  accepted,    \* history: the revisions upsert_desired accepted, per key
  claims,      \* history: how many envelopes were claimed so far
  failures,    \* history: how many attempts the sink failed so far
  holder,      \* history: the claim that filled the in-flight slot of a key
  working,     \* external: claimed envelopes a sink worker still runs
  stored,      \* external: the revision the sink's storage holds, per key
  replies      \* messages from sink workers to the reducer

core == <<generation, entries>>
sink == <<failures, working, stored>>
vars == <<generation, entries, accepted, claims, failures, holder, working, stored, replies>>

Worker == [claim : Nat, env : Envelope]
Reply  == [kind : {"applied", "failed"}, claim : Nat, generation : Nat,
           key : Keys, epoch : Epochs]

TypeOK ==
  /\ generation \in Nat
  /\ entries \in [Keys -> EntryT \cup {None}]
  /\ accepted \in [Keys -> SUBSET Revision]
  /\ claims \in Nat
  /\ failures \in Nat
  /\ holder \in [Keys -> Nat]
  /\ working \subseteq Worker
  /\ stored \in [Keys -> Revision \cup {None}]
  /\ replies \subseteq Reply

-----------------------------------------------------------------------------
(* The reducer *)

EmptyEntry == [desired |-> None, inflight |-> None, durable_through |-> None]

\* self.entry(key): the entry, created empty on first use.
Entry(k) == IF entries[k] = None THEN EmptyEntry ELSE entries[k]

\* "entry.durable_through is not None and epoch <= entry.durable_through"
CoveredBy(ent, e) == ent.durable_through # None /\ e <= ent.durable_through

\* The retained revisions of an entry: what it desires and what is in flight.
Retained(ent) == {r \in {ent.desired, ent.inflight} : r # None}

\* Mutant: an epoch still retained is accepted again.
AcceptsSameEpoch(ent, e) ==
  ~CoveredBy(ent, e) /\ \A r \in Retained(ent) : r.epoch <= e

\* An upsert is accepted when its epoch is newer than everything the entry
\* still retains and everything it knows to be durable.  The refusals
\* (already_durable, stale_epoch, unchanged, epoch_conflict) leave the entry.
Accepts(ent, e) == ~CoveredBy(ent, e) /\ \A r \in Retained(ent) : r.epoch < e

upsert_desired(k, e, v) ==
  LET ent == Entry(k)
      rev == [epoch |-> e, value |-> v]
  IN /\ IF Accepts(ent, e)
        THEN /\ entries' = [entries EXCEPT ![k] = [ent EXCEPT !.desired = rev]]
             /\ accepted' = [accepted EXCEPT ![k] = @ \cup {rev}]
        ELSE /\ entries' = [entries EXCEPT ![k] = ent]
             /\ UNCHANGED accepted
     /\ UNCHANGED <<generation, claims, holder, sink, replies>>

\* Mutant: the busy slot is not looked at.
ClaimableWhenBusy(ent, g) == g = generation /\ ent.desired # None

\* Neither stale_generation, nor busy, nor empty.
Claimable(ent, g) ==
  g = generation /\ ent.inflight = None /\ ent.desired # None

\* A claim of another generation is refused before the entry is looked up.
\* Busy and empty slots leave the entry as it is, otherwise the desired
\* revision becomes an envelope that a sink worker runs.
claim(k, g) ==
  LET ent == Entry(k)
      env == [generation |-> generation, key |-> k,
              epoch |-> ent.desired.epoch, value |-> ent.desired.value]
  IN /\ claims < MaxClaims
     /\ IF Claimable(ent, g)
        THEN /\ entries' = [entries EXCEPT ![k] =
                              [ent EXCEPT !.desired = None, !.inflight = env]]
             /\ claims' = claims + 1
             /\ holder' = [holder EXCEPT ![k] = claims + 1]
             /\ working' = working \cup {[claim |-> claims + 1, env |-> env]}
        ELSE /\ entries' = IF g = generation THEN [entries EXCEPT ![k] = ent]
                                            ELSE entries
             /\ UNCHANGED <<claims, holder, working>>
     /\ UNCHANGED <<generation, accepted, failures, stored, replies>>

\* The reply is not of a stale generation.
CurrentReply(r) == r.generation = generation

\* The reply names the envelope in flight for its key.
NamesInflight(ent, r) == ent.inflight # None /\ ent.inflight.epoch = r.epoch

\* Mutant: whatever is in flight is taken as acknowledged.
AckedWhateverEpoch(ent, r) ==
  IF ent.inflight = None THEN ent
  ELSE [ent EXCEPT !.inflight = None, !.durable_through = ent.inflight.epoch]

\* Mutant: the acknowledgement also clears the desired revision.
AckedClearsDesired(ent, r) ==
  IF ~NamesInflight(ent, r) THEN ent
  ELSE [desired |-> None, inflight |-> None, durable_through |-> r.epoch]

\* The entry after an acknowledgement of the current generation: the envelope
\* it names is cleared and the frontier moves up to it, never down.
Acked(ent, r) ==
  IF ~NamesInflight(ent, r) THEN ent
  ELSE [ent EXCEPT !.inflight = None,
                   !.durable_through = IF CoveredBy(ent, r.epoch) THEN @ ELSE r.epoch]

\* Acknowledgements stay in replies: they may be delivered again, or never.
ack_applied(r) ==
  /\ r.kind = "applied"
  /\ entries' = IF CurrentReply(r)
                THEN [entries EXCEPT ![r.key] = Acked(Entry(r.key), r)]
                ELSE entries
  /\ UNCHANGED <<generation, accepted, claims, holder, sink, replies>>

\* Mutant: the older revision replaces the newer desired one.
GiveBackOverNewer(ent) ==
  [ent EXCEPT !.inflight = None,
              !.desired = [epoch |-> ent.inflight.epoch, value |-> ent.inflight.value]]

\* Mutant: the slot is cleared and its revision forgotten.
GiveBackNothing(ent) == [ent EXCEPT !.inflight = None]

\* Mutant: the whole envelope is put back, its generation with it.
GiveBackEnvelope(ent) ==
  [ent EXCEPT !.inflight = None,
              !.desired = IF ent.desired # None THEN @ ELSE ent.inflight]

\* The entry after its in-flight envelope is given back: the revision is
\* desired again unless a newer one is.
GiveBack(ent) ==
  LET old == ent.inflight
      superseded == ent.desired # None /\ ent.desired.epoch > old.epoch
  IN [ent EXCEPT !.inflight = None,
                 !.desired = IF superseded THEN @
                             ELSE [epoch |-> old.epoch, value |-> old.value]]

fail_retryable(r) ==
  LET ent == Entry(r.key)
  IN /\ r.kind = "failed"
     /\ entries' = IF CurrentReply(r)
                   THEN [entries EXCEPT ![r.key] =
                           IF NamesInflight(ent, r) THEN GiveBack(ent) ELSE ent]
                   ELSE entries
     /\ replies' = IF DupFailures THEN replies ELSE replies \ {r}
     /\ UNCHANGED <<generation, accepted, claims, holder, sink>>

\* A strictly newer generation gives every in-flight envelope back; an older or
\* equal one changes nothing.
reconnect(g) ==
  /\ IF g > generation
     THEN /\ generation' = g
          /\ entries' = [k \in Keys |->
               IF Entry(k).inflight = None THEN entries[k] ELSE GiveBack(entries[k])]
     ELSE UNCHANGED core
  /\ UNCHANGED <<accepted, claims, holder, sink, replies>>

-----------------------------------------------------------------------------
(* The sink (external) *)

ReplyOf(w, kind) ==
  [kind |-> kind, claim |-> w.claim, generation |-> w.env.generation,
   key |-> w.env.key, epoch |-> w.env.epoch]

\* The storage after worker w wrote to it: the upsert carries the epoch, so a
\* late write of an older revision leaves the newer row alone.
Written(w) ==
  [stored EXCEPT ![w.env.key] =
     IF @ # None /\ @.epoch > w.env.epoch THEN @
     ELSE [epoch |-> w.env.epoch, value |-> w.env.value]]

SinkApply(w) ==
  /\ working' = working \ {w}
  /\ stored' = Written(w)
  /\ replies' = replies \cup {ReplyOf(w, "applied")}
  /\ UNCHANGED <<core, accepted, claims, failures, holder>>

\* A reported failure says nothing about the storage: the write may have
\* happened before the error.
SinkFail(w) ==
  /\ failures < MaxFailures
  /\ failures' = failures + 1
  /\ working' = working \ {w}
  /\ stored' \in {stored, Written(w)}
  /\ replies' = replies \cup {ReplyOf(w, "failed")}
  /\ UNCHANGED <<core, accepted, claims, holder>>

-----------------------------------------------------------------------------

Init ==
  /\ generation = 0
  /\ entries = [k \in Keys |-> None]
  /\ accepted = [k \in Keys |-> {}]
  /\ claims = 0
  /\ failures = 0
  /\ holder = [k \in Keys |-> 0]
  /\ working = {}
  /\ stored = [k \in Keys |-> None]
  /\ replies = {}

Next ==
  \/ \E k \in Keys, e \in Epochs, v \in Values : upsert_desired(k, e, v)
  \/ \E k \in Keys, g \in 0 .. MaxGen : claim(k, g)
  \/ \E r \in replies : ack_applied(r)
  \/ \E r \in replies : fail_retryable(r)
  \/ \E g \in 0 .. MaxGen : reconnect(g)
  \/ \E w \in working : SinkApply(w)
  \/ \E w \in working : SinkFail(w)

Spec == Init /\ [][Next]_vars

\* The shell keeps driving the sink: it claims what is claimable, a worker
\* ends, and its reply is eventually delivered.
Fairness ==
  /\ \A k \in Keys : WF_vars(claim(k, generation))
  /\ WF_vars(\E w \in working : SinkApply(w))
  /\ WF_vars(\E r \in replies : fail_retryable(r))
  /\ \A k \in Keys :
       WF_vars(\E r \in replies : r.key = k /\ ack_applied(r))

LiveSpec == Spec /\ Fairness

-----------------------------------------------------------------------------
(* Properties *)

\* The entry of every key is ordered: the desired revision is newer than the
\* one in flight and both are newer than the durable frontier, whatever was
\* upserted, failed, given back or acknowledged in between.
EntryOrdered ==
  \A k \in Keys :
    LET ent == Entry(k)
    IN /\ \A r \in Retained(ent) : ~CoveredBy(ent, r.epoch)
       /\ ent.desired # None /\ ent.inflight # None =>
            ent.inflight.epoch < ent.desired.epoch

\* No accepted revision is lost while it is still the newest: every accepted
\* epoch is durable, or a revision at least as new is desired or in flight.
\* upsert_desired, fail_retryable and reconnect may only drop a revision
\* another one supersedes.
NewestNotLost ==
  \A k \in Keys : \A a \in accepted[k] :
    \/ CoveredBy(Entry(k), a.epoch)
    \/ \E r \in Retained(Entry(k)) : a.epoch <= r.epoch

\* An epoch names one value: upsert_desired never accepts an epoch of a key a
\* second time, so a retry cannot write something else under the same epoch.
EpochNamesOneValue ==
  \A k \in Keys : \A a, b \in accepted[k] : a.epoch = b.epoch => a = b

\* The durable frontier is backed by the storage: durable_through never names
\* an epoch newer than what the sink holds for the key, however late,
\* duplicated or reordered the acknowledgements are.
FrontierStored ==
  \A k \in Keys : Entry(k).durable_through # None =>
    /\ stored[k] # None
    /\ Entry(k).durable_through <= stored[k].epoch

\* At most one claimed sink effect runs per key in the current generation;
\* only workers a reconnect fenced off may still run beside it.
SingleFlight ==
  \A w1, w2 \in working :
    /\ w1.env.key = w2.env.key
    /\ w1.env.generation = generation
    /\ w2.env.generation = generation
    => w1 = w2

\* A reply of an attempt that no longer holds the in-flight slot does not
\* disturb the attempt that does: the slot of a current-generation worker is
\* only emptied by its own reply or by a reconnect.
SlotHeldWhileWorking ==
  \A w \in working : w.env.generation = generation =>
    Entry(w.env.key).inflight = w.env /\ holder[w.env.key] = w.claim

\* What a step may do to the durable frontier of an entry: move it up to the
\* epoch in flight, clearing exactly that envelope and keeping the newer desired
\* revision.
FrontierMoves(old, new) ==
  new.durable_through # old.durable_through =>
    /\ new.durable_through # None
    /\ ~CoveredBy(old, new.durable_through)
    /\ old.inflight # None /\ old.inflight.epoch = new.durable_through
    /\ new.inflight = None
    /\ new.desired = old.desired

FrontiersMove == \A k \in Keys : FrontierMoves(Entry(k), Entry(k)')

\* No step takes durability back: the frontier of a key is only moved by the
\* acknowledgement of what is in flight, and no acknowledgement clears a newer
\* desired revision.
FrontierAdvances == [][FrontiersMove]_vars

\* Every accepted revision becomes durable or is overtaken by a durable newer
\* one, through failures and reconnects, when the shell keeps driving the sink.
EventuallyDurable ==
  \A k \in Keys, e \in Epochs :
    (\E a \in accepted[k] : a.epoch = e) ~> CoveredBy(Entry(k), e)

\* What the reducer and the sink promise together: revisions are accepted in the
\* order of their epochs, the storage moves forward through accepted ones only,
\* and durable_through follows it, whatever is retried, repeated, late or fenced.
Frontiers == [k \in Keys |-> Entry(k).durable_through]

Register == INSTANCE LatestRegister WITH durable <- Frontiers

ImplementsRegister == Register!Spec
=============================================================================
