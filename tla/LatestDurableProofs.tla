------------------------ MODULE LatestDurableProofs ------------------------
(***************************************************************************)
(* Proofs about the latest-durable projection, for every set of keys,      *)
(* values and epochs and every bound.                                      *)
(***************************************************************************)
EXTENDS LatestDurable, TLAPS

-----------------------------------------------------------------------------
(* What the operations do to one entry *)

\* entry(key) returns a well-formed entry in every state.
LEMMA EntryTyped ==
  ASSUME TypeOK, NEW k \in Keys
  PROVE  Entry(k) \in EntryT
  BY ConstantsAssumption DEF TypeOK, Entry, EmptyEntry, EntryT

\* Storing one entry changes what entry() returns for its key and no other.
LEMMA EntryUpdate ==
  ASSUME TypeOK, NEW k \in Keys, NEW x \in EntryT,
         entries' = [entries EXCEPT ![k] = x]
  PROVE  \A j \in Keys : Entry(j)' = IF j = k THEN x ELSE Entry(j)
  BY ConstantsAssumption DEF TypeOK, Entry

\* An acknowledgement leaves the entry or clears the envelope it names, with
\* the frontier at its epoch when that epoch was not durable yet.
LEMMA AckedFacts ==
  ASSUME NEW ent \in EntryT, NEW r \in Reply
  PROVE  /\ Acked(ent, r) \in EntryT
         /\ ~NamesInflight(ent, r) => Acked(ent, r) = ent
         /\ NamesInflight(ent, r) =>
              /\ Acked(ent, r).inflight = None
              /\ Acked(ent, r).desired = ent.desired
              /\ Acked(ent, r).durable_through =
                   IF CoveredBy(ent, r.epoch) THEN ent.durable_through ELSE r.epoch
  BY ConstantsAssumption DEF Acked, EntryT, NamesInflight, Reply

\* Giving an envelope back empties the slot, keeps the frontier, and desires
\* the newer of the two revisions.
LEMMA GiveBackFacts ==
  ASSUME NEW ent \in EntryT, ent.inflight # None
  PROVE  /\ GiveBack(ent) \in EntryT
         /\ GiveBack(ent).inflight = None
         /\ GiveBack(ent).durable_through = ent.durable_through
         /\ GiveBack(ent).desired # None
         /\ \/ /\ ent.desired # None
               /\ ent.desired.epoch > ent.inflight.epoch
               /\ GiveBack(ent).desired = ent.desired
            \/ /\ \/ ent.desired = None
                  \/ ~(ent.desired.epoch > ent.inflight.epoch)
               /\ GiveBack(ent).desired =
                    [epoch |-> ent.inflight.epoch, value |-> ent.inflight.value]
  <1> DEFINE back == [epoch |-> ent.inflight.epoch, value |-> ent.inflight.value]
  <1>1. ent.inflight \in Envelope
    BY DEF EntryT
  <1>2. back \in Revision /\ back # None
    BY <1>1, ConstantsAssumption DEF Envelope, Revision
  <1>3. ent.desired # None => ent.desired \in Revision
    BY DEF EntryT
  <1> QED
    BY <1>1, <1>2, <1>3, ConstantsAssumption DEF GiveBack, EntryT

-----------------------------------------------------------------------------
(* Type correctness *)

THEOREM TypeCorrect == Spec => []TypeOK
  <1>1. Init => TypeOK
    BY ConstantsAssumption DEF Init, TypeOK
  <1>2. TypeOK /\ [Next]_vars => TypeOK'
    <2> SUFFICES ASSUME TypeOK, [Next]_vars PROVE TypeOK'
      OBVIOUS
    <2> USE DEF TypeOK
    <2>1. ASSUME NEW k \in Keys, NEW e \in Epochs, NEW v \in Values,
                 upsert_desired(k, e, v)
          PROVE  TypeOK'
      <3> DEFINE rev == [epoch |-> e, value |-> v]
      <3>1. Entry(k) \in EntryT /\ rev \in Revision
        BY EntryTyped DEF Revision
      <3>2. [Entry(k) EXCEPT !.desired = rev] \in EntryT
        BY <3>1 DEF EntryT
      <3> QED
        BY <2>1, <3>1, <3>2 DEF upsert_desired, sink
    <2>2. ASSUME NEW k \in Keys, NEW g \in 0 .. MaxGen, claim(k, g)
          PROVE  TypeOK'
      <3> DEFINE env == [generation |-> generation, key |-> k,
                         epoch |-> Entry(k).desired.epoch,
                         value |-> Entry(k).desired.value]
      <3>1. Entry(k) \in EntryT
        BY EntryTyped
      <3>2. CASE Claimable(Entry(k), g)
        <4>1. env \in Envelope
          BY <3>1, <3>2 DEF Claimable, EntryT, Envelope, Revision
        <4>2. [Entry(k) EXCEPT !.desired = None, !.inflight = env] \in EntryT
          BY <3>1, <4>1 DEF EntryT
        <4>3. [claim |-> claims + 1, env |-> env] \in Worker
          BY <4>1 DEF Worker
        <4> QED
          BY <2>2, <3>2, <4>2, <4>3 DEF claim
      <3>3. CASE ~Claimable(Entry(k), g)
        BY <2>2, <3>1, <3>3 DEF claim
      <3> QED
        BY <3>2, <3>3
    <2>3. ASSUME NEW r \in replies, ack_applied(r)
          PROVE  TypeOK'
      <3>1. r \in Reply /\ r.key \in Keys
        BY DEF Reply
      <3>2. Acked(Entry(r.key), r) \in EntryT
        BY <3>1, EntryTyped, AckedFacts
      <3> QED
        BY <2>3, <3>1, <3>2 DEF ack_applied, sink
    <2>4. ASSUME NEW r \in replies, fail_retryable(r)
          PROVE  TypeOK'
      <3>1. r \in Reply /\ r.key \in Keys
        BY DEF Reply
      <3>2. Entry(r.key) \in EntryT
        BY <3>1, EntryTyped
      <3>3. NamesInflight(Entry(r.key), r) => GiveBack(Entry(r.key)) \in EntryT
        BY <3>2, GiveBackFacts DEF NamesInflight
      <3> QED
        BY <2>4, <3>1, <3>2, <3>3 DEF fail_retryable, sink
    <2>5. ASSUME NEW g \in 0 .. MaxGen, reconnect(g)
          PROVE  TypeOK'
      <3>1. \A k \in Keys : Entry(k).inflight # None =>
                entries[k] = Entry(k) /\ GiveBack(Entry(k)) \in EntryT
        BY EntryTyped, GiveBackFacts DEF Entry, EmptyEntry
      <3> QED
        BY <2>5, <3>1 DEF reconnect, core, sink
    <2>6. ASSUME NEW w \in working, NEW kind \in {"applied", "failed"}
          PROVE  /\ ReplyOf(w, kind) \in Reply
                 /\ Written(w) \in [Keys -> Revision \cup {None}]
      BY DEF Worker, Envelope, Revision, Reply, ReplyOf, Written
    <2>7. ASSUME NEW w \in working, SinkApply(w)
          PROVE  TypeOK'
      BY <2>6, <2>7 DEF SinkApply, core
    <2>8. ASSUME NEW w \in working, SinkFail(w)
          PROVE  TypeOK'
      BY <2>6, <2>8 DEF SinkFail, core
    <2>9. CASE UNCHANGED vars
      BY <2>9 DEF vars
    <2> QED
      BY <2>1, <2>2, <2>3, <2>4, <2>5, <2>7, <2>8, <2>9 DEF Next
  <1> QED
    BY <1>1, <1>2, PTL DEF Spec

-----------------------------------------------------------------------------
(* What each operation does to what entry() returns *)

LEMMA UpsertEffect ==
  ASSUME TypeOK, NEW k \in Keys, NEW e \in Epochs, NEW v \in Values,
         upsert_desired(k, e, v), NEW j \in Keys
  PROVE  IF j = k /\ Accepts(Entry(k), e)
         THEN /\ Entry(j)' = [Entry(j) EXCEPT !.desired = [epoch |-> e, value |-> v]]
              /\ accepted'[j] = accepted[j] \cup {[epoch |-> e, value |-> v]}
         ELSE Entry(j)' = Entry(j) /\ accepted'[j] = accepted[j]
  <1> USE DEF TypeOK
  <1> DEFINE rev == [epoch |-> e, value |-> v]
             x == [Entry(k) EXCEPT !.desired = rev]
  <1>1. Entry(k) \in EntryT /\ rev \in Revision
    BY EntryTyped DEF Revision
  <1>2. x \in EntryT
    BY <1>1 DEF EntryT
  <1>3. CASE Accepts(Entry(k), e)
    <2>1. Entry(j)' = IF j = k THEN x ELSE Entry(j)
      BY <1>2, <1>3, EntryUpdate DEF upsert_desired
    <2>2. accepted'[j] = IF j = k THEN accepted[k] \cup {rev} ELSE accepted[j]
      BY <1>3 DEF upsert_desired
    <2> QED
      BY <1>3, <2>1, <2>2
  <1>4. CASE ~Accepts(Entry(k), e)
    <2>1. Entry(j)' = Entry(j)
      BY <1>1, <1>4, EntryUpdate DEF upsert_desired
    <2> QED
      BY <1>4, <2>1 DEF upsert_desired
  <1> QED
    BY <1>3, <1>4

\* The envelope a claim of key k would put in flight.
EnvelopeOf(k) == [generation |-> generation, key |-> k,
                  epoch |-> Entry(k).desired.epoch,
                  value |-> Entry(k).desired.value]

LEMMA ClaimEffect ==
  ASSUME TypeOK, NEW k \in Keys, NEW g \in 0 .. MaxGen, claim(k, g), NEW j \in Keys
  PROVE  /\ IF j = k /\ Claimable(Entry(k), g)
            THEN Entry(j)' = [Entry(j) EXCEPT !.desired = None, !.inflight = EnvelopeOf(k)]
            ELSE Entry(j)' = Entry(j)
         /\ Claimable(Entry(k), g) => EnvelopeOf(k) \in Envelope
  <1> USE DEF TypeOK
  <1> DEFINE x == [Entry(k) EXCEPT !.desired = None, !.inflight = EnvelopeOf(k)]
  <1>1. Entry(k) \in EntryT
    BY EntryTyped
  <1>2. CASE Claimable(Entry(k), g)
    <2>1. EnvelopeOf(k) \in Envelope
      BY <1>1, <1>2 DEF Claimable, EntryT, Envelope, Revision, EnvelopeOf
    <2>2. x \in EntryT
      BY <1>1, <2>1 DEF EntryT
    <2>3. entries' = [entries EXCEPT ![k] = x]
      BY <1>2 DEF claim, EnvelopeOf
    <2>4. Entry(j)' = IF j = k THEN x ELSE Entry(j)
      BY <2>2, <2>3, EntryUpdate
    <2> QED
      BY <1>2, <2>1, <2>4
  <1>3. CASE ~Claimable(Entry(k), g)
    BY <1>1, <1>3, EntryUpdate DEF claim, Entry
  <1> QED
    BY <1>2, <1>3

LEMMA AckEffect ==
  ASSUME TypeOK, NEW r \in replies, ack_applied(r), NEW j \in Keys
  PROVE  Entry(j)' = IF j = r.key /\ CurrentReply(r) THEN Acked(Entry(j), r) ELSE Entry(j)
  <1>1. r \in Reply /\ r.key \in Keys
    BY DEF TypeOK, Reply
  <1>2. Acked(Entry(r.key), r) \in EntryT
    BY <1>1, EntryTyped, AckedFacts
  <1> QED
    BY <1>1, <1>2, EntryUpdate DEF ack_applied, Entry

LEMMA FailEffect ==
  ASSUME TypeOK, NEW r \in replies, fail_retryable(r), NEW j \in Keys
  PROVE  Entry(j)' = IF j = r.key /\ CurrentReply(r) /\ NamesInflight(Entry(j), r)
                     THEN GiveBack(Entry(j)) ELSE Entry(j)
  <1> DEFINE x == IF NamesInflight(Entry(r.key), r) THEN GiveBack(Entry(r.key))
                                                   ELSE Entry(r.key)
  <1>1. r.key \in Keys /\ Entry(r.key) \in EntryT
    BY EntryTyped DEF TypeOK, Reply
  <1>2. x \in EntryT
    BY <1>1, GiveBackFacts DEF NamesInflight
  <1>3. entries' = IF CurrentReply(r) THEN [entries EXCEPT ![r.key] = x] ELSE entries
    BY DEF fail_retryable
  <1>4. CASE CurrentReply(r)
    <2>1. Entry(j)' = IF j = r.key THEN x ELSE Entry(j)
      BY <1>1, <1>2, <1>3, <1>4, EntryUpdate
    <2> QED
      BY <1>4, <2>1
  <1>5. CASE ~CurrentReply(r)
    BY <1>3, <1>5 DEF Entry
  <1> QED
    BY <1>4, <1>5

LEMMA ReconnectEffect ==
  ASSUME TypeOK, NEW g \in 0 .. MaxGen, reconnect(g), NEW j \in Keys
  PROVE  Entry(j)' = IF g > generation /\ Entry(j).inflight # None
                     THEN GiveBack(Entry(j)) ELSE Entry(j)
  <1>1. Entry(j).inflight # None => entries[j] = Entry(j) /\ GiveBack(Entry(j)) \in EntryT
    BY EntryTyped, GiveBackFacts DEF Entry, EmptyEntry
  <1> QED
    BY <1>1, ConstantsAssumption DEF TypeOK, reconnect, core, Entry

-----------------------------------------------------------------------------
(* The revisions of an entry *)

\* What upsert_desired, claim, ack_applied, fail_retryable and reconnect may do
\* to one entry, how the accepted revisions grow with it, and which replies
\* (acks) an acknowledgement can come from.
EntryStep(old, new, acc, acc2, acks) ==
  \/ new = old /\ acc2 = acc
  \/ \E rev \in Revision : /\ Accepts(old, rev.epoch)
                           /\ new = [old EXCEPT !.desired = rev]
                           /\ acc2 = acc \cup {rev}
  \/ \E env \in Envelope : /\ old.inflight = None /\ old.desired # None
                           /\ env.epoch = old.desired.epoch /\ env.value = old.desired.value
                           /\ new = [old EXCEPT !.desired = None, !.inflight = env]
                           /\ acc2 = acc
  \/ \E r \in acks : new = Acked(old, r) /\ acc2 = acc
  \/ old.inflight # None /\ new = GiveBack(old) /\ acc2 = acc

AcksOf(k) == {r \in replies : r.kind = "applied" /\ r.key = k}

\* Every step of the projection is an EntryStep of every key.
LEMMA EveryStepIsEntryStep ==
  ASSUME TypeOK, [Next]_vars, NEW j \in Keys
  PROVE  EntryStep(Entry(j), Entry(j)', accepted[j], accepted'[j], AcksOf(j))
  <1> USE DEF TypeOK
  <1>0. Entry(j) \in EntryT
    BY EntryTyped
  <1>1. ASSUME NEW k \in Keys, NEW e \in Epochs, NEW v \in Values,
               upsert_desired(k, e, v)
        PROVE  EntryStep(Entry(j), Entry(j)', accepted[j], accepted'[j], AcksOf(j))
    <2> DEFINE rev == [epoch |-> e, value |-> v]
    <2>1. rev \in Revision /\ rev.epoch = e
      BY DEF Revision
    <2>2. CASE j = k /\ Accepts(Entry(k), e)
      <3>1. /\ Accepts(Entry(j), rev.epoch)
            /\ Entry(j)' = [Entry(j) EXCEPT !.desired = rev]
            /\ accepted'[j] = accepted[j] \cup {rev}
        BY <1>1, <2>1, <2>2, UpsertEffect
      <3> QED
        BY <2>1, <3>1, Zenon DEF EntryStep
    <2>3. CASE ~(j = k /\ Accepts(Entry(k), e))
      BY <1>1, <2>3, UpsertEffect, Zenon DEF EntryStep
    <2> QED
      BY <2>2, <2>3
  <1>2. ASSUME NEW k \in Keys, NEW g \in 0 .. MaxGen, claim(k, g)
        PROVE  EntryStep(Entry(j), Entry(j)', accepted[j], accepted'[j], AcksOf(j))
    <2>1. accepted' = accepted
      BY <1>2 DEF claim
    <2>2. CASE j = k /\ Claimable(Entry(k), g)
      <3>1. /\ EnvelopeOf(k) \in Envelope
            /\ EnvelopeOf(k).epoch = Entry(k).desired.epoch
            /\ EnvelopeOf(k).value = Entry(k).desired.value
        BY <1>2, <2>2, ClaimEffect DEF EnvelopeOf
      <3>2. Entry(j)' = [Entry(j) EXCEPT !.desired = None, !.inflight = EnvelopeOf(k)]
        BY <1>2, <2>2, ClaimEffect
      <3> QED
        BY <2>1, <2>2, <3>1, <3>2, Zenon DEF EntryStep, Claimable
    <2>3. CASE ~(j = k /\ Claimable(Entry(k), g))
      BY <1>2, <2>1, <2>3, ClaimEffect, Zenon DEF EntryStep
    <2> QED
      BY <2>2, <2>3
  <1>3. ASSUME NEW r \in replies, ack_applied(r)
        PROVE  EntryStep(Entry(j), Entry(j)', accepted[j], accepted'[j], AcksOf(j))
    <2>1. accepted' = accepted /\ (j = r.key => r \in AcksOf(j))
      BY <1>3 DEF ack_applied, AcksOf
    <2> QED
      BY <1>3, <2>1, AckEffect, Zenon DEF EntryStep
  <1>4. ASSUME NEW r \in replies, fail_retryable(r)
        PROVE  EntryStep(Entry(j), Entry(j)', accepted[j], accepted'[j], AcksOf(j))
    <2>1. accepted' = accepted
      BY <1>4 DEF fail_retryable
    <2> QED
      BY <1>4, <2>1, FailEffect, Zenon DEF EntryStep, NamesInflight
  <1>5. ASSUME NEW g \in 0 .. MaxGen, reconnect(g)
        PROVE  EntryStep(Entry(j), Entry(j)', accepted[j], accepted'[j], AcksOf(j))
    <2>1. accepted' = accepted
      BY <1>5 DEF reconnect
    <2> QED
      BY <1>5, <2>1, ReconnectEffect, Zenon DEF EntryStep
  <1>6. ASSUME NEW w \in working, SinkApply(w) \/ SinkFail(w)
        PROVE  EntryStep(Entry(j), Entry(j)', accepted[j], accepted'[j], AcksOf(j))
    BY <1>6 DEF SinkApply, SinkFail, core, Entry, EntryStep
  <1>7. CASE UNCHANGED vars
    BY <1>7 DEF vars, Entry, EntryStep
  <1> QED
    BY <1>1, <1>2, <1>3, <1>4, <1>5, <1>6, <1>7 DEF Next

\* The parts of EntryOrdered and NewestNotLost that speak of one key.
Ordered(ent) ==
  /\ \A r \in Retained(ent) : ~CoveredBy(ent, r.epoch)
  /\ ent.desired # None /\ ent.inflight # None =>
       ent.inflight.epoch < ent.desired.epoch

Kept(ent, acc) ==
  \A a \in acc : CoveredBy(ent, a.epoch) \/ \E r \in Retained(ent) : a.epoch <= r.epoch

Unambiguous(acc) == \A a, b \in acc : a.epoch = b.epoch => a = b

\* An EntryStep keeps the entry ordered, loses no newest revision and accepts
\* no epoch twice.
LEMMA EntryStepSafe ==
  ASSUME NEW old \in EntryT, NEW new, NEW acc \in SUBSET Revision, NEW acc2,
         NEW acks \in SUBSET Reply, EntryStep(old, new, acc, acc2, acks),
         Ordered(old), Kept(old, acc), Unambiguous(acc)
  PROVE  Ordered(new) /\ Kept(new, acc2) /\ Unambiguous(acc2)
  <1> USE ConstantsAssumption
  <1>0. /\ old.desired = None \/ old.desired \in Revision
        /\ old.inflight = None \/ old.inflight \in Envelope
        /\ old.durable_through = None \/ old.durable_through \in Epochs
    BY DEF EntryT
  <1>1. CASE new = old /\ acc2 = acc
    BY <1>1
  <1>2. ASSUME NEW rev \in Revision, Accepts(old, rev.epoch),
               new = [old EXCEPT !.desired = rev], acc2 = acc \cup {rev}
        PROVE  Ordered(new) /\ Kept(new, acc2) /\ Unambiguous(acc2)
    <2>1. /\ new.desired = rev /\ new.inflight = old.inflight
          /\ new.durable_through = old.durable_through
      BY <1>2 DEF EntryT
    <2>2. rev.epoch \in Nat /\ rev # None
      BY DEF Revision
    <2>3. \A a \in acc : a.epoch \in Nat /\ a.epoch < rev.epoch
      BY <1>0, <1>2, <2>2 DEF Kept, Accepts, CoveredBy, Retained, Revision, Envelope
    <2>4. Ordered(new)
      BY <1>0, <1>2, <2>1, <2>2 DEF Ordered, Accepts, CoveredBy, Retained, Revision, Envelope
    <2>5. Kept(new, acc2)
      BY <1>2, <2>1, <2>2, <2>3 DEF Kept, Retained
    <2>6. Unambiguous(acc2)
      BY <1>2, <2>2, <2>3 DEF Unambiguous
    <2> QED
      BY <2>4, <2>5, <2>6
  <1>3. ASSUME NEW env \in Envelope, old.inflight = None, old.desired # None,
               env.epoch = old.desired.epoch,
               new = [old EXCEPT !.desired = None, !.inflight = env], acc2 = acc
        PROVE  Ordered(new) /\ Kept(new, acc2) /\ Unambiguous(acc2)
    <2>1. /\ new.desired = None /\ new.inflight = env /\ env # None
          /\ new.durable_through = old.durable_through
      BY <1>3 DEF EntryT
    <2>2. Ordered(new)
      BY <1>3, <2>1 DEF Ordered, CoveredBy, Retained
    <2>3. Kept(new, acc2)
      BY <1>3, <2>1 DEF Kept, CoveredBy, Retained
    <2> QED
      BY <1>3, <2>2, <2>3
  <1>4. ASSUME NEW r \in acks, new = Acked(old, r), acc2 = acc
        PROVE  Ordered(new) /\ Kept(new, acc2) /\ Unambiguous(acc2)
    <2>1. CASE ~NamesInflight(old, r)
      BY <1>4, <2>1, AckedFacts
    <2>2. CASE NamesInflight(old, r)
      <3>1. /\ new.inflight = None /\ new.desired = old.desired
            /\ new.durable_through = r.epoch
        BY <1>4, <2>2, AckedFacts DEF Ordered, NamesInflight, Retained
      <3>2. old.inflight \in Envelope /\ old.inflight.epoch = r.epoch /\ r.epoch \in Epochs
        BY <1>0, <2>2 DEF NamesInflight, Reply
      <3>3. Ordered(new)
        BY <1>0, <3>1, <3>2 DEF Ordered, CoveredBy, Retained, Revision
      <3>4. Kept(new, acc2)
        BY <1>0, <1>4, <3>1, <3>2 DEF Ordered, Kept, CoveredBy, Retained, Revision
      <3> QED
        BY <1>4, <3>3, <3>4
    <2> QED
      BY <2>1, <2>2
  <1>5. ASSUME old.inflight # None, new = GiveBack(old), acc2 = acc
        PROVE  Ordered(new) /\ Kept(new, acc2) /\ Unambiguous(acc2)
    <2>1. /\ new.inflight = None /\ new.desired # None
          /\ new.durable_through = old.durable_through
      BY <1>5, GiveBackFacts
    <2>2. old.inflight \in Envelope /\ old.inflight.epoch \in Nat
      BY <1>0, <1>5 DEF Envelope
    <2>3. CASE /\ old.desired # None /\ old.desired.epoch > old.inflight.epoch
               /\ new.desired = old.desired
      <3>1. Ordered(new)
        BY <2>1, <2>3 DEF Ordered, CoveredBy, Retained
      <3>2. Kept(new, acc2)
        BY <1>0, <1>5, <2>1, <2>2, <2>3 DEF Kept, CoveredBy, Retained, Revision
      <3> QED
        BY <1>5, <3>1, <3>2
    <2>4. CASE /\ old.desired = None
               /\ new.desired = [epoch |-> old.inflight.epoch, value |-> old.inflight.value]
      <3>0. new.desired.epoch = old.inflight.epoch
        BY <2>4
      <3>1. Ordered(new)
        BY <1>5, <2>1, <3>0 DEF Ordered, CoveredBy, Retained
      <3>2. Kept(new, acc2)
        BY <1>5, <2>1, <2>4, <3>0 DEF Kept, CoveredBy, Retained
      <3> QED
        BY <1>5, <3>1, <3>2
    <2>5. old.desired # None => old.desired.epoch > old.inflight.epoch
      BY <1>0, <1>5, <2>2 DEF Ordered, Revision
    <2> QED
      BY <1>5, <2>3, <2>4, <2>5, GiveBackFacts
  <1> QED
    BY <1>1, <1>2, <1>3, <1>4, <1>5 DEF EntryStep

\* The revision invariants of the run latest_durable, for every instance: the
\* entry is ordered, an accepted revision is only dropped for a newer one, and
\* an epoch names one value.
THEOREM RevisionsSafe == Spec => [](EntryOrdered /\ NewestNotLost /\ EpochNamesOneValue)
  <1> DEFINE Inv == EntryOrdered /\ NewestNotLost /\ EpochNamesOneValue
             Local == \A k \in Keys : /\ Ordered(Entry(k))
                                     /\ Kept(Entry(k), accepted[k])
                                     /\ Unambiguous(accepted[k])
  <1>1. Local <=> Inv
    BY DEF EntryOrdered, NewestNotLost, EpochNamesOneValue, Ordered, Kept, Unambiguous
  <1>2. Init => Local
    BY DEF Init, Entry, EmptyEntry, Ordered, Kept, Unambiguous, Retained
  <1>3. TypeOK /\ Local /\ [Next]_vars => Local'
    <2> SUFFICES ASSUME TypeOK, Local, [Next]_vars, NEW k \in Keys
                 PROVE  /\ Ordered(Entry(k)')
                        /\ Kept(Entry(k)', accepted'[k])
                        /\ Unambiguous(accepted'[k])
      BY DEF Ordered, Kept, Unambiguous, Retained, CoveredBy
    <2>1. EntryStep(Entry(k), Entry(k)', accepted[k], accepted'[k], AcksOf(k))
      BY EveryStepIsEntryStep
    <2>2. /\ Entry(k) \in EntryT /\ accepted[k] \in SUBSET Revision
          /\ AcksOf(k) \in SUBSET Reply
      BY EntryTyped DEF TypeOK, AcksOf
    <2> QED
      BY <2>1, <2>2, EntryStepSafe
  <1> QED
    BY <1>1, <1>2, <1>3, TypeCorrect, PTL DEF Spec

\* An accepted epoch of a key stands for one value for good: upsert_desired
\* never takes the same epoch twice, so no retry writes something else.
THEOREM EpochsUnambiguous == Spec => []EpochNamesOneValue
  BY RevisionsSafe, PTL

\* The frontier of an entry only moves by an acknowledgement.
LEMMA EntryStepFrontier ==
  ASSUME NEW old \in EntryT, NEW new, NEW acc, NEW acc2, NEW acks \in SUBSET Reply,
         EntryStep(old, new, acc, acc2, acks)
  PROVE  /\ FrontierMoves(old, new)
         /\ \/ new.durable_through = old.durable_through
            \/ \E r \in acks : new.durable_through = r.epoch
  <1> DEFINE Goal == /\ FrontierMoves(old, new)
                     /\ \/ new.durable_through = old.durable_through
                        \/ \E r \in acks : new.durable_through = r.epoch
  <1>1. ASSUME NEW r \in acks, new = Acked(old, r)
        PROVE  Goal
    <2>1. r \in Reply /\ r.epoch # None
      BY ConstantsAssumption DEF Reply
    <2> QED
      BY <1>1, <2>1, AckedFacts DEF NamesInflight, FrontierMoves
  <1>2. CASE old.inflight # None /\ new = GiveBack(old)
    BY <1>2, GiveBackFacts DEF FrontierMoves
  <1>3. ASSUME NEW rev, new = [old EXCEPT !.desired = rev]
        PROVE  Goal
    BY <1>3 DEF EntryT, FrontierMoves
  <1>4. ASSUME NEW env, new = [old EXCEPT !.desired = None, !.inflight = env]
        PROVE  Goal
    BY <1>4 DEF EntryT, FrontierMoves
  <1>5. CASE new = old
    BY <1>5 DEF FrontierMoves
  <1> QED
    BY <1>1, <1>2, <1>3, <1>4, <1>5 DEF EntryStep

\* The frontier of a key only moves up to the epoch in flight, clears that
\* envelope and leaves the desired revision: the action property of the run
\* latest_durable, for every instance.
THEOREM FrontierMonotone == Spec => FrontierAdvances
  <1>1. TypeOK /\ [Next]_vars => [FrontiersMove]_vars
    <2> SUFFICES ASSUME TypeOK, [Next]_vars, NEW k \in Keys
                 PROVE  FrontierMoves(Entry(k), Entry(k)')
      BY DEF FrontiersMove
    <2>1. Entry(k) \in EntryT /\ AcksOf(k) \in SUBSET Reply
      BY EntryTyped DEF TypeOK, AcksOf
    <2> QED
      BY <2>1, EveryStepIsEntryStep, EntryStepFrontier
  <1> QED
    BY <1>1, TypeCorrect, PTL DEF Spec, FrontierAdvances

-----------------------------------------------------------------------------
(* The frontier and the storage *)

\* An acknowledgement is sent after its write: the storage holds the epoch of
\* every acknowledgement ever sent, or a newer one.
AppliedStored ==
  \A r \in replies : r.kind = "applied" =>
    stored[r.key] # None /\ r.epoch <= stored[r.key].epoch

\* A write leaves the storage with an epoch at least as new as before and at
\* least as new as the one written.
LEMMA WrittenFacts ==
  ASSUME TypeOK, NEW w \in working
  PROVE  /\ w.env.key \in Keys
         /\ Written(w)[w.env.key] # None
         /\ w.env.epoch <= Written(w)[w.env.key].epoch
         /\ \A k \in Keys, e \in Epochs :
              stored[k] # None /\ e <= stored[k].epoch =>
                Written(w)[k] # None /\ e <= Written(w)[k].epoch
  <1> DEFINE rev == [epoch |-> w.env.epoch, value |-> w.env.value]
             key == w.env.key
  <1>1. key \in Keys /\ w.env.epoch \in Nat /\ rev \in Revision
    BY ConstantsAssumption DEF TypeOK, Worker, Envelope, Revision
  <1>2. rev # None /\ rev.epoch = w.env.epoch
    BY <1>1, ConstantsAssumption
  <1>3. \A k \in Keys : k # key => Written(w)[k] = stored[k]
    BY <1>1 DEF TypeOK, Written
  <1>4. Written(w)[key] = IF stored[key] # None /\ stored[key].epoch > w.env.epoch
                          THEN stored[key] ELSE rev
    BY <1>1 DEF TypeOK, Written
  <1>5. \A k \in Keys : stored[k] # None => stored[k].epoch \in Nat
    BY ConstantsAssumption DEF TypeOK, Revision
  <1> HIDE DEF rev
  <1> QED
    BY <1>1, <1>2, <1>3, <1>4, <1>5, ConstantsAssumption

\* An acknowledgement appears only with the write it acknowledges.
LEMMA NewAcknowledgement ==
  ASSUME TypeOK, [Next]_vars, NEW r \in replies', r \notin replies, r.kind = "applied"
  PROVE  \E w \in working : SinkApply(w) /\ r = ReplyOf(w, "applied")
  <1>1. ASSUME NEW w \in working, SinkApply(w)
        PROVE  r = ReplyOf(w, "applied")
    BY <1>1 DEF SinkApply
  <1>2. ASSUME NEW w \in working, SinkFail(w)
        PROVE  FALSE
    BY <1>2 DEF SinkFail, ReplyOf
  <1>3. ASSUME replies' \subseteq replies
        PROVE  FALSE
    BY <1>3
  <1>4. CASE UNCHANGED vars
    BY <1>3, <1>4 DEF vars
  <1>5. ASSUME NEW k \in Keys, NEW e \in Epochs, NEW v \in Values, upsert_desired(k, e, v)
        PROVE  FALSE
    BY <1>3, <1>5 DEF upsert_desired
  <1>6. ASSUME NEW k \in Keys, NEW g \in 0 .. MaxGen, claim(k, g)
        PROVE  FALSE
    BY <1>3, <1>6 DEF claim
  <1>7. ASSUME NEW q \in replies, ack_applied(q) \/ fail_retryable(q)
        PROVE  FALSE
    BY <1>3, <1>7 DEF ack_applied, fail_retryable
  <1>8. ASSUME NEW g \in 0 .. MaxGen, reconnect(g)
        PROVE  FALSE
    BY <1>3, <1>8 DEF reconnect
  <1> QED
    BY <1>1, <1>2, <1>4, <1>5, <1>6, <1>7, <1>8 DEF Next

\* It needs both parts: an acknowledgement is only sent after its write, and the
\* storage never goes back to an older epoch.
LEMMA StorageBacks == Spec => [](FrontierStored /\ AppliedStored)
  <1> DEFINE Inv == FrontierStored /\ AppliedStored
             Holds(k, e) == stored[k] # None /\ e <= stored[k].epoch
  <1>1. Init => Inv
    BY DEF Init, FrontierStored, AppliedStored, Entry, EmptyEntry
  <1>2. TypeOK /\ Inv /\ [Next]_vars => Inv'
    <2> SUFFICES ASSUME TypeOK, Inv, [Next]_vars PROVE Inv'
      OBVIOUS
    <2>3. \A k \in Keys, e \in Epochs : Holds(k, e) => Holds(k, e)'
      <3>1. stored' = stored \/ \E w \in working : stored' = Written(w)
        BY DEF Next, vars, upsert_desired, claim, ack_applied, fail_retryable,
               reconnect, SinkApply, SinkFail, sink
      <3> QED
        BY <3>1, WrittenFacts
    <2>4. AppliedStored'
      <3> SUFFICES ASSUME NEW r \in replies', r.kind = "applied"
                   PROVE  Holds(r.key, r.epoch)'
        BY DEF AppliedStored
      <3>1. CASE r \in replies
        BY <2>3, <3>1 DEF AppliedStored, TypeOK, Reply
      <3>2. CASE r \notin replies
        <4>1. PICK w \in working : SinkApply(w) /\ r = ReplyOf(w, "applied")
          BY <3>2, NewAcknowledgement
        <4> QED
          BY <4>1, WrittenFacts DEF SinkApply, ReplyOf
      <3> QED
        BY <3>1, <3>2
    <2>5. FrontierStored'
      <3> SUFFICES ASSUME NEW k \in Keys, Entry(k)'.durable_through # None
                   PROVE  /\ stored'[k] # None
                          /\ Entry(k)'.durable_through <= stored'[k].epoch
        BY DEF FrontierStored
      <3>1. CASE Entry(k)'.durable_through = Entry(k).durable_through
        <4>1. Entry(k).durable_through \in Epochs
          BY <3>1, EntryTyped DEF EntryT
        <4> QED
          BY <2>3, <3>1, <4>1 DEF FrontierStored
      <3>2. CASE Entry(k)'.durable_through # Entry(k).durable_through
        <4>1. PICK r \in AcksOf(k) : Entry(k)'.durable_through = r.epoch
          <5>1. Entry(k) \in EntryT /\ AcksOf(k) \in SUBSET Reply
            BY EntryTyped DEF TypeOK, AcksOf
          <5> QED
            BY <3>2, <5>1, EveryStepIsEntryStep, EntryStepFrontier
        <4>2. r.key = k /\ r.epoch \in Epochs
          BY DEF TypeOK, Reply, AcksOf
        <4>3. Holds(k, r.epoch)
          BY <4>2 DEF AppliedStored, AcksOf
        <4> QED
          BY <2>3, <4>1, <4>2, <4>3
      <3> QED
        BY <3>1, <3>2
    <2> QED
      BY <2>4, <2>5
  <1> QED
    BY <1>1, <1>2, TypeCorrect, PTL DEF Spec

\* durable_through never runs ahead of what the sink holds: the invariant
\* FrontierStored of the run latest_durable, for every instance.
THEOREM FrontierIsStored == Spec => []FrontierStored
  BY StorageBacks, PTL

-----------------------------------------------------------------------------
(* One effect per key *)

\* A claim is running or has one reply, and belongs to no later generation.
AttemptIdsUnique ==
  /\ \A w \in working : w.claim <= claims /\ w.env.generation <= generation
  /\ \A r \in replies : r.claim <= claims /\ r.generation <= generation
  /\ \A w1, w2 \in working : w1.claim = w2.claim => w1 = w2
  /\ \A r1, r2 \in replies : r1.claim = r2.claim => r1 = r2
  /\ \A w \in working, r \in replies : w.claim # r.claim

\* A current-generation failure names the slot of its own attempt, and a
\* current-generation acknowledgement does or is already durable.
RepliesNameSlot ==
  \A r \in replies : r.generation = generation =>
    \/ r.kind = "applied" /\ CoveredBy(Entry(r.key), r.epoch)
    \/ NamesInflight(Entry(r.key), r) /\ holder[r.key] = r.claim

\* Every claim is accounted for once, which is what makes the pair
\* (generation, epoch) of a reply enough to identify an attempt.
AttemptsAccounted == AttemptIdsUnique /\ RepliesNameSlot

SlotInv == SlotHeldWhileWorking /\ AttemptsAccounted

\* Steps that leave workers, replies, claims, the generation and every slot and
\* frontier alone preserve the slot invariant.
LEMMA SlotInvFrame ==
  ASSUME TypeOK, SlotInv,
         working' = working, replies' = replies, claims' = claims,
         generation' = generation, holder' = holder,
         \A k \in Keys : /\ Entry(k)'.inflight = Entry(k).inflight
                        /\ Entry(k)'.durable_through = Entry(k).durable_through
  PROVE  SlotInv'
  <1>1. \A w \in working : w.env.key \in Keys
    BY DEF TypeOK, Worker, Envelope
  <1>2. \A r \in replies : r.key \in Keys
    BY DEF TypeOK, Reply
  <1>3. SlotHeldWhileWorking'
    BY <1>1 DEF SlotInv, SlotHeldWhileWorking
  <1>4. AttemptIdsUnique'
    BY DEF SlotInv, AttemptsAccounted, AttemptIdsUnique
  <1>5. RepliesNameSlot'
    <2> SUFFICES ASSUME NEW r \in replies, r.generation = generation
                 PROVE  \/ r.kind = "applied" /\ CoveredBy(Entry(r.key)', r.epoch)
                        \/ NamesInflight(Entry(r.key)', r) /\ holder[r.key] = r.claim
      BY DEF RepliesNameSlot, CoveredBy, NamesInflight
    <2> QED
      BY <1>2 DEF SlotInv, AttemptsAccounted, RepliesNameSlot, CoveredBy, NamesInflight
  <1> QED
    BY <1>3, <1>4, <1>5 DEF SlotInv, AttemptsAccounted

\* The slot invariant is inductive relative to type correctness and the order
\* of the entries, provided a failure report is delivered once.
LEMMA SlotInvStep ==
  ASSUME ~DupFailures, TypeOK, EntryOrdered, SlotInv, [Next]_vars
  PROVE  SlotInv'
  <1> USE DEF SlotInv, AttemptsAccounted
  <1>0. /\ \A w \in working : /\ w.env.key \in Keys /\ w.claim \in Nat
                              /\ w.env.generation \in Nat /\ w.env.epoch \in Epochs
                              /\ w.env \in Envelope
        /\ \A r \in replies : /\ r.key \in Keys /\ r.claim \in Nat /\ r.epoch \in Epochs
                              /\ r.generation \in Nat /\ r \in Reply
        /\ claims \in Nat /\ generation \in Nat
    BY DEF TypeOK, Worker, Envelope, Reply
  <1>1. ASSUME NEW k \in Keys, NEW e \in Epochs, NEW v \in Values,
               upsert_desired(k, e, v)
        PROVE  SlotInv'
    <2>1. \A j \in Keys : /\ Entry(j)'.inflight = Entry(j).inflight
                         /\ Entry(j)'.durable_through = Entry(j).durable_through
      <3> SUFFICES ASSUME NEW j \in Keys
                   PROVE  /\ Entry(j)'.inflight = Entry(j).inflight
                          /\ Entry(j)'.durable_through = Entry(j).durable_through
        OBVIOUS
      <3>1. Entry(j) \in EntryT
        BY EntryTyped
      <3> QED
        BY <1>1, <3>1, UpsertEffect DEF EntryT
    <2> QED
      BY <1>1, <2>1, SlotInvFrame DEF upsert_desired, sink
  <1>2. ASSUME NEW k \in Keys, NEW g \in 0 .. MaxGen, claim(k, g)
        PROVE  SlotInv'
    <2>1. CASE ~Claimable(Entry(k), g)
      BY <1>2, <2>1, ClaimEffect, SlotInvFrame DEF claim
    <2>2. CASE Claimable(Entry(k), g)
      <3> DEFINE new == [claim |-> claims + 1, env |-> EnvelopeOf(k)]
      <3>1. /\ working' = working \cup {new} /\ claims' = claims + 1
            /\ holder' = [holder EXCEPT ![k] = claims + 1]
            /\ replies' = replies /\ generation' = generation
        BY <1>2, <2>2 DEF claim, EnvelopeOf
      <3>2. /\ Entry(k)'.inflight = EnvelopeOf(k)
            /\ Entry(k)'.durable_through = Entry(k).durable_through
            /\ Entry(k).inflight = None
            /\ \A j \in Keys : j # k => Entry(j)' = Entry(j)
        BY <1>2, <2>2, ClaimEffect, EntryTyped DEF EntryT, Claimable
      <3>3. /\ new.env.key = k /\ new.claim = claims + 1
            /\ new.env.generation = generation /\ new.env = EnvelopeOf(k)
        BY DEF EnvelopeOf
      <3>4. holder \in [Keys -> Nat]
        BY DEF TypeOK
      <3>5. \A w \in working : w.env.generation = generation => w.env.key # k
        BY <1>0, <3>2, ConstantsAssumption DEF SlotHeldWhileWorking
      <3> HIDE DEF new
      <3>6. SlotHeldWhileWorking'
        BY <1>0, <3>1, <3>2, <3>3, <3>4, <3>5 DEF SlotHeldWhileWorking
      <3>7. AttemptIdsUnique'
        BY <1>0, <3>1, <3>3 DEF AttemptIdsUnique
      <3>8. RepliesNameSlot'
        <4> SUFFICES ASSUME NEW r \in replies, r.generation = generation
                     PROVE  \/ r.kind = "applied" /\ CoveredBy(Entry(r.key)', r.epoch)
                            \/ NamesInflight(Entry(r.key)', r) /\ holder'[r.key] = r.claim
          BY <3>1 DEF RepliesNameSlot, CoveredBy, NamesInflight
        <4>1. \/ r.kind = "applied" /\ CoveredBy(Entry(r.key), r.epoch)
              \/ NamesInflight(Entry(r.key), r) /\ holder[r.key] = r.claim
          BY DEF RepliesNameSlot
        <4> QED
          BY <1>0, <3>1, <3>2, <3>4, <4>1 DEF CoveredBy, NamesInflight
      <3> QED
        BY <3>6, <3>7, <3>8
    <2> QED
      BY <2>1, <2>2
  <1>3. ASSUME NEW r \in replies, ack_applied(r)
        PROVE  SlotInv'
    <2>1. /\ working' = working /\ claims' = claims /\ holder' = holder
          /\ replies' = replies /\ generation' = generation /\ r.kind = "applied"
      BY <1>3 DEF ack_applied, sink
    <2>2. CASE ~(CurrentReply(r) /\ NamesInflight(Entry(r.key), r))
      <3>1. \A j \in Keys : Entry(j)' = Entry(j)
        BY <1>0, <1>3, <2>2, AckEffect, AckedFacts, EntryTyped
      <3> QED
        BY <2>1, <3>1, SlotInvFrame
    <2>3. CASE CurrentReply(r) /\ NamesInflight(Entry(r.key), r)
      <3>1. Entry(r.key) \in EntryT /\ Entry(r.key)' = Acked(Entry(r.key), r)
        BY <1>0, <1>3, <2>3, AckEffect, EntryTyped
      <3>2. ~CoveredBy(Entry(r.key), r.epoch)
        BY <1>0, <2>3 DEF EntryOrdered, NamesInflight, Retained
      <3>3. /\ Entry(r.key)'.inflight = None
            /\ Entry(r.key)'.durable_through = r.epoch
            /\ \A j \in Keys : j # r.key => Entry(j)' = Entry(j)
        BY <1>0, <1>3, <2>3, <3>1, <3>2, AckEffect, AckedFacts
      <3>4. holder[r.key] = r.claim
        BY <2>3, <3>2 DEF RepliesNameSlot, CurrentReply
      <3>5. SlotHeldWhileWorking'
        <4>1. \A w \in working : w.env.generation = generation => w.env.key # r.key
          BY <1>0, <3>4 DEF SlotHeldWhileWorking, AttemptIdsUnique
        <4> QED
          BY <1>0, <2>1, <3>3, <4>1 DEF SlotHeldWhileWorking
      <3>6. AttemptIdsUnique'
        BY <2>1 DEF AttemptIdsUnique
      <3>7. RepliesNameSlot'
        <4> SUFFICES ASSUME NEW q \in replies, q.generation = generation
                     PROVE  \/ q.kind = "applied" /\ CoveredBy(Entry(q.key)', q.epoch)
                            \/ NamesInflight(Entry(q.key)', q) /\ holder[q.key] = q.claim
          BY <2>1 DEF RepliesNameSlot, CoveredBy, NamesInflight
        <4>1. \/ q.kind = "applied" /\ CoveredBy(Entry(q.key), q.epoch)
              \/ NamesInflight(Entry(q.key), q) /\ holder[q.key] = q.claim
          BY DEF RepliesNameSlot
        <4>2. CASE q.key # r.key
          BY <1>0, <3>3, <4>1, <4>2
        <4>3. CASE q.key = r.key
          <5>0. /\ r.epoch \in Nat /\ q.epoch \in Nat /\ r.epoch # None
                /\ Entry(q.key)'.durable_through = r.epoch
            BY <1>0, <3>3, <4>3, ConstantsAssumption
          <5>1. CASE NamesInflight(Entry(q.key), q) /\ holder[q.key] = q.claim
            <6>1. q = r
              BY <3>4, <4>3, <5>1 DEF AttemptIdsUnique
            <6>2. CoveredBy(Entry(q.key)', q.epoch)
              BY <5>0, <6>1 DEF CoveredBy
            <6> QED
              BY <2>1, <6>1, <6>2
          <5>2. CASE q.kind = "applied" /\ CoveredBy(Entry(q.key), q.epoch)
            <6>1. /\ Entry(r.key).durable_through \in Epochs
                  /\ q.epoch <= Entry(r.key).durable_through
              BY <3>1, <4>3, <5>2 DEF EntryT, CoveredBy
            <6>2. ~(r.epoch <= Entry(r.key).durable_through)
              BY <3>2, <6>1, ConstantsAssumption DEF CoveredBy
            <6>3. Entry(r.key).durable_through \in Nat
              BY <6>1, ConstantsAssumption
            <6>4. CoveredBy(Entry(q.key)', q.epoch)
              BY <5>0, <6>1, <6>2, <6>3 DEF CoveredBy
            <6> QED
              BY <5>2, <6>4
          <5> QED
            BY <4>1, <5>1, <5>2
        <4> QED
          BY <4>2, <4>3
      <3> QED
        BY <3>5, <3>6, <3>7
    <2> QED
      BY <2>2, <2>3
  <1>4. ASSUME NEW r \in replies, fail_retryable(r)
        PROVE  SlotInv'
    <2>1. /\ working' = working /\ claims' = claims /\ holder' = holder
          /\ replies' = replies \ {r} /\ generation' = generation /\ r.kind = "failed"
      BY <1>4 DEF fail_retryable, sink
    <2>2. AttemptIdsUnique'
      BY <2>1 DEF AttemptIdsUnique
    <2>3. CASE r.generation # generation
      <3>1. \A j \in Keys : Entry(j)' = Entry(j)
        BY <1>4, <2>3, FailEffect DEF CurrentReply
      <3>2. SlotHeldWhileWorking'
        BY <1>0, <2>1, <3>1 DEF SlotHeldWhileWorking
      <3>3. RepliesNameSlot'
        <4> SUFFICES ASSUME NEW q \in replies, q.generation = generation
                     PROVE  \/ q.kind = "applied" /\ CoveredBy(Entry(q.key)', q.epoch)
                            \/ NamesInflight(Entry(q.key)', q) /\ holder[q.key] = q.claim
          BY <2>1 DEF RepliesNameSlot, CoveredBy, NamesInflight
        <4> QED
          BY <1>0, <3>1 DEF RepliesNameSlot
      <3> QED
        BY <2>2, <3>2, <3>3
    <2>4. CASE r.generation = generation
      <3>1. NamesInflight(Entry(r.key), r) /\ holder[r.key] = r.claim
        BY <2>1, <2>4 DEF RepliesNameSlot
      <3>2. Entry(r.key) \in EntryT /\ Entry(r.key).inflight # None
        BY <1>0, <3>1, EntryTyped DEF NamesInflight
      <3>3. Entry(r.key)' = GiveBack(Entry(r.key))
        BY <1>0, <1>4, <2>4, <3>1, FailEffect DEF CurrentReply
      <3>4. /\ Entry(r.key)'.inflight = None
            /\ Entry(r.key)'.durable_through = Entry(r.key).durable_through
            /\ \A j \in Keys : j # r.key => Entry(j)' = Entry(j)
        BY <1>4, <3>2, <3>3, FailEffect, GiveBackFacts
      <3>5. SlotHeldWhileWorking'
        <4>1. \A w \in working : w.env.generation = generation => w.env.key # r.key
          BY <1>0, <3>1 DEF SlotHeldWhileWorking, AttemptIdsUnique
        <4> QED
          BY <1>0, <2>1, <3>4, <4>1 DEF SlotHeldWhileWorking
      <3>6. RepliesNameSlot'
        <4> SUFFICES ASSUME NEW q \in replies, q # r, q.generation = generation
                     PROVE  \/ q.kind = "applied" /\ CoveredBy(Entry(q.key)', q.epoch)
                            \/ NamesInflight(Entry(q.key)', q) /\ holder[q.key] = q.claim
          BY <2>1 DEF RepliesNameSlot, CoveredBy, NamesInflight
        <4>1. \/ q.kind = "applied" /\ CoveredBy(Entry(q.key), q.epoch)
              \/ NamesInflight(Entry(q.key), q) /\ holder[q.key] = q.claim
          BY DEF RepliesNameSlot
        <4>2. CASE q.key # r.key
          BY <1>0, <3>4, <4>1, <4>2
        <4>3. CASE q.key = r.key
          <5>1. holder[q.key] # q.claim
            BY <3>1, <4>3 DEF AttemptIdsUnique
          <5> QED
            BY <3>4, <4>1, <4>3, <5>1 DEF CoveredBy
        <4> QED
          BY <4>2, <4>3
      <3> QED
        BY <2>2, <3>5, <3>6
    <2> QED
      BY <2>3, <2>4
  <1>5. ASSUME NEW g \in 0 .. MaxGen, reconnect(g)
        PROVE  SlotInv'
    <2>1. /\ working' = working /\ claims' = claims /\ holder' = holder /\ replies' = replies
          /\ generation' = IF g > generation THEN g ELSE generation
      BY <1>5 DEF reconnect, core, sink
    <2>2. CASE g > generation
      <3>1. /\ \A w \in working : w.env.generation < generation'
            /\ \A r \in replies : r.generation < generation'
        BY <1>0, <2>1, <2>2, ConstantsAssumption DEF AttemptIdsUnique
      <3>2. SlotHeldWhileWorking'
        BY <1>0, <2>1, <2>2, <3>1 DEF SlotHeldWhileWorking
      <3>3. RepliesNameSlot'
        BY <1>0, <2>1, <2>2, <3>1 DEF RepliesNameSlot
      <3>4. AttemptIdsUnique'
        BY <1>0, <2>1, <2>2, <3>1 DEF AttemptIdsUnique
      <3> QED
        BY <3>2, <3>3, <3>4
    <2>3. CASE ~(g > generation)
      BY <1>5, <2>1, <2>3, ReconnectEffect, SlotInvFrame
    <2> QED
      BY <2>2, <2>3
  <1>6. ASSUME NEW w \in working, NEW kind \in {"applied", "failed"},
               working' = working \ {w}, replies' = replies \cup {ReplyOf(w, kind)},
               UNCHANGED <<core, claims, holder>>
        PROVE  SlotInv'
    <2> DEFINE new == ReplyOf(w, kind)
    <2>1. /\ new.claim = w.claim /\ new.generation = w.env.generation
          /\ new.key = w.env.key /\ new.epoch = w.env.epoch
      BY DEF ReplyOf
    <2>2. \A j \in Keys : Entry(j)' = Entry(j)
      BY <1>6 DEF core, Entry
    <2>3. generation' = generation /\ claims' = claims /\ holder' = holder
      BY <1>6 DEF core
    <2>4. replies' = replies \cup {new}
      BY <1>6
    <2> HIDE DEF new
    <2>5. SlotHeldWhileWorking'
      BY <1>0, <1>6, <2>2, <2>3 DEF SlotHeldWhileWorking
    <2>6. AttemptIdsUnique'
      BY <1>0, <1>6, <2>1, <2>3, <2>4 DEF AttemptIdsUnique
    <2>7. RepliesNameSlot'
      <3> SUFFICES ASSUME NEW q \in replies \cup {new}, q.generation = generation
                   PROVE  \/ q.kind = "applied" /\ CoveredBy(Entry(q.key)', q.epoch)
                          \/ NamesInflight(Entry(q.key)', q) /\ holder[q.key] = q.claim
        BY <2>3, <2>4 DEF RepliesNameSlot, CoveredBy, NamesInflight
      <3>1. CASE q \in replies
        <4>1. Entry(q.key)' = Entry(q.key)
          BY <1>0, <2>2, <3>1
        <4>2. \/ q.kind = "applied" /\ CoveredBy(Entry(q.key), q.epoch)
              \/ NamesInflight(Entry(q.key), q) /\ holder[q.key] = q.claim
          BY <3>1 DEF RepliesNameSlot
        <4> QED
          BY <4>1, <4>2
      <3>2. CASE q = new
        <4>1. Entry(w.env.key).inflight = w.env /\ holder[w.env.key] = w.claim
          BY <2>1, <3>2 DEF SlotHeldWhileWorking
        <4>2. w.env # None
          BY <1>0, ConstantsAssumption
        <4>3. Entry(q.key)' = Entry(q.key) /\ q.key = w.env.key
          BY <1>0, <2>1, <2>2, <3>2
        <4>4. NamesInflight(Entry(q.key), q) /\ holder[q.key] = q.claim
          BY <2>1, <3>2, <4>1, <4>2 DEF NamesInflight
        <4> QED
          BY <4>3, <4>4
      <3> QED
        BY <3>1, <3>2
    <2> QED
      BY <2>5, <2>6, <2>7
  <1>7. ASSUME NEW w \in working, SinkApply(w)
        PROVE  SlotInv'
    BY <1>6, <1>7 DEF SinkApply
  <1>8. ASSUME NEW w \in working, SinkFail(w)
        PROVE  SlotInv'
    BY <1>6, <1>8 DEF SinkFail
  <1>9. CASE UNCHANGED vars
    <2>1. \A j \in Keys : Entry(j)' = Entry(j)
      BY <1>9 DEF vars, Entry
    <2> QED
      BY <1>9, <2>1, SlotInvFrame DEF vars
  <1> QED
    BY <1>1, <1>2, <1>3, <1>4, <1>5, <1>7, <1>8, <1>9 DEF Next

\* While failure reports are delivered once, at most one claimed effect of the
\* current generation runs per key, however acknowledgements are delayed or
\* repeated: the invariants SingleFlight and SlotHeldWhileWorking of the run
\* latest_durable, for every instance.
THEOREM OneEffectPerKey ==
  ASSUME ~DupFailures
  PROVE  Spec => [](SingleFlight /\ SlotHeldWhileWorking)
  <1>1. Init => SlotInv
    BY DEF Init, SlotInv, SlotHeldWhileWorking, AttemptsAccounted,
           AttemptIdsUnique, RepliesNameSlot
  <1>2. TypeOK /\ EntryOrdered /\ SlotInv /\ [Next]_vars => SlotInv'
    BY SlotInvStep
  <1>3. SlotInv => SingleFlight /\ SlotHeldWhileWorking
    BY DEF SlotInv, SlotHeldWhileWorking, AttemptsAccounted, AttemptIdsUnique, SingleFlight
  <1> QED
    BY <1>1, <1>2, <1>3, TypeCorrect, RevisionsSafe, PTL DEF Spec

-----------------------------------------------------------------------------
(* The register that callers see *)

\* The revision of a retained revision or an envelope.
RevisionOf(r) == [epoch |-> r.epoch, value |-> r.value]

RetainedAccepted(ent, acc) == \A r \in Retained(ent) : RevisionOf(r) \in acc

\* Nothing is retained, running or stored that was not accepted.
Provenance ==
  /\ \A k \in Keys : RetainedAccepted(Entry(k), accepted[k])
  /\ \A w \in working : RevisionOf(w.env) \in accepted[w.env.key]
  /\ \A k \in Keys : stored[k] # None => stored[k] \in accepted[k]

LEMMA EntryStepProvenance ==
  ASSUME NEW old \in EntryT, NEW new, NEW acc, NEW acc2, NEW acks \in SUBSET Reply,
         EntryStep(old, new, acc, acc2, acks), RetainedAccepted(old, acc)
  PROVE  RetainedAccepted(new, acc2) /\ acc \subseteq acc2
  <1>0. \A r \in Revision : RevisionOf(r) = r
    BY DEF Revision, RevisionOf
  <1>1. CASE new = old /\ acc2 = acc
    BY <1>1
  <1>2. ASSUME NEW rev \in Revision, new = [old EXCEPT !.desired = rev], acc2 = acc \cup {rev}
        PROVE  RetainedAccepted(new, acc2) /\ acc \subseteq acc2
    BY <1>0, <1>2 DEF EntryT, RetainedAccepted, Retained
  <1>3. ASSUME NEW env \in Envelope, old.desired # None,
               env.epoch = old.desired.epoch, env.value = old.desired.value,
               new = [old EXCEPT !.desired = None, !.inflight = env], acc2 = acc
        PROVE  RetainedAccepted(new, acc2) /\ acc \subseteq acc2
    <2>1. Retained(new) = {env} \/ Retained(new) = {}
      BY <1>3 DEF EntryT, Retained
    <2>2. RevisionOf(env) = RevisionOf(old.desired) /\ old.desired \in Retained(old)
      BY <1>3 DEF RevisionOf, Retained
    <2> QED
      BY <1>3, <2>1, <2>2 DEF RetainedAccepted
  <1>4. ASSUME NEW r \in acks, new = Acked(old, r), acc2 = acc
        PROVE  RetainedAccepted(new, acc2) /\ acc \subseteq acc2
    <2>1. Retained(new) \subseteq Retained(old)
      BY <1>4, AckedFacts DEF Retained
    <2> QED
      BY <1>4, <2>1 DEF RetainedAccepted
  <1>5. ASSUME old.inflight # None, new = GiveBack(old), acc2 = acc
        PROVE  RetainedAccepted(new, acc2) /\ acc \subseteq acc2
    <2>1. /\ new.inflight = None
          /\ new.desired = old.desired \/ new.desired = RevisionOf(old.inflight)
      BY <1>5, GiveBackFacts DEF RevisionOf
    <2>2. RevisionOf(RevisionOf(old.inflight)) = RevisionOf(old.inflight)
      BY DEF RevisionOf
    <2>3. old.inflight \in Retained(old)
      BY <1>5 DEF Retained
    <2> QED
      BY <1>5, <2>1, <2>2, <2>3 DEF RetainedAccepted, Retained
  <1> QED
    BY <1>1, <1>2, <1>3, <1>4, <1>5 DEF EntryStep

\* A sink worker's write: to the storage of its key, forward, or none.
LEMMA SinkWrites ==
  ASSUME TypeOK, NEW w \in working
  PROVE  \/ Written(w) = stored
         \/ /\ stored[w.env.key] # None => stored[w.env.key].epoch <= w.env.epoch
            /\ Written(w) = [stored EXCEPT ![w.env.key] = RevisionOf(w.env)]
  <1>1. w.env.key \in Keys /\ w.env.epoch \in Nat
    BY ConstantsAssumption DEF TypeOK, Worker, Envelope
  <1>2. stored[w.env.key] # None => stored[w.env.key].epoch \in Nat
    BY <1>1, ConstantsAssumption DEF TypeOK, Revision
  <1>3. CASE stored[w.env.key] # None /\ stored[w.env.key].epoch > w.env.epoch
    <2>1. Written(w) = [stored EXCEPT ![w.env.key] = stored[w.env.key]]
      BY <1>3 DEF Written
    <2> QED
      BY <1>1, <2>1 DEF TypeOK
  <1>4. CASE ~(stored[w.env.key] # None /\ stored[w.env.key].epoch > w.env.epoch)
    <2>1. Written(w) = [stored EXCEPT ![w.env.key] = RevisionOf(w.env)]
      BY <1>4 DEF Written, RevisionOf
    <2> QED
      BY <1>1, <1>2, <1>4, <2>1
  <1> QED
    BY <1>3, <1>4

\* Workers come from claims.
LEMMA NewWorker ==
  ASSUME [Next]_vars, NEW w \in working', w \notin working
  PROVE  \E k \in Keys : Claimable(Entry(k), generation) /\ w.env = EnvelopeOf(k)
  <1>1. ASSUME NEW k \in Keys, NEW g \in 0 .. MaxGen, claim(k, g)
        PROVE  Claimable(Entry(k), generation) /\ w.env = EnvelopeOf(k)
    BY <1>1 DEF claim, EnvelopeOf, Claimable
  <1>2. ASSUME working' \subseteq working PROVE FALSE
    BY <1>2
  <1> QED
    BY <1>1, <1>2 DEF Next, vars, upsert_desired, ack_applied, fail_retryable, reconnect,
                      SinkApply, SinkFail, sink

LEMMA ProvenanceHolds == Spec => []Provenance
  <1>1. Init => Provenance
    BY DEF Init, Provenance, RetainedAccepted, Retained, Entry, EmptyEntry
  <1>2. TypeOK /\ Provenance /\ [Next]_vars => Provenance'
    <2> SUFFICES ASSUME TypeOK, Provenance, [Next]_vars PROVE Provenance'
      OBVIOUS
    <2>1. ASSUME NEW k \in Keys
          PROVE  RetainedAccepted(Entry(k)', accepted'[k]) /\ accepted[k] \subseteq accepted'[k]
      <3>1. Entry(k) \in EntryT /\ AcksOf(k) \in SUBSET Reply
        BY EntryTyped DEF TypeOK, AcksOf
      <3>2. RetainedAccepted(Entry(k), accepted[k])
        BY DEF Provenance
      <3> QED
        BY <3>1, <3>2, EveryStepIsEntryStep, EntryStepProvenance
    <2>2. ASSUME NEW w \in working' PROVE RevisionOf(w.env) \in accepted'[w.env.key]
      <3>1. CASE w \in working
        BY <2>1, <3>1 DEF Provenance, TypeOK, Worker, Envelope
      <3>2. CASE w \notin working
        <4>1. PICK k \in Keys : Claimable(Entry(k), generation) /\ w.env = EnvelopeOf(k)
          BY <3>2, NewWorker
        <4>2. Entry(k).desired \in Retained(Entry(k)) /\ w.env.key = k
          BY <4>1 DEF Claimable, Retained, EnvelopeOf
        <4>3. RevisionOf(w.env) = RevisionOf(Entry(k).desired)
          BY <4>1 DEF EnvelopeOf, RevisionOf
        <4> QED
          BY <2>1, <4>2, <4>3 DEF Provenance, RetainedAccepted
      <3> QED
        BY <3>1, <3>2
    <2>3. ASSUME NEW k \in Keys, stored'[k] # None PROVE stored'[k] \in accepted'[k]
      <3>1. stored' = stored \/ \E w \in working : stored' = Written(w)
        BY DEF Next, vars, upsert_desired, claim, ack_applied, fail_retryable,
               reconnect, SinkApply, SinkFail, sink
      <3>2. CASE stored' = stored
        BY <2>1, <2>3, <3>2 DEF Provenance
      <3>3. ASSUME NEW w \in working, stored' = Written(w)
            PROVE  stored'[k] \in accepted'[k]
        <4>1. stored'[k] = stored[k] \/ (k = w.env.key /\ stored'[k] = RevisionOf(w.env))
          BY <3>3, SinkWrites DEF TypeOK
        <4> QED
          BY <2>1, <2>3, <4>1 DEF Provenance
      <3> QED
        BY <3>1, <3>2, <3>3
    <2> QED
      BY <2>1, <2>2, <2>3 DEF Provenance, RetainedAccepted, Retained
  <1> QED
    BY <1>1, <1>2, TypeCorrect, PTL DEF Spec

\* The frontiers of all keys, when those of single entries are known.
LEMMA FrontiersAre ==
  /\ (\A j \in Keys : Entry(j)'.durable_through = Entry(j).durable_through)
       => Frontiers' = Frontiers
  /\ \A k \in Keys : \A e :
       (/\ Entry(k)'.durable_through = e
        /\ \A j \in Keys : j # k => Entry(j)'.durable_through = Entry(j).durable_through)
       => Frontiers' = [Frontiers EXCEPT ![k] = e]
  BY DEF Frontiers

\* For any keys, values, epochs and bounds, and with repeated failure reports
\* too, the reducer and its sink implement the register: every step accepts a
\* newer revision, moves the storage or the frontier forward, or is not seen.
THEOREM ProjectionImplementsRegister == Spec => ImplementsRegister
  <1>1. Init => Register!Init
    BY DEF Init, Register!Init, Frontiers, Entry, EmptyEntry
  <1>2. /\ TypeOK /\ EntryOrdered /\ NewestNotLost /\ EpochNamesOneValue
        /\ AppliedStored /\ Provenance /\ [Next]_vars
        => [Register!Next]_(Register!vars)
    <2> SUFFICES ASSUME TypeOK, EntryOrdered, NewestNotLost, EpochNamesOneValue,
                        AppliedStored, Provenance, [Next]_vars
                 PROVE  [Register!Next]_(Register!vars)
      OBVIOUS
    <2>1. \A k \in Keys : Entry(k) \in EntryT
      BY EntryTyped
    <2>2. ASSUME accepted' = accepted, stored' = stored,
                 \A j \in Keys : Entry(j)'.durable_through = Entry(j).durable_through
          PROVE  UNCHANGED Register!vars
      BY <2>2, FrontiersAre DEF Register!vars
    <2>3. ASSUME NEW k \in Keys, NEW e \in Epochs, NEW v \in Values, upsert_desired(k, e, v)
          PROVE  [Register!Next]_(Register!vars)
      <3> DEFINE rev == [epoch |-> e, value |-> v]
      <3>1. \A j \in Keys : Entry(j)'.durable_through = Entry(j).durable_through
        BY <2>1, <2>3, UpsertEffect DEF EntryT
      <3>2. stored' = stored
        BY <2>3 DEF upsert_desired, sink
      <3>3. CASE Accepts(Entry(k), e)
        <4>1. accepted' = [accepted EXCEPT ![k] = @ \cup {rev}]
          BY <2>3, <3>3 DEF upsert_desired
        <4>2. rev \in Revision /\ rev.epoch = e
          BY DEF Revision
        <4>3. \A a \in accepted[k] : a.epoch < rev.epoch
          <5>1. ASSUME NEW a \in accepted[k] PROVE a.epoch < e
            <6>1. a.epoch \in Nat /\ e \in Nat
              BY ConstantsAssumption DEF TypeOK, Revision
            <6>2. /\ Entry(k).durable_through # None => Entry(k).durable_through \in Nat
                  /\ \A r \in Retained(Entry(k)) : r.epoch \in Nat
              BY <2>1, ConstantsAssumption DEF EntryT, Retained, Revision, Envelope
            <6> QED
              BY <3>3, <6>1, <6>2 DEF NewestNotLost, Accepts, CoveredBy
          <5> QED
            BY <4>2, <5>1
        <4>4. Register!Accept(k, rev)
          BY <3>1, <3>2, <4>1, <4>3, FrontiersAre DEF Register!Accept
        <4> QED
          BY <4>2, <4>4 DEF Register!Next
      <3>4. CASE ~Accepts(Entry(k), e)
        BY <2>2, <2>3, <3>1, <3>2, <3>4 DEF upsert_desired
      <3> QED
        BY <3>3, <3>4
    <2>4. ASSUME NEW k \in Keys, NEW g \in 0 .. MaxGen, claim(k, g)
          PROVE  UNCHANGED Register!vars
      <3>1. \A j \in Keys : Entry(j)'.durable_through = Entry(j).durable_through
        BY <2>1, <2>4, ClaimEffect DEF EntryT
      <3> QED
        BY <2>2, <2>4, <3>1 DEF claim
    <2>5. ASSUME NEW r \in replies, ack_applied(r)
          PROVE  [Register!Next]_(Register!vars)
      <3> DEFINE k == r.key
                 rev == RevisionOf(Entry(k).inflight)
      <3>1. r \in Reply /\ k \in Keys /\ r.kind = "applied"
            /\ accepted' = accepted /\ stored' = stored
        BY <2>5 DEF TypeOK, Reply, ack_applied, sink
      <3>2. CASE CurrentReply(r) /\ NamesInflight(Entry(k), r) /\ ~CoveredBy(Entry(k), r.epoch)
        <4>1. /\ Entry(k)'.durable_through = r.epoch
              /\ \A j \in Keys : j # k => Entry(j)'.durable_through = Entry(j).durable_through
          BY <2>1, <2>5, <3>1, <3>2, AckEffect, AckedFacts
        <4>2. rev \in accepted[k] /\ rev.epoch = r.epoch /\ rev \in Revision
          BY <3>1, <3>2 DEF Provenance, RetainedAccepted, NamesInflight, Retained, RevisionOf, TypeOK
        <4>3. stored[k] # None /\ r.epoch <= stored[k].epoch
          BY <3>1 DEF AppliedStored
        <4>4. Frontiers[k] # None => Frontiers[k] < r.epoch
          <5>1. r.epoch \in Nat /\ (Entry(k).durable_through # None => Entry(k).durable_through \in Nat)
            BY <2>1, <3>1, ConstantsAssumption DEF EntryT, Reply
          <5> QED
            BY <3>1, <3>2, <5>1 DEF Frontiers, CoveredBy
        <4>5. Frontiers' = [Frontiers EXCEPT ![k] = rev.epoch]
          BY <3>1, <4>1, <4>2, FrontiersAre
        <4>6. Register!Report(k, rev)
          BY <3>1, <4>2, <4>3, <4>4, <4>5 DEF Register!Report
        <4> QED
          BY <3>1, <4>2, <4>6 DEF Register!Next
      <3>3. CASE ~(CurrentReply(r) /\ NamesInflight(Entry(k), r) /\ ~CoveredBy(Entry(k), r.epoch))
        <4>1. \A j \in Keys : Entry(j)'.durable_through = Entry(j).durable_through
          BY <2>1, <2>5, <3>1, <3>3, AckEffect, AckedFacts
        <4> QED
          BY <2>2, <3>1, <4>1
      <3> QED
        BY <3>2, <3>3
    <2>6. ASSUME NEW r \in replies, fail_retryable(r)
          PROVE  UNCHANGED Register!vars
      <3>1. \A j \in Keys : Entry(j)'.durable_through = Entry(j).durable_through
        BY <2>1, <2>6, FailEffect, GiveBackFacts DEF NamesInflight
      <3> QED
        BY <2>2, <2>6, <3>1 DEF fail_retryable, sink
    <2>7. ASSUME NEW g \in 0 .. MaxGen, reconnect(g)
          PROVE  UNCHANGED Register!vars
      <3>1. \A j \in Keys : Entry(j)'.durable_through = Entry(j).durable_through
        BY <2>1, <2>7, ReconnectEffect, GiveBackFacts
      <3> QED
        BY <2>2, <2>7, <3>1 DEF reconnect, sink
    <2>8. ASSUME NEW w \in working, SinkApply(w) \/ SinkFail(w)
          PROVE  [Register!Next]_(Register!vars)
      <3> DEFINE k == w.env.key
                 rev == RevisionOf(w.env)
      <3>1. /\ accepted' = accepted /\ stored' \in {stored, Written(w)}
            /\ \A j \in Keys : Entry(j)' = Entry(j)
        BY <2>8 DEF SinkApply, SinkFail, core, Entry
      <3>2. CASE stored' = stored
        BY <2>2, <3>1, <3>2
      <3>3. CASE /\ stored[k] # None => stored[k].epoch <= rev.epoch
                 /\ stored' = [stored EXCEPT ![k] = rev] /\ stored' # stored
        <4>1. k \in Keys /\ rev \in accepted[k] /\ rev \in Revision
          BY DEF TypeOK, Worker, Envelope, Provenance
        <4>2. stored[k] # None => stored[k] # rev /\ stored[k] \in accepted[k]
          BY <3>3, <4>1 DEF TypeOK, Provenance
        <4>3. stored[k] # None => stored[k].epoch # rev.epoch
          BY <4>1, <4>2 DEF EpochNamesOneValue
        <4>4. stored[k] # None => stored[k].epoch < rev.epoch
          <5>1. rev.epoch \in Nat /\ (stored[k] # None => stored[k].epoch \in Nat)
            BY <4>1, ConstantsAssumption DEF TypeOK, Revision
          <5> QED
            BY <3>3, <4>3, <5>1
        <4>5. Register!Store(k, rev)
          BY <3>1, <3>3, <4>1, <4>4, FrontiersAre DEF Register!Store
        <4> QED
          BY <4>1, <4>5 DEF Register!Next
      <3> QED
        BY <3>1, <3>2, <3>3, SinkWrites DEF RevisionOf
    <2>9. CASE UNCHANGED vars
      BY <2>2, <2>9 DEF vars, Entry
    <2> QED
      BY <2>3, <2>4, <2>5, <2>6, <2>7, <2>8, <2>9 DEF Next
  <1> QED
    BY <1>1, <1>2, TypeCorrect, RevisionsSafe, StorageBacks, ProvenanceHolds, PTL
       DEF Spec, ImplementsRegister, Register!Spec

-----------------------------------------------------------------------------
(* Nothing is stuck *)

\* A reply of the current generation that names what is in flight for key k.
Answers(k, r) == r.key = k /\ CurrentReply(r) /\ NamesInflight(Entry(k), r)

\* What is in flight is of the current generation, and either a worker still runs
\* it or a reply that names it is under way.
SlotsTended ==
  \A k \in Keys : Entry(k).inflight # None =>
    /\ Entry(k).inflight.generation = generation /\ Entry(k).inflight.key = k
    /\ (\E w \in working : w.env = Entry(k).inflight) \/ (\E r \in replies : Answers(k, r))

LEMMA SlotsTendedHolds == Spec => []SlotsTended
  <1>1. Init => SlotsTended
    BY DEF Init, SlotsTended, Entry, EmptyEntry
  <1>2. TypeOK /\ SlotsTended /\ [Next]_vars => SlotsTended'
    <2> SUFFICES ASSUME TypeOK, SlotsTended, [Next]_vars,
                        NEW k \in Keys, Entry(k)'.inflight # None
                 PROVE  /\ Entry(k)'.inflight.generation = generation'
                        /\ Entry(k)'.inflight.key = k
                        /\ \/ \E w \in working' : w.env = Entry(k)'.inflight
                           \/ \E r \in replies' : Answers(k, r)'
      BY DEF SlotsTended
    <2> DEFINE Goal == /\ Entry(k)'.inflight.generation = generation'
                       /\ Entry(k)'.inflight.key = k
                       /\ \/ \E w \in working' : w.env = Entry(k)'.inflight
                          \/ \E r \in replies' : Answers(k, r)'
    <2>1. Entry(k) \in EntryT
      BY EntryTyped
    <2>2. ASSUME Entry(k)'.inflight = Entry(k).inflight, generation' = generation,
                 \A w \in working : w.env = Entry(k).inflight =>
                    w \in working' \/ \E r \in replies' : Answers(k, r)',
                 \A r \in replies : Answers(k, r) => r \in replies'
          PROVE  Goal
      <3>1. \A r : Answers(k, r) => Answers(k, r)'
        BY <2>2 DEF Answers, CurrentReply, NamesInflight
      <3> QED
        BY <2>2, <3>1 DEF SlotsTended
    <2>3. ASSUME NEW j \in Keys, NEW e \in Epochs, NEW v \in Values, upsert_desired(j, e, v)
          PROVE  Goal
      <3>1. Entry(k)'.inflight = Entry(k).inflight
        BY <2>1, <2>3, UpsertEffect DEF EntryT
      <3> QED
        BY <2>2, <2>3, <3>1 DEF upsert_desired, sink
    <2>4. ASSUME NEW j \in Keys, NEW g \in 0 .. MaxGen, claim(j, g) PROVE Goal
      <3>1. generation' = generation /\ replies' = replies /\ working \subseteq working'
        BY <2>4 DEF claim
      <3>2. CASE k = j /\ Claimable(Entry(j), g)
        <4>1. Entry(k)'.inflight = EnvelopeOf(k)
          BY <2>1, <2>4, <3>2, ClaimEffect DEF EntryT
        <4>2. EnvelopeOf(k).generation = generation /\ EnvelopeOf(k).key = k
          BY DEF EnvelopeOf
        <4>3. \E w \in working' : w.env = EnvelopeOf(k)
          BY <2>4, <3>2 DEF claim, EnvelopeOf
        <4> QED
          BY <3>1, <4>1, <4>2, <4>3
      <3>3. CASE ~(k = j /\ Claimable(Entry(j), g))
        <4>1. Entry(k)' = Entry(k)
          BY <2>4, <3>3, ClaimEffect
        <4> QED
          BY <2>2, <3>1, <4>1
      <3> QED
        BY <3>2, <3>3
    <2>5. ASSUME NEW r \in replies, ack_applied(r) PROVE Goal
      <3>1. Entry(k)'.inflight = Entry(k).inflight
        BY <2>1, <2>5, AckEffect, AckedFacts DEF TypeOK
      <3> QED
        BY <2>2, <2>5, <3>1 DEF ack_applied, sink
    <2>6. ASSUME NEW r \in replies, fail_retryable(r) PROVE Goal
      <3>1. ~Answers(k, r) /\ Entry(k)' = Entry(k)
        BY <2>1, <2>6, FailEffect, GiveBackFacts DEF Answers, NamesInflight
      <3>2. /\ generation' = generation /\ working' = working /\ replies \ {r} \subseteq replies'
        BY <2>6 DEF fail_retryable, sink
      <3> QED
        BY <2>2, <3>1, <3>2
    <2>7. ASSUME NEW g \in 0 .. MaxGen, reconnect(g) PROVE Goal
      <3>1. ~(g > generation) /\ Entry(k)' = Entry(k)
        BY <2>1, <2>7, ReconnectEffect, GiveBackFacts
      <3> QED
        BY <2>2, <2>7, <3>1 DEF reconnect, core, sink
    <2>8. ASSUME NEW w \in working, SinkApply(w) \/ SinkFail(w) PROVE Goal
      <3>1. /\ Entry(k)' = Entry(k) /\ generation' = generation /\ working' = working \ {w}
            /\ replies \subseteq replies'
            /\ \E kind : ReplyOf(w, kind) \in replies'
        BY <2>8 DEF SinkApply, SinkFail, core, Entry
      <3>2. ASSUME w.env = Entry(k).inflight PROVE \E r \in replies' : Answers(k, r)'
        <4>1. PICK kind : ReplyOf(w, kind) \in replies'
          BY <3>1
        <4>2. w.env.generation = generation /\ w.env.key = k /\ Entry(k)'.inflight = w.env
          BY <3>1, <3>2 DEF SlotsTended
        <4>3. Answers(k, ReplyOf(w, kind))'
          BY <3>1, <4>2 DEF Answers, CurrentReply, NamesInflight, ReplyOf
        <4> QED
          BY <4>1, <4>3
      <3> QED
        BY <2>2, <3>1, <3>2
    <2>9. CASE UNCHANGED vars
      BY <2>2, <2>9 DEF vars, Entry
    <2> QED
      BY <2>3, <2>4, <2>5, <2>6, <2>7, <2>8, <2>9 DEF Next
  <1> QED
    BY <1>1, <1>2, TypeCorrect, PTL DEF Spec

\* What EventuallyDurable rests on, with repeated failure reports too: as long as
\* an accepted revision is not durable, something remains to be done for its key.
\* The entry can be claimed, a worker runs what is in flight, or a reply to it is
\* under way (claim, fail_retryable, reconnect); no interleaving leaves a slot
\* occupied that nobody will clear, nor a revision that nobody will claim.
NothingStuck ==
  \A k \in Keys : \A a \in accepted[k] :
    \/ CoveredBy(Entry(k), a.epoch)
    \/ Claimable(Entry(k), generation)
    \/ \E w \in working : w.env = Entry(k).inflight
    \/ \E r \in replies : Answers(k, r)

THEOREM NothingIsStuck == Spec => []NothingStuck
  <1>1. NewestNotLost /\ SlotsTended => NothingStuck
    BY DEF NewestNotLost, SlotsTended, NothingStuck, Retained, Claimable
  <1> QED
    BY <1>1, RevisionsSafe, SlotsTendedHolds, PTL

-----------------------------------------------------------------------------
(* What a settled key comes to *)

\* When an entry retains nothing, the storage holds exactly the newest revision
\* ever accepted for its key, and the frontier names it, whatever was retried,
\* fenced off, written late or acknowledged twice on the way (ack_applied clears
\* the slot, and the upsert into the storage carries the epoch).
SettledIsNewest ==
  \A k \in Keys : accepted[k] # {} /\ Retained(Entry(k)) = {} =>
    /\ stored[k] \in accepted[k]
    /\ \A a \in accepted[k] : a.epoch <= stored[k].epoch
    /\ Entry(k).durable_through = stored[k].epoch

THEOREM SettledKeysHoldTheNewest == Spec => []SettledIsNewest
  <1>1. TypeOK /\ NewestNotLost /\ FrontierStored /\ Provenance => SettledIsNewest
    <2> SUFFICES ASSUME TypeOK, NewestNotLost, FrontierStored, Provenance,
                        NEW k \in Keys, accepted[k] # {}, Retained(Entry(k)) = {}
                 PROVE  /\ stored[k] \in accepted[k]
                        /\ \A a \in accepted[k] : a.epoch <= stored[k].epoch
                        /\ Entry(k).durable_through = stored[k].epoch
      BY DEF SettledIsNewest
    <2>1. \A a \in accepted[k] : CoveredBy(Entry(k), a.epoch)
      BY DEF NewestNotLost
    <2>2. Entry(k).durable_through # None /\ Entry(k).durable_through \in Nat
      BY <2>1, EntryTyped, ConstantsAssumption DEF CoveredBy, EntryT
    <2>3. /\ stored[k] # None /\ stored[k] \in accepted[k]
          /\ Entry(k).durable_through <= stored[k].epoch
      BY <2>2 DEF FrontierStored, Provenance
    <2>4. \A a \in accepted[k] : a.epoch \in Nat
      BY ConstantsAssumption DEF TypeOK, Revision
    <2>5. Entry(k).durable_through = stored[k].epoch
      BY <2>1, <2>2, <2>3, <2>4 DEF CoveredBy
    <2> QED
      BY <2>1, <2>3, <2>5 DEF CoveredBy
  <1> QED
    BY <1>1, TypeCorrect, RevisionsSafe, FrontierIsStored, ProvenanceHolds, PTL
=============================================================================
