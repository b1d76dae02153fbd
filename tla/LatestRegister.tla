--------------------------- MODULE LatestRegister ---------------------------
(***************************************************************************)
(* What the latest-durable projection and its sink promise together.  Per  *)
(* key, revisions are accepted in the order of their epochs, the storage   *)
(* moves only forward and only to an accepted revision, and the frontier   *)
(* that is reported moves only forward and never past the storage.         *)
(* Nothing is said of how a revision travels to the storage: claims,       *)
(* generations, failures and replies are not seen.                         *)
(***************************************************************************)
EXTENDS Naturals

CONSTANTS
  Keys,
  Revision,  \* records with an epoch, a natural number
  None

VARIABLES
  accepted,  \* the revisions accepted for a key
  stored,    \* the revision the storage holds for a key, or None
  durable    \* the epoch reported as durable for a key, or None

vars == <<accepted, stored, durable>>

Init ==
  /\ accepted = [k \in Keys |-> {}]
  /\ stored = [k \in Keys |-> None]
  /\ durable = [k \in Keys |-> None]

Accept(k, rev) ==
  /\ \A a \in accepted[k] : a.epoch < rev.epoch
  /\ accepted' = [accepted EXCEPT ![k] = @ \cup {rev}]
  /\ UNCHANGED <<stored, durable>>

Store(k, rev) ==
  /\ rev \in accepted[k]
  /\ stored[k] # None => stored[k].epoch < rev.epoch
  /\ stored' = [stored EXCEPT ![k] = rev]
  /\ UNCHANGED <<accepted, durable>>

\* An older revision than the stored one may be reported: its write was done,
\* and a newer one after it.
Report(k, rev) ==
  /\ rev \in accepted[k]
  /\ stored[k] # None /\ rev.epoch <= stored[k].epoch
  /\ durable[k] # None => durable[k] < rev.epoch
  /\ durable' = [durable EXCEPT ![k] = rev.epoch]
  /\ UNCHANGED <<accepted, stored>>

Next ==
  \E k \in Keys, rev \in Revision : Accept(k, rev) \/ Store(k, rev) \/ Report(k, rev)

Spec == Init /\ [][Next]_vars
=============================================================================
