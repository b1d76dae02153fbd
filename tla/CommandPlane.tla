--------------------------- MODULE CommandPlane ----------------------------
(***************************************************************************)
(* One command of the command / RPC message plane: an observer's           *)
(* projection, folded by the reducer `step` and replaced by `resync`,      *)
(* among the frames of the client and of the command's authority.          *)
(*                                                                         *)
(* External: a client submits the command and may cancel it; the authority *)
(* reports progress and decides once; a handoff moves the authority to the *)
(* next generation, and the controller it deposed may go on publishing.    *)
(* Any published frame reaches the observer any number of times, at any    *)
(* later moment and in any order, or never; so does the authority's image  *)
(* of any of its past states.                                              *)
(***************************************************************************)
EXTENDS Integers, Sequences

CONSTANTS
  MaxGen,  \* bound: generations of the authority
  MaxLog   \* bound: frames the authority folds

ASSUME ConstantsAssumption == MaxGen \in Nat \ {0} /\ MaxLog \in Nat

VARIABLES
  state,    \* CmdState: the observer's projection
  net,      \* external: the frames published so far
  log,      \* external: what the authority folded, and its image after it
  current,  \* external: the authority's generation
  decided   \* external: the terminal outcome the authority decided, or "none"

vars == <<state, net, log, current, decided>>

Generations == 1 .. MaxGen
EventKind == {"observed", "accepted", "started"}
ReceiptOutcome == {"observed", "accepted", "applied", "rejected"}
CommandStatus == {"absent", "submitted", "accepted", "running",
                  "applied", "rejected", "cancelled", "conflicted"}
Input ==
  [kind : {"submit", "cancel"}, generation : Generations]
    \cup [kind : {"progress"}, generation : Generations, event : EventKind]
    \cup [kind : {"receipt"}, generation : Generations, outcome : ReceiptOutcome]
CmdState == [generation : 0 .. MaxGen, status : CommandStatus]

initial == [generation |-> 0, status |-> "absent"]

isTerminal(status) == status \in {"applied", "rejected", "cancelled", "conflicted"}

callResolved(s) == isTerminal(s.status)

\* A projection without the command is the initial one.
TypeOK ==
  /\ state \in CmdState
  /\ (state.status = "absent") <=> (state.generation = 0)
  /\ net \subseteq Input
  /\ current \in Generations
  /\ decided \in {"none", "applied", "rejected"}
  /\ \A i \in DOMAIN log : log[i].image \in CmdState

-----------------------------------------------------------------------------
(* The reducer *)

progressStatus(event) == IF event = "started" THEN "running" ELSE "accepted"

terminalStatusOf(outcome) ==
  IF outcome \in {"applied", "rejected"} THEN outcome ELSE "accepted"

\* A frame for a command the projection holds, at the generation it holds.
InAnyGeneration(s, f) == s.status # "absent"

InGeneration(s, f) == s.status # "absent" /\ f.generation = s.generation

submitKeepsGeneration(s, f) ==
  IF s.status = "absent" THEN [s EXCEPT !.status = "submitted"] ELSE s

submit(s, f) ==
  IF s.status = "absent" THEN [generation |-> f.generation, status |-> "submitted"] ELSE s

progressAlways(s, f) ==
  IF InGeneration(s, f) THEN [s EXCEPT !.status = progressStatus(f.event)] ELSE s

progress(s, f) ==
  IF InGeneration(s, f) /\ ~isTerminal(s.status)
  THEN [s EXCEPT !.status = progressStatus(f.event)] ELSE s

\* A second terminal outcome fails closed; a progress outcome never reopens.
ReceiptStatusEager(status, incoming) ==
  CASE isTerminal(incoming) /\ isTerminal(status)  -> "conflicted"
    [] ~isTerminal(incoming) /\ isTerminal(status) -> status
    [] ~isTerminal(status)                         -> incoming

ReceiptStatus(status, incoming) ==
  CASE isTerminal(incoming) /\ isTerminal(status)  ->
         IF status = incoming THEN status ELSE "conflicted"
    [] ~isTerminal(incoming) /\ isTerminal(status) -> status
    [] ~isTerminal(status)                         -> incoming

receipt(s, f) ==
  IF InGeneration(s, f)
  THEN [s EXCEPT !.status = ReceiptStatus(s.status, terminalStatusOf(f.outcome))] ELSE s

cancelAlways(s, f) ==
  IF InGeneration(s, f) THEN [s EXCEPT !.status = "cancelled"] ELSE s

cancel(s, f) ==
  IF InGeneration(s, f) /\ ~isTerminal(s.status)
  THEN [s EXCEPT !.status = "cancelled"] ELSE s

step(s, f) ==
  CASE f.kind = "submit"   -> submit(s, f)
    [] f.kind = "progress" -> progress(s, f)
    [] f.kind = "receipt"  -> receipt(s, f)
    [] f.kind = "cancel"   -> cancel(s, f)

\* The reducer over a sequence of inputs.
fold(s, inputs) ==
  LET image[i \in 0 .. Len(inputs)] ==
        IF i = 0 THEN s ELSE step(image[i - 1], inputs[i])
  IN  image[Len(inputs)]

resyncOnce(s, snapshot) == IF s.status = "absent" THEN snapshot ELSE s

resync(s, snapshot) == snapshot

-----------------------------------------------------------------------------
(* The observer *)

Init ==
  /\ state = initial
  /\ net = {} /\ log = <<>> /\ current = 1 /\ decided = "none"

\* A deposed controller does not know that it is: it may publish anything at
\* its generation.
Published == net \cup {f \in Input : /\ f.kind \in {"progress", "receipt"}
                                    /\ f.generation < current}

Deliver(f) ==
  /\ f \in Published
  /\ state' = step(state, f)
  /\ UNCHANGED <<net, log, current, decided>>

Reconnect(i) ==
  /\ state' = resync(state, log[i].image)
  /\ UNCHANGED <<net, log, current, decided>>

-----------------------------------------------------------------------------
(* The client and the authority *)

\* The authority's projection: the fold of its log.
Image == IF log = <<>> THEN initial ELSE log[Len(log)].image

\* The authority folds a frame, once, and publishes it.
Folds(f) ==
  /\ Len(log) < MaxLog
  /\ \A i \in DOMAIN log : log[i].frame # f
  /\ log' = Append(log, [frame |-> f, image |-> step(Image, f)])
  /\ net' = net \cup {f}
  /\ UNCHANGED <<state>>

Submit ==
  /\ log = <<>>
  /\ Folds([kind |-> "submit", generation |-> current])
  /\ UNCHANGED <<current, decided>>

SendCancel(g) ==
  /\ log # <<>>
  /\ net' = net \cup {[kind |-> "cancel", generation |-> g]}
  /\ UNCHANGED <<state, log, current, decided>>

\* The authority takes a cancel and answers it with a rejected receipt; that
\* the cancel reached it before it decided is all that is asked.
TakeCancel ==
  /\ decided = "none"
  /\ \E f \in net : f.kind = "cancel" /\ f.generation = current /\ Folds(f)
  /\ decided' = "rejected"
  /\ UNCHANGED current

Progress(event) ==
  /\ log # <<>> /\ decided = "none"
  /\ Folds([kind |-> "progress", generation |-> current, event |-> event])
  /\ UNCHANGED <<current, decided>>

ReceiptOf(outcome) == [kind |-> "receipt", generation |-> current, outcome |-> outcome]

\* The receipt of a cancel's decision may come from a later controller.
Report(outcome) ==
  /\ log # <<>>
  /\ \/ outcome \in {"observed", "accepted"} /\ decided = "none" /\ UNCHANGED decided
     \/ outcome \in {"applied", "rejected"} /\ decided \in {"none", outcome}
        /\ decided' = outcome
  /\ Folds(ReceiptOf(outcome))
  /\ UNCHANGED current

\* The next controller takes the command over with its state and generation.
Handoff ==
  /\ log # <<>> /\ Len(log) < MaxLog /\ current < MaxGen
  /\ current' = current + 1
  /\ log' = Append(log, [frame |-> [kind |-> "handoff", generation |-> current + 1],
                         image |-> [Image EXCEPT !.generation = current + 1]])
  /\ UNCHANGED <<state, net, decided>>

Next ==
  \/ \E f \in Input : Deliver(f)
  \/ \E i \in DOMAIN log : Reconnect(i)
  \/ Submit
  \/ \E g \in 1 .. current : SendCancel(g)
  \/ TakeCancel
  \/ \E event \in EventKind : Progress(event)
  \/ \E outcome \in ReceiptOutcome : Report(outcome)
  \/ Handoff

Spec == Init /\ [][Next]_vars

\* A client that stays connected is given the projection again some time after
\* the authority's last change.
ReconnectsToLatest == log # <<>> /\ Reconnect(Len(log))

FairSpec == Spec /\ WF_vars(ReconnectsToLatest)
-----------------------------------------------------------------------------
(* Properties *)

\* An observer at the authority's generation reports applied or rejected only
\* when the authority decided so, whatever deposed controllers publish: the
\* generation guard of progress, receipt and cancel.
ResolvedTruly ==
  state.generation = current /\ state.status \in {"applied", "rejected"}
    => decided = state.status

\* At the authority's generation a command shows as cancelled or conflicted only
\* if a cancel was sent: repeated receipts of one decision never conflict.
ConflictNeedsCancel ==
  state.generation = current /\ state.status \in {"cancelled", "conflicted"}
    => \E f \in net : f.kind = "cancel"

\* Only a reconnect takes a terminal result back or moves the command to another
\* generation: no late submit, progress event, receipt or cancel does (step).
OnlyReconnectReplaces ==
  \/ callResolved(state) /\ ~callResolved(state')
  \/ state.status = "applied" /\ state'.status \notin {"applied", "conflicted"}
  \/ state.status # "absent" /\ state'.generation # state.generation
  => \E i \in DOMAIN log : state' = log[i].image

ResultKept == [][OnlyReconnectReplaces]_vars

\* Once the authority's own projection is terminal, a call on a client that
\* reconnects resolves, also across handoffs (resync).
CallEventuallyResolves == callResolved(Image) ~> callResolved(state)

\* conformance/message-passing/cancel_preempts_nonterminal.json: a cancel that
\* preempts the command is confirmed by a rejected receipt, and the command is
\* then cancelled; only an applied receipt beside it would be a conflict.
ConfirmedCancelIsNoConflict ==
  [][state.status = "cancelled" /\ state'.status = "conflicted"
       => \E f \in net : f.kind = "receipt" /\ f.outcome = "applied"]_vars
=============================================================================
