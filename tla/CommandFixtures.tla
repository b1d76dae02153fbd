-------------------------- MODULE CommandFixtures ---------------------------
(***************************************************************************)
(* The recorded scenarios of conformance/message-passing, as their         *)
(* generator writes them: the frames an observer folds and what it must    *)
(* show after them.  Every scenario is about one command (the reconnect    *)
(* carries an image of two, which do not affect each other).               *)
(***************************************************************************)
EXTENDS CommandPlane

ASSUME TwoGenerations == MaxGen >= 2

\* Only whether two generations are equal matters: 41 and 42 (or 43).
Older == 1
Current == 2

-----------------------------------------------------------------------------
(* Frames: the reducer's inputs carried by one frame *)

submitFrame == <<[kind |-> "submit", generation |-> Current]>>

eventsFrame(g, kinds) ==
  [i \in DOMAIN kinds |-> [kind |-> "progress", generation |-> g, event |-> kinds[i]]]

receiptsFrame(g, outcome) == <<[kind |-> "receipt", generation |-> g, outcome |-> outcome]>>

cancelFrame == <<[kind |-> "cancel", generation |-> Current]>>

\* The event that announces a cancel is no input of the reducer.
cancelledEventFrame == << >>

\* One entry of an expected or carried projection.
entry(status, g) == [generation |-> g, status |-> status]

\* What the observer shows after the first n frames.
After(sc, n) ==
  LET image[i \in 0 .. n] ==
        IF i = 0 THEN sc.from ELSE fold(image[i - 1], sc.frames[i])
  IN  image[n]

-----------------------------------------------------------------------------
(* Scenarios: the observer's image, the frames, the entries expected after  *)
(* the frames of some numbers, the numbers of the frames that are ignored,  *)
(* and of those after which a call is still waiting                         *)

scenario(frames, expect, ignored, waiting) ==
  [from |-> state, frames |-> frames, expect |-> expect,
   ignored |-> ignored, waiting |-> waiting]

progressEvents == eventsFrame(Current, <<"observed", "accepted", "started">>)
applied == receiptsFrame(Current, "applied")

editor_route_submit ==
  scenario(<<submitFrame>>, {<<1, entry("submitted", Current)>>}, {}, {1})

\* The payload is a shared blob, which the reducer does not look at.
sync_tmux_layout_submit ==
  scenario(<<submitFrame>>, {<<1, entry("submitted", Current)>>}, {}, {1})

accepted_then_applied_receipt ==
  scenario(<<submitFrame, progressEvents, applied>>,
           {<<3, entry("applied", Current)>>}, {}, {1, 2})

stale_generation_ignored ==
  scenario(<<submitFrame, eventsFrame(Older, <<"started">>), receiptsFrame(Older, "applied")>>,
           {<<3, entry("submitted", Current)>>}, {2, 3}, {3})

terminal_conflict_fail_closed ==
  scenario(<<submitFrame, applied, receiptsFrame(Current, "rejected")>>,
           {<<2, entry("applied", Current)>>, <<3, entry("conflicted", Current)>>}, {}, {})

cancel_before_terminal ==
  scenario(<<submitFrame, eventsFrame(Current, <<"accepted">>), cancelFrame,
             cancelledEventFrame, receiptsFrame(Current, "rejected")>>,
           {<<5, entry("cancelled", Current)>>}, {}, {})

cancel_after_applied_ignored ==
  scenario(<<submitFrame, applied, cancelFrame>>, {<<3, entry("applied", Current)>>}, {3}, {})

\* Each command of the image, folded directly.
reconnect_command_projection ==
  { [from |-> resync(state, entry(status, Current)), frames |-> << >>,
     expect |-> {<<0, entry(status, Current)>>}, ignored |-> {}, waiting |-> {}]
      : status \in {"applied", "running"} }

rpc_call_waits_for_terminal ==
  scenario(<<submitFrame, progressEvents, applied>>,
           {<<3, entry("applied", Current)>>}, {}, {1, 2})

Recorded ==
  {editor_route_submit, sync_tmux_layout_submit, accepted_then_applied_receipt,
   stale_generation_ignored, terminal_conflict_fail_closed, cancel_before_terminal,
   cancel_after_applied_ignored, rpc_call_waits_for_terminal} \cup reconnect_command_projection

-----------------------------------------------------------------------------
(* Properties *)

Shows(sc) ==
  /\ \A e \in sc.expect : After(sc, e[1]) = e[2]
  /\ \A n \in sc.ignored : After(sc, n) = After(sc, n - 1)
  /\ \A n \in sc.waiting : ~callResolved(After(sc, n))

\* Frames of the scenario delivered once more, after its last one, leave a
\* terminal result as it is.
Settled(sc) ==
  LET end == After(sc, Len(sc.frames))
  IN callResolved(end) =>
       \A i \in DOMAIN sc.frames : fold(end, sc.frames[i]) = end

\* For an observer that does not hold the command, every recorded scenario comes
\* out of the reducer as recorded, frame by frame, and its terminal result
\* survives a second delivery of any of its frames (step, resync).  The confirmed
\* cancel is left out: it comes out conflicted (see ConfirmedCancelIsNoConflict).
ScenariosReplay ==
  state.status = "absent" =>
    \A sc \in Recorded \ {cancel_before_terminal} : Shows(sc) /\ Settled(sc)
=============================================================================
