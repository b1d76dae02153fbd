-------------------------- MODULE DeclaredClosure ---------------------------
(***************************************************************************)
(* What the surface builder of scripts/wire_codegen.py promises: it ends   *)
(* with a surface in which every name that some declaration mentions is    *)
(* declared and nothing else is, or it refuses the schema.                 *)
(***************************************************************************)
CONSTANT Name

VARIABLES
  mentioned,  \* the names the surface asks for so far
  declared,   \* the names it has taken up
  verdict     \* "open", "built" or "refused"

vars == <<mentioned, declared, verdict>>

Init == mentioned \subseteq Name /\ declared = {} /\ verdict = "open"

Mention ==
  /\ verdict = "open"
  /\ mentioned' \in SUBSET Name
  /\ mentioned \subseteq mentioned'
  /\ UNCHANGED <<declared, verdict>>

Declare(name) ==
  /\ verdict = "open"
  /\ name \in mentioned
  /\ declared' = declared \cup {name}
  /\ UNCHANGED <<mentioned, verdict>>

\* A name can be mentioned and declared on the spot.
Introduce(name) ==
  /\ verdict = "open"
  /\ mentioned' = mentioned \cup {name}
  /\ declared' = declared \cup {name}
  /\ UNCHANGED verdict

Accept ==
  /\ verdict = "open"
  /\ mentioned \subseteq declared
  /\ verdict' = "built"
  /\ UNCHANGED <<mentioned, declared>>

Refuse ==
  /\ verdict = "open"
  /\ verdict' = "refused"
  /\ UNCHANGED <<mentioned, declared>>

Next ==
  \/ Mention
  \/ \E name \in Name : Declare(name) \/ Introduce(name)
  \/ Accept
  \/ Refuse

Spec == Init /\ [][Next]_vars
=============================================================================
