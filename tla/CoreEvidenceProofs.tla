------------------------ MODULE CoreEvidenceProofs -------------------------
(***************************************************************************)
(* Theorems about CoreEvidence, for every number of bindings, files,       *)
(* claims and surviving processes.  NothingInherited speaks of the end of  *)
(* a run; what carries it there is that from the first marker on a fresh   *)
(* file is new, and that from the freshness check on every file of the     *)
(* binding under way is new, but the proof now being made.                 *)
(* NotVacuous counts what the run has accepted of each binding behind it;  *)
(* RetainedIsAccepted follows because a command only touches the files of  *)
(* its own binding, or of its own claim.                                   *)
(***************************************************************************)
EXTENDS CoreEvidence, TLAPS

New == {"run", "late"}

AcceptedNew == options.generate => \A a \in accepted : a.origin \in New

FreshNew ==
  options.generate /\ pc \notin {"exit0", "exit1", "next"} =>
    \A b \in Positions, s \in Slot :
      store[b][s] # None /\ store[b][s].fresh => store[b][s].origin \in New

CheckedNew ==
  options.generate /\ pc \in {"reported", "evidence", "claims", "proving"} =>
    \A s \in Slots(at) :
      store[at][s] # None /\ ~(pc = "proving" /\ s = ProofFile) =>
        store[at][s].origin \in New

Inv == TypeOK /\ AcceptedNew /\ FreshNew /\ CheckedNew

-----------------------------------------------------------------------------
(* Where the commands write *)

LEMMA SlotsAreSlots ==
  ASSUME NEW b \in Positions PROVE Slots(b) \subseteq Slot
BY DEF Slot

LEMMA RolesAreRoles ==
  ASSUME NEW b \in Positions
  PROVE  /\ report \in Role /\ block \in Role
         /\ \A i \in 1 .. Claims[b] : proof(i) \in Role
BY DEF Role, Roles

\* The evidence files a report names lie beneath the directory of its binding.
LEMMA NamedFiles ==
  ASSUME TypeOK, NEW b \in Positions
  PROVE  /\ layout[b].block \in Slots(b)
         /\ \A i \in 1 .. Claims[b] : layout[b].proofs[i] \in Slots(b)
<1>1. layout[b] \in Layout(b)
  BY DEF TypeOK
<1> QED
  BY <1>1, ConstantsAssumption DEF Layout, Slots

LEMMA OutputsInDirectory ==
  ASSUME TypeOK, Spawned
  PROVE  at \in Positions /\ Outputs \subseteq Slots(at)
<1>1. at \in Positions
  BY DEF TypeOK, Spawned
<1>2. CASE pc = "reporting"
  BY <1>1, <1>2 DEF Outputs
<1>3. CASE pc = "proving"
  <2>1. claim \in 1 .. Claims[at]
    BY <1>1, <1>3, ConstantsAssumption DEF TypeOK
  <2>2. ProofFile \in Slots(at)
    BY <1>1, <2>1, NamedFiles DEF ProofFile
  <2> QED
    BY <1>1, <1>3, <2>2 DEF Outputs
<1> QED
  BY <1>2, <1>3 DEF Spawned

-----------------------------------------------------------------------------
(* Type correctness *)

LEMMA TypeInit == Init => TypeOK
<1> SUFFICES ASSUME Init PROVE TypeOK
  OBVIOUS
<1>1. store \in [Positions -> [Slot -> File \cup {None}]]
  BY DEF Init
<1>2. at \in 1 .. Bindings + 1
  BY ConstantsAssumption DEF Init
<1> QED
  BY <1>1, <1>2 DEF Init, TypeOK, Stage

Typed(st) == st \in [Positions -> [Slot -> File \cup {None}]]

LEMMA WriteTyped ==
  ASSUME TypeOK, NEW b \in Positions, NEW s \in Slot, NEW fresh \in BOOLEAN,
         NEW origin \in Origin, write(b, s, fresh, origin)
  PROVE  Typed(store')
<1>1. [fresh |-> fresh, origin |-> origin] \in File \cup {None}
  BY DEF File
<1> QED
  BY <1>1 DEF TypeOK, Typed, write

LEMMA RemoveTyped ==
  ASSUME TypeOK, NEW b \in Positions, NEW slots, remove(b, slots)
  PROVE  Typed(store')
BY DEF TypeOK, Typed, remove

LEMMA MarkerTyped ==
  ASSUME TypeOK, NEW b \in Positions, NEW removed, startGenerationMarker(b, removed)
  PROVE  Typed(store')
<1>1. \A f \in File : [f EXCEPT !.fresh = FALSE] \in File
  BY DEF File
<1> QED
  BY <1>1 DEF TypeOK, Typed, startGenerationMarker

LEMMA AcceptTyped ==
  ASSUME TypeOK, NEW role \in Role, NEW s \in Slot, at \in Positions,
         store[at][s] # None, accept(role, s)
  PROVE  accepted' \subseteq [binding : Positions, role : Role, origin : Origin]
<1>1. store[at][s] \in File
  BY DEF TypeOK
<1>2. store[at][s].origin \in Origin
  BY <1>1 DEF File
<1> QED
  BY <1>2 DEF TypeOK, accept

Children == [at : Positions, outputs : SUBSET Slot, current : BOOLEAN]

LEMMA LeaveTyped ==
  ASSUME TypeOK, Spawned, leave
  PROVE  children' \subseteq Children
<1> DEFINE child == [at |-> at, outputs |-> Outputs, current |-> TRUE]
<1>1. children' \subseteq children \cup {child}
  BY DEF leave
<1>2. child \in Children
  BY OutputsInDirectory, SlotsAreSlots DEF Children
<1> HIDE DEF child
<1> QED
  BY <1>1, <1>2 DEF TypeOK, Children

LEMMA SkipTyped ==
  ASSUME TypeOK, skip, at \in Positions
  PROVE  at' \in 1 .. Bindings + 1 /\ skipped' \subseteq Positions /\ skipped' \subseteq 1 .. at' - 1
<1>1. at \in Int /\ 1 <= at /\ at <= Bindings /\ at' = at + 1 /\ Bindings \in Nat
  BY ConstantsAssumption DEF skip, Positions
<1>2. skipped \subseteq 1 .. at - 1
  BY DEF TypeOK
<1> QED
  BY <1>1, <1>2 DEF skip, Positions

LEMMA TypeNext == TypeOK /\ [Next]_vars => TypeOK'
<1> SUFFICES ASSUME TypeOK, [Next]_vars PROVE TypeOK'
  OBVIOUS
<1> USE ConstantsAssumption
<1>1. ASSUME NEW generate \in BOOLEAN, NEW requireAll \in BOOLEAN, Begin(generate, requireAll)
      PROVE  TypeOK'
  <2> DEFINE past(f) == IF f = None \/ f.origin = "restored" THEN f
                        ELSE [f EXCEPT !.origin = "earlier"]
  <2>1. \A f \in File \cup {None} : past(f) \in File \cup {None}
    BY DEF File, Origin
  <2>2. store' = [b \in Positions |-> [s \in Slot |-> past(store[b][s])]]
    BY <1>1 DEF Begin
  <2> HIDE DEF past
  <2>3. Typed(store')
    BY <2>1, <2>2 DEF TypeOK, Typed
  <2>4. children' \subseteq Children
    <3>1. \A c \in children : [c EXCEPT !.current = FALSE] \in Children
      BY DEF TypeOK, Children
    <3> QED
      BY <1>1, <3>1 DEF Begin
  <2> QED
    BY <1>1, <2>3, <2>4 DEF Begin, TypeOK, Typed, Children, config, Stage
<1>2. CASE SkipUndeclared
  <2>1. at \in Positions
    BY <1>2 DEF SkipUndeclared, TypeOK, Positions
  <2> QED
    BY <1>2, <2>1, SkipTyped DEF SkipUndeclared, skip, TypeOK, config, Stage
<1>3. CASE RefuseDeclaration
  BY <1>3 DEF RefuseDeclaration, failRun, TypeOK, config, Stage
<1>4. CASE generateBindingReport
  <2>1. at \in Positions
    BY <1>4 DEF generateBindingReport, TypeOK
  <2>2. Typed(store')
    BY <1>4, <2>1, MarkerTyped DEF generateBindingReport
  <2> QED
    BY <1>4, <2>2 DEF generateBindingReport, TypeOK, Typed, config, Stage
<1>5. CASE FailCommand
  BY <1>5, LeaveTyped DEF FailCommand, failRun, TypeOK, Children, config, Stage
<1>6. CASE FinishReport
  <2>1. Spawned /\ at \in Positions
    BY <1>6, OutputsInDirectory DEF FinishReport, Spawned
  <2>2. Typed(store')
    BY <1>6, <2>1, RemoveTyped DEF FinishReport
  <2> QED
    BY <1>6, <2>1, <2>2, LeaveTyped DEF FinishReport, TypeOK, Children, Typed, config, Stage
<1>7. CASE TakeReport
  BY <1>7 DEF TakeReport, TypeOK, config, Stage
<1>8. CASE readReport
  <2>1. at \in Positions
    BY <1>8 DEF readReport, TypeOK
  <2>2. CASE store[at]["report"] = None
    BY <1>8, <2>1, <2>2, SkipTyped DEF readReport, skip, TypeOK, config, Stage
  <2>3. CASE store[at]["report"] # None
    <3>1. accepted' \subseteq [binding : Positions, role : Role, origin : Origin]
      BY <1>8, <2>1, <2>3, AcceptTyped, RolesAreRoles, SlotsAreSlots DEF readReport, Slots
    <3> QED
      BY <1>8, <2>3, <3>1 DEF readReport, TypeOK, config, Stage
  <2> QED
    BY <2>2, <2>3
<1>9. CASE RefuseReport
  BY <1>9 DEF RefuseReport, failRun, TypeOK, config, Stage
<1>10. CASE validateAssertionEvidence
  <2>1. at \in Positions
    BY <1>10 DEF validateAssertionEvidence, TypeOK
  <2>2. CASE store[at][layout[at].block] = None
    BY <1>10, <2>2 DEF validateAssertionEvidence, failRun, TypeOK, config, Stage
  <2>3. CASE store[at][layout[at].block] # None
    <3>1. accepted' \subseteq [binding : Positions, role : Role, origin : Origin]
      BY <1>10, <2>1, <2>3, AcceptTyped, RolesAreRoles, SlotsAreSlots, NamedFiles
         DEF validateAssertionEvidence
    <3>2. claim' \in 1 .. Claims[at] + 1 /\ pc' = "claims" /\ at' = at
      BY <1>10, <2>1, <2>3 DEF validateAssertionEvidence
    <3> QED
      BY <1>10, <2>3, <3>1, <3>2 DEF validateAssertionEvidence, TypeOK, config, Stage
  <2> QED
    BY <2>2, <2>3
<1>11. CASE executeFixturelessProof
  <2>1. at \in Positions
    BY <1>11 DEF executeFixturelessProof, TypeOK
  <2>2. Typed(store')
    BY <1>11, <2>1, MarkerTyped DEF executeFixturelessProof
  <2> QED
    BY <1>11, <2>1, <2>2 DEF executeFixturelessProof, TypeOK, Typed, config, Stage
<1>12. CASE FinishProof
  <2>1. Spawned /\ at \in Positions
    BY <1>12, OutputsInDirectory DEF FinishProof, Spawned
  <2>2. claim \in 1 .. Claims[at] /\ Claims[at] \in Nat
    BY <1>12, <2>1 DEF FinishProof, TypeOK
  <2>3. Typed(store')
    BY <1>12, <2>1, RemoveTyped DEF FinishProof
  <2>4. CASE failRun
    BY <1>12, <2>1, <2>3, <2>4, LeaveTyped DEF FinishProof, failRun, TypeOK, Children, Typed, config, Stage
  <2>5. CASE /\ store[at][ProofFile] /= None
             /\ accept(proof(claim), ProofFile)
             /\ pc' = "claims" /\ claim' = claim + 1
             /\ UNCHANGED <<at, skipped>>
    <3>1. accepted' \subseteq [binding : Positions, role : Role, origin : Origin]
      BY <2>1, <2>2, <2>5, AcceptTyped, RolesAreRoles, SlotsAreSlots, NamedFiles DEF ProofFile
    <3>2. claim' \in 1 .. Claims[at] + 1
      BY <2>2, <2>5
    <3> QED
      BY <1>12, <2>1, <2>3, <2>5, <3>1, <3>2, LeaveTyped
         DEF FinishProof, TypeOK, Typed, Children, config, Stage
  <2> QED
    BY <1>12, <2>4, <2>5 DEF FinishProof
<1>13. CASE AcceptBinding
  <2>1. at \in Positions
    BY <1>13 DEF AcceptBinding, TypeOK
  <2> QED
    BY <1>13, <2>1 DEF AcceptBinding, TypeOK, config, Stage, Positions
<1>14. CASE Finish
  BY <1>14 DEF Finish, TypeOK, config, Stage
<1>15. CASE WriteOutput
  <2>1. PICK s \in Outputs : write(at, s, TRUE, "run") \/ write(at, s, FALSE, "restored")
    BY <1>15 DEF WriteOutput
  <2>2. at \in Positions /\ s \in Slot
    BY <1>15, <2>1, OutputsInDirectory, SlotsAreSlots DEF WriteOutput
  <2>3. Typed(store')
    BY <2>1, <2>2, WriteTyped DEF Origin
  <2> QED
    BY <1>15, <2>3 DEF WriteOutput, TypeOK, Typed, config, Stage
<1>16. CASE LateWrite
  <2>1. PICK c \in children : \E s \in c.outputs :
          write(c.at, s, TRUE, IF c.current THEN "run" ELSE "late")
    BY <1>16 DEF LateWrite
  <2>2. PICK s \in c.outputs : write(c.at, s, TRUE, IF c.current THEN "run" ELSE "late")
    BY <2>1
  <2>3. c.at \in Positions /\ s \in Slot
    BY <2>2, SlotsAreSlots DEF TypeOK
  <2>4. Typed(store')
    BY <2>2, <2>3, WriteTyped DEF Origin
  <2> QED
    BY <1>16, <2>4 DEF LateWrite, TypeOK, Typed, config, Stage
<1>17. CASE UNCHANGED vars
  BY <1>17 DEF vars, config, TypeOK, Stage
<1> QED
  BY <1>1, <1>2, <1>3, <1>4, <1>5, <1>6, <1>7, <1>8, <1>9, <1>10, <1>11,
     <1>12, <1>13, <1>14, <1>15, <1>16, <1>17 DEF Next

(* Every state keeps its type: among others, the run stands at a declared  *)
(* binding whenever it works on one, at a claim the binding has whenever   *)
(* it proves one, and has skipped only bindings it has passed.             *)
THEOREM TypeCorrect == Spec => []TypeOK
BY TypeInit, TypeNext, PTL DEF Spec

-----------------------------------------------------------------------------
(* Nothing inherited *)

LEMMA RemoveEffect ==
  ASSUME TypeOK, NEW b \in Positions, NEW slots, remove(b, slots),
         NEW c \in Positions, NEW t \in Slot
  PROVE  store'[c][t] = IF c = b /\ t \in slots THEN None ELSE store[c][t]
BY DEF TypeOK, remove

\* Behind a marker no file is fresh, and what remains comes from where it came.
LEMMA MarkerEffect ==
  ASSUME TypeOK, NEW b \in Positions, NEW removed, startGenerationMarker(b, removed),
         NEW c \in Positions, NEW t \in Slot, store'[c][t] # None
  PROVE  /\ ~store'[c][t].fresh
         /\ store[c][t] # None /\ store'[c][t].origin = store[c][t].origin
<1>1. store'[c][t] = IF c = b /\ t \in removed THEN None
                     ELSE IF store[c][t] = None THEN None
                     ELSE [store[c][t] EXCEPT !.fresh = FALSE]
  BY DEF startGenerationMarker
<1>2. store[c][t] \in File
  BY <1>1 DEF TypeOK
<1> QED
  BY <1>1, <1>2 DEF File

LEMMA AcceptedNewNext == Inv /\ [Next]_vars => AcceptedNew'
<1> SUFFICES ASSUME Inv, [Next]_vars, options'.generate PROVE \A a \in accepted' : a.origin \in New
  BY DEF AcceptedNew
<1> USE DEF Inv, AcceptedNew
<1>1. ASSUME NEW role, NEW s \in Slot, accept(role, s), at \in Positions,
             options' = options, store[at][s].origin \in New
      PROVE  \A a \in accepted' : a.origin \in New
  BY <1>1 DEF accept
<1>2. CASE \E generate, requireAll \in BOOLEAN : Begin(generate, requireAll)
  BY <1>2 DEF Begin
<1>3. CASE readReport /\ store[at]["report"] # None
  <2>1. at \in Positions /\ "report" \in Slots(at) /\ "report" \in Slot
    BY <1>3, SlotsAreSlots DEF readReport, TypeOK, Slots
  <2>2. store[at]["report"].origin \in New
    BY <1>3, <2>1 DEF readReport, CheckedNew
  <2> QED
    BY <1>1, <1>3, <2>1, <2>2 DEF readReport
<1>4. CASE validateAssertionEvidence /\ store[at][layout[at].block] # None
  <2>1. at \in Positions
    BY <1>4 DEF validateAssertionEvidence, TypeOK
  <2>2. layout[at].block \in Slots(at) /\ layout[at].block \in Slot
    BY <2>1, NamedFiles, SlotsAreSlots
  <2>3. store[at][layout[at].block].origin \in New
    BY <1>4, <2>2 DEF validateAssertionEvidence, CheckedNew
  <2> QED
    BY <1>1, <1>4, <2>1, <2>2, <2>3 DEF validateAssertionEvidence
<1>5. CASE FinishProof /\ accept(proof(claim), ProofFile)
           /\ store[at][ProofFile] # None /\ Stale(at, {ProofFile}) = {}
  <2>1. at \in Positions /\ ProofFile \in Slot
    BY <1>5, OutputsInDirectory, SlotsAreSlots DEF FinishProof, Spawned, Outputs
  <2>2. store[at][ProofFile].fresh
    BY <1>5 DEF Stale
  <2>3. store[at][ProofFile].origin \in New
    BY <1>5, <2>1, <2>2 DEF FinishProof, FreshNew
  <2> QED
    BY <1>1, <1>5, <2>1, <2>3 DEF FinishProof
<1>6. CASE accepted' = accepted /\ options' = options
  BY <1>6
<1> QED
  BY <1>2, <1>3, <1>4, <1>5, <1>6
     DEF Next, SkipUndeclared, RefuseDeclaration, generateBindingReport, FailCommand,
         FinishReport, TakeReport, readReport, RefuseReport, validateAssertionEvidence,
         executeFixturelessProof, FinishProof, AcceptBinding, Finish, WriteOutput,
         LateWrite, failRun, vars

\* What a step may do to the store, and the stages it may lead to.
LEMMA StoreSteps ==
  ASSUME Inv, [Next]_vars, options'.generate,
         pc' \notin {"exit0", "exit1", "next"}
  PROVE  /\ options' = options /\ at' = at /\ at \in Positions /\ layout' = layout
         /\ \/ generateBindingReport \/ executeFixturelessProof
            \/ FinishReport /\ pc' = "reported"
            \/ FinishProof /\ pc' = "claims"
            \/ WriteOutput \/ LateWrite
            \/ /\ UNCHANGED store
               /\ pc \notin {"exit0", "exit1", "next"}
               /\ pc' \in {"evidence", "claims"} => pc \in {"reported", "evidence", "claims"}
               /\ pc' \in {"reporting", "reported"} => pc = pc'
               /\ pc' = "proving" => pc = "proving" /\ claim' = claim
<1>1. TypeOK
  BY DEF Inv
<1>2. TypeOK'
  BY <1>1, TypeNext
<1>3. at' \in Positions
  BY <1>2 DEF TypeOK
<1> QED
  BY <1>1, <1>3
     DEF Next, Begin, SkipUndeclared, RefuseDeclaration, generateBindingReport, FailCommand,
         FinishReport, TakeReport, readReport, RefuseReport, validateAssertionEvidence,
         executeFixturelessProof, FinishProof, AcceptBinding, Finish, WriteOutput,
         LateWrite, failRun, skip, vars, config

LEMMA FreshNewNext == Inv /\ [Next]_vars => FreshNew'
<1> SUFFICES ASSUME Inv, [Next]_vars, options'.generate,
                    pc' \notin {"exit0", "exit1", "next"},
                    NEW b \in Positions, NEW s \in Slot,
                    store'[b][s] # None, store'[b][s].fresh
             PROVE  store'[b][s].origin \in New
  BY DEF FreshNew
<1>1. TypeOK /\ options.generate
  BY StoreSteps DEF Inv
<1>2. ASSUME pc \notin {"exit0", "exit1", "next"}, store'[b][s] = store[b][s]
      PROVE  store'[b][s].origin \in New
  BY <1>1, <1>2 DEF Inv, FreshNew
<1>3. CASE generateBindingReport \/ executeFixturelessProof
  BY <1>1, <1>3, StoreSteps, MarkerEffect DEF generateBindingReport, executeFixturelessProof
<1>4. CASE FinishReport \/ FinishProof
  <2>1. at \in Positions /\ \E slots : remove(at, slots)
    BY <1>4, StoreSteps DEF FinishReport, FinishProof
  <2>2. store'[b][s] = store[b][s]
    BY <1>1, <2>1, RemoveEffect
  <2> QED
    BY <1>2, <1>4, <2>2 DEF FinishReport, FinishProof
<1>5. CASE WriteOutput
  <2>1. PICK t \in Outputs : write(at, t, TRUE, "run") \/ write(at, t, FALSE, "restored")
    BY <1>5 DEF WriteOutput
  <2>2. at \in Positions /\ t \in Slot
    BY <1>1, <1>5, <2>1, OutputsInDirectory, SlotsAreSlots DEF WriteOutput
  <2>3. \/ store'[b][s] = store[b][s]
        \/ store'[b][s] = [fresh |-> TRUE, origin |-> "run"]
        \/ store'[b][s] = [fresh |-> FALSE, origin |-> "restored"]
    <3>1. CASE write(at, t, TRUE, "run")
      BY <1>1, <2>2, <3>1 DEF TypeOK, write
    <3>2. CASE write(at, t, FALSE, "restored")
      BY <1>1, <2>2, <3>2 DEF TypeOK, write
    <3> QED
      BY <2>1, <3>1, <3>2
  <2> QED
    BY <1>2, <1>5, <2>3 DEF WriteOutput, Spawned, New
<1>6. CASE LateWrite
  <2>1. PICK c \in children : \E t \in c.outputs :
          write(c.at, t, TRUE, IF c.current THEN "run" ELSE "late")
    BY <1>6 DEF LateWrite
  <2>2. PICK t \in c.outputs : write(c.at, t, TRUE, IF c.current THEN "run" ELSE "late")
    BY <2>1
  <2>3. c.at \in Positions /\ t \in Slot
    BY <1>1, <2>2 DEF TypeOK
  <2>4. \/ store'[b][s] = store[b][s]
        \/ store'[b][s] = [fresh |-> TRUE, origin |-> IF c.current THEN "run" ELSE "late"]
    BY <1>1, <2>2, <2>3 DEF TypeOK, write
  <2> QED
    BY <1>2, <1>6, <2>4 DEF LateWrite, New
<1>7. CASE UNCHANGED store /\ pc \notin {"exit0", "exit1", "next"}
  BY <1>2, <1>7
<1> QED
  BY <1>3, <1>4, <1>5, <1>6, <1>7, StoreSteps

LEMMA CheckedNewNext == Inv /\ [Next]_vars => CheckedNew'
<1> SUFFICES ASSUME Inv, [Next]_vars, options'.generate,
                    pc' \in {"reported", "evidence", "claims", "proving"},
                    NEW s \in Slots(at'),
                    store'[at'][s] # None, ~(pc' = "proving" /\ s = ProofFile')
             PROVE  store'[at'][s].origin \in New
  BY DEF CheckedNew
<1>1. TypeOK /\ options.generate
  BY StoreSteps DEF Inv
<1>2. at' = at /\ at \in Positions /\ layout' = layout /\ s \in Slots(at) /\ s \in Slot
  BY StoreSteps, SlotsAreSlots
\* A file that was new stays so.
<1>3. ASSUME pc \in {"reported", "evidence", "claims", "proving"},
             ~(pc = "proving" /\ s = ProofFile),
             store'[at][s] # None,
             store[at][s] # None, store'[at][s].origin = store[at][s].origin
      PROVE  store'[at'][s].origin \in New
  BY <1>1, <1>2, <1>3 DEF Inv, CheckedNew
<1>4. CASE generateBindingReport
  BY <1>4 DEF generateBindingReport
<1>5. CASE executeFixturelessProof
  BY <1>1, <1>2, <1>3, <1>5, MarkerEffect DEF executeFixturelessProof
<1>6. CASE FinishReport /\ pc' = "reported"
  <2>1. Stale(at, Slots(at)) = {} /\ store'[at][s] = store[at][s]
    <3>1. Stale(at, Slots(at)) = {} /\ remove(at, {})
      BY <1>6 DEF FinishReport
    <3> QED
      BY <1>1, <1>2, <3>1, RemoveEffect
  <2>2. store[at][s].fresh
    BY <1>2, <2>1 DEF Stale
  <2> QED
    BY <1>1, <1>2, <1>6, <2>1, <2>2 DEF FinishReport, Inv, FreshNew
<1>7. CASE FinishProof /\ pc' = "claims"
  <2>1. Stale(at, {ProofFile}) = {} /\ store'[at][s] = store[at][s]
    <3>1. Stale(at, {ProofFile}) = {} /\ remove(at, {})
      BY <1>7 DEF FinishProof, failRun
    <3> QED
      BY <1>1, <1>2, <3>1, RemoveEffect
  <2>2. CASE s = ProofFile
    <3>1. store[at][s].fresh
      BY <1>2, <2>1, <2>2 DEF Stale
    <3> QED
      BY <1>1, <1>2, <1>7, <2>1, <3>1 DEF FinishProof, Inv, FreshNew
  <2>3. CASE s # ProofFile
    BY <1>2, <1>3, <1>7, <2>1, <2>3 DEF FinishProof
  <2> QED
    BY <2>2, <2>3
<1>8. CASE WriteOutput
  <2>1. pc = "proving" /\ UNCHANGED <<pc, claim>>
    BY <1>8 DEF WriteOutput, Spawned
  <2>2. ProofFile' = ProofFile
    BY <1>2, <2>1 DEF ProofFile
  <2>3. PICK t \in Outputs : write(at, t, TRUE, "run") \/ write(at, t, FALSE, "restored")
    BY <1>8 DEF WriteOutput
  <2>4. t = ProofFile /\ t \in Slot
    BY <1>1, <1>8, <2>1, <2>3, OutputsInDirectory, SlotsAreSlots DEF Outputs, WriteOutput
  <2>5. store'[at][s] = store[at][s]
    BY <1>1, <1>2, <2>1, <2>2, <2>3, <2>4 DEF TypeOK, write
  <2> QED
    BY <1>2, <1>3, <2>1, <2>2, <2>5
<1>9. CASE LateWrite
  <2>1. PICK c \in children : \E t \in c.outputs :
          write(c.at, t, TRUE, IF c.current THEN "run" ELSE "late")
    BY <1>9 DEF LateWrite
  <2>2. PICK t \in c.outputs : write(c.at, t, TRUE, IF c.current THEN "run" ELSE "late")
    BY <2>1
  <2>3. c.at \in Positions /\ t \in Slot
    BY <1>1, <2>2 DEF TypeOK
  <2>4. \/ store'[at][s] = store[at][s]
        \/ store'[at][s] = [fresh |-> TRUE, origin |-> IF c.current THEN "run" ELSE "late"]
    BY <1>1, <1>2, <2>2, <2>3 DEF TypeOK, write
  <2>5. UNCHANGED <<pc, claim>> /\ ProofFile' = ProofFile
    BY <1>2, <1>9 DEF LateWrite, ProofFile
  <2> QED
    BY <1>2, <1>3, <2>4, <2>5 DEF New
<1>10. CASE /\ UNCHANGED store
            /\ pc' \in {"evidence", "claims"} => pc \in {"reported", "evidence", "claims"}
            /\ pc' \in {"reporting", "reported"} => pc = pc'
            /\ pc' = "proving" => pc = "proving" /\ claim' = claim
  <2>1. pc' = "proving" => ProofFile' = ProofFile
    BY <1>2, <1>10 DEF ProofFile
  <2> QED
    BY <1>2, <1>3, <1>10, <2>1
<1> QED
  BY <1>4, <1>5, <1>6, <1>7, <1>8, <1>9, <1>10, StoreSteps

(* A run that generates its reports passes on nothing it inherited: the    *)
(* removal before a command and the freshness check after it leave only    *)
(* files written while the run lasted, and nothing older comes back before *)
(* the run reads them.                                                     *)
THEOREM InheritsNothing == Spec => []NothingInherited
<1>1. Init => Inv
  <2> SUFFICES ASSUME Init PROVE AcceptedNew /\ FreshNew /\ CheckedNew
    BY TypeInit DEF Inv
  <2> QED
    BY DEF Init, AcceptedNew, FreshNew, CheckedNew
<1>2. Inv /\ [Next]_vars => Inv'
  BY TypeNext, AcceptedNewNext, FreshNewNext, CheckedNewNext DEF Inv
<1>3. Inv => NothingInherited
  BY DEF Inv, AcceptedNew, NothingInherited, New
<1> QED
  BY <1>1, <1>2, <1>3, PTL DEF Spec

-----------------------------------------------------------------------------
(* Nothing skipped *)

Has(S, b, r) == \E a \in S : a.binding = b /\ a.role = r
Examined(S, b) == \A r \in Roles(b) : Has(S, b, r)

\* How far a run has come: the bindings behind it, and what it has accepted of
\* the one under way.
Progress ==
  /\ pc \notin {"exit0", "exit1"} => \A b \in 1 .. at - 1 : b \in skipped \/ Examined(accepted, b)
  /\ pc \in {"evidence", "claims", "proving"} => Has(accepted, at, report)
  /\ pc \in {"claims", "proving"} =>
       /\ Has(accepted, at, block)
       /\ \A i \in 1 .. claim - 1 : Has(accepted, at, proof(i))
  /\ NotVacuous

\* What was accepted stays accepted while the run lasts.
LEMMA AcceptedGrows ==
  ASSUME NEW S, NEW T, S \subseteq T
  PROVE  /\ \A b, r : Has(S, b, r) => Has(T, b, r)
         /\ \A b : Examined(S, b) => Examined(T, b)
BY DEF Has, Examined

LEMMA AcceptEffect ==
  ASSUME NEW role, NEW s, accept(role, s)
  PROVE  accepted \subseteq accepted' /\ Has(accepted', at, role)
<1> DEFINE new == [binding |-> at, role |-> role, origin |-> store[at][s].origin]
<1>1. accepted' = accepted \cup {new}
  BY DEF accept
<1>2. new.binding = at /\ new.role = role
  OBVIOUS
<1> HIDE DEF new
<1> QED
  BY <1>1, <1>2 DEF Has

\* A run that fails promises nothing, and one that stays where it is keeps what
\* it has.
LEMMA ProgressFrame ==
  ASSUME Progress,
         \/ pc' = "exit1"
         \/ UNCHANGED <<pc, at, claim, skipped, accepted, options>>
         \/ /\ UNCHANGED <<at, claim, skipped, accepted, options>>
            /\ pc \notin {"exit0", "exit1"} /\ pc' \in {"reporting", "reported"}
         \/ UNCHANGED <<at, claim, skipped, accepted, options>> /\ pc = "claims" /\ pc' = "proving"
  PROVE  Progress'
<1>1. CASE pc' = "exit1"
  BY <1>1 DEF Progress, NotVacuous
<1>2. CASE UNCHANGED <<pc, at, claim, skipped, accepted, options>>
  BY <1>2 DEF Progress, NotVacuous
<1>3. CASE /\ UNCHANGED <<at, claim, skipped, accepted, options>>
           /\ pc \notin {"exit0", "exit1"} /\ pc' \in {"reporting", "reported"}
  BY <1>3 DEF Progress, NotVacuous
<1>4. CASE UNCHANGED <<at, claim, skipped, accepted, options>> /\ pc = "claims" /\ pc' = "proving"
  BY <1>4 DEF Progress, NotVacuous
<1> QED
  BY <1>1, <1>2, <1>3, <1>4

LEMMA ProgressNext == TypeOK /\ Progress /\ [Next]_vars => Progress'
<1> SUFFICES ASSUME TypeOK, Progress, [Next]_vars PROVE Progress'
  OBVIOUS
<1>1. at \in 1 .. Bindings + 1 /\ Bindings \in Nat
  BY ConstantsAssumption DEF TypeOK
<1>2. ASSUME skip, UNCHANGED accepted, pc \notin {"exit0", "exit1"} PROVE Progress'
  <2>1. ASSUME NEW b \in 1 .. at' - 1 PROVE b \in skipped' \/ Examined(accepted', b)
    <3>1. b = at \/ b \in 1 .. at - 1
      BY <1>1, <1>2 DEF skip
    <3> QED
      BY <1>2, <3>1 DEF skip, Progress
  <2> QED
    BY <1>2, <2>1 DEF skip, Progress, NotVacuous
<1>3. CASE \E generate, requireAll \in BOOLEAN : Begin(generate, requireAll)
  BY <1>3 DEF Begin, Progress, NotVacuous
<1>4. CASE SkipUndeclared
  BY <1>2, <1>4 DEF SkipUndeclared
<1>5. CASE readReport
  <2>1. CASE skip /\ UNCHANGED accepted
    BY <1>2, <1>5, <2>1 DEF readReport
  <2>2. CASE accept(report, "report") /\ pc' = "evidence" /\ UNCHANGED <<at, claim, skipped>>
    <3>1. accepted \subseteq accepted' /\ Has(accepted', at, report)
      BY <2>2, AcceptEffect
    <3>2. \A b \in 1 .. at - 1 : b \in skipped \/ Examined(accepted', b)
      BY <1>5, <3>1, AcceptedGrows DEF readReport, Progress
    <3> QED
      BY <2>2, <3>1, <3>2 DEF Progress, NotVacuous
  <2> QED
    BY <1>5, <2>1, <2>2 DEF readReport
<1>6. CASE validateAssertionEvidence
  <2>1. CASE failRun
    BY <2>1, ProgressFrame DEF failRun
  <2>2. CASE /\ accept(block, layout[at].block)
             /\ pc' = "claims" /\ claim' = 1 /\ UNCHANGED <<at, skipped>>
    <3>1. accepted \subseteq accepted' /\ Has(accepted', at, block)
      BY <2>2, AcceptEffect
    <3>2. \A b \in 1 .. at - 1 : b \in skipped \/ Examined(accepted', b)
      BY <1>6, <3>1, AcceptedGrows DEF validateAssertionEvidence, Progress
    <3>3. Has(accepted', at, report)
      BY <1>6, <3>1, AcceptedGrows DEF validateAssertionEvidence, Progress
    <3> QED
      BY <2>2, <3>1, <3>2, <3>3 DEF Progress, NotVacuous
  <2> QED
    BY <1>6, <2>1, <2>2 DEF validateAssertionEvidence
<1>7. CASE FinishProof
  <2>1. CASE failRun
    BY <2>1, ProgressFrame DEF failRun
  <2>2. CASE /\ accept(proof(claim), ProofFile)
             /\ pc' = "claims" /\ claim' = claim + 1 /\ UNCHANGED <<at, skipped>>
    <3>1. accepted \subseteq accepted' /\ Has(accepted', at, proof(claim))
      BY <2>2, AcceptEffect
    <3>2. \A b \in 1 .. at - 1 : b \in skipped \/ Examined(accepted', b)
      BY <1>7, <3>1, AcceptedGrows DEF FinishProof, Progress
    <3>3. /\ Has(accepted', at, report) /\ Has(accepted', at, block)
          /\ \A i \in 1 .. claim - 1 : Has(accepted', at, proof(i))
      BY <1>7, <3>1, AcceptedGrows DEF FinishProof, Progress
    <3>4. claim \in Nat
      BY <1>7, ConstantsAssumption DEF FinishProof, TypeOK
    <3>5. ASSUME NEW i \in 1 .. claim' - 1 PROVE Has(accepted', at, proof(i))
      <4>1. i = claim \/ i \in 1 .. claim - 1
        BY <2>2, <3>4
      <4> QED
        BY <3>1, <3>3, <4>1
    <3> QED
      BY <2>2, <3>2, <3>3, <3>5 DEF Progress, NotVacuous
  <2> QED
    BY <1>7, <2>1, <2>2 DEF FinishProof
<1>8. CASE AcceptBinding
  <2>1. claim - 1 = Claims[at] /\ at \in Positions
    BY <1>8, ConstantsAssumption DEF AcceptBinding, TypeOK
  <2>2. Examined(accepted, at)
    BY <1>8, <2>1 DEF AcceptBinding, Progress, Examined, Roles
  <2>3. ASSUME NEW b \in 1 .. at' - 1 PROVE b \in skipped \/ Examined(accepted, b)
    <3>1. b = at \/ b \in 1 .. at - 1
      BY <1>1, <1>8 DEF AcceptBinding
    <3> QED
      BY <1>8, <2>2, <3>1 DEF AcceptBinding, Progress
  <2> QED
    BY <1>8, <2>3 DEF AcceptBinding, Progress, NotVacuous
<1>9. CASE Finish
  <2>1. at - 1 = Bindings
    BY <1>1, <1>9 DEF Finish
  <2>2. pc' = "exit0" /\ options'.requireAll => \A b \in Positions : Examined(accepted, b)
    BY <1>9, <2>1 DEF Finish, Progress, Positions
  <2>3. accepted' = accepted /\ options' = options /\ pc' \in {"exit0", "exit1"}
    BY <1>9 DEF Finish
  <2> QED
    BY <2>2, <2>3 DEF Progress, NotVacuous, Examined, Has
<1>10. CASE \/ RefuseDeclaration \/ generateBindingReport \/ FailCommand \/ FinishReport
            \/ TakeReport \/ RefuseReport \/ executeFixturelessProof
            \/ WriteOutput \/ LateWrite \/ UNCHANGED vars
  BY <1>10, ProgressFrame
     DEF RefuseDeclaration, generateBindingReport, FailCommand, FinishReport, TakeReport,
         RefuseReport, executeFixturelessProof, WriteOutput, LateWrite, failRun, vars
<1> QED
  BY <1>3, <1>4, <1>5, <1>6, <1>7, <1>8, <1>9, <1>10 DEF Next

(* With --require-all a run that exits 0 has accepted the report, the      *)
(* block evidence and every fixtureless proof of every binding.            *)
THEOREM NothingSkipped == Spec => []NotVacuous
<1>1. Init => Progress
  BY DEF Init, Progress, NotVacuous
<1>2. TypeOK /\ Progress /\ [Next]_vars => Progress'
  BY ProgressNext
<1>3. Progress => NotVacuous
  BY DEF Progress
<1> QED
  BY <1>1, <1>2, <1>3, TypeCorrect, PTL DEF Spec

-----------------------------------------------------------------------------
(* What is retained *)

\* The roles the run has accepted of the binding under way.
Taken ==
  IF pc = "evidence" THEN {report}
  ELSE IF pc \in {"claims", "proving"}
    THEN {report, block} \cup {proof(i) : i \in 1 .. claim - 1}
  ELSE {}

Kept(st, a) ==
  Distinct(a.binding) =>
    /\ st[a.binding][SlotOf(a.binding, a.role)] # None
    /\ st[a.binding][SlotOf(a.binding, a.role)].origin = a.origin

\* Nothing that was accepted is overwritten or removed: later outputs are of
\* another binding or another claim.
Retained ==
  /\ \A a \in accepted : a.role \in Roles(a.binding)
  /\ pc \notin {"exit0", "exit1"} =>
       \A a \in accepted : a.binding < at \/ (a.binding = at /\ a.role \in Taken)
  /\ children = {} /\ pc # "exit1" => \A a \in accepted : Kept(store, a)

LEMMA SlotsOfRoles ==
  ASSUME TypeOK, NEW b \in Positions, NEW r \in Roles(b) PROVE SlotOf(b, r) \in Slot
<1>1. "report" \in Slots(b) /\ Slots(b) \subseteq Slot
  BY SlotsAreSlots DEF Slots
<1>2. CASE r = report
  <2>1. r # block
    BY <1>2 DEF report, block
  <2> QED
    BY <1>1, <1>2, <2>1 DEF SlotOf
<1>3. CASE r = block
  <2>1. r # report
    BY <1>3 DEF report, block
  <2> QED
    BY <1>1, <1>3, <2>1, NamedFiles DEF SlotOf
<1>4. ASSUME NEW i \in 1 .. Claims[b], r = proof(i) PROVE SlotOf(b, r) \in Slot
  <2>1. r # report /\ r # block /\ r[2] = i
    BY <1>4 DEF report, block, proof
  <2>2. SlotOf(b, r) = layout[b].proofs[i]
    BY <2>1 DEF SlotOf
  <2> QED
    BY <1>1, <2>2, NamedFiles
<1> QED
  BY <1>2, <1>3, <1>4 DEF Roles

\* No role taken so far lies in the file of the claim under way, unless the
\* report names a file twice.
LEMMA ProofFileIsFree ==
  ASSUME TypeOK, pc \in {"claims", "proving"}, claim <= Claims[at], Distinct(at),
         NEW r \in Taken
  PROVE  SlotOf(at, r) # ProofFile
<1>1. at \in Positions /\ claim \in 1 .. Claims[at]
  BY ConstantsAssumption DEF TypeOK
<1>2. layout[at] \in Layout(at)
  BY <1>1 DEF TypeOK
<1>3. ProofFile \in Files[at] /\ "report" \notin Files[at]
  BY <1>1, <1>2, ConstantsAssumption DEF Layout, ProofFile
<1>4. CASE r = report
  <2>1. r # block
    BY <1>4 DEF report, block
  <2> QED
    BY <1>3, <1>4, <2>1 DEF SlotOf
<1>5. CASE r = block
  <2>1. r # report
    BY <1>5 DEF report, block
  <2> QED
    BY <1>1, <1>5, <2>1 DEF SlotOf, Distinct, ProofFile
<1>6. ASSUME NEW i \in 1 .. claim - 1, r = proof(i) PROVE SlotOf(at, r) # ProofFile
  <2>1. r # report /\ r # block /\ r[2] = i
    BY <1>6 DEF report, block, proof
  <2>2. i \in 1 .. Claims[at] /\ i # claim
    BY <1>1, ConstantsAssumption
  <2>3. SlotOf(at, r) = layout[at].proofs[i]
    BY <2>1 DEF SlotOf
  <2> QED
    BY <1>1, <2>2, <2>3 DEF Distinct, ProofFile
<1> QED
  BY <1>4, <1>5, <1>6 DEF Taken

LEMMA MarkerKeeps ==
  ASSUME TypeOK, NEW b \in Positions, NEW removed, startGenerationMarker(b, removed),
         NEW c \in Positions, NEW t \in Slot, store[c][t] # None, c # b \/ t \notin removed
  PROVE  store'[c][t] # None /\ store'[c][t].origin = store[c][t].origin
<1>1. store'[c][t] = [store[c][t] EXCEPT !.fresh = FALSE]
  BY DEF startGenerationMarker
<1>2. store[c][t] \in File
  BY DEF TypeOK
<1>3. store'[c][t] \in File
  BY <1>1, <1>2 DEF File
<1> QED
  BY <1>1, <1>2, <1>3, NoneAssumption DEF File

LEMMA WriteKeeps ==
  ASSUME TypeOK, NEW b \in Positions, NEW s \in Slot, NEW fresh, NEW origin,
         write(b, s, fresh, origin), NEW c \in Positions, NEW t \in Slot, c # b \/ t # s
  PROVE  store'[c][t] = store[c][t]
BY DEF TypeOK, write

\* A command and the clearing before and after it leave alone what is of
\* another binding, or of another file than that of the claim under way.
LEMMA StoreKeeps ==
  ASSUME TypeOK, Retained, NEW a \in accepted, Distinct(a.binding), Kept(store, a),
         \/ generateBindingReport \/ executeFixturelessProof \/ WriteOutput
         \/ FinishReport \/ FinishProof
  PROVE  /\ store'[a.binding][SlotOf(a.binding, a.role)] # None
         /\ store'[a.binding][SlotOf(a.binding, a.role)].origin = a.origin
<1> DEFINE c == a.binding
           t == SlotOf(c, a.role)
<1>1. c \in Positions /\ a.role \in Roles(c) /\ t \in Slot
  BY SlotsOfRoles DEF TypeOK, Retained
<1>2. store[c][t] # None /\ store[c][t].origin = a.origin
  BY DEF Kept
<1>3. at \in Positions
  <2>1. CASE generateBindingReport
    BY <2>1 DEF generateBindingReport, TypeOK
  <2>2. CASE pc \in {"claims", "reporting", "proving"}
    BY <2>2 DEF TypeOK
  <2> QED
    BY <2>1, <2>2 DEF executeFixturelessProof, WriteOutput, Spawned, FinishReport, FinishProof
<1>4. ASSUME pc \in {"next", "reporting"} PROVE c # at
  <2>1. c \in Int /\ at \in Int
    BY <1>1, <1>3 DEF Positions
  <2>2. Taken = {}
    BY <1>4 DEF Taken
  <2>3. c < at
    BY <1>4, <2>2 DEF Retained
  <2> QED
    BY <2>1, <2>3
<1>5. ASSUME pc \in {"claims", "proving"}, claim <= Claims[at] PROVE c # at \/ t # ProofFile
  <2>1. CASE c = at
    <3>1. ~(c < at)
      BY <1>3, <2>1 DEF Positions
    <3>2. a.role \in Taken
      BY <1>5, <3>1 DEF Retained
    <3> QED
      BY <1>5, <2>1, <3>2, ProofFileIsFree
  <2> QED
    BY <2>1
<1> HIDE DEF c, t
<1>6. CASE generateBindingReport
  BY <1>1, <1>2, <1>3, <1>4, <1>6, MarkerKeeps DEF generateBindingReport, c, t
<1>7. CASE executeFixturelessProof
  <2>1. startGenerationMarker(at, {ProofFile}) /\ (c # at \/ t \notin {ProofFile})
    BY <1>5, <1>7 DEF executeFixturelessProof
  <2> QED
    BY <1>1, <1>2, <1>3, <2>1, MarkerKeeps DEF c, t
<1>8. CASE pc = "proving" /\ (WriteOutput \/ FinishProof)
  <2>1. c # at \/ t # ProofFile
    BY <1>5, <1>8 DEF TypeOK
  <2>2. CASE FinishProof
    <3>1. remove(at, Stale(at, {ProofFile})) /\ (c # at \/ t \notin Stale(at, {ProofFile}))
      BY <2>1, <2>2 DEF FinishProof, Stale
    <3>2. store'[c][t] = store[c][t]
      BY <1>1, <1>3, <3>1, RemoveEffect
    <3> QED
      BY <1>2, <3>2 DEF c, t
  <2>3. CASE WriteOutput
    <3>1. ProofFile \in Slot
      BY <1>3, <1>8, <2>3, OutputsInDirectory, SlotsAreSlots DEF WriteOutput, Outputs
    <3>2. write(at, ProofFile, TRUE, "run") \/ write(at, ProofFile, FALSE, "restored")
      BY <1>8, <2>3 DEF WriteOutput, Outputs
    <3>3. store'[c][t] = store[c][t]
      BY <1>1, <1>3, <2>1, <3>1, <3>2, WriteKeeps
    <3> QED
      BY <1>2, <3>3 DEF c, t
  <2> QED
    BY <1>8, <2>2, <2>3
<1>9. CASE pc = "reporting" /\ (WriteOutput \/ FinishReport)
  <2>1. c # at
    BY <1>4, <1>9
  <2>2. CASE FinishReport
    <3>1. \E slots : remove(at, slots)
      BY <2>2 DEF FinishReport
    <3>2. store'[c][t] = store[c][t]
      BY <1>1, <1>3, <2>1, <3>1, RemoveEffect
    <3> QED
      BY <1>2, <3>2 DEF c, t
  <2>3. CASE WriteOutput
    <3>1. PICK s \in Slots(at) : write(at, s, TRUE, "run") \/ write(at, s, FALSE, "restored")
      BY <1>9, <2>3 DEF WriteOutput, Outputs
    <3>2. s \in Slot
      BY <1>3, SlotsAreSlots
    <3>3. store'[c][t] = store[c][t]
      BY <1>1, <1>3, <2>1, <3>1, <3>2, WriteKeeps
    <3> QED
      BY <1>2, <3>3 DEF c, t
  <2> QED
    BY <1>9, <2>2, <2>3
<1> QED
  BY <1>6, <1>7, <1>8, <1>9 DEF WriteOutput, Spawned, FinishReport, FinishProof

\* What the store still has to hold of what was accepted.
Holds(a) ==
  Distinct(a.binding) =>
    /\ store'[a.binding][SlotOf(a.binding, a.role)] # None
    /\ store'[a.binding][SlotOf(a.binding, a.role)].origin = a.origin

LEMMA KeptNext ==
  ASSUME layout' = layout, NEW a, Holds(a) PROVE Kept(store, a)'
BY DEF Kept, Holds, Distinct, SlotOf

\* Steps that accept nothing.
LEMMA RetainedFrame ==
  ASSUME TypeOK, Retained, UNCHANGED <<layout, accepted>>,
         pc' \notin {"exit0", "exit1"} =>
           /\ pc \notin {"exit0", "exit1"}
           /\ (at' = at /\ Taken \subseteq Taken') \/ (at \in Positions /\ at' = at + 1),
         children' = {} /\ pc' # "exit1" =>
           /\ children = {} /\ pc # "exit1"
           /\ \A a \in accepted : Kept(store, a) => Holds(a)
  PROVE  Retained'
<1>1. \A a \in accepted' : a.role \in Roles(a.binding)
  BY DEF Retained
<1>2. ASSUME pc' \notin {"exit0", "exit1"}, NEW a \in accepted'
      PROVE  a.binding < at' \/ (a.binding = at' /\ a.role \in Taken')
  <2>1. a.binding < at \/ (a.binding = at /\ a.role \in Taken)
    BY <1>2 DEF Retained
  <2>2. a.binding \in Int
    BY <1>2 DEF TypeOK, Positions
  <2>3. CASE at' = at /\ Taken \subseteq Taken'
    BY <2>1, <2>3
  <2>4. CASE at \in Positions /\ at' = at + 1
    BY <2>1, <2>2, <2>4 DEF Positions
  <2> QED
    BY <1>2, <2>3, <2>4
<1>3. ASSUME children' = {}, pc' # "exit1", NEW a \in accepted' PROVE Kept(store, a)'
  BY <1>3, KeptNext DEF Retained
<1> QED
  BY <1>1, <1>2, <1>3 DEF Retained

\* Steps that accept the file of a role.
LEMMA RetainedAccept ==
  ASSUME TypeOK, Retained, layout' = layout, at \in Positions, at' = at,
         NEW role \in Roles(at), accept(role, SlotOf(at, role)),
         store[at][SlotOf(at, role)] # None,
         store'[at][SlotOf(at, role)] = store[at][SlotOf(at, role)],
         pc \notin {"exit0", "exit1"}, Taken \subseteq Taken', role \in Taken',
         children' = {} =>
           children = {} /\ \A a \in accepted : Kept(store, a) => Holds(a)
  PROVE  Retained'
<1> DEFINE new == [binding |-> at, role |-> role, origin |-> store[at][SlotOf(at, role)].origin]
<1>1. accepted' = accepted \cup {new}
  BY DEF accept
<1>2. new.binding = at /\ new.role = role /\ new.origin = store[at][SlotOf(at, role)].origin
  OBVIOUS
<1> HIDE DEF new
<1>3. Holds(new)
  BY <1>2 DEF Holds
<1>4. \A a \in accepted' : a.role \in Roles(a.binding)
  BY <1>1, <1>2 DEF Retained
<1>5. \A a \in accepted' : a.binding < at' \/ (a.binding = at' /\ a.role \in Taken')
  BY <1>1, <1>2 DEF Retained
<1>6. ASSUME children' = {}, NEW a \in accepted' PROVE Kept(store, a)'
  <2>1. Holds(a)
    BY <1>1, <1>3, <1>6 DEF Retained
  <2> QED
    BY <2>1, KeptNext
<1> QED
  BY <1>4, <1>5, <1>6 DEF Retained

LEMMA RetainedNext == TypeOK /\ Retained /\ [Next]_vars => Retained'
<1> SUFFICES ASSUME TypeOK, Retained, [Next]_vars PROVE Retained'
  OBVIOUS
<1>1. layout' = layout
  BY DEF Next, Begin, SkipUndeclared, RefuseDeclaration, generateBindingReport, FailCommand,
         FinishReport, TakeReport, readReport, RefuseReport, validateAssertionEvidence,
         executeFixturelessProof, FinishProof, AcceptBinding, Finish, WriteOutput,
         LateWrite, failRun, vars, config
<1>2. leave /\ children' = {} => children = {}
  BY DEF leave
<1>3. ASSUME \/ generateBindingReport \/ executeFixturelessProof \/ WriteOutput
             \/ FinishReport \/ FinishProof
      PROVE  \A a \in accepted : Kept(store, a) => Holds(a)
  BY <1>3, StoreKeeps DEF Holds
<1>4. ASSUME store' = store PROVE \A a \in accepted : Kept(store, a) => Holds(a)
  BY <1>4 DEF Kept, Holds
<1>5. CASE \E generate, requireAll \in BOOLEAN : Begin(generate, requireAll)
  BY <1>5 DEF Begin, Retained
<1>6. CASE pc' = "exit1" /\ accepted' = accepted
  BY <1>1, <1>6, RetainedFrame
<1>7. CASE SkipUndeclared \/ AcceptBinding \/ (readReport /\ skip /\ UNCHANGED accepted)
  <2>1. /\ accepted' = accepted /\ store' = store /\ children' = children
        /\ pc \notin {"exit0", "exit1"} /\ at' = at + 1
    BY <1>7 DEF SkipUndeclared, AcceptBinding, readReport, skip
  <2>2. at \in Positions
    BY <1>7, ConstantsAssumption
    DEF SkipUndeclared, AcceptBinding, readReport, TypeOK, Positions
  <2> QED
    BY <1>1, <1>4, <2>1, <2>2, RetainedFrame
<1>8. CASE readReport /\ accept(report, "report") /\ pc' = "evidence"
           /\ store[at]["report"] # None
  <2>1. at \in Positions /\ at' = at /\ store' = store /\ children' = children
    BY <1>8 DEF readReport, TypeOK, skip, accept
  <2>2. Taken = {} /\ Taken' = {report} /\ pc \notin {"exit0", "exit1"}
    BY <1>8 DEF Taken, readReport
  <2>3. report \in Roles(at) /\ SlotOf(at, report) = "report"
    BY DEF Roles, SlotOf, report, block
  <2> QED
    BY <1>1, <1>4, <1>8, <2>1, <2>2, <2>3, RetainedAccept
<1>9. CASE validateAssertionEvidence /\ accept(block, layout[at].block) /\ pc' = "claims"
           /\ store[at][layout[at].block] # None
  <2>1. at \in Positions /\ at' = at /\ store' = store /\ children' = children /\ claim' = 1
    BY <1>9 DEF validateAssertionEvidence, TypeOK, failRun
  <2>2. Taken = {report} /\ Taken' = {report, block} \cup {proof(i) : i \in 1 .. claim' - 1}
        /\ pc \notin {"exit0", "exit1"}
    BY <1>9 DEF Taken, validateAssertionEvidence
  <2>3. block \in Roles(at) /\ SlotOf(at, block) = layout[at].block
    BY DEF Roles, SlotOf, report, block
  <2> QED
    BY <1>1, <1>4, <1>9, <2>1, <2>2, <2>3, RetainedAccept
<1>10. CASE FinishProof /\ accept(proof(claim), ProofFile) /\ pc' = "claims"
            /\ claim' = claim + 1 /\ at' = at
            /\ store[at][ProofFile] # None /\ Stale(at, {ProofFile}) = {}
  <2>1. at \in Positions /\ claim \in 1 .. Claims[at] /\ Claims[at] \in Nat
    BY <1>10, ConstantsAssumption DEF FinishProof, TypeOK
  <2>2. Taken = {report, block} \cup {proof(i) : i \in 1 .. claim - 1}
        /\ Taken' = {report, block} \cup {proof(i) : i \in 1 .. claim' - 1}
        /\ pc \notin {"exit0", "exit1"}
    BY <1>10 DEF Taken, FinishProof
  <2>3. Taken \subseteq Taken' /\ proof(claim) \in Taken'
    BY <1>10, <2>1, <2>2
  <2>4. proof(claim) \in Roles(at)
    BY <2>1 DEF Roles
  <2>5. SlotOf(at, proof(claim)) = ProofFile
    <3>1. proof(claim) # report /\ proof(claim) # block /\ proof(claim)[2] = claim
      BY DEF proof, report, block
    <3> QED
      BY <3>1 DEF SlotOf, ProofFile
  <2>6. ProofFile \in Slot
    BY <1>10, OutputsInDirectory, SlotsAreSlots DEF FinishProof, Spawned, Outputs
  <2>7. store'[at][ProofFile] = store[at][ProofFile]
    <3> DEFINE stale == Stale(at, {ProofFile})
               t     == ProofFile
    <3>1. remove(at, stale) /\ t \notin stale /\ t \in Slot
      BY <1>10, <2>6 DEF FinishProof
    <3> HIDE DEF stale, t
    <3>2. store'[at][t] = store[at][t]
      BY <2>1, <3>1, RemoveEffect
    <3> QED
      BY <3>2 DEF t
  <2>8. children' = {} => children = {}
    BY <1>2, <1>10 DEF FinishProof
  <2> QED
    BY <1>1, <1>3, <1>10, <2>1, <2>2, <2>3, <2>4, <2>5, <2>7, <2>8, RetainedAccept
<1>11. CASE \/ generateBindingReport \/ executeFixturelessProof
            \/ FinishReport /\ pc' = "reported"
  <2>1. /\ accepted' = accepted /\ at' = at /\ claim' = claim
        /\ pc \notin {"exit0", "exit1"} /\ (children' = {} => children = {})
    BY <1>2, <1>11 DEF generateBindingReport, executeFixturelessProof, FinishReport
  <2>2. Taken \subseteq Taken'
    BY <1>11 DEF generateBindingReport, executeFixturelessProof, FinishReport, Taken
  <2> QED
    BY <1>1, <1>3, <1>11, <2>1, <2>2, RetainedFrame
<1>12. CASE TakeReport \/ Finish
  <2>1. /\ accepted' = accepted /\ store' = store /\ children' = children /\ at' = at
        /\ pc = "next" /\ pc' \in {"reported", "exit0", "exit1"}
    BY <1>12 DEF TakeReport, Finish
  <2>2. Taken \subseteq Taken'
    BY <2>1 DEF Taken
  <2> QED
    BY <1>1, <1>4, <2>1, <2>2, RetainedFrame
<1>13. CASE WriteOutput \/ LateWrite \/ UNCHANGED vars
  <2>1. UNCHANGED <<accepted, children, at, pc, claim>>
    BY <1>13 DEF WriteOutput, LateWrite, vars
  <2>2. Taken' = Taken
    BY <2>1 DEF Taken
  <2>3. children' = {} => \A a \in accepted : Kept(store, a) => Holds(a)
    BY <1>3, <1>4, <1>13 DEF LateWrite, vars
  <2> QED
    BY <1>1, <2>1, <2>2, <2>3, RetainedFrame
<1> QED
  BY <1>5, <1>6, <1>7, <1>8, <1>9, <1>10, <1>11, <1>12, <1>13
     DEF Next, RefuseDeclaration, FailCommand, FinishReport, readReport, RefuseReport,
         validateAssertionEvidence, FinishProof, failRun

(* While no process outlives its command, what a passing run leaves of a   *)
(* binding whose report names no file twice is what the run accepted.      *)
THEOREM AcceptedIsRetained == Spec => []RetainedIsAccepted
<1>1. Init => Retained
  BY DEF Init, Retained
<1>2. TypeOK /\ Retained /\ [Next]_vars => Retained'
  BY RetainedNext
<1>3. Retained => RetainedIsAccepted
  BY DEF Retained, Kept, RetainedIsAccepted
<1> QED
  BY <1>1, <1>2, <1>3, TypeCorrect, PTL DEF Spec
=============================================================================
