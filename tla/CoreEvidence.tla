---------------------------- MODULE CoreEvidence ---------------------------
(***************************************************************************)
(* check-core-evidence.mjs: the gate that runs each binding's report       *)
(* command and its fixtureless proof commands in a reports directory, and  *)
(* accepts what they leave there.  Several runs of the gate follow one     *)
(* another over the same directory, with --generate-reports or without.    *)
(*                                                                         *)
(* A file is what decides its acceptance: whether its mtime is at or after *)
(* the last generation marker, and where its content comes from.  mtimes   *)
(* are compared with the last marker only, and a marker's is later than    *)
(* that of everything written before it.                                   *)
(*                                                                         *)
(* External: the commands.  One writes its outputs, or restores preserved  *)
(* ones with their old mtime, any number of times; then it exits.  It may  *)
(* leave a child that goes on writing: the timeout of spawnSync kills the  *)
(* command, not the processes the command started.                         *)
(***************************************************************************)
EXTENDS Integers, FiniteSets

CONSTANTS
  None,
  Bindings,  \* the number of selected bindings, taken in the profile's order
  Files,     \* Files[b]: what a command of b writes beneath its directory
  Claims,    \* Claims[b]: the number of fixtureless claims of b
  MaxChildren  \* bound: processes that outlive their command

Positions == 1 .. Bindings

ASSUME ConstantsAssumption ==
  /\ Bindings \in Nat /\ MaxChildren \in Nat
  /\ Claims \in [Positions -> Nat]
  /\ \A b \in Positions : "report" \notin Files[b]

VARIABLES
  declared,  \* the bindings whose core-conformance.json exists
  layout,    \* what the report of a binding names: its evidence files
  store,     \* the reports directory
  options,   \* the options of the current run
  pc,        \* where the run stands
  at,        \* its binding
  claim,     \* its claim in report.fixtureless_claims
  skipped,   \* the bindings it skipped
  children,  \* external: processes that outlived the command they belong to
  accepted   \* history: where what the run read and accepted came from

config == <<declared, layout>>
vars == <<config, store, options, pc, at, claim, skipped, children, accepted>>

\* The report and the evidence directory of a binding.
Slots(b) == {"report"} \cup Files[b]
Slot == UNION {Slots(b) : b \in Positions}

\* A command of the current run, a child of one of an earlier run, a command
\* of an earlier run, or a preserved artifact put back.
Origin == {"run", "late", "earlier", "restored"}
File == [fresh : BOOLEAN, origin : Origin]

ASSUME NoneAssumption == None \notin File

Stage == {"exit0", "exit1", "next", "reporting", "reported", "evidence",
          "claims", "proving"}

\* What a report refers to: itself, a block's evidence, the proof of a claim.
report == <<"report", 0>>
block == <<"block", 0>>
proof(i) == <<"proof", i>>
Roles(b) == {report, block} \cup {proof(i) : i \in 1 .. Claims[b]}

Role == UNION {Roles(b) : b \in Positions}

Layout(b) == [block : Files[b], proofs : [1 .. Claims[b] -> Files[b]]]

Exited == pc \in {"exit0", "exit1"}
Spawned == pc \in {"reporting", "proving"}

ProofFile == layout[at].proofs[claim]

\* What the command now running may write.
Outputs == IF pc = "reporting" THEN Slots(at) ELSE {ProofFile}

TypeOK ==
  /\ declared \subseteq Positions
  /\ \A b \in Positions : layout[b] \in Layout(b)
  /\ store \in [Positions -> [Slot -> File \cup {None}]]
  /\ accepted \subseteq [binding : Positions, role : Role, origin : Origin]
  /\ options \in [generate : BOOLEAN, requireAll : BOOLEAN]
  /\ pc \in Stage
  /\ at \in 1 .. Bindings + 1
  /\ pc \notin {"next", "exit0", "exit1"} => at \in declared
  /\ pc \in {"claims", "proving"} => claim \in 1 .. Claims[at] + 1
  /\ pc = "proving" => claim <= Claims[at]
  /\ skipped \subseteq 1 .. at - 1
  /\ children \subseteq [at : Positions, outputs : SUBSET Slot, current : BOOLEAN]

Init ==
  /\ declared \in SUBSET Positions
  /\ layout \in {l \in [Positions -> UNION {Layout(b) : b \in Positions}] :
                   \A b \in Positions : l[b] \in Layout(b)}
  /\ store = [b \in Positions |-> [s \in Slot |-> None]]
  /\ options = [generate |-> FALSE, requireAll |-> FALSE]
  /\ pc = "exit1" /\ at = 1 /\ claim = 1
  /\ skipped = {} /\ children = {}
  /\ accepted = {}

-----------------------------------------------------------------------------
(* The commands *)

write(b, s, fresh, origin) ==
  store' = [store EXCEPT ![b][s] = [fresh |-> fresh, origin |-> origin]]

\* The running command produces an output, or restores an artifact of an
\* earlier command (cp -p, a cache): then the file keeps its old mtime.
WriteOutput ==
  /\ Spawned
  /\ \E s \in Outputs : write(at, s, TRUE, "run") \/ write(at, s, FALSE, "restored")
  /\ UNCHANGED <<config, options, pc, at, claim, skipped, children, accepted>>

\* A process that outlived its command writes one of that command's outputs.
LateWrite ==
  /\ \E c \in children : \E s \in c.outputs :
       write(c.at, s, TRUE, IF c.current THEN "run" ELSE "late")
  /\ UNCHANGED <<config, options, pc, at, claim, skipped, children, accepted>>

\* The command ends; it may leave a child behind.
leave ==
  LET child == [at |-> at, outputs |-> Outputs, current |-> TRUE] IN
  children' \in {children} \cup
    {C \in {children \cup {child}} : Cardinality(C) <= MaxChildren}

-----------------------------------------------------------------------------
(* The gate *)

failRun == pc' = "exit1" /\ UNCHANGED <<at, claim, skipped, accepted>>

\* Mutant: only the report is tested, not the evidence.
StaleReport(b, slots) == {s \in slots \cap {"report"} : store[b][s] /= None /\ ~store[b][s].fresh}

\* requireFresh: the files older than the marker of the last command.
Stale(b, slots) == {s \in slots : store[b][s] /= None /\ ~store[b][s].fresh}

remove(b, slots) ==
  store' = [store EXCEPT ![b] = [s \in Slot |-> IF s \in slots THEN None ELSE @[s]]]

\* Mutant: the whole reports directory is cleared.
startGenerationMarkerAll(b, removed) ==
  store' = [c \in Positions |-> [s \in Slot |-> None]]

\* startGenerationMarker, after the outputs of the command were removed: what
\* remains anywhere is older than the marker.
startGenerationMarker(b, removed) ==
  LET aged(f) == IF f = None THEN None ELSE [f EXCEPT !.fresh = FALSE] IN
  store' = [c \in Positions |->
              [s \in Slot |-> IF c = b /\ s \in removed THEN None
                              ELSE aged(store[c][s])]]

accept(role, s) ==
  accepted' = accepted \cup
    {[binding |-> at, role |-> role, origin |-> store[at][s].origin]}

\* main: parse the options, select the bindings.  What earlier runs left is
\* of an earlier run from now on.
Begin(generate, requireAll) ==
  /\ Exited
  /\ options' = [generate |-> generate, requireAll |-> requireAll]
  /\ pc' = "next" /\ at' = 1 /\ claim' = 1 /\ skipped' = {}
  /\ LET past(f) == IF f = None \/ f.origin = "restored" THEN f
                    ELSE [f EXCEPT !.origin = "earlier"]
     IN  store' = [b \in Positions |-> [s \in Slot |-> past(store[b][s])]]
  /\ children' = {[c EXCEPT !.current = FALSE] : c \in children}
  /\ accepted' = {}
  /\ UNCHANGED config

\* Mutants: the binding is not recorded; the loop does not go on.
skipSilently == UNCHANGED skipped /\ at' = at + 1 /\ pc' = "next"
skipStays == skipped' = skipped \cup {at} /\ UNCHANGED at /\ pc' = "next"

skip == skipped' = skipped \cup {at} /\ at' = at + 1 /\ pc' = "next"

SkipUndeclared ==
  /\ pc = "next" /\ at <= Bindings /\ at \notin declared
  /\ skip
  /\ UNCHANGED <<config, store, options, claim, children, accepted>>

\* The declaration names another binding or another profile.
RefuseDeclaration ==
  /\ pc = "next" /\ at \in declared
  /\ failRun
  /\ UNCHANGED <<config, store, options, children>>

\* generateBindingReport, up to the spawn: the evidence directory and the
\* report are removed and the marker is written.
generateBindingReport ==
  /\ pc = "next" /\ at \in declared /\ options.generate
  /\ startGenerationMarker(at, Slots(at))
  /\ pc' = "reporting"
  /\ UNCHANGED <<config, options, at, claim, skipped, children, accepted>>

\* The command timed out, could not run or exited with a status.
FailCommand ==
  /\ Spawned
  /\ leave
  /\ failRun
  /\ UNCHANGED <<config, store, options>>

\* generateBindingReport, after the spawn.
FinishReport ==
  /\ pc = "reporting"
  /\ leave
  /\ remove(at, IF store[at]["report"] = None THEN {} ELSE Stale(at, Slots(at)))
  /\ pc' = IF store[at]["report"] /= None /\ Stale(at, Slots(at)) = {}
           THEN "reported" ELSE "exit1"
  /\ UNCHANGED <<config, options, at, claim, skipped, accepted>>

\* Without --generate-reports whatever report is there is taken.
TakeReport ==
  /\ pc = "next" /\ at \in declared /\ ~options.generate
  /\ pc' = "reported"
  /\ UNCHANGED <<config, store, options, at, claim, skipped, children, accepted>>

\* main reads the report, unless there is none.
readReport ==
  /\ pc = "reported"
  /\ \/ store[at]["report"] = None /\ skip /\ UNCHANGED <<claim, accepted>>
     \/ /\ store[at]["report"] /= None
        /\ accept(report, "report")
        /\ pc' = "evidence"
        /\ UNCHANGED <<at, claim, skipped>>
  /\ UNCHANGED <<config, store, options, children>>

\* validateBinding refuses what the report says: its identity, skips,
\* fixtures, assertion blocks or claims.
RefuseReport ==
  /\ pc = "evidence" \/ (pc = "claims" /\ claim <= Claims[at])
  /\ failRun
  /\ UNCHANGED <<config, store, options, children>>

\* validateAssertionEvidence of the block's discriminability record.
validateAssertionEvidence ==
  /\ pc = "evidence"
  /\ \/ store[at][layout[at].block] = None /\ failRun
     \/ /\ store[at][layout[at].block] /= None
        /\ accept(block, layout[at].block)
        /\ pc' = "claims" /\ claim' = 1
        /\ UNCHANGED <<at, skipped>>
  /\ UNCHANGED <<config, store, options, children>>

\* executeFixturelessProof, up to the spawn: its target is removed and the
\* marker is written.
executeFixturelessProof ==
  /\ pc = "claims" /\ claim <= Claims[at]
  /\ startGenerationMarker(at, {ProofFile})
  /\ pc' = "proving"
  /\ UNCHANGED <<config, options, at, claim, skipped, children, accepted>>

\* executeFixturelessProof, after the spawn.
FinishProof ==
  /\ pc = "proving"
  /\ leave
  /\ remove(at, Stale(at, {ProofFile}))
  /\ \/ (store[at][ProofFile] = None \/ Stale(at, {ProofFile}) /= {}) /\ failRun
     \/ /\ store[at][ProofFile] /= None /\ Stale(at, {ProofFile}) = {}
        /\ accept(proof(claim), ProofFile)
        /\ pc' = "claims" /\ claim' = claim + 1
        /\ UNCHANGED <<at, skipped>>
  /\ UNCHANGED <<config, options>>

\* The binding is OK; main goes on to the next.
AcceptBinding ==
  /\ pc = "claims" /\ claim > Claims[at]
  /\ pc' = "next" /\ at' = at + 1
  /\ UNCHANGED <<config, store, options, claim, skipped, children, accepted>>

\* The end of main.
Finish ==
  /\ pc = "next" /\ at > Bindings
  /\ pc' = IF skipped /= {} /\ options.requireAll THEN "exit1" ELSE "exit0"
  /\ UNCHANGED <<config, store, options, at, claim, skipped, children, accepted>>

Next ==
  \/ \E generate, requireAll \in BOOLEAN : Begin(generate, requireAll)
  \/ SkipUndeclared \/ RefuseDeclaration
  \/ generateBindingReport \/ FinishReport
  \/ TakeReport \/ readReport \/ RefuseReport
  \/ validateAssertionEvidence
  \/ executeFixturelessProof \/ FinishProof
  \/ AcceptBinding \/ Finish
  \/ WriteOutput \/ FailCommand \/ LateWrite

Spec == Init /\ [][Next]_vars

-----------------------------------------------------------------------------
(* Properties *)

(* A run that generates its reports passes on nothing it inherited: every  *)
(* artifact it accepted was written by a command of this run, or while it  *)
(* ran by a process that outlived a command of an earlier one.  The        *)
(* removal before each spawn and the freshness check after it see to it.   *)
NothingInherited ==
  pc = "exit0" /\ options.generate =>
    \A a \in accepted : a.origin \in {"run", "late"}

(* With --require-all a run that exits 0 has examined every binding: its   *)
(* report, the evidence of its assertion block and the proof of each of    *)
(* its claims.  Missing declarations and reports are counted as skipped.   *)
NotVacuous ==
  pc = "exit0" /\ options.requireAll =>
    \A b \in Positions : \A r \in Roles(b) :
      \E a \in accepted : a.binding = b /\ a.role = r

\* No two references of a report name one file.
Distinct(b) ==
  \A i \in 1 .. Claims[b] :
    /\ layout[b].proofs[i] /= layout[b].block
    /\ \A j \in 1 .. Claims[b] : layout[b].proofs[i] = layout[b].proofs[j] => i = j

SlotOf(b, r) == CASE r = report -> "report"
                  [] r = block -> layout[b].block
                  [] OTHER -> layout[b].proofs[r[2]]

(* What a passing run leaves in the reports directory, which qualification *)
(* uploads, is what it accepted, as long as no two references of a report  *)
(* name the same file and no command left a process behind: cleaning up    *)
(* for one binding or claim takes nothing from another.                    *)
RetainedIsAccepted ==
  pc = "exit0" /\ children = {} =>
    \A a \in accepted : Distinct(a.binding) =>
      LET f == store[a.binding][SlotOf(a.binding, a.role)] IN
      f /= None /\ f.origin = a.origin

(* README.md:207-211 and the self-test: a preserved artifact is rejected   *)
(* and deleted, so that a later run that does not generate never validates *)
(* it.                                                                     *)
RestoredNeverAccepted ==
  pc = "exit0" => \A a \in accepted : a.origin /= "restored"
=============================================================================
