# TLA+ verification of lazily-spec

TLA+ modules, TLC configurations and TLAPS proofs kept beside the lazily
specification repository. lazily-spec is mostly a specification: nine language
bindings implement it elsewhere. Its executable logic is of three kinds, and
those are what the modules translate:

- reference reducers that replay the conformance corpus (`tests/`),
- the Lean model of the wire protocols (`formal/lean/LazilyFormal`),
- the gates that decide what is accepted and the generators that write code and
  fixtures (`scripts/`).

Paths below are relative to the repository root; `PROJECT.json` maps every
definition to its lines.

## 1. Inventory

| Component | Code | State it keeps | Operations | Module |
|---|---|---|---|---|
| Latest durable projection | `tests/test_latest_durable_projection.py` | sink generation; per key the desired revision, the in-flight envelope, the durable frontier | `upsert_desired`, `claim`, `ack_applied`, `fail_retryable`, `reconnect` | `LatestDurable` |
| Boundary ingress adapter | `tests/test_boundary_ingress_adapter.py` | phase, generation, cursor, buffered events, projected keys, members, one delivery, freshness stamp | `subscribe`, `snapshot`, `event`, `member_join/leave`, `open_receipt`, `ack`, `tick` | `BoundaryIngress` |
| RevisionBarrier | `tests/test_stdlib_conformance.py` (`run_barrier`) | status, reason, revision, wake generation, last reading | `start`, `advance`, `register_recheck`, `observe`, `receipt`, `dispose` | `RevisionBarrier` |
| Timer, Timeout | same (`run_timer`, `run_timeout`) | status, reason, deadline, last reading | `start`, `observe`, `poll` | `StdlibTimers` |
| Command / RPC plane | `formal/lean/LazilyFormal/Command.lean` | status and authority generation of a command | `step` (submit, progress, receipt, cancel), `resync` | `CommandPlane` |
| Message-passing fixture generator | `scripts/gen_message_passing_fixtures.py` | none: scenarios of frames and expected images | one scenario each | `CommandFixtures` |
| Core evidence gate | `scripts/check-core-evidence.mjs` | the reports directory, between runs too | `main`, `generateBindingReport`, `executeFixturelessProof` | `CoreEvidence` |
| Wire code generator | `scripts/wire_codegen.py` | while it builds: the names taken, the declarations made, the queue of shared definitions | `build` with `_emit`, `type_expr`, `_resolve`; the renderers of four bindings | `WireModel`, `WireCodec` |
| Codec fixture generators | `scripts/gen_nodekey_null_leniency_fixture.py`, `gen_nodeid_exact_range_fixture.py` | none: cases and expectations | one case each | `WireCodec` |
| IPC deltas, replication cursor, CRDT stability | `IPC.lean`, `StateMachine*.lean`, `Replication.lean`, `CRDT.lean` | receiver's epoch; durable cursor; observed stamps | `applyDelta`, `advanceCursor`, `replayFrom`, `frontier`, `collectable` | not modelled |
| Durable owner | `tests/test_durable_owner.py` | recorded images | image invariants, `replay_reconciliation` | not modelled |
| Core cohort verifier, core profile registry | `scripts/verify_core_cohort.py`, `check-core-profile.mjs` | none: a document and files | validation | not modelled |
| Corpus floors, coverage claims | `scripts/check-corpus-floors.mjs`, `check-coverage-claims.mjs` | none: ledgers of the bindings | the audits | not modelled |
| Fixture mirrors, coverage tables | `scripts/sync-conformance-fixtures.mjs`, `sync-coverage.mjs` | the target files | check, write | not modelled |

The remaining scripts, schemas, generators and prose are listed one by one in
`PROJECT.json` with the reason they are not modelled (section 8).

### How the parts interact

- **Projection and sink.** Callers upsert; a shell claims envelopes and hands
  them to sink workers; replies come back as messages. A reconnect fences the
  old generation but does not stop its workers.
- **Producer and ingress adapter.** The producer publishes events of a
  generation and serves snapshots; both reach the adapter by a link that loses,
  repeats and reorders. Members acknowledge a receipt that the adapter opened.
- **Source, waiter and clock.** A source announces revisions, a caller
  registers, rechecks and polls with clock readings of its own.
- **Client, authority, observer.** A client submits and cancels, an authority
  decides and hands over to a next generation, an observer folds whatever frames
  reach it and replaces its projection by an image after a reconnect. The
  fixture generator writes such histories down with what they must show.
- **Gate and commands.** The gate spawns a binding's commands in a directory
  that outlives the run, and reads what they leave there.
- **Schema, builder, renderers.** The builder walks a schema and `defs.json` and
  leaves one surface; each renderer writes a codec from it or refuses. The
  codecs of different bindings meet on the wire, where one relays what another
  encoded.

Apart from the generator's two halves and the fixtures of the command plane, the
parts are separate machines, which share no state and call no operation of each
other. Each is therefore composed with its environment.

### What is hard here

Interleaved claims, failures and reconnects; replies of a fenced worker; lost,
repeated and overtaking messages around a snapshot; check-then-sleep; deadlines
that race completion and cancellation; full buffers; handoffs whose deposed
controller does not know it is deposed; failing and timed-out commands that
leave files and processes behind; a queue that grows while it is walked and
names that mean two things; four codecs with rules of their own for keys that are
absent or null and for integers past 63 bits. `PROJECT.json` lists each as a
hazard at its line, with the properties that catch it, and with a note where they
catch a part of it only or none does.

### What makes each part correct

- Projection: nothing accepted is lost while newest; an epoch names one value;
  the frontier claims only what is stored; one effect per key; every accepted
  revision becomes durable.
- Ingress: at its cursor the projection equals the producer's state; every gap
  ends; receipts keep their targets through churn; no visible change goes
  unpublished.
- Barrier and timers: no lost wake-up, no untrue satisfaction, no early expiry,
  resolution in the end.
- Command plane: an observer reports only what the authority decided; results
  are not taken back by late frames; calls resolve; the recorded scenarios hold.
- Evidence gate: a generating run accepts nothing it inherited; with
  `--require-all` it examined everything; what it accepted is what it leaves.
- Builder: a surface declares what was asked for and nothing else, and a name in
  it means what its references resolved to.
- Codecs: a conforming frame keeps its meaning on any path through the bindings
  and is read wherever the field is supported; what is accepted and emitted
  conforms, save named exceptions.

## 2. Plan

Done, in this order: `LatestDurable`, `BoundaryIngress`, `RevisionBarrier`,
`StdlibTimers`, `CommandPlane`, `CoreEvidence`, `CommandFixtures`,
`DeclaredClosure` with its implementation `WireModel`, `WireCodec`; the register
`LatestRegister` that `LatestDurable` implements; proofs for all of them.

What could follow, were its code here: the link, receiver and crash around the
deltas of `IPC.lean` and the outbox of `Replication.lean`. The repository has
their decision functions only, which are proved in Lean where they stand; a
model of the stream would be a model of the bindings. The gates that are left
read documents in one pass and keep nothing (section 8).

## 3. Modules and the code

Each module states its constants' assumptions, one action per operation with
the code's name, and its properties at the end. `MC…` instantiates it for TLC.
History variables (marked in the declarations) are read by properties only,
bounds aside. Definitions that stand beside a modelled one and are used nowhere
are the mutants of section 4.

**`LatestDurable`.** `generation` and `entries` are the reducer's fields. An
entry appears on first use (`Entry`), as `self.entry` does. `claim` hands the
envelope to an external worker; `SinkApply` and `SinkFail` end it, the latter
whether or not the write had happened, and put a reply into `replies`, from
which `ack_applied` and `fail_retryable` take replies in any order.
Acknowledgements stay deliverable; a failure report does only under
`DupFailures`. `reconnect` changes the generation and leaves `working` alone.
**`LatestRegister`** is what all that comes to for someone who sees only the
accepted revisions, the storage and the reported frontier: three variables per
key, which only move forward, the storage to an accepted revision, the frontier
to no more than the storage. `LatestDurable!Register` maps to it.

**`BoundaryIngress`.** The variables up to `revision` are the adapter's; `log`,
`truth` and `produced` are the producer's. `event` and `snapshot` take any
published event and any state of any generation so far, at any time and any
number of times, which is loss, repetition, delay and reordering at once. The
revision is kept modulo 2, as only a change of it is asked about.

**`RevisionBarrier`.** The predicate is a function of the source's state, read
when asked for. An advance made while registered leaves a note that is delivered
once, in any order. Readings may go backwards.

**`StdlibTimers`.** `run_timer` and `run_timeout` with all instants of a small
width, so that the checked addition overflows. `asked` remembers what was
asked.

**`CommandPlane`.** `step` is the Lean step, `fold` takes a sequence of
frames through it, `resync` is the replacement. The frames
published so far are a set: any may arrive again or never. A deposed controller
may publish any progress or receipt at its generation. The authority folds its
own log with the same `step`, and `Reconnect` shows an image of any of its past
states, the stale ones included.

**`CommandFixtures`.** The scenarios that the generator writes into
`conformance/message-passing`, as frames of the reducer's inputs and the entry
expected after them. `ScenariosReplay` folds them frame by frame. It leaves out
`cancel_before_terminal`, in which the fold and the expectation disagree (section 7).

**`CoreEvidence`.** A run walks through `main`'s loop; its stages are the values of
`pc`. A file is whether its mtime reaches the last marker and where its content
comes from. Commands write, restore preserved files, fail, time out and leave
children; reports name their evidence in every way. Abstractions: mtimes are
compared with the last marker only, and a marker is later than everything written
before it; a report has one assertion block; evidence kept under `audits/` is
outside; what `validateBinding` compares with the profile is one refusal that may
happen (`RefuseReport`).

**`DeclaredClosure`.** The abstract specification of the builder: names are
mentioned and taken up, and the end is a surface in which everything mentioned
was taken up, or a refusal.

**`WireModel`.** `_SurfaceBuilder.build` as a sequence of declarations, each of
which is begun (its name is taken), walked expression by expression, and made.
`phase` is where `build` is, `scope` the document local references resolve in,
`shared_queue` and `next` its last loop. A schema node is its kind, the type
expressions below it and the rules it breaks; expressions of one declaration are
walked in any order, the source's order being one of them. `Closure` is the
refinement mapping: the names taken are the declared ones, and a phase is open,
built or refused. `MaxInline` stands for the interpreter's recursion limit.

**`WireCodec`.** For one declared field (its base type, whether it is nullable or a
list, required or optional, and where it stands) what each backend's codec
reads and writes: `Lowers` is where a renderer refuses, `Decode` and `Encode` are
the generated functions, on the record path and on the union path. A JSON value
is its nesting depth and the kind of its innermost item. `GoDoesNotCompile` and
`PyHelperMissing` are fields a renderer accepts and whose code cannot run. A frame begins outside
(any JSON at all) or with a value an application made, and goes from binding to
binding for ever.

## 4. Runs

| Run | Question | Bounds | Distinct states |
|---|---|---|---|
| `latest_durable` | Is anything newest lost, acknowledged untruly, run twice, or never made durable? Does it implement `LatestRegister`? | 1 key, 3 epochs, 2 values, one reconnect, 6 claims, 2 failures | 30,340 |
| `boundary_ingress` | Is the projection the producer's state, is the buffer sound, does every gap end? | 1 key, 2 generations, 3 events, buffer of 1 | 33,304 |
| `boundary_ingress_receipts` | Do receipts survive churn and is every change published? | 2 members, 2 receipts, 4 clock readings, 1 event | 7,124 |
| `revision_barrier` | Is a wake-up lost, a result untrue, a waiter forgotten? | revisions 0..3, readings 0..2, every deadline and required revision, 2 rechecks | 68,191 |
| `stdlib_timers` | Does a primitive expire early or never? | all instants and durations of 2 bits | 23,739 |
| `command_plane` | Does an observer report what was not decided, or wait for ever? Do the recorded scenarios hold? | 2 generations, 5 frames folded by the authority | 30,694 |
| `command_plane_conflict` | Is a confirmed cancel cancelled? (no) | 2 generations, 3 frames | |
| `core_evidence` | Does a passing run accept what it did not make, or skip silently? | 2 bindings, 2 + 1 files, one claim, 1 surviving child, any number of runs | 677,180 |
| `core_evidence_stale` | Is a restored artifact gone before a later run? (no) | the same, no child | |
| `wire_model` | Does the builder implement `DeclaredClosure`, and does a name mean its target? | 1,938 schemas: 2 local and 3 shared definitions, inline enums and every kind of root | 26,711 |
| `wire_falls_out` | Is every definition that was asked for declared? (no) | the same schemas | |
| `wire_codec` | Does a frame keep its meaning and its readers on any path; are the corpus' expectations met? | every field that can be declared, every JSON of depth 0..2 over the kinds told apart | 33,583 |

Why the bounds are enough. In `LatestDurable` keys share only the generation and
the theorems hold for any set of keys; one key is left to TLC, with three epochs,
so that an epoch can be superseded in flight twice, and six claims, so that each
is attempted, fails and is attempted again across a reconnect. Three events with
a buffer of one are the least that has a gap, a buffered event and a refused one
together; two generations the least with stale messages. Three revisions allow
the source to overshoot the required one and come back to unready. Two-bit
instants contain zero, the maximum, and every sum that overflows. Two generations
give one deposed controller; five frames allow submit, progress, cancel,
decision and handoff in one history. Runs of the gate are unbounded, two
bindings suffice for one to pass and one to fail or be skipped, and two files
for a shared or separate block and proof. The schemas have chains of references
from the schema through `defs.json` and back, a name defined in both, aliases
that lead to each other, and inline enums that bear the name of another enum or of
a definition. `WireCodec`'s run is exhaustive: `MCFields` has every field that the
module's assumption admits but for the neighbours of a field that do not matter,
and frames are relayed without limit.

Deadlock is checked except in the wire runs: the builder returns, and a frame
that nobody reads stays where it is. Symmetry is used in
`boundary_ingress_receipts` only, whose members and receipts are compared and
nothing else, and which checks no liveness.

Every property of a passing run has a mutant in `PROJECT.json`: a changed
definition, of the kind a bug in that code would be, under which the run fails.

## 5. Fairness

- `LatestDurable!LiveSpec`: the shell claims what stays claimable, some worker
  ends by applying, and replies are delivered per key. The code is driven by such
  a shell (docs/durable-sinks.md); nothing is assumed of upserts, failures and
  reconnects, whose number is bounded.
- `BoundaryIngress!LiveSpec`: the replay effect serves a snapshot of the
  producer's current state (docs/transport-ingress.md:261). Events, duplicates
  and stale snapshots may come for ever.
- `RevisionBarrier!FairSpec`: notes are delivered and the caller polls while its
  clock runs on (docs/stdlib.md, "waiting is driven by a caller-owned clock/wait
  seam"). Registration, cancellation and the source owe nothing.
- `StdlibTimers!FairSpec`: the caller reads with an advancing clock; probes may stay
  pending.
- `CommandPlane!FairSpec`: a client that stays connected is given the authority's
  latest image. No frame is ever owed to it.
- `WireModel!FairSpec`: `build` is one call of a sequential function, which takes its
  next step until it returns. `BuildEnds` says that it does.
- `CoreEvidence` and `WireCodec` have no liveness property: a run ends where its
  commands end, and nobody is owed a frame.

## 6. What is proved

The theorems hold for all values of the constants that satisfy the modules'
`ConstantsAssumption` (and, in `CoreEvidence`, `NoneAssumption`: the absent file is
no file; for `RecordedReplay` only, `TwoGenerations`: some scenarios have a frame of
an older generation).

| Theorem | Statement | Argument |
|---|---|---|
| `LatestDurableProofs!TypeCorrect` | `[]TypeOK` | inductive as it stands |
| `…!RevisionsSafe`, `EpochsUnambiguous` | `[](EntryOrdered /\ NewestNotLost /\ EpochNamesOneValue)` and its last part by itself | for each key a step is one of a few entry steps (`EveryStepIsEntryStep`); each of them preserves the three together (`EntryStepSafe`) |
| `…!ProjectionImplementsRegister` | `Spec => Register!Spec`, also with `DupFailures` | strengthened by `Provenance`: no revision is retained, running or stored that was not accepted; with the facts above and below an upsert maps to `Accept` or a stutter, a write of a worker to `Store`, an acknowledgement to `Report`, and every other step to a stutter |
| `…!FrontierMonotone` | `FrontierAdvances` | from the same entry steps |
| `…!FrontierIsStored` | `[]FrontierStored` | strengthened by: an `applied` reply names an epoch the storage has reached |
| `…!OneEffectPerKey` | `[](SingleFlight /\ SlotHeldWhileWorking)` if failures are delivered once | strengthened by: a claim is running or has one reply, and a current reply names the slot of its own attempt or is already durable (`SlotInv`) |
| `…!NothingIsStuck` | `[]NothingStuck`: an accepted revision is durable, or its key can be claimed, is being written, or has an answer under way | `NewestNotLost`, and: what is in flight is of the current generation and is run by a worker or named by a reply (`SlotsTended`) |
| `…!SettledKeysHoldTheNewest` | when nothing is desired or in flight, the storage holds the newest revision ever accepted for the key, and the frontier names it | `NewestNotLost` puts every accepted epoch under the frontier, `FrontierStored` the frontier under the storage, and `Provenance` makes what is stored an accepted revision |
| `BoundaryIngressProofs!TypeCorrect`, `ProjectionsFaithful`, `BuffersSound` | `[]TypeOK`, `[]ProjectionFaithful`, `[]BufferSound` | inductive together, with two facts about what the adapter cannot see (`Inv`): the producer's states follow from its events (`ProducerOK`), and an adapter without a generation has neither cursor nor buffer (`Detached`). `BufferSound` includes that the phase tells the gap (`PhaseTellsGap`). Draining a run of buffered events retraces the producer's steps (`DrainedIs`) |
| `…!ReceiptsKeepTheirFrontier`, `ChangesArePublished` | `ReceiptFrontier`, `EveryChangePublished` | action properties, one case per operation, from `TypeOK` |
| `…!HeadSnapshotRecovers` | a snapshot of the producer's head leaves the adapter settled at the head, whatever was buffered | `InstallStep` gives a cursor not before the head; published events lie not behind it, so nothing stays buffered and `PhaseTellsGap` excludes the rest; with `NotAhead`, by which the snapshot is not stale |
| `RevisionBarrierProofs!TypeCorrect` | `[]TypeOK` | with the next |
| `…!WakeupNotLost` | `[]NoLostWakeup` | inductive with `TypeOK`: a step is a wake generation, resolves the waiter, or leaves what it knows of the source |
| `…!OnlySatisfiedTruly`, `ResultLatched`, `CancelledInTime` | `SatisfiedTruly`, `TerminalLatched`, `DeadlineDominates` | action properties, from the same case split under the invariant |
| `…!WaiterIsNotHeldUp` | while the source is ready, a registered pending waiter has the waking note under way until a step resolves it; a poll past the deadline resolves it | `NoLostWakeup`, and one case per operation |
| `StdlibTimersProofs!TypeCorrect`, `DurationsRespected` | `[]TypeOK`, `[]DurationRespected` | a primitive that did not overflow has the asked deadline, and its last reading lies on the side its status says (`OnItsSide`) |
| `…!ExpiryExact` | a pending primitive expires at a reading exactly when the duration asked has gone by, whatever its probes say; a reading at the end of the clock leaves none pending; the first result stands | action property from the same invariant: what is pending was last read no later than its deadline, so a reading that is ignored is not due |
| `CommandPlaneProofs!TypeCorrect` | `[]TypeOK` | part of the invariant below |
| `…!ResolvedAsDecided`, `NoConflictUncancelled` | `[]ResolvedTruly`, `[]ConflictNeedsCancel` | asked of every image in the log as of the observer (`Sound`); published frames at the current generation carry the decision (`Honest`); `step` keeps a sound projection sound on honest frames |
| `…!ResultsKept` | `ResultKept` | what `step` keeps of a typed projection (`StepKeeps`) |
| `…!ReplaysAreNoOps`, `ReceiptsCommute` | a frame folded again at once changes nothing, and once the call is resolved, or the frame was a terminal receipt, it changes nothing after any other frames either; receipts fold to the same projection in either order, and so do a terminal receipt and a progress event | facts about the reducer for every projection and frame, not of `Spec`: a frame that is not ignored replaces the status by `NextStatus` (`StepIs`), and `Absorbed` is kept by every frame. docs/message-passing.md:66 calls a replay a no-op; section 7 names the progress frame for which it is not |
| `…!ReplaysStayNoOps` | the same after any sequence of frames | `Absorbed` along the sequence (`FoldStays`) |
| `…!CallsResolveByReceipts` | a waiting call resolves exactly by the terminal receipts and cancels of its generation; without a cancel it ends as they all say, or conflicted when they disagree | what the run has seen up to an index decides the status there (`FoldRun`, `ReceiptResolves`) |
| `…!ObserversAgree` | two observers of a waiting command that got the same terminal receipts, in any order and number and among any other frames but cancels, resolve alike | from the theorem before |
| `…!ReconnectEquivalence` | between two images that one controller made, folding the frames equals taking the later image; `Spec => []ReplayIsReconnect` | the log grows at its end, each image the fold of the one before (`ChainGrows`, `ChainedFold`). docs/message-passing.md states it without the condition on the controller; no frame carries a handoff |
| `…!RecordedReplay` | `[]ScenariosReplay` | the run of each scenario is written out (`RecordedFrames`) and compared frame by frame with what is recorded (`FramesDo`, `ScenarioIs`) |
| `…!ResolutionIsLasting` | a terminal authority stays terminal, and a reconnect to it resolves the call | every image is the fold of the one before (`FoldedImage`), and `StepKeeps` |
| `CoreEvidenceProofs!TypeCorrect` | `[]TypeOK` | one lemma per helper |
| `…!InheritsNothing` | `[]NothingInherited` | strengthened by: accepted artifacts are new, fresh files are new once a marker exists, and every file of the binding under way is new after the check, except the proof being made |
| `…!NothingSkipped` | `[]NotVacuous` | strengthened by `Progress`: bindings behind the loop's index are examined or skipped, and of the binding at it what the stage has passed is accepted |
| `…!AcceptedIsRetained` | `[]RetainedIsAccepted` | strengthened by `Retained`: while nothing else writes, every accepted artifact is still the one in its file, and what the run may yet write is not accepted yet |
| `WireModelProofs!TypeCorrect` | `[]TypeOK` | with the origin of the variant |
| `…!BuilderImplementsClosure` | `Spec => Closure!Spec` | every name asked for is taken, still to be emitted, or queued at or past the loop's index (`Closed`), so nothing is left when the loop ends; each step maps to a step of `DeclaredClosure` or a stutter |
| `…!BuiltSurfaceIsClosed` | a built surface has taken up exactly the names asked for | a fact about `DeclaredClosure` alone (`ClosureCloses`), carried over by the refinement |
| `…!ReferencesMeanTheirTargets`, `OnlyNamesakesAreMissing` | `[]RefMeansItsTarget`, `[]OnlyNamesakesFallOut` | references and declarations are tied to the documents they come from (`Meant`), and a name that both documents define never resolves into the shared one |
| `…!BuildDescends` | every step goes down the order of phase, local definitions left, queued ones passed, and the walk of the declaration in progress | a queued name differs from all passed ones since none is queued twice (`Distinct`); a walk drops an expression or reads one alias more, up to `MaxInline` |
| `WireCodecProofs!MeaningsKept`, `RelaysDeliver` | `[]MeaningKept`, `[]RelayDelivers` | what a codec does to a value is decided by its depth and the word at its bottom: `DecodeIs` says so of every decoder. From it, a conforming frame is read by every binding that supports the field, but for the exceptions the property names, and is encoded as the same value (`ConformingIsRead`, `ConformingIsKept`), and bytes that Go wrote as text are refused by all (`TextIsRefused`); `Inv` carries this along the relay |
| `…!AcceptedFramesConform`, `EmittedFramesConform` | `[]AcceptedConforms`, `[]EmitsConforming` | `DecodedConforms`, and from what a binding may hold (`HeldIs`) `EncodedConforms`, one case per binding, with the exceptions each property names |
| `…!FixturesMet` | `[]FixtureExpectationsMet` | every wire value of the two corpora conforms, so the lemmas above say how it is read and written back |

The strengthenings are needed because the properties speak of one moment (the
end of a run, the observer's projection, a frontier, a built surface) while what
makes them true was established earlier, in a message, an image, a file or a
queue.

Some facts need induction along a sequence: `ProjectionFaithful` along the run of
events that is drained at once, the theorems about `fold` along the frames. It is
done without an induction schema: if the fact failed somewhere along the sequence
there would be a least index where it does (`Least`, from the well-foundedness of
strict subset on finite sets), and the index before refutes it. That the recursive
function behind `fold` exists is shown in the same way, by extending a run of it
(`FoldRun`).

Every invariant and every action property of the runs is a theorem. Only
model-checked are the six liveness properties (`EventuallyDurable`, `Recovers`,
`EventuallyWoken`, `EventuallyResolved`, `CallEventuallyResolves`, `BuildEnds`):
fairness and `ENABLED` are out of the prover's reach. Of each the safety part is
proved, which leaves only scheduling to the model checker: `NothingIsStuck`,
`HeadSnapshotRecovers`, `WaiterIsNotHeldUp`, `ExpiryExact`, `ResolutionIsLasting` and
`BuildDescends` say that something remains to be done and that doing it helps.

## 7. Where code and text disagree

With a run that shows it:

- **A confirmed cancel shows as a conflict** (`command_plane_conflict`;
  conformance/message-passing/cancel_preempts_nonterminal.json:5).
- **A restored report survives a failing command** and is accepted by a later run
  (`core_evidence_stale`; README.md:207-208).
- **A definition falls out of the surface** when an inline enum took its name first,
  and an inline enum with other values under a taken name is not declared
  (`wire_falls_out`; `scripts/wire_codegen.py:15`, docs/wire-codegen.md:276).
  `OnlyNamesakesFallOut` says that nothing else does.

Met while modelling, without a run: a repeated failure report cancels the retry
of the same epoch, and a second effect starts beside it
(docs/durable-sinks.md:148; `SingleFlight` holds when failures are delivered once,
`DupFailures = TRUE` shows the rest); a refused ingress event is forgotten when
the gap behind it closes (docs/transport-ingress.md:261); a barrier's
`register_recheck` tests no deadline, and a regressed clock reading is stored as
the result of a barrier or a timeout (docs/stdlib.md:23-25); a late snapshot
moves the ingress cursor back (docs/transport-ingress.md:254); a replayed progress
frame moves a command's non-terminal status back, and a resync with an older
image un-resolves a call (docs/message-passing.md:66, 70-71); claims of one report
may share an evidence file; a process that outlives a timed-out command writes
into the next run's directory (comment at `scripts/check-core-evidence.mjs:202`).
Of the generated codecs: Python's code lacks the helper of a u64 that stands
behind an alias in a list, a nullable or a variant's own payload (`PyHelperMissing`);
Go's code for an optional list in a surface with a union does not compile, though
the renderer accepts it, because `unmarshal_body` decodes the list into `v` and
`decode` each item into a `v` of its own (`GoDoesNotCompile`;
`scripts/wire_codegen.py:1325` with 1252-1262); Go
writes bytes in lists and optional fields as base64 text and negative ids where
its check does not look (`EmitsConforming` names the places); some decoders take
more than the schema (`AcceptedConforms` names which). Of the builder: a nullable
alias of `defs.json` is replaced by what it stands for where it is met, so that a
local reference inside it is resolved in the schema if it is met there
(`scripts/wire_codegen.py:137-140`) and means a definition of the schema of the same
name; `RefMeansItsTarget` speaks of the document a reference was resolved in and
does not see this. Aliases that lead to each other end in a `RecursionError`, which
`BuildEnds` counts as an end, where docs/wire-codegen.md:274-276 has every shape that
cannot be lowered end in an `UnsupportedSchema`.

## 8. What is not modelled

- Decision functions without their machine: the Lean files on deltas, replication
  and stability decide one delta, cursor or map at a time and prove what they
  decide. The link, the crash and the membership are in the bindings. The same
  holds of the durable owner, whose recorded images the test checks.
- Gates of one pass that keep nothing and whose checks do not depend on each
  other: the cohort verifier, the profile registry, corpus floors, coverage
  claims, the SQLite registry, CI reach, witness checks over one document, name and
  key checks. A model would repeat each check as its own property. Fixture
  mirrors and coverage tables also write, each file by itself.
- Scanners over sources of other repositories, generators of constant documents,
  schema tests, workflows; the bindings' runtimes, and families described in
  prose only.
- In `CommandPlane`: payloads, hashes and several commands at once, which do not
  affect each other.
- In `CoreEvidence`: diagnostics, the comparison of a report with the profile (one
  refusal that may happen), path containment and the self-test.
- In the wire code generator: the driver (reading, `--check`, `--write`), digests and
  the layout of the generated text, Rust's positional (postcard) codec, references
  to records and unions inside a field, tags, Kotlin's refusals for the length of
  a line, names of fields that collide with the generated code's own, one field's
  effect on whether the code of its neighbours compiles; of the fixture generators the MessagePack bytes and checksums.
