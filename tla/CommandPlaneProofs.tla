------------------------ MODULE CommandPlaneProofs -------------------------
(***************************************************************************)
(* Theorems about CommandPlane, for every number of generations and of     *)
(* frames.  What makes ResolvedTruly and ConflictNeedsCancel inductive is  *)
(* to ask of every image in the authority's log what they ask of the       *)
(* observer, and of every published frame that it is not ahead of the      *)
(* authority and that a terminal receipt at the authority's generation     *)
(* carries the authority's decision.                                       *)
(***************************************************************************)
EXTENDS CommandFixtures, TLAPS, FiniteSetTheorems, WellFoundedInduction

Outcomes == {"applied", "rejected"}

\* A projection that holds the command, or none of it.
Typed(s) ==
  /\ s \in CmdState /\ s.generation \in 0 .. MaxGen /\ s.status \in CommandStatus
  /\ (s.status = "absent") <=> (s.generation = 0)

\* What a projection at generation gen may report when the authority decided
\* dec and the frames N are published.
Sound(s, gen, dec, N) ==
  s.generation = gen =>
    /\ s.status \in Outcomes => dec = s.status
    /\ s.status \in {"cancelled", "conflicted"} => \E f \in N : f.kind = "cancel"

\* A frame that misleads no projection at generation gen.
Honest(f, gen, dec, N) ==
  /\ f.kind = "receipt" /\ f.generation = gen /\ f.outcome \in Outcomes => dec = f.outcome
  /\ f.kind = "cancel" => f \in N

LEMMA InputFields ==
  ASSUME NEW f \in Input
  PROVE  /\ f.generation \in Generations
         /\ f.kind \in {"submit", "cancel", "progress", "receipt"}
         /\ f.kind = "receipt" => f.outcome \in ReceiptOutcome
         /\ f.kind = "progress" => f.event \in EventKind
  BY DEF Input

\* The reducer keeps projections typed and sound.
LEMMA StepSound ==
  ASSUME NEW s, Typed(s), NEW f \in Input, NEW gen \in Generations,
         NEW dec, NEW N, Sound(s, gen, dec, N), Honest(f, gen, dec, N)
  PROVE  /\ Typed(step(s, f))
         /\ Sound(step(s, f), gen, dec, N)
<1> USE InputFields, ConstantsAssumption
<1>1. CASE f.kind = "submit"
  <2>1. step(s, f) = submit(s, f)
    BY <1>1 DEF step
  <2>2. CASE s.status = "absent"
    BY <2>1, <2>2 DEF submit, Typed, Sound, CmdState, CommandStatus, Generations, Outcomes
  <2>3. CASE s.status # "absent"
    BY <2>1, <2>3 DEF submit
  <2> QED
    BY <2>2, <2>3
<1>2. CASE f.kind = "progress"
  <2>1. step(s, f) = progress(s, f)
    BY <1>2 DEF step
  <2>2. progressStatus(f.event) \in {"running", "accepted"}
    BY DEF progressStatus
  <2> QED
    BY <2>1, <2>2 DEF progress, InGeneration, Typed, Sound, CmdState, CommandStatus, Outcomes
<1>3. CASE f.kind = "cancel"
  <2>1. step(s, f) = cancel(s, f)
    BY <1>3 DEF step
  <2>2. \E g \in N : g.kind = "cancel"
    BY <1>3 DEF Honest
  <2> QED
    BY <2>1, <2>2 DEF cancel, InGeneration, Typed, Sound, CmdState, CommandStatus, Outcomes
<1>4. CASE f.kind = "receipt"
  <2>1. step(s, f) = receipt(s, f)
    BY <1>4 DEF step
  <2>2. CASE InGeneration(s, f)
    <3> DEFINE incoming == terminalStatusOf(f.outcome)
               new == ReceiptStatus(s.status, incoming)
    <3>1. step(s, f) = [s EXCEPT !.status = new]
      BY <2>1, <2>2 DEF receipt
    <3>2. incoming \in {"applied", "rejected", "accepted"}
      BY DEF terminalStatusOf
    <3>3. new \in {s.status, incoming, "conflicted"} /\ new # "absent"
      BY <2>2, <3>2 DEF ReceiptStatus, isTerminal, InGeneration
    <3>4. Typed(step(s, f))
      BY <2>2, <3>1, <3>2, <3>3 DEF Typed, CmdState, CommandStatus, InGeneration
    <3>5. ASSUME s.generation = gen
          PROVE  /\ new \in Outcomes => dec = new
                 /\ new \in {"cancelled", "conflicted"} => \E g \in N : g.kind = "cancel"
      <4>1. incoming \in Outcomes => dec = incoming
        BY <1>4, <2>2, <3>5 DEF Honest, InGeneration, terminalStatusOf, Outcomes
      <4>2. s.status \in Outcomes => dec = s.status
        BY <3>5 DEF Sound
      <4>3. s.status \in {"cancelled", "conflicted"} => \E g \in N : g.kind = "cancel"
        BY <3>5 DEF Sound
      <4>4. new = "conflicted" => s.status \in {"cancelled", "conflicted"}
        BY <3>2, <4>1, <4>2 DEF ReceiptStatus, isTerminal, Outcomes
      <4> QED
        BY <3>2, <3>3, <4>1, <4>2, <4>3, <4>4 DEF Outcomes
    <3>6. step(s, f).generation = s.generation /\ step(s, f).status = new
      BY <3>1 DEF Typed, CmdState
    <3> QED
      BY <3>4, <3>5, <3>6 DEF Sound
  <2>3. CASE ~InGeneration(s, f)
    BY <2>1, <2>3 DEF receipt
  <2> QED
    BY <2>2, <2>3
<1> QED
  BY <1>1, <1>2, <1>3, <1>4

\* What a frame may do to a terminal or submitted projection.
LEMMA StepKeeps ==
  ASSUME NEW s, Typed(s), NEW f \in Input
  PROVE  /\ callResolved(s) => callResolved(step(s, f))
         /\ s.status = "applied" => step(s, f).status \in {"applied", "conflicted"}
         /\ s.status # "absent" => step(s, f).generation = s.generation
<1> USE InputFields
<1>1. CASE f.kind = "submit"
  BY <1>1 DEF step, submit, callResolved, isTerminal
<1>2. CASE f.kind = "progress"
  <2>1. step(s, f) = progress(s, f)
    BY <1>2 DEF step
  <2> QED
    BY <2>1 DEF progress, callResolved, isTerminal, Typed, CmdState
<1>3. CASE f.kind = "cancel"
  <2>1. step(s, f) = cancel(s, f)
    BY <1>3 DEF step
  <2> QED
    BY <2>1 DEF cancel, callResolved, isTerminal, Typed, CmdState
<1>4. CASE f.kind = "receipt"
  <2> DEFINE incoming == terminalStatusOf(f.outcome)
             new == ReceiptStatus(s.status, incoming)
  <2>1. step(s, f) = IF InGeneration(s, f) THEN [s EXCEPT !.status = new] ELSE s
    BY <1>4 DEF step, receipt
  <2>2. incoming \in {"applied", "rejected", "accepted"}
    BY DEF terminalStatusOf
  <2>3. isTerminal(s.status) => new \in {s.status, "conflicted"}
    BY <2>2 DEF ReceiptStatus, isTerminal
  <2>4. InGeneration(s, f) => step(s, f).status = new /\ step(s, f).generation = s.generation
    BY <2>1 DEF Typed, CmdState
  <2> QED
    BY <2>1, <2>3, <2>4 DEF callResolved, isTerminal
<1> QED
  BY <1>1, <1>2, <1>3, <1>4

-----------------------------------------------------------------------------

\* Frames are never ahead of the authority, and honest at its generation.
FramesHonest ==
  \A f \in net : f.generation <= current /\ Honest(f, current, decided, net)

\* The log holds the command; its last image is at the authority's generation;
\* nothing is published before the submit.
LogSound ==
  /\ log \in Seq([frame : Input \cup [kind : {"handoff"}, generation : Generations],
                  image : CmdState])
  /\ \A i \in DOMAIN log : /\ Typed(log[i].image) /\ log[i].image.status # "absent"
                           /\ log[i].image.generation <= current
                           /\ Sound(log[i].image, current, decided, net)
  /\ log # <<>> => Image.generation = current
  /\ net # {} => log # <<>>

Inv ==
  /\ TypeOK /\ Typed(state) /\ state.generation <= current
  /\ FramesHonest /\ LogSound
  /\ Sound(state, current, decided, net)

\* Initially nothing is published, decided or projected.
LEMMA InitInv == Init => Inv
<1> SUFFICES ASSUME Init PROVE Inv
  OBVIOUS
<1>1. state = [generation |-> 0, status |-> "absent"] /\ net = {} /\ log = <<>>
      /\ current = 1 /\ decided = "none"
  BY DEF Init, initial
<1>2. Typed(state) /\ 0 \in 0 .. MaxGen /\ 1 \in Generations
  BY <1>1, ConstantsAssumption DEF Typed, CmdState, CommandStatus, Generations
<1>3. TypeOK
  BY <1>1, <1>2 DEF TypeOK, Typed
<1>4. FramesHonest /\ Sound(state, current, decided, net) /\ state.generation <= current
  BY <1>1 DEF FramesHonest, Sound
<1>5. LogSound
  BY <1>1 DEF LogSound
<1> QED
  BY <1>2, <1>3, <1>4, <1>5 DEF Inv

\* Every frame the observer can be given is honest: a deposed controller's is of
\* an earlier generation.
LEMMA PublishedHonest ==
  ASSUME Inv, NEW f \in Published
  PROVE  f \in Input /\ Honest(f, current, decided, net)
<1>1. CASE f \in net
  BY <1>1 DEF Inv, TypeOK, FramesHonest
<1>2. CASE f \notin net
  BY <1>2, InputFields DEF Published, Honest, Inv, TypeOK, Generations
<1> QED
  BY <1>1, <1>2

\* More frames and a decision after none take nothing from a sound projection.
LEMMA SoundMonotone ==
  ASSUME NEW s, NEW gen, NEW dec, NEW N, Sound(s, gen, dec, N),
         NEW dec2, dec2 = dec \/ dec = "none", NEW N2, N \subseteq N2
  PROVE  Sound(s, gen, dec2, N2)
  BY DEF Sound, Outcomes

\* One more entry in the log.
LEMMA LogEntry ==
  ASSUME Inv, NEW e, log' = Append(log, e),
         e \in [frame : Input \cup [kind : {"handoff"}, generation : Generations],
                image : CmdState]
  PROVE  /\ log' \in Seq([frame : Input \cup [kind : {"handoff"}, generation : Generations],
                          image : CmdState])
         /\ log' # <<>> /\ Image' = e.image
         /\ \A i \in DOMAIN log' : log'[i] = e \/ (i \in DOMAIN log /\ log'[i] = log[i])
<1> DEFINE E == [frame : Input \cup [kind : {"handoff"}, generation : Generations],
                 image : CmdState]
<1>1. log \in Seq(E) /\ e \in E
  BY DEF Inv, LogSound
<1> HIDE DEF E
<1>2. /\ log' \in Seq(E) /\ Len(log') = Len(log) + 1 /\ Len(log) \in Nat
      /\ log'[Len(log')] = e /\ DOMAIN log' = 1 .. Len(log) + 1 /\ DOMAIN log = 1 .. Len(log)
      /\ \A i \in 1 .. Len(log) : log'[i] = log[i]
  BY <1>1
<1>3. log' # <<>>
  BY <1>2
<1>4. Image' = e.image
  BY <1>2, <1>3 DEF Image
<1>5. ASSUME NEW i \in DOMAIN log', i \notin DOMAIN log PROVE log'[i] = e
  <2>1. i = Len(log')
    BY <1>2, <1>5
  <2> QED
    BY <1>2, <2>1
<1> QED
  BY <1>2, <1>3, <1>4, <1>5 DEF E

\* The authority's projection is typed and sound, with or without the command.
LEMMA ImageSound ==
  ASSUME Inv
  PROVE  /\ Typed(Image) /\ Sound(Image, current, decided, net)
         /\ log # <<>> => Image.generation = current /\ Image.status # "absent"
<1>1. CASE log = <<>>
  <2>1. Image = [generation |-> 0, status |-> "absent"]
    BY <1>1 DEF Image, initial
  <2> QED
    BY <1>1, <2>1, ConstantsAssumption DEF Typed, Sound, CmdState, CommandStatus, Outcomes
<1>2. CASE log # <<>>
  <2>1. Len(log) \in DOMAIN log /\ Image = log[Len(log)].image
    BY <1>2 DEF Inv, LogSound, Image
  <2> QED
    BY <1>2, <2>1 DEF Inv, LogSound
<1> QED
  BY <1>1, <1>2

\* The authority folds a frame of its generation, perhaps deciding.
LEMMA FoldsEffect ==
  ASSUME Inv, NEW f \in Input, Folds(f), f.generation = current, current' = current,
         decided' \in {"none", "applied", "rejected"},
         decided' = decided \/ decided = "none",
         f.kind = "receipt" /\ f.outcome \in Outcomes => decided' = f.outcome,
         log # <<>> \/ f.kind = "submit"
  PROVE  Inv'
<1> DEFINE e == [frame |-> f, image |-> step(Image, f)]
<1>1. log' = Append(log, e) /\ net' = net \cup {f} /\ state' = state
  BY DEF Folds
<1>2. Honest(f, current, decided', net')
  BY <1>1 DEF Honest
<1>3. current \in Generations /\ f \in Input
  BY DEF Inv, TypeOK
<1>4. Typed(Image) /\ Sound(Image, current, decided', net')
  BY <1>1, ImageSound, SoundMonotone
<1>5. Typed(e.image) /\ Sound(e.image, current, decided', net')
  BY <1>2, <1>3, <1>4, StepSound
<1>6. e.image.generation = current
  <2>1. CASE log # <<>>
    BY <2>1, <1>4, ImageSound, StepKeeps
  <2>2. CASE log = <<>>
    <3>1. f.kind = "submit" /\ Image = initial
      BY <2>2 DEF Image
    <3> QED
      BY <3>1 DEF step, submit, initial
  <2> QED
    BY <2>1, <2>2
<1>7. e.image.status # "absent"
  BY <1>3, <1>5, <1>6 DEF Typed, Generations
<1>8. e \in [frame : Input \cup [kind : {"handoff"}, generation : Generations],
             image : CmdState]
  BY <1>5 DEF Typed
<1> HIDE DEF e
<1>9. LogSound'
  <2>1. ASSUME NEW i \in DOMAIN log'
        PROVE  /\ Typed(log'[i].image) /\ log'[i].image.status # "absent"
               /\ log'[i].image.generation <= current'
               /\ Sound(log'[i].image, current', decided', net')
    <3>1. CASE log'[i] = e
      BY <1>3, <1>5, <1>6, <1>7, <3>1 DEF Generations
    <3>2. CASE i \in DOMAIN log /\ log'[i] = log[i]
      BY <1>1, <3>2, SoundMonotone DEF Inv, LogSound
    <3> QED
      BY <1>1, <1>8, <3>1, <3>2, LogEntry
  <2> QED
    BY <1>1, <1>6, <1>8, <2>1, LogEntry DEF LogSound
<1>10. FramesHonest'
  <2>1. ASSUME NEW g \in net PROVE g.generation <= current /\ Honest(g, current, decided', net')
    BY <1>1 DEF Inv, FramesHonest, Honest, Outcomes
  <2>2. f.generation <= current
    BY <1>3, ConstantsAssumption DEF Generations
  <2> QED
    BY <1>1, <1>2, <2>1, <2>2 DEF FramesHonest
<1>11. Typed(state') /\ state'.generation <= current' /\ Sound(state', current', decided', net')
  BY <1>1, SoundMonotone DEF Inv
<1>12. TypeOK'
  BY <1>1, <1>3, <1>9, <1>11 DEF Inv, TypeOK, Typed, LogSound
<1> QED
  BY <1>9, <1>10, <1>11, <1>12 DEF Inv

-----------------------------------------------------------------------------

\* The steps, one by one.
LEMMA DeliverStep ==
  ASSUME Inv, NEW f \in Input, Deliver(f)
  PROVE  Inv' /\ OnlyReconnectReplaces
<1>1. /\ f \in Published /\ state' = step(state, f)
      /\ net' = net /\ log' = log /\ current' = current /\ decided' = decided
  BY DEF Deliver
<1>2. Honest(f, current, decided, net) /\ current \in Generations
  BY <1>1, PublishedHonest DEF Inv, TypeOK
<1>3. Typed(state') /\ Sound(state', current, decided, net)
  BY <1>1, <1>2, StepSound DEF Inv
<1>4. /\ callResolved(state) => callResolved(state')
      /\ state.status = "applied" => state'.status \in {"applied", "conflicted"}
      /\ state.status # "absent" => state'.generation = state.generation
  BY <1>1, StepKeeps DEF Inv
<1>5. state'.generation <= current
  <2>1. CASE state.status # "absent"
    BY <1>4, <2>1 DEF Inv
  <2>2. CASE state.status = "absent"
    <3>1. state'.generation \in {state.generation, f.generation}
      BY <1>1, <2>2, InputFields
         DEF step, submit, progress, receipt, cancel, InGeneration
    <3>2. f.generation <= current
      BY <1>1 DEF Published, Inv, FramesHonest, Generations, TypeOK, Input
    <3> QED
      BY <3>1, <3>2 DEF Inv
  <2> QED
    BY <2>1, <2>2
<1>6. FramesHonest' /\ LogSound'
  BY <1>1 DEF Inv, FramesHonest, LogSound, Image
<1>7. TypeOK'
  BY <1>1, <1>3 DEF Inv, TypeOK, Typed
<1> QED
  BY <1>1, <1>3, <1>4, <1>5, <1>6, <1>7 DEF Inv, OnlyReconnectReplaces

LEMMA ReconnectStep ==
  ASSUME Inv, NEW i \in DOMAIN log, Reconnect(i)
  PROVE  Inv' /\ OnlyReconnectReplaces
<1>1. /\ state' = log[i].image
      /\ net' = net /\ log' = log /\ current' = current /\ decided' = decided
  BY DEF Reconnect, resync
<1>2. FramesHonest' /\ LogSound'
  BY <1>1 DEF Inv, FramesHonest, LogSound, Image
<1>3. Typed(state') /\ state'.generation <= current' /\ Sound(state', current', decided', net')
  BY <1>1 DEF Inv, LogSound
<1>4. TypeOK'
  BY <1>1, <1>3 DEF Inv, TypeOK, Typed
<1> QED
  BY <1>1, <1>2, <1>3, <1>4 DEF Inv, OnlyReconnectReplaces

LEMMA SendCancelStep ==
  ASSUME Inv, NEW g \in 1 .. current, SendCancel(g)
  PROVE  Inv'
<1> DEFINE f == [kind |-> "cancel", generation |-> g]
<1>1. /\ net' = net \cup {f} /\ state' = state /\ log' = log
      /\ current' = current /\ decided' = decided
  BY DEF SendCancel
<1>2. f \in Input /\ f.generation <= current /\ f.kind = "cancel"
  BY ConstantsAssumption DEF Inv, TypeOK, Generations, Input
<1> HIDE DEF f
<1>3. FramesHonest'
  BY <1>1, <1>2 DEF Inv, FramesHonest, Honest
<1>4. LogSound'
  <2>1. \A i \in DOMAIN log : Sound(log[i].image, current, decided, net')
    BY <1>1, SoundMonotone DEF Inv, LogSound
  <2>2. log # <<>>
    BY DEF SendCancel
  <2> QED
    BY <1>1, <2>1, <2>2 DEF Inv, LogSound, Image
<1>5. Sound(state', current', decided', net')
  BY <1>1, SoundMonotone DEF Inv
<1>6. TypeOK'
  BY <1>1, <1>2 DEF Inv, TypeOK
<1> QED
  BY <1>1, <1>3, <1>4, <1>5, <1>6 DEF Inv

LEMMA HandoffStep ==
  ASSUME Inv, Handoff
  PROVE  Inv'
<1> DEFINE e == [frame |-> [kind |-> "handoff", generation |-> current + 1],
                 image |-> [Image EXCEPT !.generation = current + 1]]
<1>1. /\ log # <<>> /\ log' = Append(log, e) /\ current' = current + 1
      /\ net' = net /\ state' = state /\ decided' = decided /\ current < MaxGen
  BY DEF Handoff
<1>2. current \in Generations /\ current' \in Generations
  BY <1>1, ConstantsAssumption DEF Inv, TypeOK, Generations
<1>3. /\ Typed(Image) /\ Sound(Image, current, decided, net)
      /\ Image.generation = current /\ Image.status # "absent"
  BY <1>1, ImageSound
<1>4. e.image.generation = current + 1 /\ e.image.status = Image.status /\ e.image \in CmdState
  <2>1. current + 1 \in 0 .. MaxGen
    BY <1>1, <1>2 DEF Generations
  <2>2. Image \in CmdState
    BY <1>3 DEF Typed
  <2> QED
    BY <2>1, <2>2 DEF CmdState
<1>5. /\ Typed(e.image) /\ e.image.status # "absent"
      /\ Sound(e.image, current', decided', net')
  BY <1>1, <1>2, <1>3, <1>4 DEF Typed, Sound, Generations
<1>6. e \in [frame : Input \cup [kind : {"handoff"}, generation : Generations],
             image : CmdState]
  BY <1>1, <1>2, <1>4
<1>7. ASSUME NEW s, s.generation \in Int, s.generation <= current
      PROVE  Sound(s, current', decided', net')
  BY <1>1, <1>2, <1>7 DEF Sound, Generations
<1> HIDE DEF e
<1>8. LogSound'
  <2>1. ASSUME NEW i \in DOMAIN log'
        PROVE  /\ Typed(log'[i].image) /\ log'[i].image.status # "absent"
               /\ log'[i].image.generation <= current'
               /\ Sound(log'[i].image, current', decided', net')
    <3>1. CASE log'[i] = e
      BY <1>1, <1>2, <1>4, <1>5, <3>1 DEF Generations
    <3>2. CASE i \in DOMAIN log /\ log'[i] = log[i]
      <4>1. /\ Typed(log[i].image) /\ log[i].image.status # "absent"
            /\ log[i].image.generation <= current
        BY <3>2 DEF Inv, LogSound
      <4>2. log[i].image.generation \in Int
        BY <4>1 DEF Typed
      <4> QED
        BY <1>1, <1>2, <1>7, <3>2, <4>1, <4>2 DEF Generations
    <3> QED
      BY <1>1, <1>6, <3>1, <3>2, LogEntry
  <2> QED
    BY <1>1, <1>4, <1>6, <2>1, LogEntry DEF LogSound
<1>9. FramesHonest'
  <2>1. ASSUME NEW f \in net
        PROVE  f.generation <= current' /\ Honest(f, current', decided', net')
    <3>1. f \in Input /\ f.generation <= current /\ Honest(f, current, decided, net)
      BY DEF Inv, TypeOK, FramesHonest
    <3>2. f.generation \in Generations
      BY <3>1, InputFields
    <3> QED
      BY <1>1, <1>2, <3>1, <3>2 DEF Honest, Generations
  <2> QED
    BY <1>1, <2>1 DEF FramesHonest
<1>10. state.generation \in Int /\ state.generation <= current /\ Typed(state)
  BY DEF Inv, Typed
<1>11. Typed(state') /\ state'.generation <= current' /\ Sound(state', current', decided', net')
  BY <1>1, <1>2, <1>7, <1>10 DEF Generations
<1>12. TypeOK'
  BY <1>1, <1>2, <1>8, <1>11 DEF Inv, TypeOK, Typed, LogSound
<1> QED
  BY <1>8, <1>9, <1>11, <1>12 DEF Inv

\* Every step keeps the invariant, and only a reconnect replaces a result.
LEMMA NextStep ==
  ASSUME Inv, [Next]_vars
  PROVE  Inv' /\ (state' = state \/ OnlyReconnectReplaces)
<1> USE DEF Outcomes
<1>0. current \in Generations /\ decided \in {"none", "applied", "rejected"}
  BY DEF Inv, TypeOK
<1>1. ASSUME NEW f \in Input, Deliver(f) PROVE Inv' /\ OnlyReconnectReplaces
  BY <1>1, DeliverStep
<1>2. ASSUME NEW i \in DOMAIN log, Reconnect(i) PROVE Inv' /\ OnlyReconnectReplaces
  BY <1>2, ReconnectStep
<1>3. CASE Submit
  <2>1. [kind |-> "submit", generation |-> current] \in Input
    BY <1>0 DEF Input
  <2> QED
    BY <1>0, <1>3, <2>1, FoldsEffect DEF Submit, Folds
<1>4. ASSUME NEW g \in 1 .. current, SendCancel(g) PROVE Inv' /\ state' = state
  BY <1>4, SendCancelStep DEF SendCancel
<1>5. CASE TakeCancel
  <2>1. PICK f \in net : f.kind = "cancel" /\ f.generation = current /\ Folds(f)
    BY <1>5 DEF TakeCancel
  <2>2. f \in Input /\ log # <<>>
    BY <2>1 DEF Inv, TypeOK, LogSound
  <2> QED
    BY <1>0, <1>5, <2>1, <2>2, FoldsEffect DEF TakeCancel, Folds
<1>6. ASSUME NEW event \in EventKind, Progress(event) PROVE Inv' /\ state' = state
  <2>1. [kind |-> "progress", generation |-> current, event |-> event] \in Input
    BY <1>0 DEF Input
  <2> QED
    BY <1>0, <1>6, <2>1, FoldsEffect DEF Progress, Folds
<1>7. ASSUME NEW outcome \in ReceiptOutcome, Report(outcome) PROVE Inv' /\ state' = state
  <2>1. ReceiptOf(outcome) \in Input
    BY <1>0 DEF Input, ReceiptOf
  <2>2. ReceiptOf(outcome).outcome = outcome /\ ReceiptOf(outcome).generation = current
    BY DEF ReceiptOf
  <2> QED
    BY <1>0, <1>7, <2>1, <2>2, FoldsEffect DEF Report, Folds, ReceiptOf
<1>8. CASE Handoff
  BY <1>8, HandoffStep DEF Handoff
<1>9. CASE UNCHANGED vars
  BY <1>9 DEF vars, Inv, TypeOK, FramesHonest, LogSound, Image
<1> QED
  BY <1>1, <1>2, <1>3, <1>4, <1>5, <1>6, <1>7, <1>8, <1>9 DEF Next

LEMMA InvHolds == Spec => []Inv
<1>1. Inv /\ [Next]_vars => Inv'
  BY NextStep
<1> QED
  BY InitInv, <1>1, PTL DEF Spec

\* The projection, the frames and the authority's images keep their types, and
\* only a projection without the command has no generation (step, resync).
THEOREM TypeCorrect == Spec => []TypeOK
<1>1. Inv => TypeOK
  BY DEF Inv
<1> QED
  BY InvHolds, <1>1, PTL

\* Whatever is lost, repeated, reordered or published by deposed controllers, an
\* observer at the authority's generation reports only what it decided.
THEOREM ResolvedAsDecided == Spec => []ResolvedTruly
<1>1. Inv => ResolvedTruly
  BY DEF Inv, Sound, ResolvedTruly, Outcomes
<1> QED
  BY InvHolds, <1>1, PTL

\* Without a cancel, an observer at the authority's generation sees no conflict.
THEOREM NoConflictUncancelled == Spec => []ConflictNeedsCancel
<1>1. Inv => ConflictNeedsCancel
  BY DEF Inv, Sound, ConflictNeedsCancel
<1> QED
  BY InvHolds, <1>1, PTL

\* Only a reconnect takes a terminal result back or changes the generation.
THEOREM ResultsKept == Spec => ResultKept
<1>1. Inv /\ [Next]_vars => [OnlyReconnectReplaces]_vars
  <2>1. ASSUME Inv, [Next]_vars, state' = state PROVE OnlyReconnectReplaces
    BY <2>1 DEF OnlyReconnectReplaces, Inv, Typed
  <2> QED
    BY <2>1, NextStep
<1> QED
  BY InvHolds, <1>1, PTL DEF Spec, ResultKept

-----------------------------------------------------------------------------
(* Repeated and reordered frames *)

\* A frame that is not ignored keeps the generation and sets the status.
NextStatus(status, f) ==
  CASE f.kind = "submit"   -> status
    [] f.kind = "progress" -> IF isTerminal(status) THEN status ELSE progressStatus(f.event)
    [] f.kind = "receipt"  -> ReceiptStatus(status, terminalStatusOf(f.outcome))
    [] f.kind = "cancel"   -> IF isTerminal(status) THEN status ELSE "cancelled"

LEMMA StepIs ==
  ASSUME NEW s \in CmdState, s.status # "absent", NEW f \in Input
  PROVE  /\ step(s, f) = IF InGeneration(s, f)
                         THEN [generation |-> s.generation, status |-> NextStatus(s.status, f)]
                         ELSE s
         /\ NextStatus(s.status, f) \in CommandStatus \ {"absent"}
<1>1. /\ s = [generation |-> s.generation, status |-> s.status]
      /\ s.status \in CommandStatus
      /\ \A st : [s EXCEPT !.status = st] = [generation |-> s.generation, status |-> st]
  BY DEF CmdState
<1>2. f.kind \in {"submit", "cancel", "progress", "receipt"}
  BY InputFields
<1>3. step(s, f) = IF InGeneration(s, f)
                   THEN [generation |-> s.generation, status |-> NextStatus(s.status, f)]
                   ELSE s
  <2>1. CASE f.kind = "submit"
    BY <1>1, <2>1 DEF step, submit, NextStatus
  <2>2. CASE f.kind = "progress"
    BY <1>1, <2>2 DEF step, progress, NextStatus
  <2>3. CASE f.kind = "receipt"
    BY <1>1, <2>3 DEF step, receipt, NextStatus
  <2>4. CASE f.kind = "cancel"
    BY <1>1, <2>4 DEF step, cancel, NextStatus
  <2> QED
    BY <1>2, <2>1, <2>2, <2>3, <2>4
<1>4. NextStatus(s.status, f) \in CommandStatus \ {"absent"}
  <2>1. progressStatus(f.event) \in {"running", "accepted"}
    BY DEF progressStatus
  <2>2. terminalStatusOf(f.outcome) \in {"applied", "rejected", "accepted"}
    BY DEF terminalStatusOf
  <2>3. ReceiptStatus(s.status, terminalStatusOf(f.outcome))
          \in {s.status, terminalStatusOf(f.outcome), "conflicted"}
    BY <2>2 DEF ReceiptStatus, isTerminal
  <2> QED
    BY <1>1, <1>2, <2>1, <2>2, <2>3 DEF NextStatus, CommandStatus
<1> QED
  BY <1>3, <1>4

\* A frame has been absorbed by a projection that can no longer be changed by it.
Absorbed(s, f) ==
  /\ s.generation = f.generation
  /\ CASE f.kind = "receipt" /\ f.outcome \in Outcomes -> s.status \in {f.outcome, "conflicted"}
       [] OTHER -> callResolved(s)

\* docs/message-passing.md calls a replayed frame a no-op.  So it is right away,
\* for every frame and projection (step); and once the call is resolved, a frame
\* that was taken stays a no-op however many others come between, while a
\* terminal receipt that was taken is a no-op from then on.
THEOREM ReplaysAreNoOps ==
  ASSUME NEW s \in CmdState, NEW f \in Input, NEW g \in Input
  PROVE  /\ step(step(s, f), f) = step(s, f)
         /\ InGeneration(s, f) /\ callResolved(step(s, f)) => Absorbed(step(s, f), f)
         /\ s.status # "absent" /\ Absorbed(s, f) => /\ step(s, f) = s
                                                     /\ Absorbed(step(s, g), f)
<1>1. \A st, o : /\ o \in Outcomes => ReceiptStatus(st, o) \in {o, "conflicted"}
                 /\ o \in Outcomes /\ st \in {o, "conflicted"} => ReceiptStatus(st, o) = st
                 /\ isTerminal(st) => ReceiptStatus(st, "accepted") = st
                 /\ ~isTerminal(st) => ReceiptStatus(st, "accepted") = "accepted"
  BY DEF ReceiptStatus, isTerminal, Outcomes
<1>2. /\ f.outcome \in Outcomes => terminalStatusOf(f.outcome) = f.outcome
      /\ f.outcome \notin Outcomes => terminalStatusOf(f.outcome) = "accepted"
      /\ progressStatus(f.event) \in {"running", "accepted"}
  BY DEF terminalStatusOf, progressStatus, Outcomes
<1>3. f.kind \in {"submit", "cancel", "progress", "receipt"}
  BY InputFields
\* The status that f leaves is one that f leaves alone.
<1>4. ASSUME NEW st
      PROVE  /\ NextStatus(NextStatus(st, f), f) = NextStatus(st, f)
             /\ f.kind = "receipt" /\ f.outcome \in Outcomes
                  => NextStatus(st, f) \in {f.outcome, "conflicted"}
             /\ f.kind = "receipt" /\ f.outcome \in Outcomes /\ st \in {f.outcome, "conflicted"}
                  => NextStatus(st, f) = st
             /\ ~(f.kind = "receipt" /\ f.outcome \in Outcomes) /\ isTerminal(st)
                  => NextStatus(st, f) = st
  <2>1. CASE f.kind = "receipt"
    <3>1. NextStatus(st, f) = ReceiptStatus(st, terminalStatusOf(f.outcome))
          /\ NextStatus(NextStatus(st, f), f) = ReceiptStatus(NextStatus(st, f), terminalStatusOf(f.outcome))
      BY <2>1 DEF NextStatus
    <3>2. ~isTerminal("accepted")
      BY DEF isTerminal
    <3> QED
      BY <1>1, <1>2, <2>1, <3>1, <3>2
  <2>2. CASE f.kind # "receipt"
    BY <1>2, <1>3, <2>2 DEF NextStatus, isTerminal
  <2> QED
    BY <2>1, <2>2
<1>5. step(step(s, f), f) = step(s, f)
  <2>1. CASE s.status = "absent"
    <3>1. f.kind # "submit" => step(s, f) = s
      BY <1>3, <2>1 DEF step, progress, receipt, cancel, InGeneration
    <3>2. f.kind = "submit" => step(s, f).status = "submitted"
      BY <2>1 DEF step, submit
    <3>3. f.kind = "submit" => step(step(s, f), f) = step(s, f)
      BY <3>2 DEF step, submit
    <3> QED
      BY <3>1, <3>3
  <2>2. CASE s.status # "absent" /\ InGeneration(s, f)
    <3> DEFINE t == [generation |-> s.generation, status |-> NextStatus(s.status, f)]
    <3>1. step(s, f) = t /\ t \in CmdState /\ t.status # "absent" /\ InGeneration(t, f)
      BY <2>2, StepIs DEF CmdState, InGeneration
    <3>2. step(t, f) = [generation |-> s.generation, status |-> NextStatus(NextStatus(s.status, f), f)]
      BY <3>1, StepIs
    <3> QED
      BY <1>4, <3>1, <3>2
  <2>3. CASE s.status # "absent" /\ ~InGeneration(s, f)
    BY <2>3, StepIs
  <2> QED
    BY <2>1, <2>2, <2>3
<1>6. ASSUME InGeneration(s, f), callResolved(step(s, f)) PROVE Absorbed(step(s, f), f)
  <2>1. step(s, f).status = NextStatus(s.status, f) /\ step(s, f).generation = f.generation
    BY <1>6, StepIs DEF InGeneration
  <2> QED
    BY <1>4, <1>6, <2>1 DEF Absorbed
<1>7. ASSUME s.status # "absent", Absorbed(s, f)
      PROVE  step(s, f) = s /\ Absorbed(step(s, g), f)
  <2>1. InGeneration(s, f) /\ s = [generation |-> s.generation, status |-> s.status]
    BY <1>7 DEF Absorbed, InGeneration, CmdState
  <2>2. NextStatus(s.status, f) = s.status /\ isTerminal(s.status)
    BY <1>4, <1>7 DEF Absorbed, callResolved, isTerminal, Outcomes
  <2>3. step(s, f) = s
    BY <1>7, <2>1, <2>2, StepIs
  <2>4. Absorbed(step(s, g), f)
    <3>1. /\ step(s, g).generation = s.generation
          /\ step(s, g).status \in {s.status, NextStatus(s.status, g)}
      BY <1>7, StepIs
    <3>2. NextStatus(s.status, g) \in {s.status, "conflicted"}
      <4>1. g.kind \in {"submit", "cancel", "progress", "receipt"}
            /\ terminalStatusOf(g.outcome) \in {"applied", "rejected", "accepted"}
        BY InputFields DEF terminalStatusOf
      <4>2. ReceiptStatus(s.status, terminalStatusOf(g.outcome)) \in {s.status, "conflicted"}
        BY <2>2, <4>1 DEF ReceiptStatus, isTerminal
      <4> QED
        BY <2>2, <4>1, <4>2 DEF NextStatus
    <3> QED
      BY <1>7, <3>1, <3>2 DEF Absorbed, callResolved, isTerminal
  <2> QED
    BY <2>3, <2>4
<1> QED
  BY <1>5, <1>6, <1>7

\* The order in which two receipts arrive does not matter, whatever they say and
\* whoever sent them, nor that of a terminal receipt and a progress event: the
\* reducer ends in the same projection (step).
THEOREM ReceiptsCommute ==
  ASSUME NEW s \in CmdState, NEW f \in Input, NEW g \in Input, f.kind = "receipt",
         g.kind = "receipt" \/ (g.kind = "progress" /\ f.outcome \in Outcomes)
  PROVE  step(step(s, f), g) = step(step(s, g), f)
<1>1. CASE s.status = "absent"
  BY <1>1 DEF step, receipt, progress, InGeneration
<1>2. CASE s.status # "absent"
  <2>1. \A t \in CmdState, h \in Input : t.status # "absent" /\ ~InGeneration(t, h) => step(t, h) = t
    BY StepIs
  <2>2. ASSUME NEW h \in Input
        PROVE  /\ step(s, h) \in CmdState /\ step(s, h).status # "absent"
               /\ step(s, h).generation = s.generation
    BY <1>2, StepIs DEF CmdState
  <2>3. CASE ~InGeneration(s, f) \/ ~InGeneration(s, g)
    BY <1>2, <2>1, <2>2, <2>3 DEF InGeneration
  <2>4. CASE InGeneration(s, f) /\ InGeneration(s, g)
    <3>1. \A h, i \in {f, g} : step(step(s, h), i) =
            [generation |-> s.generation, status |-> NextStatus(NextStatus(s.status, h), i)]
      <4> SUFFICES ASSUME NEW h \in {f, g}, NEW i \in {f, g}
                   PROVE  step(step(s, h), i) =
                     [generation |-> s.generation, status |-> NextStatus(NextStatus(s.status, h), i)]
        OBVIOUS
      <4>1. h \in Input /\ i \in Input /\ InGeneration(s, h) /\ InGeneration(s, i)
        BY <2>4
      <4>2. step(s, h) = [generation |-> s.generation, status |-> NextStatus(s.status, h)]
        BY <1>2, <4>1, StepIs
      <4>3. InGeneration(step(s, h), i)
        BY <2>2, <4>1 DEF InGeneration
      <4> QED
        BY <2>2, <4>1, <4>2, <4>3, StepIs
    <3>2. NextStatus(NextStatus(s.status, f), g) = NextStatus(NextStatus(s.status, g), f)
      <4>1. terminalStatusOf(f.outcome) \in {"applied", "rejected", "accepted"}
            /\ terminalStatusOf(g.outcome) \in {"applied", "rejected", "accepted"}
        BY DEF terminalStatusOf
      <4>2. CASE g.kind = "receipt"
        <5>1. \A st, a, b : a \in {"applied", "rejected", "accepted"}
                              /\ b \in {"applied", "rejected", "accepted"}
                => ReceiptStatus(ReceiptStatus(st, a), b) = ReceiptStatus(ReceiptStatus(st, b), a)
          BY DEF ReceiptStatus, isTerminal
        <5> QED
          BY <4>1, <4>2, <5>1 DEF NextStatus
      <4>3. CASE g.kind = "progress" /\ f.outcome \in Outcomes
        <5>1. terminalStatusOf(f.outcome) \in Outcomes
              /\ progressStatus(g.event) \in {"running", "accepted"}
          BY <4>3 DEF terminalStatusOf, progressStatus, Outcomes
        <5> QED
          BY <4>3, <5>1 DEF NextStatus, ReceiptStatus, isTerminal, Outcomes
      <4> QED
        BY <4>2, <4>3
    <3> QED
      BY <3>1, <3>2
  <2> QED
    BY <2>3, <2>4
<1> QED
  BY <1>1, <1>2
-----------------------------------------------------------------------------
(* Resolution *)

\* The authority's projection after it folded a frame, and after a handoff.
LEMMA FoldedImage ==
  ASSUME Inv, NEW f \in Input, Folds(f) PROVE Image' = step(Image, f)
<1>1. /\ log \in Seq([frame : Input \cup [kind : {"handoff"}, generation : Generations],
                      image : CmdState])
      /\ log' = Append(log, [frame |-> f, image |-> step(Image, f)])
  BY DEF Inv, LogSound, Folds
<1> HIDE DEF Image
<1>2. /\ log' # <<>> /\ log'[Len(log')] = [frame |-> f, image |-> step(Image, f)]
  BY <1>1
<1> QED
  BY <1>2 DEF Image

LEMMA HandedOverImage ==
  ASSUME Inv, Handoff PROVE Image'.status = Image.status
<1>1. /\ log \in Seq([frame : Input \cup [kind : {"handoff"}, generation : Generations],
                      image : CmdState])
      /\ log' = Append(log, [frame |-> [kind |-> "handoff", generation |-> current + 1],
                             image |-> [Image EXCEPT !.generation = current + 1]])
  BY DEF Inv, LogSound, Handoff
<1>2. log' # <<>> /\ log'[Len(log')].image = [Image EXCEPT !.generation = current + 1]
  BY <1>1
<1>3. Image' = [Image EXCEPT !.generation = current + 1]
  BY <1>2 DEF Image
<1>4. Image \in CmdState
  BY ImageSound DEF Typed
<1> QED
  BY <1>3, <1>4 DEF CmdState

\* What the fairness of CallEventuallyResolves has to work with: once the
\* authority's own projection is terminal, no frame it still folds and no handoff
\* takes that back (step), so a reconnect to the latest image resolves the call
\* (resync).
ResolutionStands ==
  callResolved(Image) =>
    /\ callResolved(Image')
    /\ ReconnectsToLatest => callResolved(state')

THEOREM ResolutionIsLasting == Spec => [][ResolutionStands]_vars
<1>1. ASSUME Inv, [Next]_vars, callResolved(Image) PROVE callResolved(Image')
  <2>1. current \in Generations
    BY <1>1 DEF Inv, TypeOK
  <2>2. Typed(Image)
    BY <1>1, ImageSound
  <2>3. ASSUME NEW f \in Input, Folds(f) PROVE callResolved(Image')
    <3>1. Image' = step(Image, f)
      BY <1>1, <2>3, FoldedImage
    <3> QED
      BY <1>1, <2>2, <3>1, StepKeeps
  <2>4. CASE Submit
    <3>1. [kind |-> "submit", generation |-> current] \in Input
      BY <2>1 DEF Input
    <3> QED
      BY <2>3, <2>4, <3>1 DEF Submit
  <2>5. CASE TakeCancel
    BY <1>1, <2>3, <2>5 DEF TakeCancel, Inv, TypeOK
  <2>6. ASSUME NEW event \in EventKind, Progress(event) PROVE callResolved(Image')
    <3>1. [kind |-> "progress", generation |-> current, event |-> event] \in Input
      BY <2>1 DEF Input
    <3> QED
      BY <2>3, <2>6, <3>1 DEF Progress
  <2>7. ASSUME NEW outcome \in ReceiptOutcome, Report(outcome) PROVE callResolved(Image')
    <3>1. ReceiptOf(outcome) \in Input
      BY <2>1 DEF Input, ReceiptOf
    <3> QED
      BY <2>3, <2>7, <3>1 DEF Report
  <2>8. CASE Handoff
    <3>1. Image'.status = Image.status
      BY <1>1, <2>8, HandedOverImage
    <3> QED
      BY <1>1, <3>1 DEF callResolved
  <2>9. CASE \/ \E f \in Input : Deliver(f)
             \/ \E i \in DOMAIN log : Reconnect(i)
             \/ \E g \in 1 .. current : SendCancel(g)
             \/ UNCHANGED vars
    <3>1. log' = log
      BY <2>9 DEF Deliver, Reconnect, SendCancel, vars
    <3> QED
      BY <1>1, <3>1 DEF Image
  <2> QED
    BY <1>1, <2>4, <2>5, <2>6, <2>7, <2>8, <2>9 DEF Next
<1>2. ReconnectsToLatest => state' = Image
  BY DEF ReconnectsToLatest, Reconnect, resync, Image
<1>3. Inv /\ [Next]_vars => ResolutionStands
  BY <1>1, <1>2 DEF ResolutionStands
<1> QED
  BY <1>3, InvHolds, PTL DEF Spec

-----------------------------------------------------------------------------
(* Folding a sequence of frames *)

LEMMA Least ==
  ASSUME NEW T \in SUBSET Nat, T # {} PROVE \E m \in T : \A y \in T : m <= y
<1> DEFINE Up == {1 .. y : y \in T}
<1>1. Up \subseteq FiniteSubsetsOf(Nat) /\ Up # {}
  <2>1. \A y \in T : y \in Int /\ 1 .. y \subseteq Nat
    OBVIOUS
  <2>2. \A y \in T : IsFiniteSet(1 .. y)
    BY <2>1, FS_Interval
  <2> QED
    BY <2>1, <2>2 DEF FiniteSubsetsOf
<1>2. PICK I \in Up : \A J \in Up : ~(<<J, I>> \in StrictSubsetOrdering(Nat))
  BY <1>1, FS_StrictSubsetOrderingWellFounded, WFMin
<1>3. PICK m \in T : I = 1 .. m
  OBVIOUS
<1>4. ASSUME NEW y \in T PROVE ~(y < m)
  <2>1. ~(<<1 .. y, 1 .. m>> \in StrictSubsetOrdering(Nat))
    BY <1>2, <1>3
  <2> QED
    BY <2>1 DEF StrictSubsetOrdering
<1> QED
  BY <1>3, <1>4

\* A set that contains 0 and with every m the next contains every index up to n:
\* induction along a sequence, from the least index that is missing.
LEMMA AlongSequence ==
  ASSUME NEW n \in Nat, NEW T, 0 \in T, \A m \in 1 .. n : m - 1 \in T => m \in T
  PROVE  0 .. n \subseteq T
<1> SUFFICES ASSUME NEW y \in 0 .. n, y \notin T PROVE FALSE
  OBVIOUS
<1> DEFINE Missing == {m \in 0 .. n : m \notin T}
<1>1. PICK m \in Missing : \A z \in Missing : m <= z
  <2>1. Missing \in SUBSET Nat /\ Missing # {}
    OBVIOUS
  <2> QED
    BY <2>1, Least
<1>2. m \in 1 .. n /\ m - 1 \in 0 .. n /\ ~(m <= m - 1)
  OBVIOUS
<1>3. m - 1 \in T
  BY <1>1, <1>2
<1> QED
  BY <1>1, <1>2, <1>3

\* fold passes through an image per frame, each a step from the one before.
LEMMA FoldRun ==
  ASSUME NEW s, NEW inputs, Len(inputs) \in Nat
  PROVE  \E image : /\ image[0] = s
                    /\ \A i \in 1 .. Len(inputs) : image[i] = step(image[i - 1], inputs[i])
                    /\ fold(s, inputs) = image[Len(inputs)]
<1> DEFINE Run(m, f) == [i \in 0 .. m |-> IF i = 0 THEN s ELSE step(f[i - 1], inputs[i])]
           n == Len(inputs)
           T == {m \in 0 .. n : \E f : f = Run(m, f)}
<1>1. 0 \in T
  <2>1. [i \in 0 .. 0 |-> s] = Run(0, [i \in 0 .. 0 |-> s])
    OBVIOUS
  <2>2. 0 \in 0 .. n
    OBVIOUS
  <2> HIDE DEF Run
  <2> QED
    BY <2>1, <2>2
<1>2. ASSUME NEW m \in 1 .. n, m - 1 \in T PROVE m \in T
  <2>1. PICK f : f = Run(m - 1, f)
    BY <1>2
  <2> DEFINE h == [i \in 0 .. m |-> IF i = m THEN step(f[m - 1], inputs[m]) ELSE f[i]]
  <2>2. m \in Nat /\ m # 0 /\ m - 1 \in 0 .. m /\ m - 1 # m
    OBVIOUS
  <2>3. \A i \in 0 .. m - 1 : i \in 0 .. m /\ i # m /\ h[i] = f[i]
    OBVIOUS
  <2>4. h[m] = step(h[m - 1], inputs[m])
    BY <2>2, <2>3
  <2>5. ASSUME NEW i \in 0 .. m
        PROVE  h[i] = IF i = 0 THEN s ELSE step(h[i - 1], inputs[i])
    <3>1. CASE i = m
      BY <2>2, <2>4, <3>1
    <3>2. CASE i # m
      <4>1. i \in 0 .. m - 1 /\ (i # 0 => i - 1 \in 0 .. m - 1)
        BY <3>2
      <4>2. f[i] = IF i = 0 THEN s ELSE step(f[i - 1], inputs[i])
        BY <2>1, <4>1
      <4> QED
        BY <2>3, <4>1, <4>2
    <3> QED
      BY <3>1, <3>2
  <2>6. h = Run(m, h)
    BY <2>5
  <2>7. m \in 0 .. n
    OBVIOUS
  <2> HIDE DEF Run, h
  <2> QED
    BY <2>6, <2>7
<1>3. n \in T
  <2> HIDE DEF T
  <2>1. 0 .. n \subseteq T
    BY <1>1, <1>2, AlongSequence
  <2> QED
    BY <2>1
<1> DEFINE g == CHOOSE f : f = Run(n, f)
<1>4. g = Run(n, g)
  BY <1>3
<1>5. fold(s, inputs) = g[n]
  BY DEF fold
<1> QED
  <2> HIDE DEF g
  <2>1. g[0] = s
    BY <1>4
  <2>2. ASSUME NEW i \in 1 .. n PROVE g[i] = step(g[i - 1], inputs[i])
    <3>1. i \in 0 .. n /\ i # 0
      OBVIOUS
    <3>2. g[i] = Run(n, g)[i]
      BY <1>4
    <3> QED
      BY <3>1, <3>2
  <2> QED
    BY <1>5, <2>1, <2>2

\* Projections that every frame of a sequence leads to each other keep the fold.
LEMMA FoldStays ==
  ASSUME NEW P, NEW s \in P, NEW inputs, Len(inputs) \in Nat,
         \A t \in P, i \in 1 .. Len(inputs) : step(t, inputs[i]) \in P
  PROVE  fold(s, inputs) \in P
<1>1. PICK image : /\ image[0] = s
                   /\ \A i \in 1 .. Len(inputs) : image[i] = step(image[i - 1], inputs[i])
                   /\ fold(s, inputs) = image[Len(inputs)]
  BY FoldRun
<1> DEFINE T == {m \in 0 .. Len(inputs) : image[m] \in P}
<1>2. 0 \in T
  BY <1>1
<1>3. \A m \in 1 .. Len(inputs) : m - 1 \in T => m \in T
  BY <1>1
<1>4. Len(inputs) \in T
  <2> HIDE DEF T
  <2>1. 0 .. Len(inputs) \subseteq T
    BY <1>2, <1>3, AlongSequence
  <2> QED
    BY <2>1
<1> QED
  BY <1>1, <1>4

\* Once the call is resolved it stays resolved, and a frame that was absorbed is a
\* no-op from then on, whatever sequence of frames is folded in between: what
\* ReplaysAreNoOps says of one frame, for any number of them (fold).
THEOREM ReplaysStayNoOps ==
  ASSUME NEW s \in CmdState, s.status # "absent", NEW f \in Input, NEW inputs \in Seq(Input),
         Absorbed(s, f)
  PROVE  /\ callResolved(fold(s, inputs))
         /\ step(fold(s, inputs), f) = fold(s, inputs)
<1> DEFINE P == {t \in CmdState : t.status # "absent" /\ Absorbed(t, f)}
<1>1. ASSUME NEW t \in P, NEW g \in Input PROVE step(t, g) \in P
  <2>1. Absorbed(step(t, g), f)
    BY ReplaysAreNoOps
  <2>2. step(t, g) \in CmdState /\ step(t, g).status # "absent"
    BY StepIs DEF CmdState
  <2> QED
    BY <2>1, <2>2
<1>2. fold(s, inputs) \in P
  <2>1. s \in P /\ Len(inputs) \in Nat /\ \A i \in 1 .. Len(inputs) : inputs[i] \in Input
    OBVIOUS
  <2> HIDE DEF P
  <2> QED
    BY <1>1, <2>1, FoldStays
<1>3. ASSUME NEW t \in P PROVE callResolved(t) /\ step(t, f) = t
  <2>1. step(t, f) = t
    BY ReplaysAreNoOps
  <2>2. callResolved(t)
    BY DEF Absorbed, callResolved, isTerminal, Outcomes
  <2> QED
    BY <2>1, <2>2
<1> QED
  BY <1>2, <1>3

-----------------------------------------------------------------------------
(* What resolves a call *)

\* The terminal outcomes that the receipts of generation g among the inputs
\* report, and whether a cancel of that generation is among them.
TerminalReceipt(f, g) == f.kind = "receipt" /\ f.generation = g /\ f.outcome \in Outcomes
Reported(g, inputs) ==
  {inputs[i].outcome : i \in {j \in DOMAIN inputs : TerminalReceipt(inputs[j], g)}}

CancelOf(f, g) == f.kind = "cancel" /\ f.generation = g
Cancelled(g, inputs) == \E i \in DOMAIN inputs : CancelOf(inputs[i], g)

\* What a projection at generation g shows after the outcomes got were reported.
ResolvedBy(t, g, got, cancelled) ==
  /\ t.generation = g
  /\ callResolved(t) <=> (got # {} \/ cancelled)
  /\ ~cancelled => /\ \A o \in Outcomes : (t.status = o) <=> (got = {o})
                   /\ (t.status = "conflicted") <=> (got = Outcomes)

LEMMA ReceiptResolves ==
  ASSUME NEW t \in CmdState, t.status # "absent", NEW f \in Input, NEW g,
         NEW got \in SUBSET Outcomes, NEW cancelled \in BOOLEAN, ResolvedBy(t, g, got, cancelled)
  PROVE  /\ TerminalReceipt(f, g) => ResolvedBy(step(t, f), g, got \cup {f.outcome}, cancelled)
         /\ CancelOf(f, g) => ResolvedBy(step(t, f), g, got, TRUE)
         /\ ~TerminalReceipt(f, g) /\ ~CancelOf(f, g)
              => ResolvedBy(step(t, f), g, got, cancelled)
<1>1. t.generation = g /\ t.status \in CommandStatus
  BY DEF ResolvedBy, CmdState
<1>2. CASE ~InGeneration(t, f)
  BY <1>1, <1>2, StepIs DEF InGeneration, TerminalReceipt, CancelOf
<1>3. CASE InGeneration(t, f)
  <2>1. /\ step(t, f).generation = g /\ f.generation = g
        /\ step(t, f).status = NextStatus(t.status, f)
    BY <1>1, <1>3, StepIs DEF InGeneration
  <2>2. CASE f.kind = "receipt"
    <3>1. NextStatus(t.status, f) = ReceiptStatus(t.status, terminalStatusOf(f.outcome))
      BY <2>2 DEF NextStatus
    <3>2. CASE f.outcome \in Outcomes
      <4>1. terminalStatusOf(f.outcome) = f.outcome
        BY <3>2 DEF terminalStatusOf, Outcomes
      <4>2. NextStatus(t.status, f) =
              IF isTerminal(t.status) /\ t.status # f.outcome THEN "conflicted" ELSE f.outcome
        BY <3>1, <3>2, <4>1 DEF ReceiptStatus, isTerminal, Outcomes
      <4>3. callResolved(step(t, f))
        BY <2>1, <3>2, <4>2 DEF callResolved, isTerminal, Outcomes
      <4>4. ASSUME ~cancelled
            PROVE  /\ \A o \in Outcomes : (step(t, f).status = o) <=> (got \cup {f.outcome} = {o})
                   /\ (step(t, f).status = "conflicted") <=> (got \cup {f.outcome} = Outcomes)
        <5>1. got \in {{}, {"applied"}, {"rejected"}, {"applied", "rejected"}}
          BY DEF Outcomes
        <5>2. CASE f.outcome = "applied"
          BY <2>1, <4>2, <4>4, <5>1, <5>2 DEF ResolvedBy, callResolved, isTerminal, Outcomes
        <5>3. CASE f.outcome = "rejected"
          BY <2>1, <4>2, <4>4, <5>1, <5>3 DEF ResolvedBy, callResolved, isTerminal, Outcomes
        <5> QED
          BY <3>2, <5>2, <5>3 DEF Outcomes
      <4>5. ~CancelOf(f, g) /\ TerminalReceipt(f, g)
        BY <2>1, <2>2, <3>2 DEF CancelOf, TerminalReceipt
      <4> QED
        BY <2>1, <4>3, <4>4, <4>5 DEF ResolvedBy
    <3>3. CASE f.outcome \notin Outcomes
      <4>1. NextStatus(t.status, f) = IF isTerminal(t.status) THEN t.status ELSE "accepted"
        BY <3>1, <3>3 DEF terminalStatusOf, ReceiptStatus, isTerminal, Outcomes
      <4>2. ~CancelOf(f, g) /\ ~TerminalReceipt(f, g)
        BY <2>2, <3>3 DEF CancelOf, TerminalReceipt
      <4> QED
        BY <2>1, <4>1, <4>2 DEF ResolvedBy, callResolved, isTerminal, Outcomes
    <3> QED
      BY <3>2, <3>3
  <2>3. CASE f.kind = "cancel"
    <3>1. NextStatus(t.status, f) = IF isTerminal(t.status) THEN t.status ELSE "cancelled"
      BY <2>3 DEF NextStatus
    <3> QED
      BY <2>1, <2>3, <3>1
         DEF ResolvedBy, callResolved, isTerminal, CancelOf, TerminalReceipt
  <2>4. CASE f.kind \in {"submit", "progress"}
    <3>1. /\ isTerminal(t.status) => NextStatus(t.status, f) = t.status
          /\ ~isTerminal(t.status) => NextStatus(t.status, f) \in {t.status, "running", "accepted"}
      BY <2>4 DEF NextStatus, progressStatus
    <3> QED
      BY <2>1, <2>4, <3>1
         DEF ResolvedBy, callResolved, isTerminal, CancelOf, TerminalReceipt, Outcomes
  <2> QED
    BY <2>2, <2>3, <2>4, InputFields
<1> QED
  BY <1>2, <1>3

\* A call that is waiting resolves exactly by the terminal receipts and the cancels
\* of its own generation (docs/message-passing.md: no acknowledgement, admission or
\* queued event resolves a call), and without a cancel it ends as applied or
\* rejected when its receipts all say so, and conflicted when they disagree: for
\* every sequence of frames (fold).
THEOREM CallsResolveByReceipts ==
  ASSUME NEW s \in CmdState, s.status # "absent", ~callResolved(s), NEW inputs \in Seq(Input)
  PROVE  /\ fold(s, inputs) \in CmdState
         /\ ResolvedBy(fold(s, inputs), s.generation, Reported(s.generation, inputs),
                       Cancelled(s.generation, inputs))
<1> DEFINE n == Len(inputs)
           g == s.generation
           got(m) == {inputs[i].outcome : i \in {j \in 1 .. m : TerminalReceipt(inputs[j], g)}}
           cancelled(m) == \E i \in 1 .. m : CancelOf(inputs[i], g)
<1>1. PICK image : /\ image[0] = s
                   /\ \A i \in 1 .. n : image[i] = step(image[i - 1], inputs[i])
                   /\ fold(s, inputs) = image[n]
  BY FoldRun
<1> DEFINE T == {m \in 0 .. n : /\ image[m] \in CmdState /\ image[m].status # "absent"
                                /\ ResolvedBy(image[m], g, got(m), cancelled(m))}
<1>2. 0 \in T
  <2>1. got(0) = {} /\ ~cancelled(0) /\ 0 \in 0 .. n
    OBVIOUS
  <2>2. ResolvedBy(s, g, {}, FALSE)
    BY DEF ResolvedBy, callResolved, isTerminal, Outcomes
  <2> QED
    BY <1>1, <2>1, <2>2
<1>3. ASSUME NEW m \in 1 .. n, m - 1 \in T PROVE m \in T
  <2> DEFINE t == image[m - 1]
             f == inputs[m]
  <2>1. /\ t \in CmdState /\ t.status # "absent" /\ f \in Input
        /\ ResolvedBy(t, g, got(m - 1), cancelled(m - 1)) /\ image[m] = step(t, f)
    <3>1. f \in Input /\ image[m] = step(t, f)
      BY <1>1
    <3> HIDE DEF got, cancelled
    <3>2. /\ t \in CmdState /\ t.status # "absent"
          /\ ResolvedBy(t, g, got(m - 1), cancelled(m - 1))
      BY <1>3
    <3> QED
      BY <3>1, <3>2
  <2>2. 1 .. m = (1 .. m - 1) \cup {m} /\ m \in 0 .. n
    OBVIOUS
  <2>3. got(m - 1) \in SUBSET Outcomes /\ cancelled(m - 1) \in BOOLEAN
    BY DEF TerminalReceipt
  <2>4. /\ TerminalReceipt(f, g) => got(m) = got(m - 1) \cup {f.outcome}
        /\ ~TerminalReceipt(f, g) => got(m) = got(m - 1)
    BY <2>2
  <2>5. /\ CancelOf(f, g) => cancelled(m) = TRUE
        /\ ~CancelOf(f, g) => cancelled(m) = cancelled(m - 1)
    BY <2>2
  <2>6. image[m] \in CmdState /\ image[m].status # "absent"
    BY <2>1, StepIs DEF CmdState
  <2>7. ~(TerminalReceipt(f, g) /\ CancelOf(f, g))
    BY DEF TerminalReceipt, CancelOf
  <2>8. ResolvedBy(step(t, f), g, got(m), cancelled(m))
    <3> HIDE DEF got, cancelled, t, f
    <3>1. CASE TerminalReceipt(f, g)
      BY <2>1, <2>3, <2>4, <2>5, <2>7, <3>1, ReceiptResolves
    <3>2. CASE CancelOf(f, g)
      BY <2>1, <2>3, <2>4, <2>5, <2>7, <3>2, ReceiptResolves
    <3>3. CASE ~TerminalReceipt(f, g) /\ ~CancelOf(f, g)
      BY <2>1, <2>3, <2>4, <2>5, <3>3, ReceiptResolves
    <3> QED
      BY <3>1, <3>2, <3>3
  <2> QED
    BY <2>1, <2>2, <2>6, <2>8
<1>4. n \in T
  <2>1. n \in Nat
    OBVIOUS
  <2> HIDE DEF T, n
  <2>2. 0 .. n \subseteq T
    BY <1>2, <1>3, <2>1, AlongSequence
  <2> QED
    BY <2>1, <2>2
<1>5. got(n) = Reported(g, inputs) /\ cancelled(n) = Cancelled(g, inputs)
  BY DEF Reported, Cancelled
<1> QED
  BY <1>1, <1>4, <1>5

\* Two observers of a waiting command that were given the same terminal receipts,
\* in any order, any number of times and among any other frames but cancels, show
\* the same result: a call resolves for both or for neither, and to the same
\* projection (fold).
THEOREM ObserversAgree ==
  ASSUME NEW s \in CmdState, s.status # "absent", ~callResolved(s),
         NEW a \in Seq(Input), NEW b \in Seq(Input),
         ~Cancelled(s.generation, a), ~Cancelled(s.generation, b),
         Reported(s.generation, a) = Reported(s.generation, b)
  PROVE  /\ callResolved(fold(s, a)) <=> callResolved(fold(s, b))
         /\ callResolved(fold(s, a)) => fold(s, a) = fold(s, b)
<1> DEFINE got == Reported(s.generation, a)
<1>1. /\ fold(s, a) \in CmdState /\ ResolvedBy(fold(s, a), s.generation, got, FALSE)
      /\ fold(s, b) \in CmdState /\ ResolvedBy(fold(s, b), s.generation, got, FALSE)
  <2>1. ASSUME NEW c \in {a, b}
        PROVE  fold(s, c) \in CmdState /\ ResolvedBy(fold(s, c), s.generation, got, FALSE)
    <3>1. Cancelled(s.generation, c) = FALSE /\ Reported(s.generation, c) = got /\ c \in Seq(Input)
      BY DEF Cancelled
    <3> QED
      BY <3>1, CallsResolveByReceipts
  <2> QED
    BY <2>1
<1>2. got \subseteq Outcomes
  BY DEF Reported, TerminalReceipt
<1>3. callResolved(fold(s, a)) <=> callResolved(fold(s, b))
  BY <1>1 DEF ResolvedBy
<1>4. ASSUME callResolved(fold(s, a)) PROVE fold(s, a).status = fold(s, b).status
  <2>1. got \in {{"applied"}, {"rejected"}, Outcomes}
    BY <1>1, <1>2, <1>4 DEF ResolvedBy, Outcomes
  <2> HIDE DEF got
  <2> QED
    BY <1>1, <2>1 DEF ResolvedBy, Outcomes
<1> QED
  BY <1>1, <1>3, <1>4 DEF CmdState, ResolvedBy

-----------------------------------------------------------------------------
(* The recorded scenarios *)

LEMMA AfterRun ==
  ASSUME NEW sc, NEW n \in Nat
  PROVE  \E image : /\ image[0] = sc.from
                    /\ \A i \in 1 .. n : image[i] = fold(image[i - 1], sc.frames[i])
                    /\ After(sc, n) = image[n]
<1> DEFINE Run(m, f) == [i \in 0 .. m |-> IF i = 0 THEN sc.from ELSE fold(f[i - 1], sc.frames[i])]
           T == {m \in 0 .. n : \E f : f = Run(m, f)}
<1>1. 0 \in T
  <2>1. [i \in 0 .. 0 |-> sc.from] = Run(0, [i \in 0 .. 0 |-> sc.from])
    OBVIOUS
  <2>2. 0 \in 0 .. n
    OBVIOUS
  <2> HIDE DEF Run
  <2> QED
    BY <2>1, <2>2
<1>2. ASSUME NEW m \in 1 .. n, m - 1 \in T PROVE m \in T
  <2>1. PICK f : f = Run(m - 1, f)
    BY <1>2
  <2> DEFINE h == [i \in 0 .. m |-> IF i = m THEN fold(f[m - 1], sc.frames[m]) ELSE f[i]]
  <2>2. m \in Nat /\ m # 0 /\ m - 1 \in 0 .. m /\ m - 1 # m
    OBVIOUS
  <2>3. \A i \in 0 .. m - 1 : i \in 0 .. m /\ i # m /\ h[i] = f[i]
    OBVIOUS
  <2>4. h[m] = fold(h[m - 1], sc.frames[m])
    BY <2>2, <2>3
  <2>5. ASSUME NEW i \in 0 .. m
        PROVE  h[i] = IF i = 0 THEN sc.from ELSE fold(h[i - 1], sc.frames[i])
    <3>1. CASE i = m
      BY <2>2, <2>4, <3>1
    <3>2. CASE i # m
      <4>1. i \in 0 .. m - 1 /\ (i # 0 => i - 1 \in 0 .. m - 1)
        BY <3>2
      <4>2. f[i] = IF i = 0 THEN sc.from ELSE fold(f[i - 1], sc.frames[i])
        BY <2>1, <4>1
      <4> QED
        BY <2>3, <4>1, <4>2
    <3> QED
      BY <3>1, <3>2
  <2>6. h = Run(m, h)
    BY <2>5
  <2>7. m \in 0 .. n
    OBVIOUS
  <2> HIDE DEF Run, h
  <2> QED
    BY <2>6, <2>7
<1>3. n \in T
  <2> HIDE DEF T
  <2>1. 0 .. n \subseteq T
    BY <1>1, <1>2, AlongSequence
  <2> QED
    BY <2>1
<1> DEFINE g == CHOOSE f : f = Run(n, f)
<1>4. g = Run(n, g)
  BY <1>3
<1>5. After(sc, n) = g[n]
  BY DEF After
<1> QED
  <2> HIDE DEF g
  <2>1. g[0] = sc.from
    BY <1>4
  <2>2. ASSUME NEW i \in 1 .. n PROVE g[i] = fold(g[i - 1], sc.frames[i])
    <3>1. i \in 0 .. n /\ i # 0
      OBVIOUS
    <3>2. g[i] = Run(n, g)[i]
      BY <1>4
    <3> QED
      BY <3>1, <3>2
  <2> QED
    BY <1>5, <2>1, <2>2

\* A scenario's next image is the fold of its next frame.
LEMMA AfterNext ==
  ASSUME NEW sc
  PROVE  /\ After(sc, 0) = sc.from
         /\ \A n \in Nat \ {0} : After(sc, n) = fold(After(sc, n - 1), sc.frames[n])
<1>1. After(sc, 0) = sc.from
  BY AfterRun
<1>2. ASSUME NEW n \in Nat \ {0} PROVE After(sc, n) = fold(After(sc, n - 1), sc.frames[n])
  <2>1. n - 1 \in Nat /\ n \in 1 .. n /\ n - 1 \in 0 .. n - 1
    OBVIOUS
  <2>2. PICK f : /\ f[0] = sc.from
                 /\ \A i \in 1 .. n : f[i] = fold(f[i - 1], sc.frames[i])
                 /\ After(sc, n) = f[n]
    BY AfterRun
  <2>3. PICK h : /\ h[0] = sc.from
                 /\ \A i \in 1 .. n - 1 : h[i] = fold(h[i - 1], sc.frames[i])
                 /\ After(sc, n - 1) = h[n - 1]
    BY <2>1, AfterRun
  <2> DEFINE T == {m \in 0 .. n - 1 : f[m] = h[m]}
  <2>4. 0 \in T
    BY <2>1, <2>2, <2>3
  <2>5. ASSUME NEW m \in 1 .. n - 1, m - 1 \in T PROVE m \in T
    <3>1. m \in 1 .. n /\ m \in 0 .. n - 1
      OBVIOUS
    <3> QED
      BY <2>2, <2>3, <2>5, <3>1
  <2>6. n - 1 \in T
    <3> HIDE DEF T
    <3> QED
      BY <2>1, <2>4, <2>5, AlongSequence
  <2> QED
    BY <2>1, <2>2, <2>3, <2>6
<1> QED
  BY <1>1, <1>2

LEMMA FoldShort ==
  ASSUME NEW s, NEW a
  PROVE  /\ fold(s, << >>) = s
         /\ fold(s, <<a>>) = step(s, a)
<1>1. fold(s, << >>) = s
  <2>1. Len(<< >>) = 0
    OBVIOUS
  <2> QED
    BY <2>1, FoldRun
<1>2. fold(s, <<a>>) = step(s, a)
  <2> DEFINE q == <<a>>
  <2>1. Len(q) = 1 /\ q[1] = a
    OBVIOUS
  <2> HIDE DEF q
  <2>2. PICK f : f[0] = s /\ (\A i \in 1 .. 1 : f[i] = step(f[i - 1], q[i])) /\ fold(s, q) = f[1]
    BY <2>1, FoldRun
  <2>3. f[1] = step(f[1 - 1], q[1]) /\ 1 - 1 = 0
    BY <2>2
  <2>4. fold(s, q) = step(s, a)
    BY <2>1, <2>2, <2>3
  <2> QED
    BY <2>4 DEF q
<1> QED
  BY <1>1, <1>2

LEMMA FoldThree ==
  ASSUME NEW s, NEW a, NEW b, NEW c
  PROVE  fold(s, <<a, b, c>>) = step(step(step(s, a), b), c)
<1> DEFINE q == <<a, b, c>>
<1>1. Len(q) = 3 /\ q[1] = a /\ q[2] = b /\ q[3] = c
  OBVIOUS
<1> HIDE DEF q
<1>2. PICK f : /\ f[0] = s
               /\ \A i \in 1 .. Len(q) : f[i] = step(f[i - 1], q[i])
               /\ fold(s, q) = f[Len(q)]
  <2>1. Len(q) \in Nat
    BY <1>1
  <2> QED
    BY <2>1, FoldRun
<1>3. /\ f[1] = step(f[1 - 1], q[1]) /\ 1 - 1 = 0
      /\ f[2] = step(f[2 - 1], q[2]) /\ 2 - 1 = 1
      /\ f[3] = step(f[3 - 1], q[3]) /\ 3 - 1 = 2
  BY <1>1, <1>2
<1>4. fold(s, q) = step(step(step(s, a), b), c)
  BY <1>1, <1>2, <1>3
<1> QED
  BY <1>4 DEF q

LEMMA StepCurrent ==
  ASSUME NEW st \in CommandStatus \ {"absent"}, NEW f \in Input
  PROVE  /\ entry(st, Current) \in CmdState
         /\ f.generation = Current => step(entry(st, Current), f) = entry(NextStatus(st, f), Current)
         /\ f.generation # Current => step(entry(st, Current), f) = entry(st, Current)
<1> DEFINE s == entry(st, Current)
<1>1. s \in CmdState /\ s.status = st /\ s.generation = Current /\ s.status # "absent"
  BY TwoGenerations, ConstantsAssumption DEF entry, CmdState, Current
<1> HIDE DEF s
<1>2. /\ f.generation = Current => step(s, f) = entry(NextStatus(st, f), Current)
      /\ f.generation # Current => step(s, f) = s
  BY <1>1, StepIs DEF InGeneration, entry
<1> QED
  BY <1>1, <1>2 DEF s

\* What each recorded frame does to an observer at the current generation.
LEMMA FramesDo ==
  ASSUME NEW st \in CommandStatus \ {"absent"}
  PROVE  /\ fold(initial, submitFrame) = entry("submitted", Current)
         /\ fold(entry(st, Current), submitFrame) = entry(st, Current)
         /\ fold(entry(st, Current), progressEvents)
              = entry(IF isTerminal(st) THEN st ELSE "running", Current)
         /\ \A o \in Outcomes :
              /\ fold(entry(st, Current), receiptsFrame(Current, o))
                   = entry(ReceiptStatus(st, o), Current)
              /\ fold(entry(st, Current), receiptsFrame(Older, o)) = entry(st, Current)
         /\ fold(entry(st, Current), eventsFrame(Older, <<"started">>)) = entry(st, Current)
         /\ fold(entry(st, Current), cancelFrame)
              = entry(IF isTerminal(st) THEN st ELSE "cancelled", Current)
<1>1. Current \in Generations /\ Older \in Generations /\ Older # Current
  BY TwoGenerations, ConstantsAssumption DEF Current, Older, Generations
<1> DEFINE submitted == [kind |-> "submit", generation |-> Current]
           cancelled == [kind |-> "cancel", generation |-> Current]
           event(g, k) == [kind |-> "progress", generation |-> g, event |-> k]
           report(g, o) == [kind |-> "receipt", generation |-> g, outcome |-> o]
<1>2. submitted \in Input /\ cancelled \in Input
  BY <1>1 DEF Input
<1>3. \A g \in Generations, k \in EventKind : event(g, k) \in Input
  BY DEF Input
<1>4. \A g \in Generations, o \in Outcomes : report(g, o) \in Input
  BY DEF Input, Outcomes, ReceiptOutcome
<1>5. fold(initial, submitFrame) = entry("submitted", Current)
  <2>1. step(initial, submitted) = entry("submitted", Current)
    BY DEF step, submit, initial, entry
  <2> QED
    BY <2>1, FoldShort DEF submitFrame
<1>6. fold(entry(st, Current), submitFrame) = entry(st, Current)
  <2>1. step(entry(st, Current), submitted) = entry(st, Current)
    BY <1>2, StepCurrent DEF NextStatus
  <2> QED
    BY <2>1, FoldShort DEF submitFrame
<1>7. fold(entry(st, Current), cancelFrame)
        = entry(IF isTerminal(st) THEN st ELSE "cancelled", Current)
  <2>1. step(entry(st, Current), cancelled)
          = entry(IF isTerminal(st) THEN st ELSE "cancelled", Current)
    BY <1>2, StepCurrent DEF NextStatus
  <2> QED
    BY <2>1, FoldShort DEF cancelFrame
<1>8. ASSUME NEW o \in Outcomes
      PROVE  /\ fold(entry(st, Current), receiptsFrame(Current, o))
                   = entry(ReceiptStatus(st, o), Current)
             /\ fold(entry(st, Current), receiptsFrame(Older, o)) = entry(st, Current)
  <2>1. terminalStatusOf(o) = o
    BY DEF terminalStatusOf, Outcomes
  <2>2. step(entry(st, Current), report(Current, o)) = entry(ReceiptStatus(st, o), Current)
    <3>1. NextStatus(st, report(Current, o)) = ReceiptStatus(st, o)
      BY <2>1 DEF NextStatus
    <3> QED
      BY <1>1, <1>4, <3>1, StepCurrent
  <2>3. step(entry(st, Current), report(Older, o)) = entry(st, Current)
    BY <1>1, <1>4, StepCurrent
  <2> QED
    BY <2>2, <2>3, FoldShort DEF receiptsFrame
<1>9. fold(entry(st, Current), eventsFrame(Older, <<"started">>)) = entry(st, Current)
  <2>1. step(entry(st, Current), event(Older, "started")) = entry(st, Current)
    BY <1>1, <1>3, StepCurrent DEF EventKind
  <2>2. eventsFrame(Older, <<"started">>) = <<event(Older, "started")>>
    BY DEF eventsFrame
  <2> QED
    BY <2>1, <2>2, FoldShort
<1>10. fold(entry(st, Current), progressEvents)
         = entry(IF isTerminal(st) THEN st ELSE "running", Current)
  <2>1. progressEvents = <<event(Current, "observed"), event(Current, "accepted"),
                           event(Current, "started")>>
    BY DEF progressEvents, eventsFrame
  <2>2. ASSUME NEW u \in CommandStatus \ {"absent"}, NEW k \in EventKind
        PROVE  step(entry(u, Current), event(Current, k))
                 = entry(IF isTerminal(u) THEN u ELSE progressStatus(k), Current)
    BY <1>1, <1>3, StepCurrent DEF NextStatus
  <2>3. /\ progressStatus("observed") = "accepted" /\ progressStatus("accepted") = "accepted"
        /\ progressStatus("started") = "running"
        /\ {"observed", "accepted", "started"} = EventKind
        /\ "accepted" \in CommandStatus \ {"absent"} /\ ~isTerminal("accepted")
    BY DEF progressStatus, EventKind, CommandStatus, isTerminal
  <2>4. step(step(step(entry(st, Current), event(Current, "observed")),
                  event(Current, "accepted")), event(Current, "started"))
          = entry(IF isTerminal(st) THEN st ELSE "running", Current)
    <3> HIDE DEF event
    <3>1. CASE isTerminal(st)
      BY <2>2, <2>3, <3>1
    <3>2. CASE ~isTerminal(st)
      BY <2>2, <2>3, <3>2
    <3> QED
      BY <3>1, <3>2
  <2>5. fold(entry(st, Current), progressEvents)
          = step(step(step(entry(st, Current), event(Current, "observed")),
                      event(Current, "accepted")), event(Current, "started"))
    <3>1. ASSUME NEW a, NEW b, NEW c
          PROVE  fold(entry(st, Current), <<a, b, c>>)
                   = step(step(step(entry(st, Current), a), b), c)
      BY FoldThree
    <3> HIDE DEF event
    <3> QED
      BY <2>1, <3>1
  <2> QED
    <3> HIDE DEF event
    <3> QED
      BY <2>4, <2>5
<1> QED
  BY <1>5, <1>6, <1>7, <1>8, <1>9, <1>10

\* Every recorded frame at an observer that shows one of the recorded statuses.
LEMMA RecordedFrames ==
  /\ fold(initial, submitFrame) = entry("submitted", Current)
  /\ \A st \in {"submitted", "running", "applied", "conflicted"} :
       /\ fold(entry(st, Current), submitFrame) = entry(st, Current)
       /\ fold(entry(st, Current), receiptsFrame(Older, "applied")) = entry(st, Current)
       /\ fold(entry(st, Current), eventsFrame(Older, <<"started">>)) = entry(st, Current)
  /\ fold(entry("submitted", Current), progressEvents) = entry("running", Current)
  /\ fold(entry("applied", Current), progressEvents) = entry("applied", Current)
  /\ \A st \in {"submitted", "running", "applied"} :
       fold(entry(st, Current), applied) = entry("applied", Current)
  /\ fold(entry("conflicted", Current), applied) = entry("conflicted", Current)
  /\ \A st \in {"applied", "conflicted"} :
       fold(entry(st, Current), receiptsFrame(Current, "rejected")) = entry("conflicted", Current)
  /\ fold(entry("applied", Current), cancelFrame) = entry("applied", Current)
<1>1. {"submitted", "running", "applied", "conflicted"} \subseteq CommandStatus \ {"absent"}
  BY DEF CommandStatus
<1>2. /\ "applied" \in Outcomes /\ "rejected" \in Outcomes
      /\ isTerminal("applied") /\ isTerminal("conflicted")
      /\ ~isTerminal("submitted") /\ ~isTerminal("running") /\ isTerminal("rejected")
  BY DEF Outcomes, isTerminal
<1>3. /\ \A st \in {"submitted", "running", "applied"} : ReceiptStatus(st, "applied") = "applied"
      /\ ReceiptStatus("conflicted", "applied") = "conflicted"
      /\ \A st \in {"applied", "conflicted"} : ReceiptStatus(st, "rejected") = "conflicted"
  BY <1>2 DEF ReceiptStatus
<1>4. fold(initial, submitFrame) = entry("submitted", Current)
  BY <1>1, FramesDo
<1>5. ASSUME NEW st \in {"submitted", "running", "applied", "conflicted"}
      PROVE  /\ fold(entry(st, Current), submitFrame) = entry(st, Current)
             /\ fold(entry(st, Current), receiptsFrame(Older, "applied")) = entry(st, Current)
             /\ fold(entry(st, Current), eventsFrame(Older, <<"started">>)) = entry(st, Current)
             /\ fold(entry(st, Current), applied) = entry(ReceiptStatus(st, "applied"), Current)
             /\ fold(entry(st, Current), receiptsFrame(Current, "rejected"))
                  = entry(ReceiptStatus(st, "rejected"), Current)
             /\ fold(entry(st, Current), progressEvents)
                  = entry(IF isTerminal(st) THEN st ELSE "running", Current)
             /\ fold(entry(st, Current), cancelFrame)
                  = entry(IF isTerminal(st) THEN st ELSE "cancelled", Current)
  BY <1>1, <1>2, FramesDo DEF applied
<1> QED
  BY <1>2, <1>3, <1>4, <1>5

\* What a scenario shows whose observer does not hold the command at first.
LEMMA ScenarioIs ==
  ASSUME state = initial, NEW frames, NEW expect, NEW ignored, NEW waiting
  PROVE  LET sc == scenario(frames, expect, ignored, waiting)
         IN  /\ sc.frames = frames /\ sc.expect = expect
             /\ sc.ignored = ignored /\ sc.waiting = waiting
             /\ After(sc, 0) = initial
             /\ After(sc, 1) = fold(initial, frames[1])
             /\ After(sc, 2) = fold(After(sc, 1), frames[2])
             /\ After(sc, 3) = fold(After(sc, 2), frames[3])
<1> DEFINE sc == scenario(frames, expect, ignored, waiting)
<1>1. /\ sc.from = initial /\ sc.frames = frames /\ sc.expect = expect
      /\ sc.ignored = ignored /\ sc.waiting = waiting
  BY DEF scenario
<1>2. /\ 1 - 1 = 0 /\ 2 - 1 = 1 /\ 3 - 1 = 2
      /\ 1 \in Nat \ {0} /\ 2 \in Nat \ {0} /\ 3 \in Nat \ {0}
  OBVIOUS
<1>3. /\ After(sc, 0) = sc.from
      /\ \A n \in Nat \ {0} : After(sc, n) = fold(After(sc, n - 1), sc.frames[n])
  <2> HIDE DEF sc
  <2> QED
    BY AfterNext
<1>4. /\ After(sc, 1) = fold(After(sc, 1 - 1), sc.frames[1])
      /\ After(sc, 2) = fold(After(sc, 2 - 1), sc.frames[2])
      /\ After(sc, 3) = fold(After(sc, 3 - 1), sc.frames[3])
  BY <1>2, <1>3
<1> QED
  <2> HIDE DEF sc
  <2>1. /\ sc.frames = frames /\ sc.expect = expect /\ sc.ignored = ignored /\ sc.waiting = waiting
        /\ After(sc, 0) = initial
        /\ After(sc, 1) = fold(initial, frames[1])
        /\ After(sc, 2) = fold(After(sc, 1), frames[2])
        /\ After(sc, 3) = fold(After(sc, 2), frames[3])
    BY <1>1, <1>2, <1>3, <1>4
  <2> QED
    BY <2>1 DEF sc

LEMMA CallsOf ==
  /\ \A st \in {"submitted", "running"} : ~callResolved(entry(st, Current))
  /\ \A st \in {"applied", "conflicted"} : callResolved(entry(st, Current))
  /\ ~callResolved(initial)
  BY DEF callResolved, isTerminal, entry, initial

LEMMA SubmitReplays ==
  ASSUME state = initial
  PROVE  Shows(editor_route_submit) /\ Settled(editor_route_submit)
<1> DEFINE frames == <<submitFrame>>
           expect == {<<1, entry("submitted", Current)>>}
           sc == scenario(frames, expect, {}, {1})
<1>1. Len(frames) = 1 /\ frames[1] = submitFrame
  OBVIOUS
<1>2. \A e \in expect : e[1] = 1 /\ e[2] = entry("submitted", Current)
  OBVIOUS
<1>3. sc = editor_route_submit
  BY DEF editor_route_submit
<1> HIDE DEF frames, expect
<1>4. /\ sc.frames = frames /\ sc.expect = expect /\ sc.ignored = {} /\ sc.waiting = {1}
      /\ After(sc, 1) = entry("submitted", Current)
  BY <1>1, ScenarioIs, RecordedFrames
<1> HIDE DEF sc
<1>5. Shows(sc)
  BY <1>2, <1>4, CallsOf DEF Shows
<1>6. Settled(sc)
  BY <1>1, <1>4, CallsOf DEF Settled
<1> QED
  BY <1>3, <1>5, <1>6

LEMMA AppliedReplays ==
  ASSUME state = initial
  PROVE  Shows(accepted_then_applied_receipt) /\ Settled(accepted_then_applied_receipt)
<1> DEFINE frames == <<submitFrame, progressEvents, applied>>
           expect == {<<3, entry("applied", Current)>>}
           sc == scenario(frames, expect, {}, {1, 2})
<1>1. /\ Len(frames) = 3 /\ DOMAIN frames = 1 .. 3
      /\ frames[1] = submitFrame /\ frames[2] = progressEvents /\ frames[3] = applied
  OBVIOUS
<1>2. \A e \in expect : e[1] = 3 /\ e[2] = entry("applied", Current)
  OBVIOUS
<1>3. sc = accepted_then_applied_receipt
  BY DEF accepted_then_applied_receipt
<1> HIDE DEF frames, expect
<1>4. /\ sc.frames = frames /\ sc.expect = expect /\ sc.ignored = {} /\ sc.waiting = {1, 2}
      /\ After(sc, 1) = entry("submitted", Current)
      /\ After(sc, 2) = entry("running", Current)
      /\ After(sc, 3) = entry("applied", Current)
  BY <1>1, ScenarioIs, RecordedFrames
<1> HIDE DEF sc
<1>5. Shows(sc)
  BY <1>2, <1>4, CallsOf DEF Shows
<1>6. \A i \in 1 .. 3 : fold(entry("applied", Current), frames[i]) = entry("applied", Current)
  BY <1>1, RecordedFrames
<1>7. Settled(sc)
  BY <1>1, <1>4, <1>6 DEF Settled
<1> QED
  BY <1>3, <1>5, <1>7

LEMMA StaleReplays ==
  ASSUME state = initial
  PROVE  Shows(stale_generation_ignored) /\ Settled(stale_generation_ignored)
<1> DEFINE frames == <<submitFrame, eventsFrame(Older, <<"started">>),
                       receiptsFrame(Older, "applied")>>
           expect == {<<3, entry("submitted", Current)>>}
           sc == scenario(frames, expect, {2, 3}, {3})
<1>1. /\ Len(frames) = 3 /\ frames[1] = submitFrame
      /\ frames[2] = eventsFrame(Older, <<"started">>) /\ frames[3] = receiptsFrame(Older, "applied")
  OBVIOUS
<1>2. \A e \in expect : e[1] = 3 /\ e[2] = entry("submitted", Current)
  OBVIOUS
<1>3. sc = stale_generation_ignored
  BY DEF stale_generation_ignored
<1> HIDE DEF frames, expect
<1>4. /\ sc.frames = frames /\ sc.expect = expect /\ sc.ignored = {2, 3} /\ sc.waiting = {3}
      /\ After(sc, 1) = entry("submitted", Current)
      /\ After(sc, 2) = entry("submitted", Current)
      /\ After(sc, 3) = entry("submitted", Current)
  BY <1>1, ScenarioIs, RecordedFrames
<1> HIDE DEF sc
<1>5. Shows(sc)
  <2>1. 2 - 1 = 1 /\ 3 - 1 = 2
    OBVIOUS
  <2> QED
    BY <1>2, <1>4, <2>1, CallsOf DEF Shows
<1>6. Settled(sc)
  BY <1>1, <1>4, CallsOf DEF Settled
<1> QED
  BY <1>3, <1>5, <1>6

LEMMA ConflictReplays ==
  ASSUME state = initial
  PROVE  Shows(terminal_conflict_fail_closed) /\ Settled(terminal_conflict_fail_closed)
<1> DEFINE frames == <<submitFrame, applied, receiptsFrame(Current, "rejected")>>
           expect == {<<2, entry("applied", Current)>>, <<3, entry("conflicted", Current)>>}
           sc == scenario(frames, expect, {}, {})
<1>1. /\ Len(frames) = 3 /\ DOMAIN frames = 1 .. 3 /\ frames[1] = submitFrame
      /\ frames[2] = applied /\ frames[3] = receiptsFrame(Current, "rejected")
  OBVIOUS
<1>2. \A e \in expect : \/ e[1] = 2 /\ e[2] = entry("applied", Current)
                        \/ e[1] = 3 /\ e[2] = entry("conflicted", Current)
  OBVIOUS
<1>3. sc = terminal_conflict_fail_closed
  BY DEF terminal_conflict_fail_closed
<1> HIDE DEF frames, expect
<1>4. /\ sc.frames = frames /\ sc.expect = expect /\ sc.ignored = {} /\ sc.waiting = {}
      /\ After(sc, 2) = entry("applied", Current)
      /\ After(sc, 3) = entry("conflicted", Current)
  BY <1>1, ScenarioIs, RecordedFrames
<1> HIDE DEF sc
<1>5. Shows(sc)
  BY <1>2, <1>4 DEF Shows
<1>6. \A i \in 1 .. 3 : fold(entry("conflicted", Current), frames[i]) = entry("conflicted", Current)
  BY <1>1, RecordedFrames
<1>7. Settled(sc)
  BY <1>1, <1>4, <1>6 DEF Settled
<1> QED
  BY <1>3, <1>5, <1>7

LEMMA LateCancelReplays ==
  ASSUME state = initial
  PROVE  Shows(cancel_after_applied_ignored) /\ Settled(cancel_after_applied_ignored)
<1> DEFINE frames == <<submitFrame, applied, cancelFrame>>
           expect == {<<3, entry("applied", Current)>>}
           sc == scenario(frames, expect, {3}, {})
<1>1. /\ Len(frames) = 3 /\ DOMAIN frames = 1 .. 3 /\ frames[1] = submitFrame
      /\ frames[2] = applied /\ frames[3] = cancelFrame
  OBVIOUS
<1>2. \A e \in expect : e[1] = 3 /\ e[2] = entry("applied", Current)
  OBVIOUS
<1>3. sc = cancel_after_applied_ignored
  BY DEF cancel_after_applied_ignored
<1> HIDE DEF frames, expect
<1>4. /\ sc.frames = frames /\ sc.expect = expect /\ sc.ignored = {3} /\ sc.waiting = {}
      /\ After(sc, 2) = entry("applied", Current)
      /\ After(sc, 3) = entry("applied", Current)
  BY <1>1, ScenarioIs, RecordedFrames
<1> HIDE DEF sc
<1>5. Shows(sc)
  <2>1. 3 - 1 = 2
    OBVIOUS
  <2> QED
    BY <1>2, <1>4, <2>1 DEF Shows
<1>6. \A i \in 1 .. 3 : fold(entry("applied", Current), frames[i]) = entry("applied", Current)
  BY <1>1, RecordedFrames
<1>7. Settled(sc)
  BY <1>1, <1>4, <1>6 DEF Settled
<1> QED
  BY <1>3, <1>5, <1>7

LEMMA ReconnectReplays ==
  ASSUME NEW sc \in reconnect_command_projection PROVE Shows(sc) /\ Settled(sc)
<1>1. PICK status \in {"applied", "running"} :
        sc = [from |-> resync(state, entry(status, Current)), frames |-> << >>,
              expect |-> {<<0, entry(status, Current)>>}, ignored |-> {}, waiting |-> {}]
  BY DEF reconnect_command_projection
<1>2. /\ sc.from = entry(status, Current) /\ sc.frames = << >> /\ sc.ignored = {}
      /\ sc.waiting = {} /\ \A e \in sc.expect : e[1] = 0 /\ e[2] = entry(status, Current)
  BY <1>1 DEF resync
<1>3. After(sc, 0) = entry(status, Current)
  BY <1>2, AfterNext
<1>4. DOMAIN sc.frames = {}
  BY <1>2
<1> QED
  BY <1>2, <1>3, <1>4 DEF Shows, Settled

\* Every recorded scenario of the message plane but the confirmed cancel comes out
\* of step, fold and resync as recorded, for every number of generations and frames.
THEOREM RecordedReplay == Spec => []ScenariosReplay
<1>1. ASSUME TypeOK, state.status = "absent" PROVE state = initial
  BY <1>1 DEF TypeOK, CmdState, initial
<1>2. ASSUME state = initial, NEW sc \in Recorded \ {cancel_before_terminal}
      PROVE  Shows(sc) /\ Settled(sc)
  <2>1. /\ sync_tmux_layout_submit = editor_route_submit
        /\ rpc_call_waits_for_terminal = accepted_then_applied_receipt
    BY DEF sync_tmux_layout_submit, editor_route_submit, rpc_call_waits_for_terminal,
           accepted_then_applied_receipt
  <2> QED
    BY <1>2, <2>1, SubmitReplays, AppliedReplays, StaleReplays, ConflictReplays,
       LateCancelReplays, ReconnectReplays DEF Recorded
<1>3. TypeOK => ScenariosReplay
  BY <1>1, <1>2 DEF ScenariosReplay
<1> QED
  BY TypeCorrect, <1>3, PTL

-----------------------------------------------------------------------------
(* Reconnecting and replaying *)

\* fold ends where any run of single steps over the frames ends.
LEMMA FoldIs ==
  ASSUME NEW s, NEW inputs, Len(inputs) \in Nat, NEW h, h[0] = s,
         \A i \in 1 .. Len(inputs) : h[i] = step(h[i - 1], inputs[i])
  PROVE  fold(s, inputs) = h[Len(inputs)]
<1>1. PICK f : /\ f[0] = s
               /\ \A i \in 1 .. Len(inputs) : f[i] = step(f[i - 1], inputs[i])
               /\ fold(s, inputs) = f[Len(inputs)]
  BY FoldRun
<1> DEFINE T == {m \in 0 .. Len(inputs) : f[m] = h[m]}
<1>2. 0 \in T
  BY <1>1
<1>3. \A m \in 1 .. Len(inputs) : m - 1 \in T => m \in T
  BY <1>1
<1>4. Len(inputs) \in T
  <2> HIDE DEF T
  <2>1. 0 .. Len(inputs) \subseteq T
    BY <1>2, <1>3, AlongSequence
  <2> QED
    BY <2>1
<1> QED
  BY <1>1, <1>4

\* The authority's image after the first i entries of its log.
ImageAfter(i) == IF i = 0 THEN initial ELSE log[i].image

\* Each image is a step from the one before, unless a handoff made it.
Chained ==
  \A i \in DOMAIN log : log[i].frame.kind # "handoff"
                          => log[i].image = step(ImageAfter(i - 1), log[i].frame)

\* The frames that the authority folded after the first i entries, up to the j-th.
FramesBetween(i, j) == [m \in 1 .. j - i |-> log[i + m].frame]

\* An observer that missed frames i + 1 to j of one controller and reconnects to
\* the image after them shows what it would show after folding them.
ReplayIsReconnect ==
  \A i \in 0 .. Len(log) : \A j \in i .. Len(log) :
    (\A m \in i + 1 .. j : log[m].frame.kind # "handoff")
      => fold(ImageAfter(i), FramesBetween(i, j)) = resync(ImageAfter(i), ImageAfter(j))

LEMMA ChainGrows ==
  ASSUME Chained, NEW S, log \in Seq(S), NEW e, log' = Append(log, e),
         e.frame.kind # "handoff" => e.image = step(Image, e.frame)
  PROVE  Chained'
<1>1. /\ Len(log) \in Nat /\ DOMAIN log = 1 .. Len(log)
      /\ DOMAIN log' = 1 .. Len(log) + 1 /\ log'[Len(log) + 1] = e
      /\ \A i \in 1 .. Len(log) : log'[i] = log[i]
  OBVIOUS
<1>2. ASSUME NEW k, k = Len(log) PROVE ImageAfter(k)' = Image
  <2>1. (log = <<>>) <=> (k = 0)
    BY <1>2
  <2>2. k # 0 => log'[k] = log[k]
    <3>1. k # 0 => k \in 1 .. Len(log)
      BY <1>1, <1>2
    <3> QED
      BY <1>1, <3>1
  <2> QED
    BY <1>2, <2>1, <2>2 DEF ImageAfter, Image
<1>3. ASSUME NEW i \in DOMAIN log', log'[i].frame.kind # "handoff"
      PROVE  log'[i].image = step(ImageAfter(i - 1)', log'[i].frame)
  <2>1. CASE i = Len(log) + 1
    <3>1. i - 1 = Len(log) /\ log'[i] = e
      BY <1>1, <2>1
    <3>2. ImageAfter(i - 1)' = Image
      BY <1>2, <3>1
    <3> QED
      BY <1>3, <3>1, <3>2
  <2>2. CASE i # Len(log) + 1
    <3>1. i \in 1 .. Len(log) /\ (i - 1 = 0 \/ i - 1 \in 1 .. Len(log))
      BY <1>1, <2>2
    <3>2. ImageAfter(i - 1)' = ImageAfter(i - 1)
      BY <1>1, <3>1 DEF ImageAfter
    <3> QED
      BY <1>1, <1>3, <3>1, <3>2 DEF Chained
  <2> QED
    BY <2>1, <2>2
<1> QED
  BY <1>3 DEF Chained

LEMMA ChainedFold ==
  ASSUME Chained, NEW S, log \in Seq(S) PROVE ReplayIsReconnect
<1> SUFFICES ASSUME NEW i \in 0 .. Len(log), NEW j \in i .. Len(log),
                    \A m \in i + 1 .. j : log[m].frame.kind # "handoff"
             PROVE  fold(ImageAfter(i), FramesBetween(i, j)) = ImageAfter(j)
  BY DEF ReplayIsReconnect, resync
<1> DEFINE frames == FramesBetween(i, j)
           h == [m \in 0 .. j - i |-> ImageAfter(i + m)]
<1>1. /\ i \in Nat /\ j - i \in Nat /\ Len(frames) = j - i
      /\ \A m \in 1 .. j - i : frames[m] = log[i + m].frame
  <2>1. i \in Nat /\ j - i \in Nat
    OBVIOUS
  <2>2. DOMAIN frames = 1 .. j - i /\ \A m \in 1 .. j - i : frames[m] = log[i + m].frame
    BY DEF FramesBetween
  <2> HIDE DEF frames
  <2>3. Len(frames) = j - i
    BY <2>1, <2>2
  <2> QED
    BY <2>1, <2>2, <2>3
<1>2. h[0] = ImageAfter(i) /\ h[j - i] = ImageAfter(j)
  BY <1>1
<1>3. ASSUME NEW m \in 1 .. j - i PROVE h[m] = step(h[m - 1], frames[m])
  <2>1. /\ m \in 0 .. j - i /\ m - 1 \in 0 .. j - i /\ i + m \in i + 1 .. j
        /\ i + m \in DOMAIN log /\ i + m # 0 /\ (i + m) - 1 = i + (m - 1)
    BY <1>1
  <2>2. log[i + m].image = step(ImageAfter((i + m) - 1), log[i + m].frame)
    BY <2>1 DEF Chained
  <2>3. ImageAfter(i + m) = log[i + m].image
    BY <2>1 DEF ImageAfter
  <2> QED
    BY <1>1, <2>1, <2>2, <2>3
<1>4. fold(ImageAfter(i), frames) = h[Len(frames)]
  <2> HIDE DEF frames, h
  <2>1. Len(frames) \in Nat /\ \A m \in 1 .. Len(frames) : h[m] = step(h[m - 1], frames[m])
    BY <1>1, <1>3
  <2> QED
    BY <1>2, <2>1, FoldIs
<1> QED
  BY <1>1, <1>2, <1>4

\* docs/message-passing.md, "reconnect equivalence": folding an image equals folding
\* the frames it summarizes.  It holds between any two images that one controller
\* made, whatever the observer missed; across a handoff no frame carries the change
\* of generation, so a reconnect is needed (resync, fold).
THEOREM ReconnectEquivalence == Spec => []ReplayIsReconnect
<1>1. ASSUME Inv, Chained, [Next]_vars PROVE Chained'
  <2>1. log \in Seq([frame : Input \cup [kind : {"handoff"}, generation : Generations],
                     image : CmdState])
    BY <1>1 DEF Inv, LogSound
  <2>2. ASSUME NEW f, Folds(f) PROVE Chained'
    BY <1>1, <2>1, <2>2, ChainGrows DEF Folds
  <2>3. CASE Handoff
    <3>1. log' = Append(log, [frame |-> [kind |-> "handoff", generation |-> current + 1],
                              image |-> [Image EXCEPT !.generation = current + 1]])
      BY <2>3 DEF Handoff
    <3> QED
      BY <1>1, <2>1, <3>1, ChainGrows
  <2>4. CASE log' = log
    BY <1>1, <2>4 DEF Chained, ImageAfter
  <2>5. \/ Handoff
        \/ log' = log
        \/ \E f : Folds(f)
    BY <1>1 DEF Next, Deliver, Reconnect, Submit, SendCancel, TakeCancel, Progress, Report, vars
  <2> QED
    BY <2>2, <2>3, <2>4, <2>5
<1>2. Init => Chained
  BY DEF Init, Chained
<1>3. Inv /\ Chained => ReplayIsReconnect
  BY ChainedFold DEF Inv, LogSound
<1> QED
  BY <1>1, <1>2, <1>3, InvHolds, PTL DEF Spec
=============================================================================
