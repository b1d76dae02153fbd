-------------------------- MODULE WireModelProofs --------------------------
(***************************************************************************)
(* Theorems about WireModel, for every set of schemas.  A built surface    *)
(* has everything that was asked for because a name, once asked for, is    *)
(* taken, still to be emitted, or queued at or past the build loop's       *)
(* index; and it means what its references resolved to because a local     *)
(* definition and a queued one never bear the same name.                   *)
(***************************************************************************)
EXTENDS WireModel, TLAPS

\* The declarations made and the one in progress.
Declarations == {t \in types \cup {decl} : t.from # "none"}

Positions == 1 .. Len(shared_queue)

LocalTaken ==
  todo \subseteq Defined(schema.defs) /\ Defined(schema.defs) \subseteq emitted \cup todo

QueueTaken == \A i \in Positions : i < next => shared_queue[i] \in emitted

Asked ==
  \A n \in mentioned :
    n \in emitted \cup todo \/ \E i \in Positions : next <= i /\ shared_queue[i] = n

Traced == todo \subseteq mentioned /\ \A i \in Positions : shared_queue[i] \in mentioned

PastDefs == phase \in {"variant", "envelope", "shared", "built"} => todo = {}

QueueOrigin ==
  \A i \in Positions :
    /\ schema.shared[shared_queue[i]].kind # "nullable_alias"
    /\ schema.defs[shared_queue[i]].kind = "absent"

RefOrigin ==
  \A t \in Declarations : \A r \in t.refs :
    /\ r.name \in mentioned
    /\ r.doc = "surface" => schema.defs[r.name].kind \notin {"absent", "nullable_alias"}
    /\ r.doc = "defs.json" => schema.defs[r.name].kind = "absent"

TypeOrigin ==
  \A t \in Declarations :
    /\ t.from = "surface" => schema.defs[t.name].kind # "absent"
    /\ t.from = "defs.json" => schema.defs[t.name].kind = "absent"

EmittedTyped ==
  \A n \in emitted : \/ schema.defs[n].kind = "nullable_alias"
                     \/ \E t \in Declarations : t.name = n /\ t.from # "envelope"

BuiltSound == phase = "built" => Sound /\ decl = NoDecl /\ next > Len(shared_queue)

\* Only a root that is an envelope has a variant of its own.
VariantOfRoot ==
  phase = "variant" =>
    /\ schema.root.kind = "envelope" /\ schema.root.variant.kind = "inline"
    /\ schema.root.variant.tag \in mentioned

Typed == TypeOK /\ VariantOfRoot

Closed == LocalTaken /\ QueueTaken /\ Asked /\ Traced /\ PastDefs
Meant == QueueOrigin /\ RefOrigin /\ TypeOrigin /\ EmittedTyped /\ BuiltSound

Inv == Typed /\ Closed /\ Meant

-----------------------------------------------------------------------------
(* Types *)

LEMMA Definitions ==
  ASSUME TypeOK, NEW n \in Name, NEW doc
  PROVE  /\ schema.defs[n] \in Node /\ schema.shared[n] \in Node
         /\ DefsOf(doc)[n] \in Node
         /\ schema.defs[n].exprs \subseteq Expr /\ schema.shared[n].exprs \subseteq Expr
         /\ DefsOf(doc)[n].exprs \subseteq Expr
<1>1. schema.defs \in [Name -> Node] /\ schema.shared \in [Name -> Node]
  BY DEF TypeOK, Schema
<1>2. \A node \in Node : node.exprs \subseteq Expr
  BY DEF Node
<1> QED
  BY <1>1, <1>2 DEF DefsOf

LEMMA Expressions ==
  ASSUME NEW e \in Expr
  PROVE  /\ e.kind \in {"local", "shared", "enum"} => e.name \in Name
         /\ e.kind \in {"local", "shared", "enum", "scalar", "unsupported"}
BY DEF Expr

LEMMA Variants ==
  ASSUME TypeOK, schema.root.kind = "envelope"
  PROVE  /\ schema.root.envelope \in Name
         /\ schema.root.variant.kind = "ref" => schema.root.variant.expr \in Expr
         /\ schema.root.variant.kind = "inline" =>
              /\ schema.root.variant.tag \in Name
              /\ schema.root.variant.node.exprs \subseteq Expr
         /\ schema.root.variant.kind \in {"ref", "inline"}
<1>1. schema.root \in Root
  BY DEF TypeOK, Schema
<1> DEFINE variant == schema.root.variant
<1>2. /\ schema.root.envelope \in Name
      /\ variant \in [kind : {"ref"}, expr : [kind : {"local", "shared"}, name : Name]]
                       \cup [kind : {"inline"}, tag : Name, node : Node]
  BY <1>1 DEF Root
<1>3. CASE variant \in [kind : {"ref"}, expr : [kind : {"local", "shared"}, name : Name]]
  BY <1>2, <1>3 DEF Expr
<1>4. CASE variant \in [kind : {"inline"}, tag : Name, node : Node]
  BY <1>2, <1>4 DEF Node
<1> QED
  BY <1>2, <1>3, <1>4

LEMMA WalkingDecl ==
  ASSUME TypeOK, Walking PROVE decl \in Decl
BY DEF TypeOK, Walking, NoDecl

LEMMA NamingKeepsType ==
  ASSUME TypeOK, Walking, NEW target \in Target
  PROVE  Names(target) \in Decl
BY WalkingDecl DEF Names, Decl

LEMMA BegunIsDecl ==
  ASSUME NEW n \in Name, NEW from \in Document \cup {"inline", "root", "envelope"},
         NEW body \in SUBSET Expr, NEW refs \in SUBSET Target
  PROVE  [name |-> n, from |-> from, body |-> body, refs |-> refs] \in Decl
BY DEF Decl

LEMMA QueueGrows ==
  ASSUME TypeOK, NEW doc, NEW n \in Name
  PROVE  /\ Queued(doc, n) \in Seq(Name)
         /\ Len(shared_queue) <= Len(Queued(doc, n))
         /\ \A i \in Positions : Queued(doc, n)[i] = shared_queue[i]
         /\ \A i \in 1 .. Len(Queued(doc, n)) : i \in Positions \/ Queued(doc, n)[i] = n
         /\ doc = "defs.json" => \E i \in 1 .. Len(Queued(doc, n)) : Queued(doc, n)[i] = n
         /\ doc # "defs.json" => Queued(doc, n) = shared_queue
<1>1. shared_queue \in Seq(Name) /\ Len(shared_queue) \in Nat
  BY DEF TypeOK
<1>2. CASE doc = "defs.json" /\ \A i \in DOMAIN shared_queue : shared_queue[i] # n
  <2>1. Queued(doc, n) = Append(shared_queue, n)
    BY <1>2 DEF Queued
  <2>2. /\ Append(shared_queue, n) \in Seq(Name)
        /\ Len(Append(shared_queue, n)) = Len(shared_queue) + 1
        /\ Append(shared_queue, n)[Len(shared_queue) + 1] = n
        /\ \A i \in 1 .. Len(shared_queue) : Append(shared_queue, n)[i] = shared_queue[i]
    BY <1>1
  <2> QED
    BY <1>1, <1>2, <2>1, <2>2 DEF Positions
<1>3. CASE ~(doc = "defs.json" /\ \A i \in DOMAIN shared_queue : shared_queue[i] # n)
  <2>1. Queued(doc, n) = shared_queue
    BY <1>3 DEF Queued
  <2> QED
    BY <1>1, <1>3, <2>1 DEF Positions
<1> QED
  BY <1>2, <1>3

LEMMA InitTyped == Init => Typed
BY ConstantsAssumption DEF Init, Typed, VariantOfRoot, TypeOK, Defined, Document, NoDecl

LEMMA EmitTypes ==
  ASSUME TypeOK, NEW n \in Name, NEW from \in Document, NEW node \in Node, Emit(n, from, node)
  PROVE  /\ schema' = schema /\ scope' = scope /\ types' = types
         /\ emitted' = emitted \cup {n}
         /\ decl' \in Decl \cup {NoDecl} /\ pending' \subseteq Expr /\ depth' \in 0 .. MaxInline
<1>1. CASE n \in emitted \/ node.kind = "nullable_alias"
  BY <1>1 DEF Emit, TypeOK
<1>2. CASE ~(n \in emitted \/ node.kind = "nullable_alias")
  <2>1. node.exprs \in SUBSET Expr
    BY DEF Node
  <2>2. decl' \in Decl
    BY <1>2, <2>1, BegunIsDecl DEF Emit, Begin
  <2> QED
    BY <1>2, <2>1, <2>2, ConstantsAssumption DEF Emit, Begin
<1> QED
  BY <1>1, <1>2

LEMMA TypeStep ==
  ASSUME Typed, [Next]_vars PROVE TypeOK'
<1>0. TypeOK
  BY DEF Typed
<1> USE <1>0 DEF Document
<1>1. ASSUME NEW n \in Name, EmitLocal(n) PROVE TypeOK'
  BY <1>1, Definitions, EmitTypes DEF EmitLocal, TypeOK
<1>2. ASSUME Refuse PROVE TypeOK'
  BY <1>2 DEF Refuse, TypeOK
<1>3. CASE DeclareVariant
  <2> DEFINE variant == schema.root.variant
  <2>1. variant.tag \in Name /\ variant.node.exprs \in SUBSET Expr
    BY <1>3, Variants DEF DeclareVariant
  <2>2. [name |-> variant.tag, from |-> "root", body |-> variant.node.exprs, refs |-> {}] \in Decl
    BY <2>1, BegunIsDecl
  <2> QED
    BY <1>3, <2>1, <2>2, ConstantsAssumption DEF DeclareVariant, Begin, TypeOK
<1>4. CASE DeclareEnvelope
  <2> DEFINE variant == schema.root.variant
             exprs   == IF variant.kind = "ref" THEN {variant.expr} ELSE {}
             named   == IF variant.kind = "ref" THEN {}
                        ELSE {[doc |-> "root", name |-> variant.tag]}
  <2>1. schema.root.kind = "envelope"
    BY <1>4 DEF DeclareEnvelope, AtEnvelope, AtRoot, Typed, VariantOfRoot
  <2>2. exprs \in SUBSET Expr
    BY <2>1, Variants
  <2>3. named \in SUBSET Target
    BY <2>1, Variants DEF Target
  <2>4. [name |-> schema.root.envelope, from |-> "envelope", body |-> exprs, refs |-> named] \in Decl
    BY <2>1, <2>2, <2>3, Variants, BegunIsDecl
  <2> QED
    BY <1>4, <2>2, <2>4, ConstantsAssumption DEF DeclareEnvelope, TypeOK
<1>5. CASE EnterShared
  BY <1>5 DEF EnterShared, TypeOK
<1>6. CASE EmitShared
  <2>1. next <= Len(shared_queue) /\ shared_queue[next] \in Name
    BY <1>6 DEF EmitShared, AtShared, TypeOK
  <2> QED
    BY <1>6, <2>1, Definitions, EmitTypes DEF EmitShared, TypeOK
<1>7. CASE Build
  BY <1>7 DEF Build, TypeOK
<1>8. ASSUME NEW e \in pending, WalkRef(e) PROVE TypeOK'
  <2>1. e.name \in Name /\ Walking
    BY <1>8, Expressions DEF TypeOK, WalkRef, Walk
  <2>2. Doc(e) \in Document
    BY DEF Doc, TypeOK
  <2>3. [doc |-> Doc(e), name |-> e.name] \in Target
    BY <2>1, <2>2 DEF Target
  <2>4. decl' \in Decl
    BY <1>8, <2>1, <2>3, NamingKeepsType DEF WalkRef
  <2>5. shared_queue' \in Seq(Name) /\ next' \in 1 .. Len(shared_queue') + 1
    BY <1>8, <2>1, QueueGrows DEF WalkRef, Walk, TypeOK
  <2> QED
    BY <1>8, <2>1, <2>4, <2>5 DEF WalkRef, Walk, TypeOK
<1>9. ASSUME NEW e \in pending, WalkNullableAlias(e) PROVE TypeOK'
  <2>1. DefsOf(Doc(e))[e.name].exprs \subseteq Expr
    BY <1>9, Expressions, Definitions DEF TypeOK, WalkNullableAlias
  <2>2. depth' \in 0 .. MaxInline
    BY <1>9, ConstantsAssumption DEF TypeOK, WalkNullableAlias
  <2> QED
    BY <1>9, <2>1, <2>2 DEF WalkNullableAlias, TypeOK
<1>10. ASSUME NEW e \in pending, WalkEnum(e) PROVE TypeOK'
  <2>1. e \in Expr /\ e.name \in Name /\ Walking
    BY <1>10, Expressions DEF TypeOK, WalkEnum, Walk
  <2>2. [doc |-> "inline", name |-> e.name] \in Target
    BY <2>1 DEF Target
  <2>3. decl' \in Decl
    BY <1>10, <2>1, <2>2, NamingKeepsType DEF WalkEnum
  <2>4. [name |-> e.name, from |-> "inline", body |-> {e}, refs |-> {}] \in Decl
    BY <2>1, BegunIsDecl
  <2> QED
    BY <1>10, <2>1, <2>3, <2>4 DEF WalkEnum, Walk, TypeOK
<1>11. ASSUME NEW e \in pending, WalkScalar(e) PROVE TypeOK'
  BY <1>11 DEF WalkScalar, Walk, TypeOK
<1>12. CASE RecursionError
  BY <1>12 DEF RecursionError, TypeOK
<1>13. CASE Declare
  BY <1>13, WalkingDecl DEF Declare, TypeOK
<1>14. CASE UNCHANGED vars
  BY <1>14 DEF vars, TypeOK
<1> QED
  BY <1>1, <1>2, <1>3, <1>4, <1>5, <1>6, <1>7, <1>8, <1>9, <1>10, <1>11, <1>12, <1>13, <1>14
  DEF Next, RefuseLocal, RefuseRoot, RefuseEnvelope, RefuseShared, RefuseSurface, WalkInexpressible

LEMMA TypedStep ==
  ASSUME Typed, [Next]_vars PROVE Typed'
<1>1. CASE DeclareVariant
  <2>1. AtRoot /\ UNCHANGED schema /\ mentioned' = mentioned \cup {schema.root.variant.tag}
    BY <1>1 DEF DeclareVariant, Begin
  <2> QED
    BY <1>1, <2>1, TypeStep DEF DeclareVariant, Typed, VariantOfRoot
<1>2. ASSUME UNCHANGED <<schema, phase>>, mentioned \subseteq mentioned' PROVE Typed'
  BY <1>2, TypeStep DEF Typed, VariantOfRoot
<1>3. ASSUME phase' # "variant" PROVE Typed'
  BY <1>3, TypeStep DEF Typed, VariantOfRoot
<1>4. ASSUME NEW n \in Name, EmitLocal(n) PROVE Typed'
  BY <1>3, <1>4 DEF EmitLocal
<1>5. ASSUME NEW e \in pending, \/ WalkRef(e) \/ WalkNullableAlias(e) \/ WalkEnum(e) \/ WalkScalar(e)
      PROVE  Typed'
  BY <1>2, <1>5 DEF WalkRef, WalkNullableAlias, WalkEnum, WalkScalar, Walk
<1>6. CASE Declare \/ UNCHANGED vars
  BY <1>2, <1>6 DEF Declare, vars
<1>7. CASE EmitShared
  BY <1>3, <1>7 DEF EmitShared, AtShared
<1>8. CASE DeclareEnvelope \/ EnterShared \/ Build \/ RecursionError
  BY <1>3, <1>8 DEF DeclareEnvelope, EnterShared, Build, RecursionError
<1>9. CASE Refuse
  BY <1>3, <1>9 DEF Refuse
<1> QED
  BY <1>1, <1>4, <1>5, <1>6, <1>7, <1>8, <1>9
  DEF Next, RefuseLocal, RefuseRoot, RefuseEnvelope, RefuseShared, RefuseSurface, WalkInexpressible

-----------------------------------------------------------------------------
(* Everything that is asked for is taken up *)

LEMMA InitClosed == Init => Closed
BY DEF Init, Closed, LocalTaken, QueueTaken, Asked, Traced, PastDefs, Positions

\* What an Emit of a name leaves, given whose name it is.
LEMMA EmitTakes ==
  ASSUME NEW n, NEW from, NEW node, Emit(n, from, node)
  PROVE  schema' = schema /\ emitted' = emitted \cup {n}
BY DEF Emit, Begin

\* A step that touches no name.
LEMMA NamesUntouched ==
  ASSUME Closed, schema' = schema,
         UNCHANGED <<todo, emitted, shared_queue, next, mentioned>>,
         phase' \in {"variant", "envelope", "shared", "built"} => todo = {}
  PROVE  Closed'
BY DEF Closed, LocalTaken, QueueTaken, Asked, Traced, PastDefs, Positions

\* A step that takes a name that was not asked for before, and asks for it.
LEMMA NameIntroduced ==
  ASSUME Closed, NEW n, schema' = schema,
         emitted' = emitted \cup {n}, mentioned' = mentioned \cup {n},
         UNCHANGED <<todo, shared_queue, next>>,
         phase' \in {"variant", "envelope", "shared", "built"} => todo = {}
  PROVE  Closed'
BY DEF Closed, LocalTaken, QueueTaken, Asked, Traced, PastDefs, Positions

LEMMA ClosedStep ==
  ASSUME Typed, Closed, [Next]_vars PROVE Closed'
<1>0. TypeOK
  BY DEF Typed
<1>1. ASSUME NEW n \in Name, EmitLocal(n) PROVE Closed'
  <2>1. /\ schema' = schema /\ emitted' = emitted \cup {n} /\ todo' = todo \ {n}
        /\ phase' = "defs" /\ UNCHANGED <<shared_queue, next, mentioned>>
    BY <1>1, EmitTakes DEF EmitLocal
  <2> QED
    BY <2>1 DEF Closed, LocalTaken, QueueTaken, Asked, Traced, PastDefs, Positions, Defined
<1>2. ASSUME Refuse PROVE Closed'
  BY <1>2, NamesUntouched DEF Refuse
<1>3. CASE DeclareVariant
  BY <1>3, NameIntroduced DEF DeclareVariant, Begin, AtRoot
<1>4. CASE DeclareEnvelope
  BY <1>4, NamesUntouched DEF DeclareEnvelope, AtEnvelope, AtRoot, Closed, PastDefs
<1>5. CASE EnterShared
  BY <1>5, NamesUntouched DEF EnterShared, AtRoot, Closed, PastDefs
<1>6. CASE EmitShared
  <2>1. /\ schema' = schema /\ emitted' = emitted \cup {shared_queue[next]} /\ next' = next + 1
        /\ next \in Positions /\ UNCHANGED <<phase, todo, shared_queue, mentioned>>
    BY <1>0, <1>6, EmitTakes DEF EmitShared, AtShared, Positions, TypeOK
  <2>2. next \in Nat /\ \A i \in Positions : i \in Nat
    BY <1>0 DEF TypeOK, Positions
  <2> QED
    BY <2>1, <2>2 DEF Closed, LocalTaken, QueueTaken, Asked, Traced, PastDefs, Positions
<1>7. CASE Build
  BY <1>7, NamesUntouched DEF Build, AtCheck, Closed, PastDefs
<1>8. ASSUME NEW e \in pending, WalkRef(e) PROVE Closed'
  <2>1. e.name \in Name
    BY <1>0, <1>8, Expressions DEF TypeOK, WalkRef
  <2>2. /\ schema' = schema /\ mentioned' = mentioned \cup {e.name}
        /\ shared_queue' = Queued(Doc(e), e.name)
        /\ UNCHANGED <<phase, todo, emitted, next>>
    BY <1>8 DEF WalkRef, Walk
  <2>3. Doc(e) # "defs.json" => e.name \in Defined(schema.defs)
    BY <1>0, <1>8, <2>1 DEF WalkRef, Resolves, DefsOf, Doc, Defined, TypeOK, Document
  <2>4. /\ \A i \in Positions : i \in Positions' /\ shared_queue'[i] = shared_queue[i]
        /\ \A i \in Positions' : i \in Positions \/ (shared_queue'[i] = e.name /\ i > Len(shared_queue))
        /\ Doc(e) = "defs.json" => \E i \in Positions' : shared_queue'[i] = e.name
    <3> DEFINE doc == Doc(e)
    <3>1. /\ Len(shared_queue) \in Nat /\ Len(shared_queue') \in Nat
          /\ Len(shared_queue) <= Len(shared_queue')
          /\ Positions' = 1 .. Len(shared_queue')
      BY <1>0, <2>1, <2>2, QueueGrows DEF Positions, TypeOK
    <3>2. /\ \A i \in Positions : shared_queue'[i] = shared_queue[i]
          /\ \A i \in 1 .. Len(shared_queue') : i \in Positions \/ shared_queue'[i] = e.name
          /\ doc = "defs.json" => \E i \in 1 .. Len(shared_queue') : shared_queue'[i] = e.name
      <4> HIDE DEF doc
      <4> QED
        BY <1>0, <2>1, <2>2, QueueGrows DEF doc
    <3> QED
      BY <3>1, <3>2 DEF Positions
  <2>5. QueueTaken'
    BY <1>0, <2>2, <2>4 DEF Closed, QueueTaken, TypeOK, Positions
  <2>6. Asked'
    <3>1. ASSUME NEW n \in mentioned
          PROVE  n \in emitted' \cup todo' \/ \E i \in Positions' : next' <= i /\ shared_queue'[i] = n
      BY <2>2, <2>4 DEF Closed, Asked
    <3>2. e.name \in emitted' \cup todo' \/ \E i \in Positions' : next' <= i /\ shared_queue'[i] = e.name
      <4>1. CASE Doc(e) # "defs.json"
        BY <2>2, <2>3, <4>1 DEF Closed, LocalTaken
      <4>2. CASE Doc(e) = "defs.json"
        <5>1. PICK i \in Positions' : shared_queue'[i] = e.name
          BY <2>4, <4>2
        <5>2. i < next' \/ next' <= i
          BY <1>0, <2>2 DEF TypeOK, Positions
        <5> QED
          BY <2>5, <5>1, <5>2 DEF QueueTaken
      <4> QED
        BY <4>1, <4>2
    <3> QED
      BY <2>2, <3>1, <3>2 DEF Asked
  <2>7. Traced'
    BY <2>2, <2>4 DEF Closed, Traced
  <2> QED
    BY <2>2, <2>5, <2>6, <2>7 DEF Closed, LocalTaken, PastDefs
<1>9. ASSUME NEW e \in pending, WalkNullableAlias(e) PROVE Closed'
  BY <1>9, NamesUntouched DEF WalkNullableAlias, Closed, PastDefs
<1>10. ASSUME NEW e \in pending, WalkEnum(e) PROVE Closed'
  BY <1>10, NameIntroduced DEF WalkEnum, Walk, Closed, PastDefs
<1>11. ASSUME NEW e \in pending, WalkScalar(e) PROVE Closed'
  BY <1>11, NamesUntouched DEF WalkScalar, Walk, Closed, PastDefs
<1>12. CASE RecursionError
  BY <1>12, NamesUntouched DEF RecursionError
<1>13. CASE Declare
  BY <1>13, NamesUntouched DEF Declare, Closed, PastDefs
<1>14. CASE UNCHANGED vars
  BY <1>14, NamesUntouched DEF vars, Closed, PastDefs
<1> QED
  BY <1>1, <1>2, <1>3, <1>4, <1>5, <1>6, <1>7, <1>8, <1>9, <1>10, <1>11, <1>12, <1>13, <1>14
  DEF Next, RefuseLocal, RefuseRoot, RefuseEnvelope, RefuseShared, RefuseSurface, WalkInexpressible

-----------------------------------------------------------------------------
(* What a reference means *)

LEMMA InitMeant == Init => Meant
BY DEF Init, Meant, QueueOrigin, RefOrigin, TypeOrigin, EmittedTyped, BuiltSound, Positions,
  Declarations, NoDecl

LEMMA TypesDeclare ==
  ASSUME TypeOK
  PROVE  /\ \A t \in types : t.from # "none"
         /\ ~Walking /\ ~Ended => decl = NoDecl /\ Declarations = types
         /\ Walking => Declarations = types \cup {decl}
<1>1. \A t \in types : t.from # "none"
  BY DEF TypeOK, Decl, Document
<1>2. decl = NoDecl \/ decl \in Decl
  BY DEF TypeOK
<1>3. decl \in Decl => decl.from # "none"
  BY DEF Decl, Document
<1> QED
  BY <1>1, <1>2, <1>3 DEF Walking, Declarations, NoDecl

\* A step that changes neither declarations nor names.
LEMMA MeaningUntouched ==
  ASSUME Meant, UNCHANGED <<schema, types, decl, emitted, shared_queue, next, mentioned>>,
         phase' = "built" => phase = "built" \/ (Sound /\ decl = NoDecl /\ next > Len(shared_queue))
  PROVE  Meant'
<1>1. Sound' = Sound
  BY DEF Sound, Unknown, TypeNames
<1> QED
  BY <1>1 DEF Meant, QueueOrigin, RefOrigin, TypeOrigin, EmittedTyped, BuiltSound, Positions,
    Declarations

\* A declaration begun with references that may stand in it, its name taken.
LEMMA DeclarationBegun ==
  ASSUME TypeOK, Meant, ~Walking, ~Ended, NEW n,
         decl'.name = n, decl'.from \in Document \cup {"root"}, decl'.refs = {},
         decl'.from = "surface" => schema.defs[n].kind # "absent",
         decl'.from = "defs.json" => schema.defs[n].kind = "absent",
         emitted' = emitted \cup {n}, mentioned \subseteq mentioned', phase' # "built",
         UNCHANGED <<schema, types, shared_queue>>
  PROVE  Meant'
<1>1. Declarations' = Declarations \cup {decl'} /\ decl'.from # "none" /\ decl'.from # "envelope"
  BY TypesDeclare DEF Declarations, Document
<1>2. Declarations \subseteq Declarations'
  BY <1>1
<1>3. QueueOrigin' /\ BuiltSound'
  BY DEF Meant, QueueOrigin, BuiltSound, Positions
<1>4. RefOrigin' /\ TypeOrigin'
  BY <1>1 DEF Meant, RefOrigin, TypeOrigin
<1>5. EmittedTyped'
  BY <1>1, <1>2 DEF Meant, EmittedTyped
<1> QED
  BY <1>3, <1>4, <1>5 DEF Meant

LEMMA EmitMeant ==
  ASSUME TypeOK, Meant, ~Walking, ~Ended, NEW n \in Name, NEW from \in Document, NEW node \in Node,
         Emit(n, from, node),
         node.kind = "nullable_alias" => schema.defs[n].kind = "nullable_alias",
         from = "surface" => schema.defs[n].kind # "absent",
         from = "defs.json" => schema.defs[n].kind = "absent",
         UNCHANGED <<shared_queue, mentioned>>, phase' # "built"
  PROVE  Meant'
<1>1. CASE n \in emitted \/ node.kind = "nullable_alias"
  <2>1. UNCHANGED <<schema, types, decl>> /\ emitted' = emitted \cup {n}
    BY <1>1 DEF Emit
  <2>2. Declarations' = Declarations
    BY <2>1 DEF Declarations
  <2> QED
    BY <1>1, <2>1, <2>2 DEF Meant, QueueOrigin, RefOrigin, TypeOrigin, EmittedTyped, BuiltSound,
      Positions
<1>2. CASE ~(n \in emitted \/ node.kind = "nullable_alias")
  <2>1. Begin(n, from, node)
    BY <1>2 DEF Emit
  <2> QED
    BY <2>1, DeclarationBegun DEF Begin
<1> QED
  BY <1>1, <1>2

\* The declaration in progress gets a reference that means what it resolved to.
LEMMA ReferenceNamed ==
  ASSUME TypeOK, Meant, Walking, NEW target \in Target, decl' = Names(target),
         target.name \in mentioned',
         target.doc = "surface" => schema.defs[target.name].kind \notin {"absent", "nullable_alias"},
         target.doc = "defs.json" => schema.defs[target.name].kind = "absent",
         mentioned \subseteq mentioned', NEW inline \in SUBSET Decl, types' = types \cup inline,
         \A t \in inline : t.from = "inline" /\ t.refs = {},
         \A n \in emitted' : n \in emitted \/ \E t \in inline : t.name = n,
         schema' = schema, phase' = phase
  PROVE  RefOrigin' /\ TypeOrigin' /\ EmittedTyped' /\ BuiltSound'
<1>1. /\ decl \in Decl /\ decl'.name = decl.name /\ decl'.from = decl.from
      /\ decl'.refs = decl.refs \cup {target}
  BY WalkingDecl DEF Names, Decl
<1>2. Declarations = types \cup {decl} /\ decl.from # "none"
  BY TypesDeclare DEF Walking
<1>3. Declarations' = types \cup inline \cup {decl'}
  BY <1>1, <1>2, TypesDeclare DEF Declarations
<1>4. RefOrigin' /\ TypeOrigin'
  BY <1>1, <1>2, <1>3 DEF Meant, RefOrigin, TypeOrigin
<1>5. \A n \in emitted' : \/ schema.defs[n].kind = "nullable_alias"
                          \/ \E t \in Declarations' : t.name = n /\ t.from # "envelope"
  BY <1>1, <1>2, <1>3 DEF Meant, EmittedTyped
<1>6. BuiltSound'
  BY DEF BuiltSound, Walking, Ended
<1> QED
  BY <1>4, <1>5, <1>6 DEF EmittedTyped

LEMMA MeantStep ==
  ASSUME Typed, Closed, Meant, [Next]_vars PROVE Meant'
<1>0. TypeOK
  BY DEF Typed
<1>1. ASSUME NEW n \in Name, EmitLocal(n) PROVE Meant'
  <2>1. /\ schema.defs[n] \in Node /\ schema.defs[n].kind # "absent"
        /\ ~Walking /\ ~Ended /\ phase' # "built"
    BY <1>0, <1>1, Definitions DEF EmitLocal, Closed, LocalTaken, Defined, Ended
  <2> QED
    BY <1>0, <1>1, <2>1, EmitMeant DEF EmitLocal, Document
<1>2. ASSUME Refuse PROVE Meant'
  BY <1>2, MeaningUntouched DEF Refuse
<1>3. CASE DeclareVariant
  <2>1. ~Walking /\ ~Ended /\ phase' # "built"
    BY <1>3 DEF DeclareVariant, AtRoot, Ended
  <2> QED
    BY <1>0, <1>3, <2>1, DeclarationBegun DEF DeclareVariant, Begin, Document
<1>4. CASE DeclareEnvelope
  <2>1. ~Walking /\ ~Ended
    BY <1>4 DEF DeclareEnvelope, AtEnvelope, AtRoot, Ended
  <2>2. Declarations = types
    BY <1>0, <2>1, TypesDeclare
  <2>3. /\ decl'.from = "envelope"
        /\ \A r \in decl'.refs : r.doc = "root" /\ r.name \in mentioned
    BY <1>4 DEF DeclareEnvelope, AtEnvelope, AtRoot, Typed, VariantOfRoot
  <2>4. Declarations' = Declarations \cup {decl'}
    BY <1>0, <1>4, <2>2, <2>3, TypesDeclare DEF DeclareEnvelope, Declarations
  <2>5. /\ UNCHANGED <<schema, emitted, shared_queue, next, mentioned>> /\ phase' # "built"
    BY <1>4 DEF DeclareEnvelope
  <2> QED
    BY <2>3, <2>4, <2>5 DEF Meant, QueueOrigin, RefOrigin, TypeOrigin, EmittedTyped, BuiltSound,
      Positions
<1>5. CASE EnterShared
  BY <1>5, MeaningUntouched DEF EnterShared
<1>6. CASE EmitShared
  <2> DEFINE n == shared_queue[next]
  <2>1. n \in Name /\ next \in Positions
    BY <1>0, <1>6 DEF EmitShared, AtShared, TypeOK, Positions
  <2>2. /\ schema.shared[n] \in Node /\ schema.shared[n].kind # "nullable_alias"
        /\ schema.defs[n].kind = "absent"
    BY <1>0, <2>1, Definitions DEF Meant, QueueOrigin
  <2>3. /\ ~Walking /\ ~Ended /\ phase' # "built" /\ UNCHANGED <<shared_queue, mentioned>>
        /\ Emit(n, "defs.json", schema.shared[n])
    BY <1>6 DEF EmitShared, AtShared, Ended
  <2> HIDE DEF n
  <2> QED
    BY <1>0, <2>1, <2>2, <2>3, EmitMeant DEF Document
<1>7. CASE Build
  <2>1. decl = NoDecl
    BY <1>0, <1>7, TypesDeclare DEF Build, AtCheck, Ended
  <2>2. next > Len(shared_queue) /\ Sound
    BY <1>7 DEF Build, AtCheck
  <2> QED
    BY <1>7, <2>1, <2>2, MeaningUntouched DEF Build
<1>8. ASSUME NEW e \in pending, WalkRef(e) PROVE Meant'
  <2> DEFINE doc == Doc(e)
             target == [doc |-> doc, name |-> e.name]
  <2>1. e.name \in Name /\ Walking
    BY <1>0, <1>8, Expressions DEF TypeOK, WalkRef, Walk
  <2>2. target \in Target /\ target.doc = doc /\ target.name = e.name
    BY <1>0, <2>1 DEF Target, Doc, TypeOK, Document
  <2>3. /\ doc = "surface" => schema.defs[e.name].kind \notin {"absent", "nullable_alias"}
        /\ doc = "defs.json" => /\ schema.defs[e.name].kind = "absent"
                                /\ schema.shared[e.name].kind # "nullable_alias"
    BY <1>8 DEF WalkRef, Resolves, DefsOf
  <2>4. /\ schema' = schema /\ types' = types \cup {} /\ emitted' = emitted /\ phase' = phase
        /\ mentioned' = mentioned \cup {e.name} /\ decl' = Names(target)
        /\ shared_queue' = Queued(doc, e.name)
    BY <1>8 DEF WalkRef, Walk
  <2>5. RefOrigin' /\ TypeOrigin' /\ EmittedTyped' /\ BuiltSound'
    <3> DEFINE none == {}
    <3>1. /\ none \in SUBSET Decl /\ \A t \in none : t.from = "inline" /\ t.refs = {}
          /\ types' = types \cup none /\ \A n \in emitted' : n \in emitted
      BY <2>4
    <3> HIDE DEF target, doc, none
    <3> QED
      BY <1>0, <2>1, <2>2, <2>3, <2>4, <3>1, ReferenceNamed
  <2>6. QueueOrigin'
    <3>1. /\ \A i \in Positions : shared_queue'[i] = shared_queue[i]
          /\ \A i \in 1 .. Len(shared_queue') : i \in Positions \/ shared_queue'[i] = e.name
          /\ doc # "defs.json" => shared_queue' = shared_queue
      <4> HIDE DEF doc
      <4> QED
        BY <1>0, <2>1, <2>4, QueueGrows
    <3>2. Positions' = 1 .. Len(shared_queue')
      BY DEF Positions
    <3>3. ASSUME NEW i \in Positions'
          PROVE  /\ schema.shared[shared_queue'[i]].kind # "nullable_alias"
                 /\ schema.defs[shared_queue'[i]].kind = "absent"
      <4>1. CASE i \in Positions
        BY <3>1, <4>1 DEF Meant, QueueOrigin
      <4>2. CASE i \notin Positions
        <5>1. doc = "defs.json" /\ shared_queue'[i] = e.name
          BY <3>1, <3>2, <4>2 DEF Positions
        <5> QED
          BY <2>3, <5>1
      <4> QED
        BY <4>1, <4>2
    <3> QED
      BY <2>4, <3>3 DEF QueueOrigin
  <2> QED
    BY <2>5, <2>6 DEF Meant
<1>9. ASSUME NEW e \in pending, WalkNullableAlias(e) PROVE Meant'
  BY <1>9, MeaningUntouched DEF WalkNullableAlias
<1>10. ASSUME NEW e \in pending, WalkEnum(e) PROVE Meant'
  <2> DEFINE target == [doc |-> "inline", name |-> e.name]
             enum == [name |-> e.name, from |-> "inline", body |-> {e}, refs |-> {}]
             inline == IF e.name \in emitted THEN {} ELSE {enum}
  <2>1. e \in Expr /\ e.name \in Name /\ Walking
    BY <1>0, <1>10, Expressions DEF TypeOK, WalkEnum, Walk
  <2>2. target \in Target /\ target.doc = "inline" /\ target.name = e.name
    BY <2>1 DEF Target
  <2>3. inline \in SUBSET Decl /\ \A t \in inline : t.from = "inline" /\ t.refs = {}
    BY <2>1, BegunIsDecl
  <2>4. /\ schema' = schema /\ types' = types \cup inline /\ phase' = phase
        /\ emitted' = emitted \cup {e.name} /\ mentioned' = mentioned \cup {e.name}
        /\ decl' = Names(target) /\ shared_queue' = shared_queue
    BY <1>10 DEF WalkEnum, Walk
  <2>5. \A n \in emitted' : n \in emitted \/ \E t \in inline : t.name = n
    BY <2>4
  <2>6. RefOrigin' /\ TypeOrigin' /\ EmittedTyped' /\ BuiltSound'
    <3> HIDE DEF target, inline
    <3> QED
      BY <1>0, <2>1, <2>2, <2>3, <2>4, <2>5, ReferenceNamed
  <2> QED
    BY <2>4, <2>6 DEF Meant, QueueOrigin, Positions
<1>11. ASSUME NEW e \in pending, WalkScalar(e) PROVE Meant'
  BY <1>11, MeaningUntouched DEF WalkScalar, Walk
<1>12. CASE RecursionError
  BY <1>12, MeaningUntouched DEF RecursionError
<1>13. CASE Declare
  <2>1. Walking /\ types' = types \cup {decl} /\ decl' = NoDecl
    BY <1>13 DEF Declare
  <2>2. Declarations' = Declarations
    BY <1>0, <2>1, TypesDeclare DEF Declarations, NoDecl, Walking
  <2>3. UNCHANGED <<schema, emitted, shared_queue, next, mentioned>> /\ phase' # "built"
    BY <1>13 DEF Declare, Walking, Ended
  <2> QED
    BY <2>2, <2>3 DEF Meant, QueueOrigin, RefOrigin, TypeOrigin, EmittedTyped, BuiltSound, Positions
<1>14. CASE UNCHANGED vars
  BY <1>14, MeaningUntouched DEF vars
<1> QED
  BY <1>1, <1>2, <1>3, <1>4, <1>5, <1>6, <1>7, <1>8, <1>9, <1>10, <1>11, <1>12, <1>13, <1>14
  DEF Next, RefuseLocal, RefuseRoot, RefuseEnvelope, RefuseShared, RefuseSurface, WalkInexpressible

-----------------------------------------------------------------------------
(* Theorems *)

LEMMA InvHolds == Spec => []Inv
<1>1. Init => Inv
  BY InitTyped, InitClosed, InitMeant DEF Inv
<1>2. Inv /\ [Next]_vars => Inv'
  BY TypedStep, ClosedStep, MeantStep DEF Inv
<1> QED
  BY <1>1, <1>2, PTL DEF Spec

\* The builder's state stays within the shapes its code gives it; in particular
\* the index into shared_queue never runs past its end (build's while loop).
THEOREM TypeCorrect == Spec => []TypeOK
<1>1. Inv => TypeOK
  BY DEF Inv, Typed
<1> QED
  BY InvHolds, <1>1, PTL

\* For every set of schemas, a name of a built surface stands for the definition
\* that the references to it resolved to, or for a namesake written inline
\* (_resolve's refusal of a name declared in both documents).
THEOREM ReferencesMeanTheirTargets == Spec => []RefMeansItsTarget
<1>1. Inv => RefMeansItsTarget
  <2> SUFFICES ASSUME Inv, phase = "built", NEW t \in types, NEW r \in t.refs, r.doc \in Document,
                      NEW u \in types, u.name = r.name
               PROVE  u.from \in {r.doc, "inline", "root"}
    BY DEF RefMeansItsTarget
  <2>0. TypeOK
    BY DEF Inv, Typed
  <2>1. /\ t \in Declarations /\ u \in Declarations
        /\ Declarations \subseteq types \cup {NoDecl} /\ NoDecl \notin Declarations
    BY <2>0, TypesDeclare DEF Inv, Meant, BuiltSound, Declarations, NoDecl
  <2>2. /\ r.name \in mentioned
        /\ r.doc = "surface" => schema.defs[r.name].kind \notin {"absent", "nullable_alias"}
        /\ r.doc = "defs.json" => schema.defs[r.name].kind = "absent"
    BY <2>1 DEF Inv, Meant, RefOrigin
  <2>3. u.from # "envelope"
    <3>1. r.name \in emitted
      BY <2>0, <2>2 DEF Inv, Closed, Asked, PastDefs, Meant, BuiltSound, Positions, TypeOK
    <3>2. schema.defs[r.name].kind # "nullable_alias"
      BY <2>2 DEF Document
    <3>3. PICK own \in Declarations : own.name = r.name /\ own.from # "envelope"
      BY <3>1, <3>2 DEF Inv, Meant, EmittedTyped
    <3>4. own \in types
      BY <2>1
    <3> QED
      BY <3>3, <3>4 DEF Inv, Meant, BuiltSound, Sound
  <2>4. u.from \in Document \cup {"inline", "root", "envelope"}
    BY <2>0 DEF TypeOK, Decl
  <2>5. /\ u.from = "surface" => schema.defs[r.name].kind # "absent"
        /\ u.from = "defs.json" => schema.defs[r.name].kind = "absent"
    BY <2>1 DEF Inv, Meant, TypeOrigin
  <2> QED
    BY <2>2, <2>3, <2>4, <2>5 DEF Document
<1> QED
  BY InvHolds, <1>1, PTL

\* For every set of schemas, a definition that was asked for and is missing from
\* a built surface gave way to a type written inline (_emit's early return).
THEOREM OnlyNamesakesAreMissing == Spec => []OnlyNamesakesFallOut
<1>1. Inv => OnlyNamesakesFallOut
  <2> SUFFICES ASSUME Inv, phase = "built", NEW n \in mentioned \ InlineNames,
                      schema.defs[n].kind # "nullable_alias"
               PROVE  OwnTypes(n) # {}
    BY DEF OnlyNamesakesFallOut
  <2>0. TypeOK
    BY DEF Inv, Typed
  <2>1. n \in emitted
    BY <2>0 DEF Inv, Closed, Asked, PastDefs, Meant, BuiltSound, Positions, TypeOK
  <2>2. PICK t \in Declarations : t.name = n /\ t.from # "envelope"
    BY <2>1 DEF Inv, Meant, EmittedTyped
  <2>3. t \in types
    BY DEF Inv, Meant, BuiltSound, Declarations, NoDecl
  <2>4. t.from \in Document \cup {"inline", "root", "envelope"}
    BY <2>0, <2>3 DEF TypeOK, Decl
  <2> QED
    BY <2>2, <2>3, <2>4 DEF InlineNames, OwnTypes
<1> QED
  BY InvHolds, <1>1, PTL

LEMMA VerdictOfPhase ==
  ASSUME phase \in {"defs", "variant", "envelope", "shared", "built", "refused", "recursion_error"}
  PROVE  /\ Ended => Verdict = IF phase = "built" THEN "built" ELSE "refused"
         /\ ~Ended => Verdict = "open"
BY DEF Verdict, Ended

\* For every set of schemas the builder takes up only names that the schema or a
\* reference asks for, and ends with all of them or refuses (build).
THEOREM BuilderImplementsClosure == Spec => ImplementsClosure
<1>1. Init => Closure!Init
  BY VerdictOfPhase DEF Init, Closure!Init, Defined, Ended
<1>2. Inv /\ Inv' /\ [Next]_vars => [Closure!Next]_(Closure!vars)
  <2> SUFFICES ASSUME Inv, Inv', [Next]_vars PROVE [Closure!Next]_(Closure!vars)
    OBVIOUS
  <2>1. TypeOK /\ TypeOK'
    BY DEF Inv, Typed
  <2>2. /\ Ended => Verdict = IF phase = "built" THEN "built" ELSE "refused"
        /\ ~Ended => Verdict = "open"
    BY <2>1, VerdictOfPhase DEF TypeOK
  <2>3. /\ Ended' => Verdict' = IF phase' = "built" THEN "built" ELSE "refused"
        /\ ~Ended' => Verdict' = "open"
    BY <2>1 DEF TypeOK, Verdict, Ended
  <2>4. ASSUME UNCHANGED <<phase, emitted, mentioned>> PROVE [Closure!Next]_(Closure!vars)
    BY <2>4 DEF Closure!vars, Verdict, Ended
  <2>5. ASSUME ~Ended, ~Ended', NEW n \in Name, n \in mentioned, emitted' = emitted \cup {n},
               mentioned' = mentioned
        PROVE  [Closure!Next]_(Closure!vars)
    BY <2>2, <2>3, <2>5 DEF Closure!Next, Closure!Declare
  <2>6. ASSUME ~Ended, ~Ended', NEW n \in Name, emitted' = emitted \cup {n},
               mentioned' = mentioned \cup {n}
        PROVE  [Closure!Next]_(Closure!vars)
    BY <2>2, <2>3, <2>6 DEF Closure!Next, Closure!Introduce
  <2>7. ASSUME ~Ended, phase' \in {"refused", "recursion_error"}, UNCHANGED <<emitted, mentioned>>
        PROVE  [Closure!Next]_(Closure!vars)
    BY <2>2, <2>3, <2>7 DEF Closure!Next, Closure!Refuse, Ended
  <2>8. ASSUME ~Ended, ~Ended', UNCHANGED <<emitted, mentioned>>
        PROVE  [Closure!Next]_(Closure!vars)
    BY <2>2, <2>3, <2>8 DEF Closure!vars
  <2>9. ASSUME NEW n \in Name, EmitLocal(n) PROVE [Closure!Next]_(Closure!vars)
    <3>1. n \in mentioned /\ emitted' = emitted \cup {n} /\ mentioned' = mentioned
      BY <2>9, EmitTakes DEF EmitLocal, Inv, Closed, Traced
    <3> QED
      BY <2>5, <2>9, <3>1 DEF EmitLocal, Ended
  <2>10. CASE EmitShared
    <3>1. shared_queue[next] \in Name /\ next \in Positions
      BY <2>1, <2>10 DEF EmitShared, AtShared, TypeOK, Positions
    <3>2. /\ shared_queue[next] \in mentioned /\ emitted' = emitted \cup {shared_queue[next]}
          /\ mentioned' = mentioned
      BY <2>10, <3>1, EmitTakes DEF EmitShared, Inv, Closed, Traced
    <3> QED
      BY <2>5, <2>10, <3>1, <3>2 DEF EmitShared, AtShared, Ended
  <2>11. CASE DeclareVariant
    BY <2>1, <2>6, <2>11, Variants DEF DeclareVariant, Begin, AtRoot, Ended
  <2>12. ASSUME NEW e \in pending, WalkEnum(e) PROVE [Closure!Next]_(Closure!vars)
    <3>1. e.name \in Name
      BY <2>1, <2>12, Expressions DEF TypeOK, WalkEnum
    <3> QED
      BY <2>6, <2>12, <3>1 DEF WalkEnum, Walk, Walking, Ended
  <2>13. ASSUME NEW e \in pending, WalkRef(e) PROVE [Closure!Next]_(Closure!vars)
    <3>1. /\ ~Ended /\ ~Ended' /\ emitted' = emitted
          /\ mentioned' \in SUBSET Name /\ mentioned \subseteq mentioned'
      BY <2>1, <2>13 DEF WalkRef, Walk, Walking, Ended, TypeOK
    <3> QED
      BY <2>2, <2>3, <3>1 DEF Closure!Next, Closure!Mention
  <2>14. CASE Build
    <3>1. ~Ended /\ mentioned \subseteq emitted
      BY <2>1, <2>14 DEF Build, AtCheck, Ended, Inv, Closed, Asked, PastDefs, Positions, TypeOK
    <3>2. Ended' /\ phase' = "built" /\ UNCHANGED <<emitted, mentioned>>
      BY <2>14 DEF Build, Ended
    <3> QED
      BY <2>2, <2>3, <3>1, <3>2 DEF Closure!Next, Closure!Accept
  <2>15. ASSUME Refuse, ~Ended PROVE [Closure!Next]_(Closure!vars)
    BY <2>7, <2>15 DEF Refuse
  <2>16. CASE RecursionError
    BY <2>7, <2>16 DEF RecursionError, Walking
  <2>17. CASE DeclareEnvelope \/ EnterShared
    BY <2>8, <2>17 DEF DeclareEnvelope, AtEnvelope, EnterShared, AtRoot, Ended
  <2>18. CASE \/ Declare \/ UNCHANGED vars
              \/ \E e \in pending : WalkNullableAlias(e) \/ WalkScalar(e)
    BY <2>4, <2>18 DEF Declare, vars, WalkNullableAlias, WalkScalar, Walk
  <2> QED
    BY <2>9, <2>10, <2>11, <2>12, <2>13, <2>14, <2>15, <2>16, <2>17, <2>18
    DEF Next, RefuseLocal, RefuseRoot, RefuseEnvelope, RefuseShared, RefuseSurface,
      WalkInexpressible, AtRoot, AtEnvelope, AtShared, AtCheck, Walking, Ended
<1> QED
  BY InvHolds, <1>1, <1>2, PTL DEF Spec, ImplementsClosure, Closure!Spec

-----------------------------------------------------------------------------
(* Descent *)

\* No definition is queued twice (_resolve's test before it appends).
Distinct == \A i, j \in Positions : shared_queue[i] = shared_queue[j] => i = j

LEMMA QueuedDistinct ==
  ASSUME TypeOK, Distinct, NEW doc, NEW n \in Name
  PROVE  \A i, j \in 1 .. Len(Queued(doc, n)) : Queued(doc, n)[i] = Queued(doc, n)[j] => i = j
<1>1. shared_queue \in Seq(Name) /\ Len(shared_queue) \in Nat /\ DOMAIN shared_queue = Positions
  BY DEF TypeOK, Positions
<1>2. CASE doc = "defs.json" /\ \A i \in DOMAIN shared_queue : shared_queue[i] # n
  <2>1. Queued(doc, n) = Append(shared_queue, n)
    BY <1>2 DEF Queued
  <2>2. /\ Len(Append(shared_queue, n)) = Len(shared_queue) + 1
        /\ Append(shared_queue, n)[Len(shared_queue) + 1] = n
        /\ \A i \in Positions : Append(shared_queue, n)[i] = shared_queue[i]
    BY <1>1 DEF Positions
  <2>3. \A i \in 1 .. Len(shared_queue) + 1 : i \in Positions \/ i = Len(shared_queue) + 1
    BY <1>1 DEF Positions
  <2> QED
    BY <1>1, <1>2, <2>1, <2>2, <2>3 DEF Distinct
<1>3. CASE ~(doc = "defs.json" /\ \A i \in DOMAIN shared_queue : shared_queue[i] # n)
  BY <1>3 DEF Queued, Distinct, Positions
<1> QED
  BY <1>2, <1>3

LEMMA QueueIsDistinct == Spec => []Distinct
<1>1. Init => Distinct
  BY DEF Init, Distinct, Positions
<1>2. TypeOK /\ Distinct /\ [Next]_vars => Distinct'
  <2> SUFFICES ASSUME TypeOK, Distinct, [Next]_vars PROVE Distinct'
    OBVIOUS
  <2>1. ASSUME NEW e \in pending, WalkRef(e) PROVE Distinct'
    <3>1. e.name \in Name /\ shared_queue' = Queued(Doc(e), e.name)
      BY <2>1, Expressions DEF WalkRef, TypeOK
    <3> QED
      BY <3>1, QueuedDistinct DEF Distinct, Positions
  <2>2. CASE shared_queue' = shared_queue
    BY <2>2 DEF Distinct, Positions
  <2>3. (\A e \in pending : ~WalkRef(e)) => shared_queue' = shared_queue
    BY DEF Next, vars, EmitLocal, RefuseLocal, RefuseRoot, DeclareVariant, DeclareEnvelope,
           RefuseEnvelope, EnterShared, EmitShared, RefuseShared, Build, RefuseSurface,
           WalkNullableAlias, WalkEnum, WalkScalar, WalkInexpressible, RecursionError, Declare,
           Refuse
  <2> QED
    BY <2>1, <2>2, <2>3
<1> QED
  BY <1>1, <1>2, TypeCorrect, PTL DEF Spec

\* How far build has come, in the order of weight: its phase, the local
\* definitions to emit, the queued ones behind the index, and of the declaration
\* in progress the aliases read and the expressions to walk.
Rank ==
  CASE phase = "defs" -> 4 [] phase = "variant" -> 3 [] phase = "envelope" -> 2
    [] phase = "shared" -> 1 [] Ended -> 0

Passed == {shared_queue[i] : i \in {j \in Positions : j < next}}

StrictSubset(S, T) == S \subseteq T /\ S # T

\* A step goes down in the lexicographic order.  Passed is bounded by Name and
\* depth by MaxInline, so that there is no infinite descent if Name and Expr are
\* finite.
Descends ==
  \/ Rank' < Rank
  \/ /\ Rank' = Rank
     /\ \/ StrictSubset(todo', todo)
        \/ /\ todo' = todo
           /\ \/ StrictSubset(Passed, Passed') /\ Passed' \subseteq Name
              \/ /\ Passed' = Passed
                 /\ \/ Walking /\ ~Walking'
                    \/ /\ Walking /\ Walking'
                       /\ \/ depth < depth' /\ depth' <= MaxInline
                          \/ depth' = depth /\ StrictSubset(pending', pending)

LEMMA RankIs ==
  /\ phase = "defs" => Rank = 4
  /\ phase = "variant" => Rank = 3
  /\ phase = "envelope" => Rank = 2
  /\ phase = "shared" => Rank = 1
  /\ Ended => Rank = 0
BY DEF Rank, Ended

LEMMA RankIsNext ==
  /\ phase' = "defs" => Rank' = 4
  /\ phase' = "variant" => Rank' = 3
  /\ phase' = "envelope" => Rank' = 2
  /\ phase' = "shared" => Rank' = 1
  /\ Ended' => Rank' = 0
BY DEF Rank, Ended

LEMMA EmitLoopDescends ==
  ASSUME TypeOK, Distinct, EmitShared PROVE Descends
<1>1. /\ phase = "shared" /\ phase' = "shared" /\ todo' = todo /\ shared_queue' = shared_queue
      /\ next' = next + 1 /\ next \in Positions
  BY DEF EmitShared, AtShared, TypeOK, Positions
<1>2. Rank' = Rank
  BY <1>1, RankIs, RankIsNext
<1>3. Passed' = Passed \cup {shared_queue[next]}
  <2>1. \A j \in Positions : j < next' <=> (j < next \/ j = next)
    BY <1>1 DEF Positions, TypeOK
  <2>2. Passed' = {shared_queue[i] : i \in {j \in Positions : j < next'}}
    BY <1>1 DEF Passed, Positions
  <2> QED
    BY <1>1, <2>1, <2>2 DEF Passed
<1>4. shared_queue[next] \notin Passed
  <2> SUFFICES ASSUME NEW i \in Positions, i < next, shared_queue[i] = shared_queue[next]
               PROVE  FALSE
    BY DEF Passed
  <2> QED
    BY <1>1 DEF Distinct, Positions
<1>5. Passed' \subseteq Name
  BY <1>1, <1>3 DEF Passed, TypeOK, Positions
<1>6. StrictSubset(Passed, Passed')
  BY <1>3, <1>4 DEF StrictSubset
<1> QED
  BY <1>1, <1>2, <1>5, <1>6 DEF Descends

\* A reference may lengthen the queue, but only behind the index.
LEMMA PassedStays ==
  ASSUME TypeOK, next' = next,
         \/ shared_queue' = shared_queue
         \/ \E doc, n : n \in Name /\ shared_queue' = Queued(doc, n)
  PROVE  Passed' = Passed
<1>1. CASE shared_queue' = shared_queue
  BY <1>1 DEF Passed, Positions
<1>2. ASSUME NEW doc, NEW n \in Name, shared_queue' = Queued(doc, n) PROVE Passed' = Passed
  <2>1. /\ Len(shared_queue) \in Nat /\ next \in Int /\ next <= Len(shared_queue) + 1
        /\ shared_queue' \in Seq(Name) /\ Len(shared_queue') \in Nat
        /\ Len(shared_queue) <= Len(shared_queue')
        /\ \A i \in Positions : shared_queue'[i] = shared_queue[i]
    BY <1>2, QueueGrows DEF TypeOK
  <2>2. {j \in 1 .. Len(shared_queue') : j < next} = {j \in Positions : j < next}
    BY <2>1 DEF Positions
  <2>3. Passed' = {shared_queue'[i] : i \in {j \in 1 .. Len(shared_queue') : j < next}}
    BY DEF Passed, Positions
  <2> QED
    BY <2>1, <2>2, <2>3 DEF Passed
<1> QED
  BY <1>1, <1>2

LEMMA WalkDescends ==
  ASSUME TypeOK, TypeOK', NEW e \in pending,
         WalkRef(e) \/ WalkNullableAlias(e) \/ WalkEnum(e) \/ WalkScalar(e)
  PROVE  Descends
<1>1. /\ Walking /\ phase' = phase /\ todo' = todo /\ next' = next
  BY DEF WalkRef, WalkNullableAlias, WalkEnum, WalkScalar, Walk
<1>2. Rank' = Rank
  BY <1>1 DEF Rank, Ended
<1>3. Passed' = Passed
  <2>1. WalkRef(e) => e.name \in Name /\ shared_queue' = Queued(Doc(e), e.name)
    BY Expressions DEF WalkRef, TypeOK
  <2> QED
    BY <1>1, <2>1, PassedStays DEF WalkNullableAlias, WalkEnum, WalkScalar
<1>4. Walking'
  <2>1. decl' = decl \/ \E target : decl' = Names(target)
    BY DEF WalkRef, WalkNullableAlias, WalkEnum, WalkScalar
  <2>2. decl'.from = decl.from
    BY <1>1, <2>1, WalkingDecl DEF Names, Decl
  <2> QED
    BY <1>1, <2>2 DEF Walking, Ended
<1>5. \/ depth < depth' /\ depth' <= MaxInline
      \/ depth' = depth /\ StrictSubset(pending', pending)
  <2>1. CASE WalkNullableAlias(e)
    BY <2>1, ConstantsAssumption DEF WalkNullableAlias, TypeOK
  <2>2. CASE WalkRef(e) \/ WalkEnum(e) \/ WalkScalar(e)
    BY <2>2 DEF WalkRef, WalkEnum, WalkScalar, Walk, StrictSubset
  <2> QED
    BY <2>1, <2>2
<1> QED
  BY <1>1, <1>2, <1>3, <1>4, <1>5 DEF Descends

\* What BuildEnds rests on: definitions may refer to each other in circles and
\* lengthen the queue that build walks, yet every step of build brings it nearer
\* to its end, since no definition is queued twice and no alias read for ever.
THEOREM BuildDescends == Spec => [][Descends]_vars
<1>1. ASSUME TypeOK, TypeOK', Distinct, Next PROVE Descends
  <2>1. ASSUME NEW n \in Name, EmitLocal(n) PROVE Descends
    <3>1. phase = "defs" /\ phase' = "defs" /\ n \in todo /\ todo' = todo \ {n}
      BY <2>1 DEF EmitLocal
    <3> QED
      BY <3>1, RankIs, RankIsNext DEF Descends, StrictSubset
  <2>2. ASSUME phase' \in {"built", "refused", "recursion_error"}, ~Ended PROVE Descends
    <3>1. phase \in {"defs", "variant", "envelope", "shared"}
      BY <1>1, <2>2 DEF TypeOK, Ended
    <3>2. Rank \in {1, 2, 3, 4} /\ Rank' = 0
      BY <2>2, <3>1, RankIs, RankIsNext DEF Ended
    <3> QED
      BY <3>2 DEF Descends
  <2>3. CASE DeclareVariant \/ DeclareEnvelope \/ EnterShared
    <3>1. \/ phase = "defs" /\ phase' \in {"variant", "envelope", "shared"}
          \/ phase = "variant" /\ phase' = "envelope"
          \/ phase = "envelope" /\ phase' = "shared"
      BY <2>3 DEF DeclareVariant, DeclareEnvelope, EnterShared, AtEnvelope, AtRoot
    <3>2. Rank' < Rank
      BY <3>1, RankIs, RankIsNext
    <3> QED
      BY <3>2 DEF Descends
  <2>4. CASE \/ RefuseLocal \/ RefuseRoot \/ RefuseEnvelope \/ RefuseShared \/ Build
             \/ RefuseSurface \/ RecursionError \/ \E e \in pending : WalkInexpressible(e)
    <3>1. phase' \in {"built", "refused", "recursion_error"} /\ ~Ended
      BY <2>4
      DEF RefuseLocal, RefuseRoot, RefuseEnvelope, RefuseShared, Build, RefuseSurface,
          RecursionError, WalkInexpressible, Refuse, Walking, AtRoot, AtEnvelope, AtShared,
          AtCheck, Ended
    <3> QED
      BY <2>2, <3>1
  <2>5. CASE Declare
    <3>1. /\ Walking /\ ~Walking' /\ phase' = phase /\ todo' = todo
          /\ shared_queue' = shared_queue /\ next' = next
      BY <2>5 DEF Declare, Walking, Ended, NoDecl
    <3>2. Rank' = Rank /\ Passed' = Passed
      BY <3>1 DEF Rank, Ended, Passed, Positions
    <3> QED
      BY <3>1, <3>2 DEF Descends
  <2> QED
    BY <1>1, <2>1, <2>3, <2>4, <2>5, EmitLoopDescends, WalkDescends DEF Next
<1>2. TypeOK /\ TypeOK' /\ Distinct /\ [Next]_vars => [Descends]_vars
  BY <1>1
<1> QED
  BY <1>2, TypeCorrect, QueueIsDistinct, PTL DEF Spec

-----------------------------------------------------------------------------
(* What the closure promises *)

\* The abstract closure takes up only what is asked for and is accepted with all
\* of it.  A lemma about DeclaredClosure alone.
OnlyAsked == emitted \subseteq mentioned
AllAsked == Verdict = "built" => mentioned \subseteq emitted

LEMMA ClosureCloses == Closure!Spec => [](OnlyAsked /\ AllAsked)
<1>1. Closure!Init => OnlyAsked /\ AllAsked
  BY DEF Closure!Init, OnlyAsked, AllAsked
<1>2. OnlyAsked /\ AllAsked /\ [Closure!Next]_(Closure!vars) => OnlyAsked' /\ AllAsked'
  <2> HIDE DEF Verdict
  <2> SUFFICES ASSUME OnlyAsked, AllAsked, [Closure!Next]_(Closure!vars)
               PROVE  OnlyAsked' /\ AllAsked'
    OBVIOUS
  <2>1. CASE Closure!Mention
    BY <2>1 DEF Closure!Mention, OnlyAsked, AllAsked
  <2>2. ASSUME NEW n \in Name, Closure!Declare(n) \/ Closure!Introduce(n)
        PROVE  OnlyAsked' /\ AllAsked'
    BY <2>2 DEF Closure!Declare, Closure!Introduce, OnlyAsked, AllAsked
  <2>3. CASE Closure!Accept \/ Closure!Refuse \/ UNCHANGED Closure!vars
    BY <2>3 DEF Closure!Accept, Closure!Refuse, Closure!vars, OnlyAsked, AllAsked
  <2> QED
    BY <2>1, <2>2, <2>3 DEF Closure!Next
<1> QED
  BY <1>1, <1>2, PTL DEF Closure!Spec

\* What a built surface has taken up is what some declaration or the schema asks
\* for, no name less and none more, though the queue of shared definitions grew
\* while build walked it.  It comes from the abstract closure.
BuiltIsClosed == phase = "built" => emitted = mentioned

THEOREM BuiltSurfaceIsClosed == Spec => []BuiltIsClosed
<1>1. OnlyAsked /\ AllAsked => BuiltIsClosed
  <2>1. phase = "built" => Verdict = "built"
    BY VerdictOfPhase DEF Ended
  <2> QED
    BY <2>1 DEF OnlyAsked, AllAsked, BuiltIsClosed
<1> QED
  BY <1>1, BuilderImplementsClosure, ClosureCloses, PTL DEF ImplementsClosure
=============================================================================
