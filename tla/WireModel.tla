----------------------------- MODULE WireModel ------------------------------
(***************************************************************************)
(* The surface builder of scripts/wire_codegen.py (_SurfaceBuilder): it    *)
(* walks a JSON Schema, declares each definition of the schema, then the   *)
(* envelope at its root, then the definitions of defs.json it was led to,  *)
(* and refuses what it cannot lower.                                       *)
(*                                                                         *)
(* Abstracted: a schema node is its kind, the leaf type expressions below  *)
(* it (nullable and list wrappers removed) and the shape rules it breaks.  *)
(* The properties of an object are walked in any order.  No surface is     *)
(* built from defs.json itself (codegen/surfaces.json names none).         *)
(***************************************************************************)
EXTENDS Integers, Sequences

CONSTANTS
  Name,       \* names of definitions and of types
  Literal,    \* the value lists of inline enums
  Schemas,    \* the schemas a surface is built from
  MaxInline   \* bound: nullable aliases read in one declaration (it stands
              \* for the interpreter's recursion limit)

Flaw == {"undocumented", "open", "empty", "unknown_required", "bad_name",
         "required_default", "bad_variants", "bad_values"}

Expr ==
  [kind : {"local", "shared"}, name : Name]
    \cup [kind : {"enum"}, name : Name, values : Literal]
    \cup [kind : {"scalar", "unsupported"}]

DefKind == {"nullable_alias", "union", "enum", "record", "alias", "unsupported"}

Node == [kind : DefKind \cup {"absent"}, exprs : SUBSET Expr, flaws : SUBSET Flaw]

Root == [kind : {"none", "wire_shape"}]
          \cup [kind : {"envelope"}, envelope : Name, flaws : SUBSET Flaw,
                variant : [kind : {"ref"}, expr : [kind : {"local", "shared"}, name : Name]]
                            \cup [kind : {"inline"}, tag : Name, node : Node]]

Schema == [defs : [Name -> Node], shared : [Name -> Node], root : Root]

ASSUME ConstantsAssumption == Schemas \subseteq Schema /\ MaxInline \in Nat

VARIABLES
  schema,        \* the schema being built (fixed) and defs.json
  phase,         \* where build is
  scope,         \* the document local references resolve in
  todo,          \* local definitions still to be emitted
  emitted,       \* names taken
  types,         \* declarations made
  shared_queue,  \* names of defs.json in the order of their first reference
  next,          \* the build loop's index into shared_queue
  decl,          \* the declaration in progress, or NoDecl
  pending,       \* its type expressions still to be walked
  depth,         \* nullable aliases read in it
  mentioned      \* history: the names that roots and references asked for

vars == <<schema, phase, scope, todo, emitted, types, shared_queue, next, decl,
          pending, depth, mentioned>>

Document == {"surface", "defs.json"}
Target == [doc : Document \cup {"inline", "root"}, name : Name]
Decl == [name : Name, from : Document \cup {"inline", "root", "envelope"},
         body : SUBSET Expr, refs : SUBSET Target]
NoDecl == [from |-> "none"]

Ended == phase \in {"built", "refused", "recursion_error"}
Walking == ~Ended /\ decl.from # "none"

TypeOK ==
  /\ schema \in Schema
  /\ phase \in {"defs", "variant", "envelope", "shared", "built", "refused",
               "recursion_error"}
  /\ scope \in Document
  /\ todo \subseteq Name /\ emitted \subseteq Name /\ mentioned \subseteq Name
  /\ types \subseteq Decl
  /\ shared_queue \in Seq(Name) /\ next \in 1 .. Len(shared_queue) + 1
  /\ decl \in Decl \cup {NoDecl}
  /\ pending \subseteq Expr /\ depth \in 0 .. MaxInline

Defined(defs) == {n \in Name : defs[n].kind # "absent"}

-----------------------------------------------------------------------------
(* Shape rules: what each kind of declaration refuses *)

RecordFlaws == {"undocumented", "open", "empty", "unknown_required", "bad_name",
                "required_default"}
UnionFlaws == {"undocumented", "open", "bad_name", "bad_variants"}
EnumFlaws == {"undocumented", "bad_values"}
AliasFlaws == {"undocumented"}

\* A definition that is null or something else declares nothing: its shape is
\* looked at where it is referred to.
FlawsOf(kind) ==
  CASE kind = "record" -> RecordFlaws
    [] kind = "union"  -> UnionFlaws
    [] kind = "enum"   -> EnumFlaws
    [] kind = "alias"  -> AliasFlaws
    [] kind = "nullable_alias" -> {}
    [] kind = "unsupported"    -> Flaw

Unlowerable(node) ==
  node.kind = "unsupported" \/ node.flaws \cap FlawsOf(node.kind) # {}

-----------------------------------------------------------------------------
(* References *)

Doc(e) == IF e.kind = "local" THEN scope ELSE "defs.json"
DefsOf(doc) == IF doc = "surface" THEN schema.defs ELSE schema.shared

\* The document's definition of a name, whichever document that is.
ResolvesLoosely(e) == DefsOf(Doc(e))[e.name].kind # "absent"

Resolves(e) ==
  /\ DefsOf(Doc(e))[e.name].kind # "absent"
  /\ Doc(e) = "defs.json" => schema.defs[e.name].kind = "absent"

Queued(doc, n) ==
  IF doc = "defs.json" /\ \A i \in DOMAIN shared_queue : shared_queue[i] # n
  THEN Append(shared_queue, n) ELSE shared_queue

-----------------------------------------------------------------------------
(* Walking a declaration *)

Init ==
  /\ schema \in Schemas
  /\ phase = "defs" /\ scope = "surface"
  /\ todo = Defined(schema.defs)
  /\ emitted = {} /\ types = {} /\ shared_queue = <<>> /\ next = 1
  /\ decl = NoDecl /\ pending = {} /\ depth = 0
  /\ mentioned = Defined(schema.defs)

Refuse ==
  /\ phase' = "refused"
  /\ UNCHANGED <<schema, scope, todo, emitted, types, shared_queue, next, decl,
                 pending, depth, mentioned>>

\* The name is taken when the declaration is finished.
BeginUntaken(n, from, node) ==
  /\ decl' = [name |-> n, from |-> from, body |-> node.exprs, refs |-> {}]
  /\ pending' = node.exprs
  /\ depth' = 0
  /\ UNCHANGED <<schema, scope, types, emitted>>

\* A declaration is begun: its name is taken before its expressions are walked.
Begin(n, from, node) ==
  /\ decl' = [name |-> n, from |-> from, body |-> node.exprs, refs |-> {}]
  /\ pending' = node.exprs
  /\ depth' = 0
  /\ emitted' = emitted \cup {n}
  /\ UNCHANGED <<schema, scope, types>>

\* An alias declares nothing either.
EmitNoAlias(n, from, node) ==
  IF n \in emitted \/ node.kind \in {"nullable_alias", "alias"}
  THEN /\ emitted' = emitted \cup {n}
       /\ UNCHANGED <<schema, scope, types, decl, pending, depth>>
  ELSE Begin(n, from, node)

\* _emit and declaration, without Unlowerable's refusals.
Emit(n, from, node) ==
  IF n \in emitted \/ node.kind = "nullable_alias"
  THEN /\ emitted' = emitted \cup {n}
       /\ UNCHANGED <<schema, scope, types, decl, pending, depth>>
  ELSE Begin(n, from, node)

Walk(e) ==
  /\ Walking
  /\ e \in pending
  /\ pending' = pending \ {e}
  /\ UNCHANGED <<schema, phase, scope, todo, next>>

Names(target) == [decl EXCEPT !.refs = @ \cup {target}]

\* A reference to a definition that is not null or something else.
WalkRef(e) ==
  /\ e.kind \in {"local", "shared"} /\ Resolves(e)
  /\ DefsOf(Doc(e))[e.name].kind \notin {"nullable_alias", "unsupported"}
  /\ Walk(e)
  /\ shared_queue' = Queued(Doc(e), e.name)
  /\ decl' = Names([doc |-> Doc(e), name |-> e.name])
  /\ mentioned' = mentioned \cup {e.name}
  /\ UNCHANGED <<emitted, types, depth>>

\* A reference to one that is: its own expression stands in the reference's
\* place, and is read in the document of the declaration being walked.
WalkNullableAlias(e) ==
  /\ e.kind \in {"local", "shared"} /\ Resolves(e)
  /\ DefsOf(Doc(e))[e.name].kind = "nullable_alias"
  /\ decl.from # "envelope" /\ depth < MaxInline
  /\ Walking /\ e \in pending
  /\ pending' = (pending \ {e}) \cup DefsOf(Doc(e))[e.name].exprs
  /\ depth' = depth + 1
  /\ UNCHANGED <<schema, phase, scope, todo, emitted, types, shared_queue, next,
                 decl, mentioned>>

\* An inline enum is declared where it is first met; met again it is a reference.
WalkEnum(e) ==
  /\ e.kind = "enum"
  /\ Walk(e)
  /\ decl' = Names([doc |-> "inline", name |-> e.name])
  /\ emitted' = emitted \cup {e.name}
  /\ types' = IF e.name \in emitted THEN types
              ELSE types \cup {[name |-> e.name, from |-> "inline", body |-> {e}, refs |-> {}]}
  /\ mentioned' = mentioned \cup {e.name}
  /\ UNCHANGED <<shared_queue, depth>>

WalkScalar(e) ==
  /\ e.kind = "scalar"
  /\ Walk(e)
  /\ UNCHANGED <<emitted, types, shared_queue, decl, depth, mentioned>>

\* An envelope's variant must name a type (the alias it names instead is not
\* read on: the build ends without a surface wherever it leads).
Inexpressible(e) ==
  \/ e.kind = "unsupported"
  \/ /\ e.kind \in {"local", "shared"}
     /\ \/ ~Resolves(e)
        \/ DefsOf(Doc(e))[e.name].kind = "unsupported"
        \/ DefsOf(Doc(e))[e.name].kind = "nullable_alias" /\ decl.from = "envelope"

WalkInexpressible(e) == Walking /\ e \in pending /\ Inexpressible(e) /\ Refuse

\* Nullable aliases that lead to each other never end in a type.
RecursionError ==
  /\ Walking /\ depth = MaxInline
  /\ \E e \in pending : /\ e.kind \in {"local", "shared"} /\ Resolves(e)
                        /\ DefsOf(Doc(e))[e.name].kind = "nullable_alias"
  /\ phase' = "recursion_error"
  /\ UNCHANGED <<schema, scope, todo, emitted, types, shared_queue, next, decl,
                 pending, depth, mentioned>>

Declare ==
  /\ Walking /\ pending = {}
  /\ types' = types \cup {decl}
  /\ decl' = NoDecl
  /\ UNCHANGED <<schema, phase, scope, todo, emitted, shared_queue, next, pending,
                 depth, mentioned>>

-----------------------------------------------------------------------------
(* build *)

EmitLocal(n) ==
  /\ phase = "defs" /\ ~Walking /\ n \in todo
  /\ n \in emitted \/ ~Unlowerable(schema.defs[n])
  /\ todo' = todo \ {n}
  /\ Emit(n, "surface", schema.defs[n])
  /\ UNCHANGED <<phase, shared_queue, next, mentioned>>

RefuseLocal ==
  /\ phase = "defs" /\ ~Walking
  /\ \E n \in todo : n \notin emitted /\ Unlowerable(schema.defs[n])
  /\ Refuse

AtRoot == phase = "defs" /\ ~Walking /\ todo = {}

\* A root that declares a wire shape must be an envelope, and a closed one.
RefuseRoot ==
  /\ AtRoot
  /\ \/ schema.root.kind = "wire_shape"
     \/ /\ schema.root.kind = "envelope"
        /\ \/ "open" \in schema.root.flaws
           \/ /\ schema.root.variant.kind = "inline"
              /\ Unlowerable(schema.root.variant.node)
  /\ Refuse

DeclareVariant ==
  /\ AtRoot
  /\ schema.root.kind = "envelope" /\ "open" \notin schema.root.flaws
  /\ LET variant == schema.root.variant
     IN /\ variant.kind = "inline" /\ ~Unlowerable(variant.node)
        /\ Begin(variant.tag, "root", variant.node)
        /\ mentioned' = mentioned \cup {variant.tag}
  /\ phase' = "variant"
  /\ UNCHANGED <<todo, shared_queue, next>>

AtEnvelope ==
  \/ phase = "variant" /\ ~Walking
  \/ /\ AtRoot
     /\ schema.root.kind = "envelope" /\ "open" \notin schema.root.flaws
     /\ schema.root.variant.kind = "ref"

DeclareEnvelope ==
  /\ AtEnvelope
  /\ schema.root.flaws \cap {"bad_variants", "undocumented"} = {}
  /\ LET variant == schema.root.variant
         exprs   == IF variant.kind = "ref" THEN {variant.expr} ELSE {}
         named   == IF variant.kind = "ref" THEN {}
                    ELSE {[doc |-> "root", name |-> variant.tag]}
     IN /\ decl' = [name |-> schema.root.envelope, from |-> "envelope",
                    body |-> exprs, refs |-> named]
        /\ pending' = exprs
  /\ depth' = 0
  /\ phase' = "envelope"
  /\ UNCHANGED <<schema, scope, todo, emitted, types, shared_queue, next, mentioned>>

RefuseEnvelope ==
  /\ AtEnvelope
  /\ schema.root.flaws \cap {"bad_variants", "undocumented"} # {}
  /\ Refuse

EnterShared ==
  /\ \/ phase = "envelope" /\ ~Walking
     \/ AtRoot /\ schema.root.kind = "none"
  /\ phase' = "shared" /\ scope' = "defs.json"
  /\ UNCHANGED <<schema, todo, emitted, types, shared_queue, next, decl, pending,
                 depth, mentioned>>

AtSharedShort == phase = "shared" /\ ~Walking /\ next < Len(shared_queue)

AtShared == phase = "shared" /\ ~Walking /\ next <= Len(shared_queue)

EmitSharedTwice ==
  /\ AtShared
  /\ LET n == shared_queue[next]
     IN /\ n \in emitted \/ ~Unlowerable(schema.shared[n])
        /\ Emit(n, "defs.json", schema.shared[n])
  /\ next' = next + 2
  /\ UNCHANGED <<phase, todo, shared_queue, mentioned>>

EmitShared ==
  /\ AtShared
  /\ LET n == shared_queue[next]
     IN /\ n \in emitted \/ ~Unlowerable(schema.shared[n])
        /\ Emit(n, "defs.json", schema.shared[n])
  /\ next' = next + 1
  /\ UNCHANGED <<phase, todo, shared_queue, mentioned>>

RefuseShared ==
  /\ AtShared
  /\ shared_queue[next] \notin emitted
  /\ Unlowerable(schema.shared[shared_queue[next]])
  /\ Refuse

AtCheck == phase = "shared" /\ ~Walking /\ next > Len(shared_queue)

TypeNames == {t.name : t \in types}
Unknown == UNION {{r \in t.refs : r.name \notin TypeNames} : t \in types}

Sound ==
  /\ types # {}
  /\ \A t, u \in types : t.name = u.name => t = u
  /\ Unknown = {}

Build ==
  /\ AtCheck /\ Sound
  /\ phase' = "built"
  /\ UNCHANGED <<schema, scope, todo, emitted, types, shared_queue, next, decl,
                 pending, depth, mentioned>>

RefuseSurface == AtCheck /\ ~Sound /\ Refuse

Next ==
  \/ \E n \in Name : EmitLocal(n)
  \/ RefuseLocal
  \/ RefuseRoot
  \/ DeclareVariant
  \/ DeclareEnvelope
  \/ RefuseEnvelope
  \/ EnterShared
  \/ EmitShared
  \/ RefuseShared
  \/ Build
  \/ RefuseSurface
  \/ \E e \in pending : \/ WalkRef(e)
                        \/ WalkNullableAlias(e)
                        \/ WalkEnum(e)
                        \/ WalkScalar(e)
                        \/ WalkInexpressible(e)
  \/ RecursionError
  \/ Declare

Spec == Init /\ [][Next]_vars

\* The builder is one call of a sequential function: it runs until it returns.
FairSpec == Spec /\ WF_vars(Next)
-----------------------------------------------------------------------------
(* Properties *)

Verdict == CASE phase = "built" -> "built"
             [] phase \in {"refused", "recursion_error"} -> "refused"
             [] ~Ended -> "open"

\* The builder is the abstract closure: it takes up only names that the schema
\* or a reference asks for, and ends with all of them or refuses (build's loop
\* over shared_queue, in which shared definitions lead to further ones).
Closure == INSTANCE DeclaredClosure WITH declared <- emitted, verdict <- Verdict
ImplementsClosure == Closure!Spec

\* In a built surface a name stands for the definition of the document its
\* references resolved in (_resolve's refusal of a name declared in both),
\* or for a namesake written inline.
RefMeansItsTarget ==
  phase = "built" =>
    \A t \in types : \A r \in t.refs :
      r.doc \in Document => \A u \in types : u.name = r.name => u.from \in {r.doc, "inline", "root"}

InlineNames == {t.name : t \in {u \in types : u.from \in {"inline", "root"}}}
OwnTypes(n) == {t \in types : t.name = n /\ t.from \in Document}

\* A definition that was asked for is missing from a built surface only when a
\* type written inline bears its name (_emit's early return).
OnlyNamesakesFallOut ==
  phase = "built" =>
    \A n \in mentioned \ InlineNames :
      OwnTypes(n) # {} \/ schema.defs[n].kind = "nullable_alias"

\* Every schema is built or refused, however its definitions refer to each other.
BuildEnds == <>Ended

\* scripts/wire_codegen.py:15: "fails closed on anything else, so a schema edit
\* can never silently fall out of the generated surface".
NothingFallsOut ==
  phase = "built" =>
    /\ \A n \in Defined(schema.defs) :
         schema.defs[n].kind = "nullable_alias" \/ OwnTypes(n) # {}
    /\ \A t \in types : \A e \in t.body :
         e.kind = "enum" => \E u \in types : u.name = e.name /\ u.body = {e}
=============================================================================
