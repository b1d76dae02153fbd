---------------------------- MODULE MCWireModel -----------------------------
(***************************************************************************)
(* Small schemas for TLC: local definitions A and B, definitions S, T and  *)
(* B of defs.json, an inline enum E that may also be called B, and a root. *)
(***************************************************************************)
EXTENDS WireModel, FiniteSets

MCName == {"A", "B", "S", "T", "E", "Frame"}

Local(n) == [kind |-> "local", name |-> n]
Shared(n) == [kind |-> "shared", name |-> n]
Enum(n, v) == [kind |-> "enum", name |-> n, values |-> v]
Scalar == [kind |-> "scalar"]
Of(kind, exprs) == [kind |-> kind, exprs |-> exprs, flaws |-> {}]
Absent == Of("absent", {})

\* Each set has a definition of every shape the builder tells apart.
DefsA == {Of("record", es) : es \in {{Local("B")}, {Shared("S"), Local("B")}, {Shared("B"), Scalar},
                                     {Enum("E", 1), Shared("S")}, {Enum("B", 1), Shared("S")},
                                     {Local("A"), Enum("E", 1)}, {Local("T")},
                                     {Scalar, [kind |-> "unsupported"]}}}
           \cup {[Of("union", {Shared("S")}) EXCEPT !.flaws = {"bad_variants"}]}
DefsB == {Absent, Of("enum", {}), Of("alias", {Scalar}), Of("nullable_alias", {Local("B")}),
          Of("nullable_alias", {Shared("S")}), Of("union", {Enum("E", 2), Local("A")}),
          Of("unsupported", {})}
SharedS == {Of("record", {Local("T"), Shared("S")}), Of("record", {Local("T"), Local("B")}),
            Of("nullable_alias", {Local("T")}), Of("nullable_alias", {Local("B")}),
            [Of("enum", {}) EXCEPT !.flaws = {"bad_values"}]}
SharedT == {Of("record", {Enum("E", 2)}), Of("alias", {Scalar}), Absent}

Envelope(variant, flaws) ==
  [kind |-> "envelope", envelope |-> "Frame", flaws |-> flaws, variant |-> variant]
Ref(e) == [kind |-> "ref", expr |-> e]
Inline(tag, exprs) == [kind |-> "inline", tag |-> tag, node |-> Of("record", exprs)]

Roots == {[kind |-> "none"], [kind |-> "wire_shape"],
          Envelope(Ref(Local("A")), {}), Envelope(Ref(Shared("S")), {"bad_variants"}),
          Envelope(Ref(Shared("S")), {}), Envelope(Inline("T", {Shared("S")}), {}),
          Envelope(Inline("A", {Local("A")}), {}), Envelope(Inline("T", {}), {"open"})}

Defs(a, b, s, t) == [n \in MCName |-> CASE n = "A" -> a [] n = "B" -> b [] n = "S" -> s
                                        [] n = "T" -> t [] n \in {"E", "Frame"} -> Absent]

SchemaOf(a, b, s, t, sb, root) ==
  [defs |-> Defs(a, b, Absent, Absent), shared |-> Defs(Absent, sb, s, t), root |-> root]

\* Every pairing of definitions under two roots, and every root over a few.
MCSchemas ==
  {SchemaOf(a, b, s, t, Of("enum", {}), root) :
     a \in DefsA, b \in DefsB, s \in SharedS, t \in SharedT,
     root \in {Envelope(Ref(Local("A")), {}), Envelope(Inline("T", {Shared("S")}), {})}}
  \cup {SchemaOf(a, Absent, Of("record", {Local("T"), Shared("S")}), t, Absent, root) :
          a \in {Absent, Of("record", {Shared("S")})}, t \in SharedT, root \in Roots}
=============================================================================
