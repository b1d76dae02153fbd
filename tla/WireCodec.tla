----------------------------- MODULE WireCodec ------------------------------
(***************************************************************************)
(* The codecs that the backends of scripts/wire_codegen.py generate for    *)
(* one declared field, and a frame that goes round the bindings: a binding *)
(* decodes it, encodes what it holds, another decodes that.                *)
(*                                                                         *)
(* Each backend lowers a field on the record path (a surface without       *)
(* unions: struct tags, serde derives) or on the union path (JSON written  *)
(* by hand), or refuses it (UnsupportedSchema).                            *)
(*                                                                         *)
(* Abstracted: a JSON value is its nesting depth and the kind of its       *)
(* innermost item (lists hold items of one kind); references to records    *)
(* and unions, tags, and the layout of the generated text are left out.    *)
(***************************************************************************)
EXTENDS Integers

CONSTANT Fields  \* the field declarations to be lowered

Binding == {"rust", "go", "python", "kotlin"}

\* string1 has min_length 1; "guarded" stands for what _require_lowerable
\* refuses in every backend: max_length, pattern, default, an open enum.
\* slot64 is a u64 that the target's int64 names, node_id an alias of u64 that
\* Rust takes from outside and int64 names as well.
Base == {"string", "string1", "guarded", "u64", "slot64", "node_id", "bool",
         "bytes", "enum"}

Field == [base : Base,
          wrap : {"plain", "nullable", "list"},
          presence : {"required", "optional"},
          place : {"record", "body", "payload"},  \* of a record, of a variant's
                                                  \* flattened record, a variant's own
          unions : BOOLEAN,                       \* the surface has unions
          u64_beside : BOOLEAN]                   \* and another field that is a u64

ASSUME FieldsAssumption ==
  /\ Fields \subseteq Field
  /\ \A f \in Fields : /\ f.place # "record" => f.unions
                       /\ f.place = "payload" => f.presence = "required"

-----------------------------------------------------------------------------
(* JSON *)

Texts == {"text", "empty", "symbol", "base64"}  \* symbol: a wire name of the enum
Unsigned == {"zero", "byte", "small", "big"}    \* big: 2^63 .. 2^64-1
Signed == {"zero", "byte", "small", "negative"}
Ints == Unsigned \cup {"negative", "over"}      \* over: above 2^64-1
Atom == Texts \cup Ints \cup {"null", "fraction", "true", "false"}

Scalar(a) == [depth |-> 0, of |-> a]
List(a) == [depth |-> 1, of |-> a]
Scalars(atoms) == {Scalar(a) : a \in atoms}

Null == Scalar("null")      \* on the wire, and a value that is absent
Absent == Scalar("absent")  \* no key
EmptyList == List("nothing")
NilList == List("nil")      \* a nil slice of Go: never on the wire as such

Json == Scalars(Atom) \cup {List(a) : a \in Atom \cup {"nothing"}}
          \cup [depth : {2}, of : {"zero", "byte", "small", "null", "nothing"}]

ByteArrays == {List(a) : a \in {"zero", "byte", "nothing"}}

IntBase == {"u64", "slot64", "node_id"}

\* The wire values of a base type that a strictly typed decoder reads.
Strict(base, ints) ==
  CASE base \in {"string", "string1", "guarded"} -> Scalars(Texts)
    [] base \in IntBase -> Scalars(ints)
    [] base = "bool"    -> Scalars({"true", "false"})
    [] base = "bytes"   -> ByteArrays
    [] base = "enum"    -> {Scalar("symbol")}

ItemOf(d) == [depth |-> d.depth - 1, of |-> d.of]

\* d has the shape of f, its items being these.
Shaped(f, items, d) ==
  IF f.wrap = "list"
  THEN d = EmptyList \/ (d.depth > 0 /\ ItemOf(d) \in items)
  ELSE d \in items

MayBeNull(f) == f.wrap = "nullable" \/ f.presence = "optional"

\* What the schema admits, and what it means.
Conforms(f, d) ==
  \/ f.presence = "optional" /\ d = Absent
  \/ f.wrap = "nullable" /\ d = Null
  \/ Shaped(f, Strict(f.base, Unsigned) \ (IF f.base = "string1" THEN {Scalar("empty")} ELSE {}), d)

Meaning(d) == IF d = Absent THEN Null ELSE d

-----------------------------------------------------------------------------
(* Which fields a backend lowers *)

\* _require_lowerable with its defaults, which every record path but Python's takes.
RecordLowerable(f) ==
  /\ f.presence = "required"
  /\ f.base \notin {"guarded", "node_id", "bytes"}

\* _py_plan, which Python and every union path take.
PlanLowerable(f) == f.base # "guarded"

RustLowers(f) ==
  IF ~f.unions THEN RecordLowerable(f)
  ELSE /\ PlanLowerable(f)
       /\ f.base # "enum"
       /\ f.place = "record" => f.presence = "required" /\ f.wrap # "nullable"

GoLowers(f) ==
  IF ~f.unions THEN RecordLowerable(f)
  ELSE /\ PlanLowerable(f)
       /\ f.base \notin {"enum", "bool"}
       /\ f.wrap = "nullable" => f.presence = "optional"

\* _py_constraints: no checked item type in a list, unless it hides in an alias.
PyLowers(f) ==
  /\ PlanLowerable(f)
  /\ f.wrap = "list" => f.base \notin {"u64", "slot64", "string1"}

KtLowers(f) ==
  IF ~f.unions THEN RecordLowerable(f) /\ (f.wrap = "list" => f.base # "string1")
  ELSE /\ PlanLowerable(f)
       /\ f.base \notin {"enum", "bool", "u64"}
       \* A list's items are decoded under a slot of their own, which int64
       \* does not name.
       /\ f.wrap = "list" => f.base # "slot64"

Lowers(b, f) ==
  CASE b = "rust" -> RustLowers(f) [] b = "go" -> GoLowers(f)
    [] b = "python" -> PyLowers(f) [] b = "kotlin" -> KtLowers(f)

\* The integers of this field are held in a signed 64-bit type.
HeldSigned(b, f) ==
  f.unions /\ f.base \in IntBase /\ (b = "kotlin" \/ (b = "go" /\ f.base # "u64"))

-----------------------------------------------------------------------------
(* Decoding: the value read from a key, {} when the frame is refused *)

\* A decoder that reads these items and nothing else.
Reads(f, items, d) ==
  {v \in {Null} : \/ MayBeNull(f) /\ d = Null
                  \/ f.presence = "optional" /\ d = Absent}
    \cup {v \in {d} : Shaped(f, items, d)}

RustRecordDecode(f, d) == Reads(f, Strict(f.base, Unsigned), d)

\* A variant's Option has no deserialize_with: serde reads a missing key as None.
RustUnionDecode(f, d) ==
  IF f.place = "body" /\ f.wrap = "nullable" /\ d = Absent THEN {Null}
  ELSE Reads(f, Strict(f.base, Unsigned), d)

\* What json.Unmarshal leaves in a variable when it reads null.
GoZero(f) == CASE f.base \in {"string", "string1"} -> {Scalar("empty")}
               [] f.base \in IntBase -> {Scalar("zero")}
               [] f.base = "bool" -> {Scalar("false")}
               [] f.base = "enum" -> {}

GoRecordDecode(f, d) ==
  Reads(f, Strict(f.base, Unsigned), d)
    \cup {z \in GoZero(f) : f.wrap = "plain" /\ d = Null}
    \cup {v \in {NilList} : f.wrap = "list" /\ d = Null}
    \cup {List(z.of) : z \in {y \in GoZero(f) : f.wrap = "list" /\ d = List("null")}}

\* unmarshal_body decodes an optional key into v, and decode the items of a list
\* into a v of their own, so that a list's loop ends in v[i] = v: the generated
\* package does not compile, and no Go binding reads, holds or writes the field.
GoDoesNotCompile(f) == f.unions /\ f.presence = "optional" /\ f.wrap = "list"

\* Int64 wraps what is past 2^63-1.
GoUnionDecodeWraps(f, d) ==
  LET held(v) == IF HeldSigned("go", f) /\ v.of = "big" THEN [v EXCEPT !.of = "negative"] ELSE v
  IN IF GoDoesNotCompile(f) THEN {}
     ELSE {held(v) : v \in Reads(f, Strict(f.base, Unsigned), d)}

\* Int64 refuses what is past 2^63-1.
GoUnionItems(f) ==
  Strict(f.base, IF HeldSigned("go", f) THEN Unsigned \ {"big"} ELSE Unsigned)

GoUnionDecode(f, d) ==
  IF GoDoesNotCompile(f) THEN {} ELSE Reads(f, GoUnionItems(f), d)

\* A surface with a union has its decoders written by hand.
GoDecode(f, d) == IF f.unions THEN GoUnionDecode(f, d) ELSE GoRecordDecode(f, d)

\* _wire_u64 takes any integer; __post_init__ checks the range of a field that
\* is one, and that a constrained string is not empty.
PyItems(f) ==
  IF f.wrap = "list" THEN Strict(f.base, Ints)
  ELSE Strict(f.base, Unsigned) \ (IF f.base = "string1" THEN {Scalar("empty")} ELSE {})

\* render_python emits the helpers and bounds of u64 for fields that are one, or
\* an alias of one: an alias in a list, in a nullable or in a variant's own
\* payload is not looked for, and the generated code ends in a NameError.
PyHelperMissing(f) ==
  f.base = "node_id" /\ ~f.u64_beside /\ (f.wrap # "plain" \/ f.place = "payload")

PyDecode(f, d) ==
  IF PyHelperMissing(f) THEN Reads(f, {}, d) ELSE Reads(f, PyItems(f), d)

\* A Kotlin String as it comes.
KtRecordItemsUnchecked(f) == Strict(f.base, Unsigned)

\* The record's init block checks min_length.
KtRecordItems(f) ==
  Strict(f.base, Unsigned) \ (IF f.base = "string1" THEN {Scalar("empty")} ELSE {})

KtRecordDecode(f, d) == Reads(f, KtRecordItems(f), d)

\* Long refuses what is past 2^63-1.
KtUnionItems(f) == Strict(f.base, Unsigned \ {"big"})

KtUnionDecode(f, d) == Reads(f, KtUnionItems(f), d)

KtDecode(f, d) == IF f.unions THEN KtUnionDecode(f, d) ELSE KtRecordDecode(f, d)

RustDecode(f, d) == IF f.unions THEN RustUnionDecode(f, d) ELSE RustRecordDecode(f, d)

\* A frame is the key's value and whether there is a key that is not declared;
\* every closed record refuses such a key.
Decode(b, f, fr) ==
  {v \in CASE b = "rust"   -> RustDecode(f, fr.json)
           [] b = "go"     -> GoDecode(f, fr.json)
           [] b = "python" -> PyDecode(f, fr.json)
           [] b = "kotlin" -> KtDecode(f, fr.json) : ~fr.unknown}

-----------------------------------------------------------------------------
(* Encoding: the key's value, {} when the encoder refuses *)

\* None is written as null.
WritesNull(f, v) == {v}

\* An optional value that is None is omitted, the rest is written as it is.
Writes(f, v) == {IF f.presence = "optional" /\ v = Null THEN Absent ELSE v}

\* Whatever is None is omitted.
PyEncodeOmits(f, v) == {IF v = Null THEN Absent ELSE v}

RustEncode(f, v) == Writes(f, v)
PyEncode(f, v) == Writes(f, v)
KtRecordEncode(f, v) == Writes(f, v)

\* LongJson without its requirement.
KtUnionEncodeAny(f, v) == Writes(f, v)

\* LongJson requires what it writes to be 0 or more, wherever it stands.
KtUnionEncode(f, v) ==
  IF f.base \in IntBase /\ v.of = "negative" THEN {} ELSE Writes(f, v)

GoRecordEncode(f, v) == {IF v = NilList THEN EmptyList ELSE v}

\* json.Marshal of a Go value: []byte becomes base64, a nil slice null.
GoMarshal(f, v) ==
  CASE v = NilList -> Null
    [] v # NilList /\ f.base = "bytes" /\ ~(f.wrap = "list" /\ v = EmptyList) ->
         [depth |-> v.depth - 1, of |-> IF v.of = "nothing" THEN "empty" ELSE "base64"]
    [] OTHER -> v

\* CheckInt64 looks at required fields that are integers themselves; ByteArray
\* and NonNil stand in for json.Marshal at the same places and at lists. An
\* optional field that gets here is no list.
GoUnionEncode(f, v) ==
  CASE f.presence = "optional" ->
         {IF v = Null THEN Absent ELSE GoMarshal(f, v)}
    [] f.presence = "required" /\ f.wrap = "list" ->
         {IF f.base = "bytes" THEN GoMarshal(f, v)
          ELSE IF v = NilList THEN EmptyList ELSE v}
    [] f.presence = "required" /\ f.wrap # "list" ->
         IF HeldSigned("go", f) /\ f.place # "payload" /\ v.of = "negative" THEN {}
         ELSE {IF v = NilList THEN EmptyList ELSE v}

Encode(b, f, v) ==
  CASE b = "rust"   -> RustEncode(f, v)
    [] b = "go"     -> IF f.unions THEN GoUnionEncode(f, v) ELSE GoRecordEncode(f, v)
    [] b = "python" -> PyEncode(f, v)
    [] b = "kotlin" -> IF f.unions THEN KtUnionEncode(f, v) ELSE KtRecordEncode(f, v)

-----------------------------------------------------------------------------
(* A frame going round *)

\* The items a binding's type lets an application put into the field.
HostItems(b, f) ==
  CASE b = "rust"   -> Strict(f.base, Unsigned)
    [] b = "go"     -> (IF f.base = "enum" THEN Scalars(Texts)
                        ELSE Strict(f.base, IF HeldSigned("go", f) THEN Signed ELSE Unsigned))
                         \cup {n \in {NilList} : f.base = "bytes" /\ f.wrap # "list"}
    [] b = "python" -> IF PyHelperMissing(f) /\ f.wrap # "list" THEN {} ELSE PyItems(f)
    [] b = "kotlin" -> IF f.unions THEN Strict(f.base, Signed) ELSE KtRecordItems(f)

Host(b, f) ==
  IF b = "go" /\ GoDoesNotCompile(f) THEN {}
  ELSE {d \in Json \cup {NilList} : Shaped(f, HostItems(b, f), d)}
         \cup {d \in {NilList} : b = "go" /\ f.wrap = "list"}
         \cup {d \in {Null} : MayBeNull(f)}

Frame == [json : Json \cup {Absent}, unknown : BOOLEAN]
NoFrame == [json |-> Absent, unknown |-> TRUE]  \* before a first frame is sent

\* A variant's own payload has no key that could be missing or added.
Outside(f) ==
  {fr \in Frame : f.place = "payload" => fr.json # Absent /\ ~fr.unknown}

VARIABLES
  field,   \* the field (fixed)
  origin,  \* history: the frame it began with, or NoFrame
  sender,  \* who wrote the frame: a binding, "outside" or "nobody"
  frame,   \* the frame last written
  holder,  \* the binding that decoded it, or "wire"
  value    \* what that binding holds

vars == <<field, origin, sender, frame, holder, value>>

Init ==
  /\ field \in Fields
  /\ \/ \* a frame from a peer whose encoder is not generated
        /\ frame \in Outside(field) /\ origin = frame
        /\ sender = "outside" /\ holder = "wire" /\ value = Null
     \/ \* a value that an application made
        /\ holder \in {b \in Binding : Lowers(b, field)}
        /\ value \in Host(holder, field)
        /\ frame = NoFrame /\ origin = NoFrame /\ sender = "nobody"

Receive(b) ==
  /\ holder = "wire" /\ Lowers(b, field)
  /\ value' \in Decode(b, field, frame)
  /\ holder' = b
  /\ UNCHANGED <<field, origin, sender, frame>>

Forward ==
  /\ holder # "wire"
  /\ \E json \in Encode(holder, field, value) : frame' = [json |-> json, unknown |-> FALSE]
  /\ sender' = holder /\ holder' = "wire" /\ value' = Null
  /\ UNCHANGED <<field, origin>>

Next == Forward \/ \E b \in Binding : Receive(b)

Spec == Init /\ [][Next]_vars
-----------------------------------------------------------------------------
(* What the fixture generators expect of every binding *)

\* CASES of gen_nodekey_null_leniency_fixture: an optional key in its three forms.
NodeKeyCases ==
  {[wire |-> Absent, decoded_key |-> Null, reencoded |-> FALSE],
   [wire |-> Null, decoded_key |-> Null, reencoded |-> FALSE],
   [wire |-> Scalar("text"), decoded_key |-> Scalar("text"), reencoded |-> TRUE]}

\* The key of NodeSnapshot, a record, and of NodeAdd, a variant.
NodeKeyField(f) ==
  f.base = "string" /\ f.wrap = "nullable" /\ f.presence = "optional" /\ f.unions

\* CASES of gen_nodeid_exact_range_fixture: 2^53-1, 2^53+1 and 2^64-1.
NodeIdCases ==
  {[wire |-> Scalar("small"), outcome |-> "exact"],
   [wire |-> Scalar("small"), outcome |-> "exact_or_reject"],
   [wire |-> Scalar("big"), outcome |-> "exact_or_reject"]}

NodeIdField(f) ==
  f.base = "node_id" /\ f.wrap = "plain" /\ f.presence = "required" /\ f.unions
    /\ f.place # "payload"

-----------------------------------------------------------------------------
(* Properties *)

Decoded == holder # "wire" /\ ~frame.unknown

\* []byte that json.Marshal wrote: every decoder refuses it.
BytesAsText(f, d) == f.base = "bytes" /\ d.of \in {"base64", "empty"}

\* A frame that conforms to the schema keeps its meaning however often it is
\* decoded and encoded and by whichever bindings, except that Go writes bytes
\* in lists and optional fields as text (encode in _render_go_unions).
MeaningKept ==
  origin # NoFrame /\ ~origin.unknown /\ Conforms(field, origin.json) =>
    IF holder = "wire"
    THEN Meaning(frame.json) = Meaning(origin.json) \/ BytesAsText(field, frame.json)
    ELSE value = Meaning(origin.json)

\* Wherever it has been, every binding that lowers the field reads it, unless
\* it is an integer too wide for a signed type (int64 of the Go and Kotlin
\* targets) or bytes written as text, or Python's helper is missing, or the
\* binding is Go's and its code does not compile.
RelayDelivers ==
  /\ origin # NoFrame /\ ~origin.unknown /\ Conforms(field, origin.json)
  /\ holder = "wire" /\ ~BytesAsText(field, frame.json)
  => \A b \in {c \in Binding : Lowers(c, field)} :
       \/ Decode(b, field, frame) # {}
       \/ HeldSigned(b, field) /\ frame.json.of = "big"
       \/ b = "python" /\ PyHelperMissing(field)
       \/ b = "go" /\ GoDoesNotCompile(field)

\* Constraints of the schema that a binding's type does not hold a value to:
\* min_length outside Python and Kotlin's records, the range of an alias in a
\* Python list.
Unchecked(b, f, d) ==
  \/ /\ f.base = "string1" /\ d.of = "empty"
     /\ b \in {"rust", "go"} \/ (b = "kotlin" /\ f.unions)
  \/ b = "python" /\ f.base = "node_id" /\ f.wrap = "list" /\ d.of \in {"over", "negative"}

\* What a strict decoder accepted conforms, save null for an optional key, Go's
\* struct tags reading null as zero, serde reading a missing Option of a variant,
\* and the unchecked constraints.
AcceptedConforms ==
  Decoded =>
    \/ Conforms(field, frame.json)
    \/ field.presence = "optional" /\ frame.json = Null
    \/ holder = "go" /\ ~field.unions /\ frame.json.of = "null"
    \/ /\ holder = "rust" /\ field.unions /\ field.place = "body"
       /\ field.wrap = "nullable" /\ frame.json = Absent
    \/ Unchecked(holder, field, frame.json)

\* An encoder's frame conforms, whatever the application put into the value and
\* whatever leniency let it in: apart from the unchecked constraints, only Go's
\* encoder can err, by an enum's string, by a negative id in a list, an optional
\* field or a variant's payload, and by bytes in lists and optional fields.
EmitsConforming ==
  sender \in Binding =>
    \/ Conforms(field, frame.json)
    \/ Unchecked(sender, field, frame.json)
    \/ /\ sender = "go"
       /\ \/ field.base = "enum"
          \/ /\ HeldSigned("go", field) /\ frame.json.of = "negative"
             /\ field.wrap = "list" \/ field.presence = "optional" \/ field.place = "payload"
          \/ field.base = "bytes" /\ (field.wrap = "list" \/ field.presence = "optional")
          \/ field.presence = "optional" /\ frame.json = Null

\* The expectations that two generators write into the conformance corpus are
\* met by every generated codec: an omitted and a null key are absent and are
\* written back as omitted; an identifier is read exactly or refused.
FixtureExpectationsMet ==
  /\ \A c \in NodeKeyCases :
       NodeKeyField(field) /\ ~frame.unknown /\ frame.json = c.wire =>
         IF holder = "wire"
         THEN \A b \in Binding : Lowers(b, field) => Decode(b, field, frame) # {}
         ELSE /\ value = c.decoded_key
              /\ \A json \in Encode(holder, field, value) : c.reencoded <=> json # Absent
  /\ \A c \in NodeIdCases :
       NodeIdField(field) /\ ~frame.unknown /\ frame.json = c.wire =>
         IF holder = "wire"
         THEN c.outcome = "exact" =>
                \A b \in Binding : Lowers(b, field) => Decode(b, field, frame) # {}
         ELSE value = c.wire
=============================================================================
