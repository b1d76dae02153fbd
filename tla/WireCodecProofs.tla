-------------------------- MODULE WireCodecProofs ---------------------------
(***************************************************************************)
(* Theorems about WireCodec, for every set of fields.  What a codec does   *)
(* to a value is decided by the value's depth and by the word at its       *)
(* bottom; the first lemmas say which of both each decoder reads.          *)
(***************************************************************************)
EXTENDS WireCodec, TLAPS

Word == Atom \cup {"nothing", "nil", "absent"}

\* Wire values, and what a binding may hold.
Value == [depth : 0 .. 2, of : Word]

\* How deep the items of a conforming value lie, and what they are.
Depth(f) == (IF f.base = "bytes" THEN 1 ELSE 0) + (IF f.wrap = "list" THEN 1 ELSE 0)

WordsOf(base, ints) ==
  CASE base \in {"string", "string1", "guarded"} -> Texts
    [] base \in IntBase -> ints
    [] base = "bool"    -> {"true", "false"}
    [] base = "bytes"   -> {"zero", "byte", "nothing"}
    [] base = "enum"    -> {"symbol"}

\* min_length is looked at.
CheckedWords(f, ints) ==
  WordsOf(f.base, ints) \ (IF f.base = "string1" THEN {"empty"} ELSE {})

Fits(f, words, d) ==
  (f.wrap = "list" /\ d = EmptyList) \/ (d.depth = Depth(f) /\ d.of \in words)

-----------------------------------------------------------------------------
(* Shapes *)

LEMMA ValueIs ==
  ASSUME NEW d \in Value
  PROVE  /\ d.depth \in 0 .. 2 /\ d.of \in Word
         /\ \A n, a : d = [depth |-> n, of |-> a] <=> d.depth = n /\ d.of = a
BY DEF Value

LEMMA FieldIs ==
  ASSUME NEW f \in Field
  PROVE  /\ f.base \in Base /\ f.wrap \in {"plain", "nullable", "list"}
         /\ f.presence \in {"required", "optional"}
         /\ f.place \in {"record", "body", "payload"}
         /\ f.unions \in BOOLEAN /\ f.u64_beside \in BOOLEAN
BY DEF Field

\* Scalars of some words, and lists of one word.
LEMMA InScalars ==
  ASSUME NEW d \in Value, NEW words
  PROVE  /\ d \in Scalars(words) <=> d.depth = 0 /\ d.of \in words
         /\ ItemOf(d) \in Scalars(words) <=> d.depth = 1 /\ d.of \in words
         /\ d \in ByteArrays <=> d.depth = 1 /\ d.of \in {"zero", "byte", "nothing"}
         /\ ItemOf(d) \in ByteArrays <=> d.depth = 2 /\ d.of \in {"zero", "byte", "nothing"}
<1>1. d.depth \in 0 .. 2 /\ \A n, a : d = [depth |-> n, of |-> a] <=> d.depth = n /\ d.of = a
  BY ValueIs
<1>2. \A n, a : ItemOf(d) = [depth |-> n, of |-> a] <=> d.depth - 1 = n /\ d.of = a
  BY DEF ItemOf
<1> QED
  BY <1>1, <1>2 DEF Scalars, Scalar, ByteArrays, List

LEMMA ShapedStrict ==
  ASSUME NEW f \in Field, NEW d \in Value, NEW ints
  PROVE  Shaped(f, Strict(f.base, ints), d) <=> Fits(f, WordsOf(f.base, ints), d)
<1>1. d.depth \in 0 .. 2 /\ f.base \in Base
  BY ValueIs, FieldIs
<1>2. d = EmptyList => d.depth = 1
  BY DEF EmptyList, List
<1>3. CASE f.base = "bytes"
  <2>1. Strict(f.base, ints) = ByteArrays /\ WordsOf(f.base, ints) = {"zero", "byte", "nothing"}
    BY <1>3 DEF Strict, WordsOf, IntBase
  <2> QED
    BY <1>1, <1>2, <1>3, <2>1, InScalars DEF Shaped, Fits, Depth
<1>4. CASE f.base # "bytes"
  <2>1. PICK words : Strict(f.base, ints) = Scalars(words) /\ WordsOf(f.base, ints) = words
    <3>1. {Scalar("symbol")} = Scalars({"symbol"})
      BY DEF Scalars
    <3> QED
      BY <1>1, <1>4, <3>1 DEF Strict, WordsOf, Base, IntBase
  <2> QED
    BY <1>1, <1>2, <1>4, <2>1, InScalars DEF Shaped, Fits, Depth
<1> QED
  BY <1>3, <1>4

\* The checked items of Conforms, of Python and of Kotlin's records.
LEMMA ShapedChecked ==
  ASSUME NEW f \in Field, NEW d \in Value, NEW ints
  PROVE  Shaped(f, Strict(f.base, ints) \ (IF f.base = "string1" THEN {Scalar("empty")} ELSE {}), d)
           <=> Fits(f, CheckedWords(f, ints), d)
<1>1. CASE f.base # "string1"
  <2>1. Strict(f.base, ints) \ (IF f.base = "string1" THEN {Scalar("empty")} ELSE {}) = Strict(f.base, ints)
    BY <1>1
  <2> QED
    BY <1>1, <2>1, ShapedStrict DEF CheckedWords
<1>2. CASE f.base = "string1"
  <2>1. Strict(f.base, ints) \ {Scalar("empty")} = Scalars(Texts \ {"empty"})
    BY <1>2 DEF Strict, Scalars, Scalar, Texts, IntBase
  <2>2. CheckedWords(f, ints) = Texts \ {"empty"}
    BY <1>2 DEF CheckedWords, WordsOf, IntBase
  <2>3. d.depth \in 0 .. 2 /\ (d = EmptyList => d.depth = 1)
    BY ValueIs DEF EmptyList, List
  <2> QED
    BY <1>2, <2>1, <2>2, <2>3, InScalars DEF Shaped, Fits, Depth
<1> QED
  BY <1>1, <1>2

-----------------------------------------------------------------------------
(* Decoders *)

\* The words of a schema are none of the marks of absence.
LEMMA WordsAreAtoms ==
  ASSUME NEW f \in Field
  PROVE  /\ \A d \in {Null, Absent, NilList, List("null")}, ints \in SUBSET Ints :
              ~Fits(f, WordsOf(f.base, ints), d) /\ ~Fits(f, CheckedWords(f, ints), d)
         /\ \A d, ints : Fits(f, CheckedWords(f, ints), d) => Fits(f, WordsOf(f.base, ints), d)
         /\ Null # Absent /\ Null # NilList /\ Absent # NilList
<1>1. f.base \in Base
  BY FieldIs
<1>2. \A ints \in SUBSET Ints : WordsOf(f.base, ints) \cap {"null", "absent", "nil"} = {}
  BY <1>1 DEF WordsOf, Base, IntBase, Texts, Ints, Unsigned
<1>3. \A ints : CheckedWords(f, ints) \subseteq WordsOf(f.base, ints)
  BY DEF CheckedWords
<1> QED
  BY <1>2, <1>3 DEF Fits, Null, Absent, NilList, EmptyList, List, Scalar

LEMMA ConformsIs ==
  ASSUME NEW f \in Field, NEW d \in Value
  PROVE  Conforms(f, d) <=> \/ f.presence = "optional" /\ d = Absent
                            \/ f.wrap = "nullable" /\ d = Null
                            \/ Fits(f, CheckedWords(f, Unsigned), d)
BY ShapedChecked DEF Conforms

\* The words a binding's decoder reads: min_length is checked by Python and by
\* Kotlin's records, the range of an integer everywhere but in a Python list.
Read(b, f) ==
  CASE b = "rust"   -> WordsOf(f.base, Unsigned)
    [] b = "go"     -> WordsOf(f.base, IF HeldSigned("go", f) THEN Unsigned \ {"big"} ELSE Unsigned)
    [] b = "python" -> IF PyHelperMissing(f) THEN {}
                       ELSE IF f.wrap = "list" THEN WordsOf(f.base, Ints)
                       ELSE CheckedWords(f, Unsigned)
    [] b = "kotlin" -> IF f.unions THEN WordsOf(f.base, Unsigned \ {"big"})
                       ELSE CheckedWords(f, Unsigned)

\* Beside them, absence in the forms the schema allows; serde reads a missing
\* Option, and Go's struct tags read null as a zero value.
ReadsAs(b, f, d, v) ==
  \/ v = Null /\ MayBeNull(f) /\ d = Null
  \/ v = Null /\ f.presence = "optional" /\ d = Absent
  \/ v = d /\ Fits(f, Read(b, f), d)
  \/ /\ b = "rust" /\ f.unions /\ f.place = "body" /\ f.wrap = "nullable"
     /\ v = Null /\ d = Absent
  \/ /\ b = "go" /\ ~f.unions
     /\ \/ f.wrap = "plain" /\ d = Null /\ v \in GoZero(f)
        \/ f.wrap = "list" /\ d = Null /\ v = NilList
        \/ f.wrap = "list" /\ d = List("null") /\ \E z \in GoZero(f) : v = List(z.of)

LEMMA ReadsIs ==
  ASSUME NEW f, NEW items, NEW d, NEW v
  PROVE  v \in Reads(f, items, d) <=> \/ v = Null /\ MayBeNull(f) /\ d = Null
                                      \/ v = Null /\ f.presence = "optional" /\ d = Absent
                                      \/ v = d /\ Shaped(f, items, d)
BY DEF Reads

LEMMA ShapedNothing ==
  ASSUME NEW f \in Field, NEW d \in Value
  PROVE  Shaped(f, {}, d) <=> Fits(f, {}, d)
BY DEF Shaped, Fits

LEMMA DecodeIs ==
  ASSUME NEW b \in Binding, NEW f \in Field, NEW fr, fr.json \in Value, NEW v
  PROVE  v \in Decode(b, f, fr)
           <=> ~fr.unknown /\ ~(b = "go" /\ GoDoesNotCompile(f)) /\ ReadsAs(b, f, fr.json, v)
<1> DEFINE d == fr.json
<1>1. d \in Value /\ f.unions \in BOOLEAN /\ f.wrap \in {"plain", "nullable", "list"}
  BY FieldIs
<1>2. Shaped(f, Strict(f.base, Unsigned), d) <=> Fits(f, WordsOf(f.base, Unsigned), d)
  BY ShapedStrict
<1>3. CASE b = "rust"
  <2>1. v \in Reads(f, Strict(f.base, Unsigned), d)
          <=> \/ v = Null /\ MayBeNull(f) /\ d = Null
              \/ v = Null /\ f.presence = "optional" /\ d = Absent
              \/ v = d /\ Fits(f, Read(b, f), d)
    BY <1>2, <1>3, ReadsIs DEF Read
  <2>2. Decode(b, f, fr) = {w \in RustDecode(f, d) : ~fr.unknown}
    BY <1>3 DEF Decode
  <2>3. f.place = "body" /\ f.wrap = "nullable" /\ d = Absent => ~Fits(f, Read(b, f), d)
    BY <1>3, WordsAreAtoms, Absent \in {Null, Absent, NilList, List("null")} DEF Read, Unsigned, Ints
  <2>4. v \in RustDecode(f, d) <=> ReadsAs(b, f, d, v)
    <3>1. CASE f.unions /\ f.place = "body" /\ f.wrap = "nullable" /\ d = Absent
      <4>1. RustDecode(f, d) = {Null}
        BY <3>1 DEF RustDecode, RustUnionDecode
      <4>2. Null # Absent
        BY DEF Null, Absent, Scalar
      <4> QED
        BY <1>3, <2>3, <3>1, <4>1, <4>2 DEF ReadsAs
    <3>2. CASE ~(f.unions /\ f.place = "body" /\ f.wrap = "nullable" /\ d = Absent)
      <4>1. RustDecode(f, d) = Reads(f, Strict(f.base, Unsigned), d)
        BY <1>1, <3>2 DEF RustDecode, RustUnionDecode, RustRecordDecode
      <4> QED
        BY <1>3, <2>1, <3>2, <4>1 DEF ReadsAs
    <3> QED
      BY <3>1, <3>2
  <2> QED
    BY <1>3, <2>2, <2>4
<1>4. CASE b = "go"
  <2>1. Decode(b, f, fr) = {w \in GoDecode(f, d) : ~fr.unknown}
    BY <1>4 DEF Decode
  <2>2. CASE f.unions /\ GoDoesNotCompile(f)
    <3>1. GoDecode(f, d) = {}
      BY <2>2 DEF GoDecode, GoUnionDecode
    <3> QED
      BY <1>4, <2>1, <2>2, <3>1
  <2>3. CASE f.unions /\ ~GoDoesNotCompile(f)
    <3>1. Shaped(f, GoUnionItems(f), d) <=> Fits(f, Read(b, f), d)
      BY <1>4, ShapedStrict DEF GoUnionItems, Read
    <3>2. v \in GoDecode(f, d) <=> ReadsAs(b, f, d, v)
      BY <1>4, <2>3, <3>1, ReadsIs DEF GoDecode, GoUnionDecode, ReadsAs
    <3> QED
      BY <2>1, <2>3, <3>2
  <2>4. CASE ~f.unions
    <3>1. Read(b, f) = WordsOf(f.base, Unsigned)
      BY <1>4, <2>4 DEF Read, HeldSigned
    <3>2. v \in Reads(f, Strict(f.base, Unsigned), d)
            <=> \/ v = Null /\ MayBeNull(f) /\ d = Null
                \/ v = Null /\ f.presence = "optional" /\ d = Absent
                \/ v = d /\ Fits(f, Read(b, f), d)
      BY <1>2, <3>1, ReadsIs
    <3>3. v \in GoDecode(f, d) <=> ReadsAs(b, f, d, v)
      BY <1>4, <2>4, <3>2 DEF GoDecode, GoRecordDecode, ReadsAs
    <3>4. ~GoDoesNotCompile(f)
      BY <2>4 DEF GoDoesNotCompile
    <3> QED
      BY <2>1, <3>3, <3>4
  <2> QED
    BY <1>1, <2>2, <2>3, <2>4
<1>5. CASE b = "python"
  <2>1. Decode(b, f, fr) = {w \in PyDecode(f, d) : ~fr.unknown}
    BY <1>5 DEF Decode
  <2>2. PyDecode(f, d) = Reads(f, IF PyHelperMissing(f) THEN {} ELSE PyItems(f), d)
    BY DEF PyDecode
  <2>3. Shaped(f, IF PyHelperMissing(f) THEN {} ELSE PyItems(f), d) <=> Fits(f, Read(b, f), d)
    <3>1. CASE PyHelperMissing(f)
      BY <1>5, <3>1, ShapedNothing DEF Read
    <3>2. CASE ~PyHelperMissing(f) /\ f.wrap = "list"
      BY <1>5, <3>2, ShapedStrict DEF Read, PyItems
    <3>3. CASE ~PyHelperMissing(f) /\ f.wrap # "list"
      BY <1>5, <3>3, ShapedChecked DEF Read, PyItems
    <3> QED
      BY <3>1, <3>2, <3>3
  <2> QED
    BY <1>5, <2>1, <2>2, <2>3, ReadsIs DEF ReadsAs
<1>6. CASE b = "kotlin"
  <2>1. Decode(b, f, fr) = {w \in KtDecode(f, d) : ~fr.unknown}
    BY <1>6 DEF Decode
  <2>2. Shaped(f, IF f.unions THEN KtUnionItems(f) ELSE KtRecordItems(f), d) <=> Fits(f, Read(b, f), d)
    BY <1>6, ShapedStrict, ShapedChecked DEF Read, KtUnionItems, KtRecordItems
  <2> QED
    BY <1>6, <2>1, <2>2, ReadsIs DEF ReadsAs, KtDecode, KtUnionDecode, KtRecordDecode
<1> QED
  BY <1>3, <1>4, <1>5, <1>6 DEF Binding

\* A conforming value comes out of every decoder as what it means.
LEMMA ConformingIsMeant ==
  ASSUME NEW b \in Binding, NEW f \in Field, NEW fr, fr.json \in Value,
         Lowers(b, f), Conforms(f, fr.json), NEW v \in Decode(b, f, fr)
  PROVE  v = Meaning(fr.json)
<1> DEFINE d == fr.json
<1>1. ReadsAs(b, f, d, v)
  BY DecodeIs
<1>2. d = Null \/ d = List("null") => f.wrap = "nullable" /\ d = Null
  BY ConformsIs, WordsAreAtoms DEF Ints, Unsigned, Null, Absent, List, Scalar
<1>3. f.wrap \in {"plain", "nullable", "list"}
  BY FieldIs
<1>4. d = Absent \/ d # Absent
  OBVIOUS
<1>5. ~Fits(f, Read(b, f), Absent)
  BY WordsAreAtoms, Absent \in {Null, Absent, NilList, List("null")}
     DEF Read, Binding, Unsigned, Ints, Fits, EmptyList, Absent, List, Scalar
<1> QED
  BY <1>1, <1>2, <1>3, <1>5 DEF ReadsAs, Meaning, Null, Absent, List, Scalar

\* Every binding reads a conforming value of a field it lowers, but for integers
\* wider than it holds, the missing helper and the Go that does not compile.
LEMMA ConformingIsRead ==
  ASSUME NEW b \in Binding, NEW f \in Field, NEW fr, fr.json \in Value, ~fr.unknown,
         Lowers(b, f), Conforms(f, fr.json),
         ~(HeldSigned(b, f) /\ fr.json.of = "big"), ~(b = "python" /\ PyHelperMissing(f)),
         ~(b = "go" /\ GoDoesNotCompile(f))
  PROVE  Decode(b, f, fr) # {}
<1> DEFINE d == fr.json
<1>1. SUFFICES \E v : ReadsAs(b, f, d, v)
  BY DecodeIs
<1>2. CASE f.presence = "optional" /\ d = Absent
  BY <1>2 DEF ReadsAs
<1>3. CASE f.wrap = "nullable" /\ d = Null
  BY <1>3 DEF ReadsAs, MayBeNull
<1>4. CASE Fits(f, CheckedWords(f, Unsigned), d)
  <2>1. f.base \in Base
    BY FieldIs
  <2>2. d.of # "big" \/ ~HeldSigned(b, f)
    OBVIOUS
  <2>3. \A ints : f.base \notin IntBase => WordsOf(f.base, ints) = WordsOf(f.base, Unsigned)
    BY DEF WordsOf, IntBase
  <2>4. \A ints : f.base \in IntBase => WordsOf(f.base, ints) = ints /\ CheckedWords(f, ints) = ints
    BY DEF WordsOf, IntBase, CheckedWords
  <2>5. \A ints : CheckedWords(f, ints) \subseteq WordsOf(f.base, ints)
    BY DEF CheckedWords
  <2>6. CASE b = "rust"
    BY <1>4, <2>5, <2>6 DEF Read, ReadsAs, Fits
  <2>7. CASE b = "go"
    BY <1>4, <2>2, <2>3, <2>4, <2>5, <2>7 DEF Read, ReadsAs, Fits, HeldSigned
  <2>8. CASE b = "python"
    BY <1>4, <2>3, <2>4, <2>5, <2>8 DEF Read, ReadsAs, Fits, Ints
  <2>9. CASE b = "kotlin"
    <3>1. f.unions => f.base \notin IntBase \/ d.of # "big"
      BY <2>2, <2>9 DEF HeldSigned
    <3> QED
      BY <1>4, <2>3, <2>4, <2>5, <2>9, <3>1 DEF Read, ReadsAs, Fits
  <2> QED
    BY <2>6, <2>7, <2>8, <2>9 DEF Binding
<1> QED
  BY <1>2, <1>3, <1>4, ConformsIs

\* Text that stands for bytes is refused by every decoder.
LEMMA TextIsRefused ==
  ASSUME NEW b \in Binding, NEW f \in Field, NEW fr, fr.json \in Value,
         Lowers(b, f), BytesAsText(f, fr.json)
  PROVE  Decode(b, f, fr) = {}
<1> DEFINE d == fr.json
<1>1. f.base = "bytes" /\ d.of \in {"base64", "empty"}
  BY DEF BytesAsText
<1>2. Read(b, f) \subseteq {"zero", "byte", "nothing"}
  BY <1>1 DEF Read, WordsOf, CheckedWords, IntBase, Binding
<1>3. d # Null /\ d # Absent /\ d # List("null") /\ d # EmptyList
  BY <1>1 DEF Null, Absent, EmptyList, List, Scalar
<1>4. ASSUME NEW v, ReadsAs(b, f, d, v) PROVE FALSE
  BY <1>1, <1>2, <1>3, <1>4 DEF ReadsAs, Fits
<1> QED
  BY <1>4, DecodeIs

-----------------------------------------------------------------------------
(* Encoders *)

\* Writing what a conforming value means yields a conforming value of the same
\* meaning, unless Go writes bytes as text.
LEMMA ConformingIsKept ==
  ASSUME NEW b \in Binding, NEW f \in Field, NEW d \in Value,
         Lowers(b, f), Conforms(f, d), NEW j \in Encode(b, f, Meaning(d))
  PROVE  \/ BytesAsText(f, j)
         \/ j \in Value /\ Conforms(f, j) /\ Meaning(j) = Meaning(d)
<1> DEFINE v == Meaning(d)
<1>1. /\ v \in Value /\ v # Absent /\ v # NilList
      /\ v = Null \/ Fits(f, CheckedWords(f, Unsigned), v)
      /\ v = Null => MayBeNull(f)
  BY ConformsIs, WordsAreAtoms
     DEF Meaning, MayBeNull, Value, Word, Atom, Null, Absent, NilList, List, Scalar, Unsigned, Ints
<1>2. Fits(f, CheckedWords(f, Unsigned), v) => v # Null
  BY WordsAreAtoms DEF Unsigned, Ints
<1>3. v # Null \/ f.presence = "optional" \/ f.wrap = "nullable"
  BY <1>1 DEF MayBeNull
<1>4. Null # Absent /\ Absent \in Value /\ f.presence \in {"required", "optional"}
      /\ f.wrap \in {"plain", "nullable", "list"} /\ f.unions \in BOOLEAN
  BY FieldIs DEF Null, Absent, Scalar, Value, Word
<1>5. \A w \in Writes(f, v) : w \in Value /\ Conforms(f, w) /\ Meaning(w) = v
  BY <1>1, <1>2, <1>3, <1>4, ConformsIs DEF Writes, Meaning
<1>6. CASE b = "rust"
  BY <1>5, <1>6 DEF Encode, RustEncode
<1>7. CASE b = "python"
  BY <1>5, <1>7 DEF Encode, PyEncode
<1>8. CASE b = "kotlin"
  BY <1>5, <1>8 DEF Encode, KtUnionEncode, KtRecordEncode
<1>9. CASE b = "go"
  <2>1. CASE ~f.unions
    <3>1. f.presence = "required"
      BY <1>9, <2>1 DEF Lowers, GoLowers, RecordLowerable
    <3> QED
      BY <1>1, <1>2, <1>3, <1>4, <1>9, <2>1, <3>1, ConformsIs DEF Encode, GoRecordEncode, Meaning
  <2>2. CASE f.unions
    <3>1. /\ f.base # "bytes" => GoMarshal(f, v) = v
          /\ v # Null /\ f.base = "bytes" /\ ~(f.wrap = "list" /\ v = EmptyList)
               => BytesAsText(f, GoMarshal(f, v))
          /\ f.wrap = "list" /\ v = EmptyList => GoMarshal(f, v) = v
      BY <1>1 DEF GoMarshal, BytesAsText
    <3>2. j \in GoUnionEncode(f, v)
      BY <1>9, <2>2 DEF Encode
    <3>3. (j = Absent /\ v = Null /\ f.presence = "optional") \/ j = v \/ (v # Null /\ j = GoMarshal(f, v))
      BY <1>1, <1>3, <1>4, <3>2 DEF GoUnionEncode
    <3>4. j \in Writes(f, v) \/ (v = Null /\ f.presence = "required" /\ j = v) \/ BytesAsText(f, j) \/ j = v
      BY <3>1, <3>3 DEF Writes
    <3>5. j = v => j \in Value /\ Conforms(f, j) /\ Meaning(j) = v
      BY <1>1, <1>2, <1>3, <1>4, <3>2, ConformsIs DEF Meaning, GoUnionEncode
    <3> QED
      BY <1>5, <3>4, <3>5
  <2> QED
    BY <1>4, <2>1, <2>2
<1> QED
  BY <1>6, <1>7, <1>8, <1>9 DEF Binding

\* What an application or a decoder may have put into a binding's field.
Held(b, f, v) ==
  v \in Host(b, f) \/ \E fr : fr.json \in Value /\ v \in Decode(b, f, fr)

\* The words it may hold: Go's enums are strings, signed integers may be
\* negative.
Kept(b, f) ==
  CASE b = "rust"   -> WordsOf(f.base, Unsigned)
    [] b = "go"     -> IF f.base = "enum" THEN Texts
                       ELSE WordsOf(f.base, IF HeldSigned("go", f) THEN Unsigned \cup Signed ELSE Unsigned)
    [] b = "python" -> IF f.wrap = "list" THEN WordsOf(f.base, Ints) ELSE CheckedWords(f, Unsigned)
    [] b = "kotlin" -> IF f.unions THEN WordsOf(f.base, Unsigned \cup Signed)
                       ELSE CheckedWords(f, Unsigned)

LEMMA FramesAreValues ==
  /\ Json \cup {Absent, NilList} \subseteq Value
  /\ \A fr \in Frame : fr.json \in Value
BY DEF Json, Frame, Value, Word, Scalars, Scalar, List, Absent, NilList, Atom, Texts, Ints, Unsigned

LEMMA ZerosFit ==
  ASSUME NEW f \in Field, NEW z \in GoZero(f), ~f.unions, Lowers("go", f)
  PROVE  /\ z \in Value /\ List(z.of) \in Value
         /\ f.wrap = "plain" => Fits(f, Kept("go", f), z)
         /\ f.wrap = "list" => Fits(f, Kept("go", f), List(z.of))
<1>1. f.base \in {"string", "string1", "u64", "slot64", "bool", "enum"}
  BY FieldIs DEF Lowers, GoLowers, RecordLowerable, Base
<1>2. \E a \in {"empty", "zero", "false"} : z = Scalar(a) /\ a \in Kept("go", f)
  BY <1>1 DEF GoZero, Kept, WordsOf, IntBase, HeldSigned, Texts, Unsigned
<1>3. PICK a \in {"empty", "zero", "false"} : z = Scalar(a) /\ a \in Kept("go", f)
  BY <1>2
<1>4. z.of = a /\ z.depth = 0 /\ a \in Word
  BY <1>3 DEF Scalar, Word, Atom, Texts, Ints, Unsigned
<1> QED
  BY <1>1, <1>3, <1>4 DEF Fits, Depth, List, Value, Scalar

LEMMA HeldIs ==
  ASSUME NEW b \in Binding, NEW f \in Field, NEW v, Lowers(b, f), Held(b, f, v)
  PROVE  /\ v \in Value
         /\ \/ v = Null /\ MayBeNull(f)
            \/ b = "go" /\ v = NilList /\ (f.wrap = "list" \/ f.base = "bytes")
            \/ Fits(f, Kept(b, f), v)
<1>1. \A ints, more : ints \subseteq more => WordsOf(f.base, ints) \subseteq WordsOf(f.base, more)
  BY DEF WordsOf
<1>2. \A ints, more : ints \subseteq more => CheckedWords(f, ints) \subseteq WordsOf(f.base, more)
  BY <1>1 DEF CheckedWords
<1>3. CASE v \in Host(b, f)
  <2>1. v \in Value
    BY <1>3, FramesAreValues DEF Host, Null, Scalar, Value, Word, Atom
  <2>2. v = NilList \/ v # NilList
    OBVIOUS
  <2>3. CASE v = Null /\ MayBeNull(f)
    BY <2>1, <2>3
  <2>4. CASE b = "go" /\ v = NilList /\ f.wrap = "list"
    BY <2>1, <2>4
  <2>5. CASE Shaped(f, HostItems(b, f), v)
    <3>1. CASE b = "rust"
      BY <2>1, <2>5, <3>1, ShapedStrict DEF HostItems, Kept
    <3>2. CASE b = "python"
      <4>1. Shaped(f, PyItems(f), v)
        BY <2>5, <3>2 DEF HostItems, Shaped
      <4>2. f.wrap = "list" => PyItems(f) = Strict(f.base, Ints)
        BY DEF PyItems
      <4>3. f.wrap # "list" => PyItems(f) = Strict(f.base, Unsigned) \ (IF f.base = "string1" THEN {Scalar("empty")} ELSE {})
        BY DEF PyItems
      <4> QED
        BY <2>1, <3>2, <4>1, <4>2, <4>3, ShapedStrict, ShapedChecked DEF Kept
    <3>3. CASE b = "kotlin"
      <4>1. CASE f.unions
        <5>1. Fits(f, WordsOf(f.base, Signed), v)
          BY <2>1, <2>5, <3>3, <4>1, ShapedStrict DEF HostItems
        <5> QED
          BY <1>1, <2>1, <3>3, <4>1, <5>1 DEF Kept, Fits
      <4>2. CASE ~f.unions
        BY <2>1, <2>5, <3>3, <4>2, ShapedChecked DEF HostItems, KtRecordItems, Kept
      <4> QED
        BY <4>1, <4>2
    <3>4. CASE b = "go"
      <4> DEFINE own == IF f.base = "enum" THEN Scalars(Texts)
                        ELSE Strict(f.base, IF HeldSigned("go", f) THEN Signed ELSE Unsigned)
      <4>1. Shaped(f, own, v) \/ (v = NilList /\ f.base = "bytes")
        BY <2>5, <3>4 DEF HostItems, Shaped
      <4>2. CASE f.base = "enum" /\ Shaped(f, own, v)
        <5>1. Shaped(f, Scalars(Texts), v)
          BY <4>2
        <5>2. v.depth \in 0 .. 2 /\ Kept(b, f) = Texts
          BY <2>1, <3>4, <4>2, ValueIs DEF Kept
        <5> QED
          BY <2>1, <4>2, <5>1, <5>2, InScalars DEF Shaped, Fits, Depth
      <4>3. CASE f.base # "enum" /\ Shaped(f, own, v)
        <5>1. Fits(f, WordsOf(f.base, IF HeldSigned("go", f) THEN Signed ELSE Unsigned), v)
          BY <2>1, <4>3, ShapedStrict
        <5> QED
          BY <1>1, <2>1, <3>4, <4>3, <5>1 DEF Kept, Fits
      <4> QED
        BY <2>1, <3>4, <4>1, <4>2, <4>3
    <3> QED
      BY <3>1, <3>2, <3>3, <3>4 DEF Binding
  <2> QED
    BY <1>3, <2>3, <2>4, <2>5 DEF Host
<1>4. CASE \E fr : fr.json \in Value /\ v \in Decode(b, f, fr)
  <2>1. PICK fr : fr.json \in Value /\ v \in Decode(b, f, fr)
    BY <1>4
  <2>2. ReadsAs(b, f, fr.json, v)
    BY <2>1, DecodeIs
  <2>3. Read(b, f) \subseteq Kept(b, f)
    <3>1. f.base = "enum" => WordsOf(f.base, Unsigned) \subseteq Texts
      BY DEF WordsOf, IntBase, Texts
    <3>2. HeldSigned("go", f) => f.base # "enum"
      BY DEF HeldSigned, IntBase
    <3> QED
      BY <1>1, <1>2, <3>1, <3>2 DEF Read, Kept, Binding
  <2>4. Null \in Value /\ NilList \in Value
    BY DEF Null, NilList, Scalar, List, Value, Word, Atom
  <2>5. f.wrap = "nullable" => MayBeNull(f)
    BY DEF MayBeNull
  <2>6. f.presence = "optional" => MayBeNull(f)
    BY DEF MayBeNull
  <2> QED
    BY <2>1, <2>2, <2>3, <2>4, <2>5, <2>6, ZerosFit DEF ReadsAs, Fits
<1> QED
  BY <1>3, <1>4 DEF Held

\* What Go alone may write against the schema.
GoErrs(f, j) ==
  \/ f.base = "enum"
  \/ /\ HeldSigned("go", f) /\ j.of = "negative"
     /\ f.wrap = "list" \/ f.presence = "optional" \/ f.place = "payload"
  \/ f.base = "bytes" /\ (f.wrap = "list" \/ f.presence = "optional")
  \/ f.presence = "optional" /\ j = Null

LEMMA EncodedConforms ==
  ASSUME NEW b \in Binding, NEW f \in Field, NEW v, Lowers(b, f), Held(b, f, v),
         NEW j \in Encode(b, f, v)
  PROVE  Conforms(f, j) \/ Unchecked(b, f, j) \/ (b = "go" /\ GoErrs(f, j))
<1>1. /\ v \in Value
      /\ \/ v = Null /\ MayBeNull(f)
         \/ b = "go" /\ v = NilList /\ (f.wrap = "list" \/ f.base = "bytes")
         \/ Fits(f, Kept(b, f), v)
  BY HeldIs
<1>2. /\ f.base \in Base /\ f.wrap \in {"plain", "nullable", "list"}
      /\ f.presence \in {"required", "optional"} /\ f.unions \in BOOLEAN
      /\ f.place \in {"record", "body", "payload"}
  BY FieldIs
<1>3. Null \in Value /\ Absent \in Value /\ EmptyList \in Value
      /\ Null # Absent /\ NilList # Null /\ EmptyList # Null
  BY DEF Null, Absent, EmptyList, NilList, List, Scalar, Value, Word, Atom
\* Absence conforms in one form or the other.
<1>4. v = Null /\ MayBeNull(f) => \A w \in Writes(f, v) : Conforms(f, w)
  BY <1>2, <1>3, ConformsIs DEF Writes, MayBeNull
\* A value whose words are those of the schema conforms.
<1>5. \A words : Fits(f, words, v) =>
        \/ Conforms(f, v)
        \/ v.of \in words \ CheckedWords(f, Unsigned)
  BY <1>1, ConformsIs DEF Fits
<1>6. /\ f.base \notin IntBase => \A ints : WordsOf(f.base, ints) = WordsOf(f.base, Unsigned)
      /\ f.base \in IntBase => \A ints : WordsOf(f.base, ints) = ints /\ CheckedWords(f, ints) = ints
  BY DEF WordsOf, CheckedWords, IntBase
<1>7. \A a \in WordsOf(f.base, Unsigned) \ CheckedWords(f, Unsigned) : f.base = "string1" /\ a = "empty"
  BY DEF CheckedWords
<1>8. f.base = "string1" => f.base \notin IntBase
  BY DEF IntBase
<1>9. CASE b = "rust"
  <2>1. j \in Writes(f, v)
    BY <1>9 DEF Encode, RustEncode
  <2>2. CASE v = Null /\ MayBeNull(f)
    BY <1>4, <2>1, <2>2
  <2>3. CASE Fits(f, Kept(b, f), v)
    BY <1>3, <1>4, <1>5, <1>7, <1>9, <2>1, <2>3, ConformsIs DEF Kept, Writes, Unchecked
  <2> QED
    BY <1>1, <1>9, <2>2, <2>3
<1>10. CASE b = "python"
  <2>1. j \in Writes(f, v)
    BY <1>10 DEF Encode, PyEncode
  <2>2. CASE v = Null /\ MayBeNull(f)
    BY <1>4, <2>1, <2>2
  <2>3. CASE Fits(f, Kept(b, f), v) /\ f.wrap = "list"
    <3>1. f.base \notin {"u64", "slot64", "string1"}
      BY <1>10, <2>3 DEF Lowers, PyLowers
    <3>2. Conforms(f, v) \/ (f.base = "node_id" /\ v.of \in Ints \ Unsigned)
      BY <1>5, <1>6, <1>7, <1>10, <2>3, <3>1 DEF Kept, IntBase
    <3> QED
      BY <1>2, <1>3, <1>10, <2>1, <2>3, <3>2, ConformsIs DEF Writes, Unchecked, Ints
  <2>4. CASE Fits(f, Kept(b, f), v) /\ f.wrap # "list"
    BY <1>2, <1>3, <1>5, <1>10, <2>1, <2>4, ConformsIs DEF Kept, Writes
  <2> QED
    BY <1>1, <1>10, <2>2, <2>3, <2>4
<1>11. CASE b = "kotlin"
  <2>1. j \in Writes(f, v) /\ ~(f.unions /\ f.base \in IntBase /\ v.of = "negative")
    BY <1>11 DEF Encode, KtUnionEncode, KtRecordEncode
  <2>2. CASE v = Null /\ MayBeNull(f)
    BY <1>4, <2>1, <2>2
  <2>3. CASE Fits(f, Kept(b, f), v) /\ f.unions
    <3>1. Kept(b, f) = WordsOf(f.base, Unsigned \cup Signed)
      BY <1>11, <2>3 DEF Kept
    <3>2. Conforms(f, v) \/ (f.base = "string1" /\ v.of = "empty")
      BY <1>5, <1>6, <1>7, <2>1, <2>3, <3>1 DEF Signed, Unsigned
    <3> QED
      BY <1>2, <1>3, <1>11, <2>1, <2>3, <3>2, ConformsIs DEF Writes, Unchecked
  <2>4. CASE Fits(f, Kept(b, f), v) /\ ~f.unions
    BY <1>2, <1>3, <1>5, <1>11, <2>1, <2>4, ConformsIs DEF Kept, Writes
  <2> QED
    BY <1>1, <1>2, <1>11, <2>2, <2>3, <2>4
<1>12. CASE b = "go"
  \* What is not an enum and fits is conforming, negative or empty.
  <2>1. Fits(f, Kept(b, f), v) /\ f.base # "enum" =>
          \/ Conforms(f, v)
          \/ HeldSigned("go", f) /\ v.of = "negative"
          \/ f.base = "string1" /\ v.of = "empty"
    BY <1>5, <1>6, <1>7, <1>8, <1>12 DEF Kept, Signed, Unsigned
  <2>6. Fits(f, Kept(b, f), v) => v # NilList
    BY <1>2, <1>12 DEF Kept, Fits, WordsOf, Base, IntBase, Texts, Unsigned, Signed, NilList, EmptyList, List
  <2>2. CASE ~f.unions
    <3>1. f.presence = "required" /\ f.base # "bytes" /\ ~HeldSigned("go", f)
      BY <1>12, <2>2 DEF Lowers, GoLowers, RecordLowerable, HeldSigned
    <3>2. j = IF v = NilList THEN EmptyList ELSE v
      BY <1>12, <2>2 DEF Encode, GoRecordEncode
    <3>3. f.wrap = "list" => Conforms(f, EmptyList)
      BY <1>3, ConformsIs DEF Fits
    <3>4. v = Null /\ MayBeNull(f) => Conforms(f, v)
      BY <1>3, <3>1, ConformsIs DEF MayBeNull
    <3> QED
      BY <1>1, <1>3, <1>12, <2>1, <2>6, <3>1, <3>2, <3>3, <3>4 DEF Unchecked, GoErrs
  <2>3. CASE f.unions /\ f.presence = "optional"
    <3>1. j = IF v = Null THEN Absent ELSE GoMarshal(f, v)
      BY <1>12, <2>3 DEF Encode, GoUnionEncode
    <3>2. f.base # "bytes" => GoMarshal(f, v) = IF v = NilList THEN Null ELSE v
      BY DEF GoMarshal
    <3> QED
      BY <1>1, <1>3, <1>12, <2>1, <2>3, <3>1, <3>2, ConformsIs DEF Unchecked, GoErrs
  <2>4. CASE f.unions /\ f.presence = "required" /\ f.wrap = "list"
    <3>1. f.base # "bytes" => j = IF v = NilList THEN EmptyList ELSE v
      BY <1>12, <2>4 DEF Encode, GoUnionEncode
    <3>2. ~MayBeNull(f) /\ Conforms(f, EmptyList)
      BY <1>3, <2>4, ConformsIs DEF MayBeNull, Fits
    <3> QED
      BY <1>1, <1>12, <2>1, <2>4, <3>1, <3>2 DEF Unchecked, GoErrs
  <2>5. CASE f.unions /\ f.presence = "required" /\ f.wrap # "list"
    <3>1. f.wrap # "nullable"
      BY <1>12, <2>5 DEF Lowers, GoLowers
    <3>2. ~MayBeNull(f)
      BY <2>5, <3>1 DEF MayBeNull
    <3>3. /\ ~(HeldSigned("go", f) /\ f.place # "payload" /\ v.of = "negative")
          /\ j = IF v = NilList THEN EmptyList ELSE v
      BY <1>12, <2>5 DEF Encode, GoUnionEncode
    <3>4. f.base = "bytes" => Conforms(f, EmptyList)
      BY <1>3, <2>5, ConformsIs DEF Fits, CheckedWords, WordsOf, IntBase, Depth, EmptyList, List
    <3> QED
      BY <1>1, <1>2, <1>12, <2>1, <2>5, <2>6, <3>2, <3>3, <3>4 DEF Unchecked, GoErrs
  <2> QED
    BY <1>2, <2>2, <2>3, <2>4, <2>5
<1> QED
  BY <1>9, <1>10, <1>11, <1>12 DEF Binding

LEMMA EncodedIsValue ==
  ASSUME NEW b \in Binding, NEW f \in Field, NEW v, Lowers(b, f), Held(b, f, v),
         NEW j \in Encode(b, f, v)
  PROVE  j \in Value
<1>1. /\ v \in Value
      /\ \/ v = Null /\ MayBeNull(f)
         \/ b = "go" /\ v = NilList /\ (f.wrap = "list" \/ f.base = "bytes")
         \/ Fits(f, Kept(b, f), v)
  BY HeldIs
<1>2. Null \in Value /\ Absent \in Value /\ EmptyList \in Value
  BY DEF Null, Absent, EmptyList, List, Scalar, Value, Word, Atom
<1>3. Writes(f, v) \subseteq Value
  BY <1>1, <1>2 DEF Writes
<1>4. CASE b # "go"
  BY <1>3, <1>4 DEF Binding, Encode, RustEncode, PyEncode, KtUnionEncode, KtRecordEncode
<1>5. CASE b = "go" /\ ~f.unions
  BY <1>1, <1>2, <1>5 DEF Encode, GoRecordEncode
<1>6. CASE b = "go" /\ f.unions
  <2>1. f.presence \in {"required", "optional"}
    BY FieldIs
  <2>2. v = Null => f.presence = "optional"
    <3>1. f.base \in Base
      BY FieldIs
    <3>2. "null" \notin Kept("go", f)
      BY <3>1 DEF Kept, WordsOf, Base, IntBase, Texts, Unsigned, Signed
    <3>3. v = Null => MayBeNull(f)
      BY <1>1, <1>6, <3>2 DEF Fits, Null, NilList, EmptyList, List, Scalar
    <3>4. f.wrap = "nullable" => f.presence = "optional"
      BY <1>6 DEF Lowers, GoLowers
    <3> QED
      BY <3>3, <3>4 DEF MayBeNull
  <2>3. v # Null => GoMarshal(f, v) \in Value
    <3>1. CASE v = NilList \/ f.base # "bytes" \/ (f.wrap = "list" /\ v = EmptyList)
      BY <1>1, <1>2, <3>1 DEF GoMarshal
    <3>2. CASE v # NilList /\ f.base = "bytes" /\ ~(f.wrap = "list" /\ v = EmptyList) /\ v # Null
      <4>1. v.depth \in 1 .. 2
        BY <1>1, <3>2, ValueIs DEF Fits, Depth
      <4> QED
        BY <3>2, <4>1 DEF GoMarshal, Value, Word, Atom, Texts
    <3> QED
      BY <3>1, <3>2
  <2> QED
    BY <1>1, <1>2, <1>6, <2>1, <2>2, <2>3 DEF Encode, GoUnionEncode
<1> QED
  BY <1>4, <1>5, <1>6, FieldIs

\* What a decoder took conforms, but for the leniencies AcceptedConforms names.
LEMMA DecodedConforms ==
  ASSUME NEW b \in Binding, NEW f \in Field, NEW fr, fr.json \in Value, Lowers(b, f),
         NEW v \in Decode(b, f, fr)
  PROVE  \/ Conforms(f, fr.json)
         \/ f.presence = "optional" /\ fr.json = Null
         \/ b = "go" /\ ~f.unions /\ fr.json.of = "null"
         \/ b = "rust" /\ f.unions /\ f.place = "body" /\ f.wrap = "nullable" /\ fr.json = Absent
         \/ Unchecked(b, f, fr.json)
<1> DEFINE d == fr.json
<1>1. ReadsAs(b, f, d, v)
  BY DecodeIs
<1>2. f.base \notin IntBase => \A ints : WordsOf(f.base, ints) = WordsOf(f.base, Unsigned)
  BY DEF WordsOf, IntBase
<1>3. f.base \in IntBase => \A ints : WordsOf(f.base, ints) = ints /\ CheckedWords(f, ints) = ints
  BY DEF WordsOf, CheckedWords, IntBase
<1>4. \A a \in WordsOf(f.base, Unsigned) \ CheckedWords(f, Unsigned) : f.base = "string1" /\ a = "empty"
  BY DEF CheckedWords
<1>5. CASE Fits(f, Read(b, f), d)
  <2>1. Conforms(f, d) \/ d.of \in Read(b, f) \ CheckedWords(f, Unsigned)
    BY <1>5, ConformsIs DEF Fits
  <2>2. CASE b \in {"rust", "go"}
    BY <1>2, <1>3, <1>4, <2>1, <2>2 DEF Read, Unchecked
  <2>3. CASE b = "python"
    <3>1. f.wrap = "list" => f.base \notin {"u64", "slot64", "string1"}
      BY <2>3 DEF Lowers, PyLowers
    <3>2. f.base = "node_id" /\ f.wrap = "list" /\ d.of \in Ints => Conforms(f, d) \/ Unchecked(b, f, d)
      BY <1>3, <2>1, <2>3 DEF Unchecked, Ints, IntBase
    <3> QED
      BY <1>2, <1>3, <1>4, <2>1, <2>3, <3>1, <3>2 DEF Read, IntBase
  <2>4. CASE b = "kotlin"
    BY <1>2, <1>3, <1>4, <2>1, <2>4 DEF Read, Unchecked
  <2> QED
    BY <2>2, <2>3, <2>4 DEF Binding
<1>6. d = Null \/ d = List("null") => d.of = "null"
  BY DEF Null, List, Scalar
<1> QED
  BY <1>1, <1>5, <1>6, ConformsIs DEF ReadsAs, MayBeNull

-----------------------------------------------------------------------------
(* Frames on their way *)

Typed ==
  /\ field \in Fields
  /\ origin.json \in Value /\ frame.json \in Value
  /\ holder \in Binding \cup {"wire"}
  /\ holder # "wire" => Lowers(holder, field) /\ Held(holder, field, value)

\* Wherever a conforming frame has gone, what is written conforms and means the
\* same, or is text for bytes.
Relayed ==
  origin # NoFrame /\ ~origin.unknown /\ Conforms(field, origin.json) =>
    IF holder = "wire"
    THEN /\ ~frame.unknown
         /\ \/ BytesAsText(field, frame.json)
            \/ Conforms(field, frame.json) /\ Meaning(frame.json) = Meaning(origin.json)
    ELSE value = Meaning(origin.json)

\* A holder that did not make its value decoded it from the frame, and a sender
\* encoded the frame from a value it held.
Accounted ==
  /\ Decoded => value \in Decode(holder, field, frame)
  /\ sender \in Binding =>
       /\ Lowers(sender, field)
       /\ \E v : Held(sender, field, v) /\ frame.json \in Encode(sender, field, v)

Inv == Typed /\ Relayed /\ Accounted

LEMMA InitInv == Init => Inv
<1> SUFFICES ASSUME Init PROVE Inv
  OBVIOUS
<1>1. field \in Field /\ NoFrame.json \in Value /\ NoFrame.unknown /\ "wire" \notin Binding
  BY FieldsAssumption DEF Init, NoFrame, Absent, Scalar, Value, Word, Binding
<1>2. CASE frame \in Outside(field) /\ origin = frame /\ sender = "outside" /\ holder = "wire"
  <2>1. frame.json \in Value
    BY <1>2, FramesAreValues DEF Outside
  <2> QED
    BY <1>1, <1>2, <2>1 DEF Inv, Typed, Relayed, Accounted, Decoded, Binding, Init
<1>3. CASE /\ holder \in {b \in Binding : Lowers(b, field)} /\ value \in Host(holder, field)
           /\ frame = NoFrame /\ origin = NoFrame /\ sender = "nobody"
  BY <1>1, <1>3 DEF Inv, Typed, Relayed, Accounted, Decoded, Binding, Init, Held
<1> QED
  BY <1>2, <1>3 DEF Init

LEMMA ReceiveStep ==
  ASSUME Inv, NEW b \in Binding, Receive(b) PROVE Inv'
<1>1. /\ holder = "wire" /\ Lowers(b, field) /\ value' \in Decode(b, field, frame) /\ holder' = b
      /\ field' = field /\ origin' = origin /\ sender' = sender /\ frame' = frame
  BY DEF Receive
<1>2. field \in Field /\ b # "wire" /\ frame.json \in Value
  BY FieldsAssumption DEF Inv, Typed, Binding
<1>3. Typed'
  BY <1>1, <1>2 DEF Inv, Typed, Held
<1>4. Relayed'
  <2>1. BytesAsText(field, frame.json) => Decode(b, field, frame) = {}
    BY <1>1, <1>2, TextIsRefused
  <2>2. Conforms(field, frame.json) => value' = Meaning(frame.json)
    BY <1>1, <1>2, ConformingIsMeant
  <2> QED
    BY <1>1, <1>2, <2>1, <2>2 DEF Inv, Relayed
<1>5. Accounted'
  BY <1>1, <1>2 DEF Inv, Accounted, Decoded
<1> QED
  BY <1>3, <1>4, <1>5 DEF Inv

LEMMA ForwardStep ==
  ASSUME Inv, Forward PROVE Inv'
<1>1. PICK json \in Encode(holder, field, value) : frame' = [json |-> json, unknown |-> FALSE]
  BY DEF Forward
<1>2. /\ holder # "wire" /\ sender' = holder /\ holder' = "wire"
      /\ field' = field /\ origin' = origin
  BY DEF Forward
<1>3. /\ field \in Field /\ holder \in Binding /\ origin.json \in Value
      /\ Lowers(holder, field) /\ Held(holder, field, value)
  BY <1>2, FieldsAssumption DEF Inv, Typed
<1>4. json \in Value
  BY <1>3, EncodedIsValue
<1>5. Typed'
  BY <1>1, <1>2, <1>4 DEF Inv, Typed
<1>6. Relayed'
  <2>1. value = Meaning(origin.json) /\ Conforms(field, origin.json) =>
          \/ BytesAsText(field, json)
          \/ Conforms(field, json) /\ Meaning(json) = Meaning(origin.json)
    BY <1>3, ConformingIsKept
  <2> QED
    BY <1>1, <1>2, <2>1 DEF Inv, Relayed
<1>7. Accounted'
  BY <1>1, <1>2, <1>3 DEF Accounted, Decoded
<1> QED
  BY <1>5, <1>6, <1>7 DEF Inv

LEMMA InvHolds == Spec => []Inv
<1>1. Inv /\ [Next]_vars => Inv'
  <2>1. ASSUME Inv, UNCHANGED vars PROVE Inv'
    BY <2>1 DEF vars, Inv, Typed, Relayed, Accounted, Decoded
  <2> QED
    BY <2>1, ReceiveStep, ForwardStep DEF Next
<1> QED
  BY <1>1, InitInv, PTL DEF Spec

-----------------------------------------------------------------------------
(* Theorems *)

\* A conforming frame keeps its meaning on every path through the bindings, but
\* for bytes that Go writes as text.
THEOREM MeaningsKept == Spec => []MeaningKept
<1>1. Inv => MeaningKept
  BY DEF Inv, Relayed, MeaningKept
<1> QED
  BY <1>1, InvHolds, PTL

\* Wherever such a frame has been, every binding that lowers the field reads it,
\* but for integers it cannot hold, Python's missing helper and Go's optional
\* lists, whose code does not compile.
THEOREM RelaysDeliver == Spec => []RelayDelivers
<1>1. ASSUME Inv PROVE RelayDelivers
  <2> SUFFICES ASSUME origin # NoFrame, ~origin.unknown, Conforms(field, origin.json),
                      holder = "wire", ~BytesAsText(field, frame.json),
                      NEW b \in Binding, Lowers(b, field),
                      ~(HeldSigned(b, field) /\ frame.json.of = "big"),
                      ~(b = "python" /\ PyHelperMissing(field)),
                      ~(b = "go" /\ GoDoesNotCompile(field))
               PROVE  Decode(b, field, frame) # {}
    BY DEF RelayDelivers
  <2>1. field \in Field /\ frame.json \in Value /\ ~frame.unknown /\ Conforms(field, frame.json)
    BY <1>1, FieldsAssumption DEF Inv, Typed, Relayed
  <2> QED
    BY <2>1, ConformingIsRead
<1> QED
  BY <1>1, InvHolds, PTL

\* What any decoder accepted, from inside or outside, conforms to the schema but
\* for the leniencies that are named.
THEOREM AcceptedFramesConform == Spec => []AcceptedConforms
<1>1. ASSUME Inv PROVE AcceptedConforms
  <2> SUFFICES ASSUME Decoded PROVE AcceptedConforms
    BY DEF AcceptedConforms
  <2>1. /\ field \in Field /\ frame.json \in Value /\ holder \in Binding /\ Lowers(holder, field)
        /\ value \in Decode(holder, field, frame)
    BY <1>1, FieldsAssumption DEF Inv, Typed, Accounted, Decoded
  <2> QED
    BY <2>1, DecodedConforms DEF AcceptedConforms
<1> QED
  BY <1>1, InvHolds, PTL

\* What any encoder wrote conforms, whatever value it was given, but for unchecked
\* constraints and the places where Go's encoder errs.
THEOREM EmittedFramesConform == Spec => []EmitsConforming
<1>1. ASSUME Inv PROVE EmitsConforming
  <2> SUFFICES ASSUME sender \in Binding PROVE EmitsConforming
    BY DEF EmitsConforming
  <2>1. PICK v : Held(sender, field, v) /\ frame.json \in Encode(sender, field, v)
    BY <1>1 DEF Inv, Accounted
  <2>2. field \in Field /\ Lowers(sender, field)
    BY <1>1, FieldsAssumption DEF Inv, Typed, Accounted
  <2> QED
    BY <2>1, <2>2, EncodedConforms DEF EmitsConforming, GoErrs
<1> QED
  BY <1>1, InvHolds, PTL

\* What two generators expect of every codec in the corpus: a node key that is
\* left out or null is absent and is left out again, a node id is read exactly
\* or refused.
THEOREM FixturesMet == Spec => []FixtureExpectationsMet
<1>1. ASSUME Inv, NEW c \in NodeKeyCases, NodeKeyField(field), ~frame.unknown, frame.json = c.wire
      PROVE  IF holder = "wire"
             THEN \A b \in Binding : Lowers(b, field) => Decode(b, field, frame) # {}
             ELSE /\ value = c.decoded_key
                  /\ \A json \in Encode(holder, field, value) : c.reencoded <=> json # Absent
  <2>1. /\ field \in Field /\ frame.json \in Value
        /\ field.base = "string" /\ field.wrap = "nullable" /\ field.presence = "optional"
        /\ field.unions
    BY <1>1, FieldsAssumption DEF Inv, Typed, NodeKeyField
  <2>2. c.wire \in {Absent, Null, Scalar("text")}
    BY DEF NodeKeyCases
  <2>3. Conforms(field, frame.json)
    <3>1. Fits(field, CheckedWords(field, Unsigned), Scalar("text"))
      BY <2>1 DEF Fits, CheckedWords, WordsOf, Depth, Scalar, Texts, IntBase
    <3> QED
      BY <1>1, <2>1, <2>2, <3>1, ConformsIs
  <2>4. \A b : ~HeldSigned(b, field) /\ ~PyHelperMissing(field) /\ ~GoDoesNotCompile(field)
    BY <2>1 DEF HeldSigned, IntBase, PyHelperMissing, GoDoesNotCompile
  <2>5. CASE holder = "wire"
    BY <1>1, <2>1, <2>3, <2>4, <2>5, ConformingIsRead
  <2>6. CASE holder # "wire"
    <3>1. holder \in Binding /\ Lowers(holder, field) /\ value \in Decode(holder, field, frame)
      BY <1>1, <2>6 DEF Inv, Typed, Accounted, Decoded
    <3>2. value = Meaning(frame.json)
      BY <2>1, <2>3, <3>1, ConformingIsMeant
    <3>3. value = c.decoded_key /\ value \in {Null, Scalar("text")} /\ (c.reencoded <=> value # Null)
      BY <1>1, <3>2 DEF NodeKeyCases, Meaning, Null, Absent, Scalar
    <3>4. Encode(holder, field, value) = {IF value = Null THEN Absent ELSE value}
      <4>1. CASE holder = "go"
        BY <2>1, <3>3, <4>1 DEF Encode, GoUnionEncode, GoMarshal, Null, NilList, List, Scalar
      <4>2. CASE holder # "go"
        BY <2>1, <3>1, <4>2
           DEF Binding, Encode, RustEncode, PyEncode, KtUnionEncode, Writes, IntBase
      <4> QED
        BY <4>1, <4>2
    <3>5. Scalar("text") # Absent /\ Scalar("text") # Null
      BY DEF Scalar, Absent, Null
    <3> QED
      BY <2>6, <3>3, <3>4, <3>5
  <2> QED
    BY <2>5, <2>6
<1>2. ASSUME Inv, NEW c \in NodeIdCases, NodeIdField(field), ~frame.unknown, frame.json = c.wire
      PROVE  IF holder = "wire"
             THEN c.outcome = "exact" =>
                    \A b \in Binding : Lowers(b, field) => Decode(b, field, frame) # {}
             ELSE value = c.wire
  <2>1. /\ field \in Field /\ frame.json \in Value
        /\ field.base = "node_id" /\ field.wrap = "plain" /\ field.place # "payload"
    BY <1>2, FieldsAssumption DEF Inv, Typed, NodeIdField
  <2>2. /\ c.wire \in {Scalar("small"), Scalar("big")}
        /\ c.outcome = "exact" => c.wire = Scalar("small")
    BY DEF NodeIdCases
  <2>3. Conforms(field, frame.json)
    <3>1. \A a \in Unsigned : Fits(field, CheckedWords(field, Unsigned), Scalar(a))
      BY <2>1 DEF Fits, CheckedWords, WordsOf, IntBase, Depth, Scalar
    <3> QED
      BY <1>2, <2>1, <2>2, <3>1, ConformsIs DEF Unsigned
  <2>4. ~PyHelperMissing(field) /\ ~GoDoesNotCompile(field)
    BY <2>1 DEF PyHelperMissing, GoDoesNotCompile
  <2>5. CASE holder = "wire"
    <3>1. c.outcome = "exact" => frame.json.of # "big"
      BY <1>2, <2>2 DEF Scalar
    <3> QED
      BY <1>2, <2>1, <2>3, <2>4, <2>5, <3>1, ConformingIsRead
  <2>6. CASE holder # "wire"
    <3>1. holder \in Binding /\ Lowers(holder, field) /\ value \in Decode(holder, field, frame)
      BY <1>2, <2>6 DEF Inv, Typed, Accounted, Decoded
    <3>2. value = Meaning(frame.json)
      BY <2>1, <2>3, <3>1, ConformingIsMeant
    <3> QED
      BY <1>2, <2>2, <2>6, <3>2 DEF Meaning, Absent, Scalar
  <2> QED
    BY <2>5, <2>6
<1>3. Inv => FixtureExpectationsMet
  BY <1>1, <1>2 DEF FixtureExpectationsMet
<1> QED
  BY <1>3, InvHolds, PTL
=============================================================================
