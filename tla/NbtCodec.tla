------------------------------- MODULE NbtCodec ------------------------------
(***************************************************************************)
(* Encoder and Decoder of the nbt package: documents are written to a      *)
(* stream and decoded from it into Go values of type any.                  *)
(*                                                                         *)
(* A stream is a sequence of types, names, lengths and scalars; what a     *)
(* scalar looks like in an encoding is left out, and so are structs, whose *)
(* fields are written and read like those of a map.  int32 stands for the  *)
(* kinds whose lists are read at once (with byte, which is written out     *)
(* because of its empty lists), string for the others.                     *)
(***************************************************************************)
EXTENDS Integers, Sequences, SequencesExt

CONSTANTS
  maximumNestingDepth,  \* 512 in the code
  MaxDocuments          \* bound: documents written to the stream

ASSUME NbtAssumption == maximumNestingDepth \in Nat /\ MaxDocuments \in Nat

VARIABLES
  encoding,   \* the Encoding of both sides
  stream,     \* what is written and not read yet
  expected,   \* the documents in the stream
  eDepth,     \* depth of the Encoder
  dDepth,     \* depth of the Decoder
  decodes     \* history: the last Decode: its depth before, its document, its result

nbtVars == <<encoding, stream, expected, eDepth, dDepth, decodes>>

(* Values. *)
Scalar(k) == [tag |-> k]
Array(n) == [tag |-> "int32Array", len |-> n]
List(elems) == [tag |-> "list", elems |-> elems]
Compound(fields) == [tag |-> "compound", fields |-> fields]

Scalars == {Scalar(k) : k \in {"byte", "int32", "string"}}
Leaves == Scalars \cup {Array(1)}
Lists(S) == {List(<<>>)} \cup {List(<<v>>) : v \in S} \cup {List(<<v, v>>) : v \in S}
Compounds(S) ==
  {Compound(<<>>)} \cup {Compound(<<[name |-> "a", value |-> v]>>) : v \in S}
    \cup {Compound(<<[name |-> "a", value |-> v], [name |-> "b", value |-> w]>>) : v, w \in S}
Documents ==
  LET flat == Leaves \cup Lists(Leaves) \cup Compounds(Scalars)
  IN  Compounds(Leaves \cup Lists(Leaves)) \cup Lists(flat)
        \cup {Compound(<<[name |-> "a", value |-> List(<<Compound(<<[name |-> "a", value |-> v]>>)>>)]>>) :
                v \in flat}

(* The kind a list is written with: that of its first element. *)
listType(elems) == IF elems = <<>> THEN "end" ELSE elems[1].tag

(* networkBigEndian leaves out the name of the root compound. *)
Nameless(t, depth) == encoding = "networkBigEndian" /\ t = "compound" /\ depth = 0

Type(t) == <<"type", t>>
Name(n) == <<"name", n>>
Len32(n) == <<"len", n>>
Data(k) == <<"data", k>>

(* Encoder: every operator takes and returns what is written so far, the   *)
(* depth, and whether an error ended it.                                   *)
Put(w, toks) == [w EXCEPT !.out = @ \o toks]
Deeper(w, n) == [w EXCEPT !.depth = @ + n]

writeTag(w, t, name) ==
  IF w.depth >= maximumNestingDepth THEN [w EXCEPT !.ok = FALSE]
  ELSE Put(w, IF Nameless(t, w.depth) THEN <<Type(t)>> ELSE <<Type(t), Name(name)>>)

(* marshal writes a tag and its payload. *)
RECURSIVE encode(_, _)
marshal(w, value, name) ==
  LET tagged == writeTag(w, value.tag, name)
  IN  IF tagged.ok THEN encode(tagged, value) ELSE tagged
encode(w, value) ==
  CASE value.tag \in {"byte", "int32", "string"} -> Put(w, <<Data(value.tag)>>)
    [] value.tag = "int32Array" -> Put(w, <<Len32(value.len)>> \o [i \in 1 .. value.len |-> Data("int32")])
    [] value.tag = "list" ->
         LET header == <<Type(listType(value.elems)), Len32(Len(value.elems))>>
             body == FoldLeft(LAMBDA acc, v : IF acc.ok THEN encode(acc, v) ELSE acc,
                              Put(Deeper(w, 1), header), value.elems)
         IN  IF body.ok THEN Deeper(body, -1) ELSE body
    [] value.tag = "compound" ->
         LET body == FoldLeft(LAMBDA acc, f : IF acc.ok THEN marshal(acc, f.value, f.name) ELSE acc,
                              Deeper(w, 1), value.fields)
         IN  IF body.ok THEN Put(Deeper(body, -1), <<Type("end")>>) ELSE body

(* Decoder: likewise with what is left to read and the value read last.    *)
(* A token of another kind than expected would be read as bytes that mean  *)
(* nothing; the error then stands for whatever comes of it.                *)
Fail(r, err) == [r EXCEPT !.err = err]
Expect(r, kind) ==
  IF r.err # "none" THEN r
  ELSE IF r.in = <<>> \/ r.in[1][1] # kind THEN Fail(r, "garbled")
  ELSE [r EXCEPT !.in = Tail(@), !.value = r.in[1][2]]
With(r, value) == [r EXCEPT !.value = value]

(* Mutant: the root's name is expected whatever the encoding. *)
tagNamed(r) ==
  IF r.depth >= maximumNestingDepth THEN Fail(r, "depth")
  ELSE LET t == Expect(r, "type") IN
       IF t.err # "none" \/ t.value = "end" THEN With(t, [tag |-> t.value, name |-> ""])
       ELSE LET n == Expect(t, "name") IN With(n, [tag |-> t.value, name |-> n.value])

(* tag: the type and the name of the next tag. *)
tag(r) ==
  IF r.depth >= maximumNestingDepth THEN Fail(r, "depth")
  ELSE LET t == Expect(r, "type") IN
       IF t.err # "none" \/ t.value = "end" \/ Nameless(t.value, r.depth)
       THEN With(t, [tag |-> t.value, name |-> ""])
       ELSE LET n == Expect(t, "name") IN With(n, [tag |-> t.value, name |-> n.value])

(* The numbers of an array, or of a list that is read at once. *)
RECURSIVE readData(_, _)
readData(r, n) == IF n = 0 THEN r ELSE readData(Expect(r, "data"), n - 1)

(* What leaving a list or a compound does to the depth: a list that is     *)
(* read at once does not take its own level off again.                     *)
afterCompound(r) == Deeper(r, -1)
afterList(r, of) == IF of \in {"byte", "int32"} THEN r ELSE Deeper(r, -1)

(* unmarshalTag: the payload of a tag of type t. *)
RECURSIVE unmarshalTag(_, _), unmarshalElems(_, _, _, _), unmarshalCompound(_, _)
unmarshalTag(r, t) ==
  CASE t \in {"byte", "int32", "string"} ->
         LET v == Expect(r, "data") IN With(v, Scalar(t))
    [] t = "int32Array" ->
         LET l == Expect(r, "len") IN
         IF l.err # "none" THEN l ELSE With(readData(l, l.value), Array(l.value))
    [] t = "list" ->
         LET of == Expect(Deeper(r, 1), "type")
             l == Expect(of, "len")
             body == IF of.value \in {"byte", "int32"}
                     THEN With(readData(l, l.value), List([i \in 1 .. l.value |-> Scalar(of.value)]))
                     ELSE unmarshalElems(l, of.value, l.value, <<>>)
         IN  IF l.err # "none" THEN l ELSE IF body.err # "none" THEN body ELSE afterList(body, of.value)
    [] t = "compound" ->
         LET body == unmarshalCompound(Deeper(r, 1), <<>>)
         IN  IF body.err # "none" THEN body ELSE afterCompound(body)
    [] OTHER -> Fail(r, "garbled")

unmarshalElems(r, of, n, done) ==
  IF n = 0 THEN With(r, List(done))
  ELSE LET e == unmarshalTag(r, of) IN
       IF e.err # "none" THEN e ELSE unmarshalElems(e, of, n - 1, Append(done, e.value))

unmarshalCompound(r, done) ==
  LET t == tag(r) IN
  IF t.err # "none" THEN t
  ELSE IF t.value.tag = "end" THEN With(t, Compound(done))
  ELSE LET v == unmarshalTag(t, t.value.tag) IN
       IF v.err # "none" THEN v
       ELSE unmarshalCompound(v, Append(done, [name |-> t.value.name, value |-> v.value]))

NoDecode == [before |-> 0, document |-> List(<<>>), value |-> List(<<>>), err |-> "none"]

NbtInit ==
  /\ encoding \in {"networkLittleEndian", "networkBigEndian"}
  /\ stream = <<>> /\ expected = <<>>
  /\ eDepth = 0 /\ dDepth = 0
  /\ decodes = NoDecode

(* Encode, with one Encoder for all documents.  What an Encode that fails  *)
(* has written stays; its depth stays too, so that it never writes again.  *)
Encode ==
  /\ Len(expected) < MaxDocuments /\ decodes.err = "none"
  /\ \E document \in Documents :
       LET w == marshal([out |-> <<>>, depth |-> eDepth, ok |-> TRUE], document, "") IN
       /\ eDepth' = w.depth
       /\ stream' = stream \o w.out
       /\ expected' = IF w.ok THEN Append(expected, document) ELSE expected
  /\ decodes' = NoDecode
  /\ UNCHANGED <<encoding, dDepth>>

(* Decode, with one Decoder for all documents; an error ends the stream. *)
Decode ==
  /\ expected # <<>> /\ decodes.err = "none"
  /\ LET t == tag([in |-> stream, depth |-> dDepth, err |-> "none", value |-> 0])
         r == IF t.err # "none" THEN t ELSE unmarshalTag(t, t.value.tag)
     IN  /\ decodes' = [before |-> dDepth, document |-> Head(expected), err |-> r.err,
                        value |-> IF r.err = "none" THEN r.value ELSE List(<<>>)]
         /\ dDepth' = r.depth
         /\ stream' = r.in
  /\ expected' = Tail(expected)
  /\ UNCHANGED <<encoding, eDepth>>

NbtNext == Encode \/ Decode

NbtSpec == NbtInit /\ [][NbtNext]_nbtVars

------------------------------------------------------------------------------
(* Properties. *)

(* The lists and compounds of a value. *)
RECURSIVE Containers(_)
Containers(value) ==
  CASE value.tag = "list" -> 1 + FoldLeft(LAMBDA n, v : n + Containers(v), 0, value.elems)
    [] value.tag = "compound" -> 1 + FoldLeft(LAMBDA n, f : n + Containers(f.value), 0, value.fields)
    [] OTHER -> 0

(* What Encode wrote Decode reads, one document after the other and        *)
(* however lists and compounds nest, or it returns the error of the depth. *)
(* That takes as many lists and compounds, with those the depth of the     *)
(* Decoder still counts, as the limit allows levels.  (A Decoder of        *)
(* nameless roots has to be a new one: a depth left over from the document *)
(* before makes it look for a name.)                                       *)
DocumentsDecode ==
  decodes.before = 0 \/ encoding # "networkBigEndian" =>
    \/ decodes.err = "none" /\ decodes.value = decodes.document
    \/ decodes.err = "depth" /\ decodes.before + Containers(decodes.document) >= maximumNestingDepth

(* How deep the lists and compounds of a value nest. *)
RECURSIVE Nesting(_)
Nesting(value) ==
  LET deepest(values) == FoldLeft(LAMBDA n, v : IF Nesting(v) > n THEN Nesting(v) ELSE n, 0, values)
  IN  CASE value.tag = "list" -> 1 + deepest(value.elems)
        [] value.tag = "compound" ->
             1 + deepest([i \in DOMAIN value.fields |-> value.fields[i].value])
        [] OTHER -> 0

(* What MaximumDepthReachedError says of itself: a new Decoder returns it  *)
(* if the maximum depth of nested lists and compounds was reached.  It     *)
(* does not hold: unmarshalTag leaves a level behind for every list of     *)
(* bytes or integers, so that lists side by side reach the limit.          *)
DepthErrorOnlyIfDeep ==
  decodes.err = "depth" /\ decodes.before = 0 => Nesting(decodes.document) >= maximumNestingDepth
==============================================================================
