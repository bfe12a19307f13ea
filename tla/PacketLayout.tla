---------------------------- MODULE PacketLayout ----------------------------
(***************************************************************************)
(* What a Marshal method of minecraft/protocol says, as a value.           *)
(*                                                                         *)
(* Every packet and every structure inside one has ONE Marshal method,     *)
(* which a Writer runs to encode and a Reader runs to decode.  Here such a *)
(* method is a layout: the sequence of the calls it makes on its IO.  A    *)
(* field no decision depends on is only its wire encoding and its name; a  *)
(* field that later calls branch on carries the values it can take.        *)
(* PacketIO runs a layout once as the Writer and once as the Reader.       *)
(***************************************************************************)
EXTENDS Integers, Sequences, TLC

(* A field of which only the encoding and the identity matter.             *)
Field(enc, f) == [op |-> "field", enc |-> enc, name |-> f]

(* A field that a later call of the same Marshal looks at: S is what the   *)
(* writing program may have put there.  Booleans are 0 and 1, strings 0    *)
(* (empty) and 1.                                                          *)
Choice(enc, f, S) == [op |-> "choice", enc |-> enc, name |-> f, vals |-> S]

(* What of a number its encoding holds: the low bits of an integer, the    *)
(* whole step below a position or a rotation, given in half steps, and a   *)
(* colour without its alpha, which here is the half step.                  *)
As(enc, v) ==
  CASE enc = "Uint8" -> v % 256
    [] enc = "Uint16" -> v % 65536
    [] enc = "Int16" -> ((v + 32768) % 65536) - 32768
    [] enc \in {"ByteFloat", "SoundPos", "RGB"} -> v - (v % 2)
    [] OTHER -> v

(* Values an encoding does not hold, of which it keeps 1, 249 or 65529,    *)
(* and 500.  Fields whose encoding holds every value do not take them.     *)
Wide == 9 * 65536 + 1
Negative == -7
Between == 501

Flag(f) == Choice("Bool", f, {0, 1})

(* A field that Marshal looks at before any call carries it: the writer's  *)
(* structure already holds it, the reader's still holds the zero value.    *)
Given(f, S) == [op |-> "given", name |-> f, vals |-> S]

(* A value computed from field f: the Writer sends to[f], a number or a   *)
(* name, and the Reader discards what it reads (Derived) or refuses        *)
(* anything else (Echo).                                                   *)
DerivedAs(enc, f, to, text, echo) ==
  [op |-> "derived", enc |-> enc, name |-> f, to |-> to, text |-> text, echo |-> echo]
Derived(enc, f, to) == DerivedAs(enc, f, to, FALSE, FALSE)
DerivedName(f, to) == DerivedAs("String", f, to, TRUE, FALSE)
Echo(enc, f, to) == DerivedAs(enc, f, to, FALSE, TRUE)

(* A constant the Writer sends and the Reader reads and discards.          *)
Constant(enc, v) == [op |-> "constant", enc |-> enc, val |-> v]

(* A field that travels converted: to[v] on the wire, a number (Conv) or a *)
(* name (ConvName), and from[w] when read; what from does not know is an   *)
(* unknown enum option.                                                    *)
Conv(enc, f, to, from) ==
  [op |-> "conv", enc |-> enc, name |-> f, to |-> to, from |-> from, text |-> FALSE]
ConvName(f, to, from) ==
  [op |-> "conv", enc |-> "String", name |-> f, to |-> to, from |-> from, text |-> TRUE]

(* The names, or the layouts, of the constants 0, 1, 2... of an iota block. *)
Table(s) == [k \in 0 .. Len(s) - 1 |-> s[k + 1]]

(* Assignments of the Reader (Set) and the checks that end in InvalidValue *)
(* or UnknownEnumOption: a field in a set (Require), fields in a relation  *)
(* (Relation), the elements of a slice in a set and all different          *)
(* (UniqueIn).                                                             *)
Set(f, v) == [op |-> "set", name |-> f, val |-> v]
Require(f, S) == [op |-> "relation", names |-> <<f>>, vals |-> {<<v>> : v \in S}]
Relation(fs, R) == [op |-> "relation", names |-> fs, vals |-> R]
UniqueIn(f, S) == [op |-> "unique", name |-> f, vals |-> S]

(* What a branch can look at besides a field: the length of a slice, the   *)
(* dynamic type of an interface, whether an optional is set.               *)
LengthOf(f) == f \o "#"
TypeOf(f) == f \o ".(type)"
SetOf(f) == f \o "?"

(* Structures, slices, optionals and branches.  A slice of which Marshal   *)
(* has read the length itself has no prefix.                               *)
Single(f, body) == [op |-> "single", name |-> f, body |-> body]
SliceOf(enc, f, body) == [op |-> "slice", enc |-> enc, name |-> f, body |-> body]
NoPrefix == "no prefix"
SliceOfLen(f, body) == SliceOf(NoPrefix, f, body)
Slice(f, body) == SliceOf("Varuint32", f, body)
SliceUint32Length(f, body) == SliceOf("Uint32", f, body)
FuncSlice(f, F(_)) == Slice(f, <<F("")>>)
FuncSliceUint32Length(f, F(_)) == SliceUint32Length(f, <<F("")>>)
OptionalMarshaler(f, body) == [op |-> "optional", enc |-> "Bool", name |-> f, body |-> body]
OptionalFunc(f, F(_)) == OptionalMarshaler(f, <<F("")>>)
Switch(f, cases) == [op |-> "switch", name |-> f, cases |-> cases]
If(f, S, then, else) ==
  [op |-> "if", name |-> f, vals |-> S, then |-> then, else |-> else]

(* A flag local to Marshal: the Writer sets it when field f is in S, the   *)
(* Reader takes it from the wire; the body follows when it is set.         *)
When(f, S, body) == [op |-> "when", enc |-> "Bool", name |-> f, vals |-> S, body |-> body]

(* A branch on the item being the shield, whose ID each connection learns  *)
(* when the game starts.                                                   *)
IfShield(f, then) == [op |-> "shield", name |-> f, then |-> then]

(* A map that the nbt package encodes: in which order its entries are      *)
(* written, and which type its empty lists get, is up to the Encoder.      *)
NBTIn(enc, f) == [op |-> "nbt", enc |-> enc, name |-> f]

(* A map: the Writer sends its entries by increasing key.                  *)
Entries(f, body) == [op |-> "entries", enc |-> "Varuint32", name |-> f, body |-> body]

(* A structure that contains itself, by name.                              *)
PropertyValue(f) == [op |-> "propertyvalue", name |-> f]

(* The calls that Writer and Reader each have in a version of their own.   *)
Direction(w, r) == [op |-> "direction", w |-> w, r |-> r]

(* A buffer inside a byte slice ends with EndOfBuffer; a Reader that is    *)
(* done with it drops what it has not read of it.                          *)
EndOfBuffer == "end of buffer"
DropBuffer == [op |-> "dropbuffer"]

(* The rest of the payload.                                                *)
Bytes(f) == [op |-> "bytes", name |-> f]

-----------------------------------------------------------------------------
(* The plain calls of protocol.IO.                                         *)
Uint8(f) == Field("Uint8", f)
Int8(f) == Field("Int8", f)
Bool(f) == Field("Bool", f)
Uint16(f) == Field("Uint16", f)
Int16(f) == Field("Int16", f)
Uint32(f) == Field("Uint32", f)
Int32(f) == Field("Int32", f)
BEInt32(f) == Field("BEInt32", f)
Uint64(f) == Field("Uint64", f)
Int64(f) == Field("Int64", f)
Float32(f) == Field("Float32", f)
Float64(f) == Field("Float64", f)
Varint32(f) == Field("Varint32", f)
Varuint32(f) == Field("Varuint32", f)
Varint64(f) == Field("Varint64", f)
Varuint64(f) == Field("Varuint64", f)
ActorRuntimeID(f) == Varuint64(f)
ActorRuntimeIDVarint64(f) == Varint64(f)
ActorRuntimeIDVaruint32(f) == Varuint32(f)
ActorUniqueID(f) == Varint64(f)
ActorUniqueIDInt64(f) == Int64(f)
ActorUniqueIDUint64(f) == Uint64(f)
ActorUniqueIDVaruint64(f) == Varuint64(f)
String(f) == Field("String", f)
StringUTF(f) == Field("StringUTF", f)
ByteSlice(f) == Field("ByteSlice", f)
Vec3(f) == Field("Vec3", f)
Vec2(f) == Field("Vec2", f)
BlockPos(f) == Field("BlockPos", f)
ChunkPos(f) == Field("ChunkPos", f)
SubChunkPos(f) == Field("SubChunkPos", f)
SoundPos(f) == Choice("SoundPos", f, {500, Between})
ByteFloat(f) == Choice("ByteFloat", f, {500, Between})
RGB(f) == Choice("RGB", f, {500, Between})
NBT(f) == NBTIn("NetworkLittleEndian NBT", f)
NBTLittleEndian(f) == NBTIn("LittleEndian NBT", f)
UUID(f) == Field("UUID", f)
RGBA(f) == Uint32(f)
BEARGB(f) == BEInt32(f)
Bitset(f) == Field("Bitset", f)

(* IntegerFunc between types of one width keeps the bits; to a narrower    *)
(* type it keeps the low ones.                                             *)
IntegerFunc(enc, f) == Field(enc, f)
IntegerFuncTo(enc, f) == Choice(enc, f, {1, Negative, Wide})

=============================================================================
