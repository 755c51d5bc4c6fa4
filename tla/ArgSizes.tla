------------------------------- MODULE ArgSizes -------------------------------
(***************************************************************************)
(* Arguments as bytes: what Serializer.h writes, how large it says that    *)
(* will be, and what Deserializer.h reads back.                            *)
(*                                                                         *)
(* Bytes are represented by cells: a function from the offset of each      *)
(* thing written to the thing.  Offsets and sizes are those of the code,   *)
(* and sums of sizes are taken in 16 bits (SIZE_TYPE).                     *)
(*                                                                         *)
(* An argument is a record: a value of a fixed size, a string of a length, *)
(* or a vector whose elements are of the first two kinds.                  *)
(***************************************************************************)
EXTENDS Integers, Sequences

MAX_SIZE == 65535
U16(n) == n % (MAX_SIZE + 1)

Pod(size, value) == [kind |-> "pod", size |-> size, value |-> value]
Str(len, text) == [kind |-> "string", len |-> len, text |-> text]
Vec(elements, elementSize) == [kind |-> "vector", elements |-> elements, size |-> elementSize]

STRING_HEADER_SIZE == 8
VECTOR_HEADER_SIZE == 8
VectorObjectSize == 24         \* sizeof(std::vector<T>)
StringObjectSize == 32         \* sizeof(std::string)

\* Runs of this size hold no vector of strings that deserializeType takes for malformed.
ReadableSize == STRING_HEADER_SIZE * (MAX_SIZE \div StringObjectSize)

IsScalar(a) ==
    \/ a.kind = "pod" /\ a.size \in Nat \ {0}
    \/ a.kind = "string" /\ a.len \in Nat

\* The elements have one type.
IsVector(a) ==
    /\ a.kind = "vector"
    /\ a.elements \in Seq({a.elements[n] : n \in DOMAIN a.elements})
    /\ a.size \in Nat \ {0}
    /\ \A n \in DOMAIN a.elements :
        /\ IsScalar(a.elements[n])
        /\ a.size = IF a.elements[n].kind = "pod" THEN a.elements[n].size ELSE StringObjectSize

IsArgs(args) ==
    /\ args \in Seq({args[n] : n \in DOMAIN args})
    /\ \A n \in DOMAIN args : IsScalar(args[n]) \/ IsVector(args[n])

Bytes(cells, sz) == [cells |-> cells, sz |-> sz]
NoBytes == Bytes(<<>>, 0)

Cell(v) == [o \in {0} |-> v]

\* More is copied behind the first `at' bytes.
BytesBehind(cells, at, more) ==
    [o \in DOMAIN cells \cup {x + at : x \in DOMAIN more} |->
        IF o \in DOMAIN cells THEN cells[o] ELSE more[o - at]]

\* A run of bytes behind another; sizes have 16 bits.
Behind(first, second) ==
    Bytes(BytesBehind(first.cells, first.sz, second.cells), U16(first.sz + second.sz))

\* One run of bytes behind the other, from the first to the last.
Joined(runs) ==
    LET joined[n \in 0 .. Len(runs)] ==
            IF n = 0 THEN NoBytes ELSE Behind(joined[n - 1], runs[n])
    IN  joined[Len(runs)]

Total(sizes) ==
    LET sum[n \in 0 .. Len(sizes)] == IF n = 0 THEN 0 ELSE sum[n - 1] + sizes[n]
    IN  sum[Len(sizes)]

\* A string's length is written in 64 bits, but only what 16 bits hold of it.
FirstOf(s) == [text |-> s.text, len |-> U16(s.len)]

SerializedScalar(a) ==
    IF a.kind = "pod" THEN Bytes(Cell(a.value), a.size)
    ELSE Behind(Bytes(Cell(U16(a.len)), STRING_HEADER_SIZE),
                IF U16(a.len) = 0 THEN NoBytes ELSE Bytes(Cell(FirstOf(a)), U16(a.len)))

SerializedVector(a) ==
    Behind(Bytes(Cell(Len(a.elements)), VECTOR_HEADER_SIZE),
           Joined([n \in DOMAIN a.elements |-> SerializedScalar(a.elements[n])]))

\* serializeType
Serialized(a) == IF a.kind = "vector" THEN SerializedVector(a) ELSE SerializedScalar(a)

\* serializeTuple over a tuple: every argument behind those before it.
SerializedTuple(args) == Joined([n \in DOMAIN args |-> Serialized(args[n])])

StringSize(a) == U16(STRING_HEADER_SIZE + U16(a.len))

\* sizeOfArgs, of one argument: a vector is measured as an object.
SizeOf(a) ==
    CASE a.kind = "pod" -> a.size
      [] a.kind = "string" -> StringSize(a)
      [] a.kind = "vector" -> VectorObjectSize

sizeOfArgs(args) == U16(Total([n \in DOMAIN args |-> SizeOf(args[n])]))

\* The bytes that are written, without bounds.
ScalarBytes(a) == IF a.kind = "pod" THEN a.size ELSE STRING_HEADER_SIZE + U16(a.len)
ArgBytes(a) ==
    IF a.kind = "vector"
    THEN VECTOR_HEADER_SIZE + Total([n \in DOMAIN a.elements |-> ScalarBytes(a.elements[n])])
    ELSE ScalarBytes(a)
WrittenBytes(args) == Total([n \in DOMAIN args |-> ArgBytes(args[n])])

-----------------------------------------------------------------------------
(* Deserializer.h: what is read at an offset, and the offset behind it *)

Got(value, next) == [value |-> value, next |-> next]
EmptyText == [text |-> "", len |-> 0]

\* Mutant: lengths are taken for 8 bits wide.
NoLengthInByte(len) == len = 0 \/ len > 255

NoLength(len) == len = 0 \/ len > MAX_SIZE

\* An empty string has no text.  A length beyond 16 bits reads as empty.
ReadScalar(shape, cells, at) ==
    IF shape.kind = "pod" THEN Got(cells[at], U16(at + shape.size))
    ELSE LET len == cells[at]
             text == U16(at + STRING_HEADER_SIZE)
         IN  IF NoLength(len) THEN Got(EmptyText, text) ELSE Got(cells[text], U16(text + len))

\* What was got, and one value more.
GotMore(got, one) == Got(Append(got.value, one.value), one.next)

ReadVector(shape, cells, at) ==
    LET n == cells[at]
        next == U16(at + VECTOR_HEADER_SIZE)
        got[m \in 0 .. n] ==
            IF m = 0 THEN Got(<<>>, next)
            ELSE GotMore(got[m - 1], ReadScalar(shape.elements[m], cells, got[m - 1].next))
    IN  IF n = 0 \/ n > MAX_SIZE \div shape.size THEN Got(<<>>, next) ELSE got[n]

ReadArg(shape, cells, at) ==
    IF shape.kind = "vector" THEN ReadVector(shape, cells, at) ELSE ReadScalar(shape, cells, at)

\* deserializeTuple over a tuple of the same types.
ReadTuple(shapes, cells, at) ==
    LET got[n \in 0 .. Len(shapes)] ==
            IF n = 0 THEN Got(<<>>, at)
            ELSE GotMore(got[n - 1], ReadArg(shapes[n], cells, got[n - 1].next))
    IN  got[Len(shapes)].value

\* What the receiver should have been given for the arguments.
ScalarValue(a) ==
    IF a.kind = "pod" THEN a.value
    ELSE IF a.len = 0 THEN EmptyText ELSE [text |-> a.text, len |-> a.len]
ValueOf(a) ==
    IF a.kind = "vector" THEN [i \in DOMAIN a.elements |-> ScalarValue(a.elements[i])]
    ELSE ScalarValue(a)
Values(args) == [i \in DOMAIN args |-> ValueOf(args[i])]

=============================================================================
