------------------------------ MODULE WireCodec ------------------------------
(***************************************************************************)
(* The generated protobuf codec of the four modules (x/*/types/*.pb.go),   *)
(* through which every stored value, transaction message, genesis file and *)
(* query goes.  A value is marshalled field by field from the end of a     *)
(* buffer of Size() bytes; the bytes travel or are stored; a reader, which *)
(* may be of another version, unmarshals them in a loop over tags.  The    *)
(* bytes may be cut short, continued with another encoding or with fields  *)
(* the reader does not know, or come from a foreign encoder.               *)
(*                                                                         *)
(* The generated functions are one algorithm run over each message's table *)
(* of fields (see WireMessage).  A byte is 0..255.  A 64-bit integer, too  *)
(* wide for TLC, is the sequence of its base-128 digits, the lowest first  *)
(* and the highest not 0: that of 0 is empty.  A string is a sequence of   *)
(* bytes.  A nil pointer is <<>> and a pointer to x is <<x>>.              *)
(***************************************************************************)
EXTENDS Integers, Sequences, SequencesExt, FiniteSetsExt

CONSTANTS
    Table,           \* message name -> Message(...)
    Values(_),       \* values of a message that are marshalled
    Richest(_),      \* those among them that are also cut, merged and extended
    Unknowns,        \* encodings of fields that no reader here knows
    Foreign(_)       \* buffers that no encoder here wrote, for a message

VARIABLES
    name,            \* the message
    value,           \* what is marshalled
    size,            \* length of the buffer, from Size()
    written,         \* the bytes written so far, at the end of the buffer
    next,            \* entry of the marshal table to write next
    phase,           \* "size", "marshal", "unmarshal", "returned"
    wire,            \* history: what happened to the bytes
    buf,             \* dAtA of the reader
    iNdEx,           \* its position
    m,               \* the message it fills
    err              \* the error it returns, or "nil"

writer == <<name, value, size, written, next>>
reader == <<buf, iNdEx, m, err>>
vars == <<writer, phase, wire, reader>>

SumOf(s) == FoldLeft(LAMBDA a, b : a + b, 0, s)

-----------------------------------------------------------------------------
(* Integers                                                                *)

Num(d) == SumOf([k \in DOMAIN d |-> d[k] * 128^(k - 1)])

Strip(d) == SubSeq(d, 1, Max({0} \cup {k \in DOMAIN d : d[k] # 0}))

\* The digits of a length below 2^21.
Word(n) == Strip(<<n % 128, (n \div 128) % 128, n \div 16384>>)

\* The lowest 32 and 64 bits.
Uint32(d) == Strip([k \in 1..Min({Len(d), 5}) |-> IF k = 5 THEN d[k] % 16 ELSE d[k]])
Uint64(d) == Strip([k \in DOMAIN d |-> IF k = 10 THEN d[k] % 2 ELSE d[k]])

encodeVarint(w) ==
    IF w = <<>> THEN <<0>>
    ELSE [k \in DOMAIN w |-> IF k < Len(w) THEN w[k] + 128 ELSE w[k]]

\* bits.Len64
Len64(w) ==
    IF w = <<>> THEN 0
    ELSE 7 * (Len(w) - 1) + Min({n \in 1..7 : w[Len(w)] < 2^n})

\* Mutant: without x|1 a length of 0 takes no byte.
sovZero(w) == (Len64(w) + 6) \div 7

sov(w) == (Max({Len64(w), 1}) + 6) \div 7

-----------------------------------------------------------------------------
(* Size and MarshalToSizedBuffer                                           *)

RECURSIVE Marshal(_, _), Size(_, _)

\* n += 1 + l + sov(l)
Delimited(l) == 1 + l + sov(Word(l))

\* What an entry of Size adds for the value x of its field.
FieldSize(e, x) ==
    CASE e[1] = "varint"   -> IF x = <<>> THEN 0 ELSE 1 + sov(x)
      [] e[1] = "bool"     -> IF x THEN 2 ELSE 0
      [] e[1] = "bytes"    -> IF x = <<>> THEN 0 ELSE Delimited(Len(x))
      [] e[1] = "strings"  -> SumOf([k \in DOMAIN x |-> Delimited(Len(x[k]))])
      [] e[1] = "message"  -> Delimited(Size(e[3], x))
      [] OTHER             -> SumOf([k \in DOMAIN x |-> Delimited(Size(e[3], x[k]))])

Size(T, v) == SumOf([k \in DOMAIN T.size |-> FieldSize(T.size[k], v[T.size[k][2]])])

WithLength(bytes) == encodeVarint(Word(Len(bytes))) \o bytes

\* The payloads that an entry of the marshal table writes for the value x of
\* its field, first to last: none for a zero value, one for each element of a
\* repeated field.
Payloads(e, x) ==
    CASE e[2] = "varint"   -> IF x = <<>> THEN <<>> ELSE <<encodeVarint(x)>>
      [] e[2] = "bool"     -> IF x THEN << <<1>> >> ELSE <<>>
      [] e[2] = "bytes"    -> IF x = <<>> THEN <<>> ELSE <<WithLength(x)>>
      [] e[2] = "strings"  -> [k \in DOMAIN x |-> WithLength(x[k])]
      [] e[2] = "message"  -> <<WithLength(Marshal(e[4], x))>>
      [] OTHER             -> [k \in DOMAIN x |-> WithLength(Marshal(e[4], x[k]))]

\* Mutant: the elements of a repeated field are written from the first on,
\* which puts them into the buffer from the last on.
WriteFieldForwards(e, x) ==
    LET p == Payloads(e, x)
    IN  FlattenSeq([k \in DOMAIN p |-> <<e[1]>> \o p[Len(p) + 1 - k]])

\* Each payload is preceded by the tag byte.
WriteField(e, x) ==
    LET p == Payloads(e, x) IN FlattenSeq([k \in DOMAIN p |-> <<e[1]>> \o p[k]])

\* What the entries in s leave at the end of the buffer.
WriteFields(s, v) == FoldLeft(LAMBDA out, e : WriteField(e, v[e[3]]) \o out, <<>>, s)

Marshal(T, v) == WriteFields(T.marshal, v)

-----------------------------------------------------------------------------
(* Unmarshal                                                               *)

RECURSIVE Zero(_), UnmarshalFrom(_, _, _), SkipFrom(_, _, _)

\* The zero value of the Go struct.
Fields(T) == {T.unmarshal[n][2] : n \in DOMAIN T.unmarshal}
Entry(T, f) == T.unmarshal[CHOOSE n \in DOMAIN T.unmarshal : T.unmarshal[n][2] = f]
ZeroOf(e) ==
    CASE e[1] = "bool"    -> FALSE
      [] e[1] = "message" -> Zero(e[3])
      [] OTHER            -> <<>>
Zero(T) == [f \in Fields(T) |-> ZeroOf(Entry(T, f))]

\* The reader at index i with message x, or on its way out with an error.
At(i, x) == [i |-> i, m |-> x, err |-> "nil"]
Fail(e) == [i |-> 0, m |-> <<>>, err |-> e]

\* Mutant: a varint ends where the bytes do.
ReadVarintShort(b, i) ==
    LET last == {k \in 1..10 : i + k <= Len(b) /\ (b[i + k] < 128 \/ i + k = Len(b))}
    IN  IF last # {}
        THEN [digits |-> [k \in 1..Min(last) |-> b[i + k] % 128],
              i |-> i + Min(last), err |-> "nil"]
        ELSE [digits |-> <<0>>, i |-> i,
              err |-> IF Len(b) - i >= 10 THEN "overflow" ELSE "unexpected EOF"]

\* The loop that reads a varint at index i: its digits and the index behind
\* it.  After ten bytes that all announce another one it gives up.
ReadVarint(b, i) ==
    LET last == {k \in 1..10 : i + k <= Len(b) /\ b[i + k] < 128}
    IN  IF last # {}
        THEN [digits |-> [k \in 1..Min(last) |-> b[i + k] % 128],
              i |-> i + Min(last), err |-> "nil"]
        ELSE [digits |-> <<0>>, i |-> i,
              err |-> IF Len(b) - i >= 10 THEN "overflow" ELSE "unexpected EOF"]

\* A length w read as an int, followed by index i: a negative length or
\* postIndex, and postIndex otherwise, cut at a number beyond every buffer.
Negative(w, i) ==
    \/ Len(w) = 10
    \/ Len(w) = 9 /\ (\A k \in 4..9 : w[k] = 127) /\ Num(SubSeq(w, 1, 3)) + i >= 2^21
PostIndex(w, i) == IF Len(w) > 3 THEN 2^21 ELSE i + Num(w)

\* wire & 7, and int32(wire >> 3), in which 0 stands for a negative number.
wireType(d) == d[1] % 8
fieldNum(d) ==
    LET Digit(k) == IF k <= Len(d) THEN d[k] ELSE 0
    IN  IF Digit(5) >= 64 THEN 0
        ELSE (d[1] \div 8) + 2^4 * Digit(2) + 2^11 * Digit(3) + 2^18 * Digit(4)
                 + 2^25 * Digit(5)

\* Where the payload of an unknown field ends, its tag read.
SkipPayload(b, i, wt) ==
    LET v == ReadVarint(b, i)
        w == Uint64(v.digits)
    IN  CASE wt \in {3, 4} -> At(i, <<>>)
          [] wt = 1 -> At(i + 8, <<>>)
          [] wt = 5 -> At(i + 4, <<>>)
          [] wt = 0 -> IF v.err = "nil" THEN At(v.i, <<>>) ELSE Fail(v.err)
          [] wt = 2 -> IF v.err # "nil" THEN Fail(v.err)
                       ELSE IF Negative(w, v.i) THEN Fail("length")
                       ELSE At(PostIndex(w, v.i), <<>>)
          [] OTHER  -> Fail("wire type")

\* Mutant: a group ends with the first end of a group in it.
DepthFlat(wt, depth) == CASE wt = 3 -> 1 [] wt = 4 -> depth - 1 [] OTHER -> depth

\* How many groups are open after a tag.
DepthAfter(wt, depth) ==
    CASE wt = 3 -> depth + 1 [] wt = 4 -> depth - 1 [] OTHER -> depth

\* skipTypes: over one field, whatever its number, a group with all it holds.
\* The end of the buffer is checked before a tag only, and by the caller.
SkipFrom(b, i, depth) ==
    LET t == ReadVarint(b, i)
        wt == wireType(t.digits)
        inner == DepthAfter(wt, depth)
        s == SkipPayload(b, t.i, wt)
    IN  IF t.err # "nil" THEN Fail(t.err)
        ELSE IF inner < 0 THEN Fail("end of group")
        ELSE IF s.err # "nil" \/ inner = 0 THEN s
        ELSE SkipFrom(b, s.i, inner)

\* The default branch of the switch.
SkipUnknown(b, i, x) ==
    LET s == SkipFrom(b, i, 0)
    IN  IF s.err # "nil" THEN s
        ELSE IF s.i > Len(b) THEN Fail("unexpected EOF")
        ELSE At(s.i, x)

\* A case of an integer field, its tag read.
ReadScalar(e, b, i, x) ==
    LET v == ReadVarint(b, i)
        d == Uint64(v.digits)
    IN  IF v.err # "nil" THEN Fail(v.err)
        ELSE At(v.i, [x EXCEPT ![e[2]] = CASE e[1] = "bool"   -> d # <<>>
                                           [] e[1] = "uint32" -> Uint32(d)
                                           [] OTHER           -> d])

\* The message that an occurrence of an embedded field is unmarshalled into:
\* the one that is there, a new one for a nil pointer or a repeated field.
Element(e, old) ==
    CASE e[1] = "message" -> old
      [] e[1] = "pointer" /\ old # <<>> -> old[1]
      [] OTHER -> Zero(e[3])

\* The new value of a length-delimited field that held old: a string, or the
\* message x read from it.
Stored(e, old, data, x) ==
    CASE e[1] = "string"  -> data
      [] e[1] = "strings" -> Append(old, data)
      [] e[1] = "message" -> x
      [] e[1] = "pointer" -> <<x>>
      [] OTHER            -> Append(old, x)

\* A case of a length-delimited field, its tag read.
ReadDelimited(e, b, i, x) ==
    LET v == ReadVarint(b, i)
        w == Uint64(v.digits)
        post == PostIndex(w, v.i)
        data == SubSeq(b, v.i + 1, post)
        old == x[e[2]]
        inner == IF Len(e) = 2 THEN At(0, <<>>)
                 ELSE UnmarshalFrom(e[3], data, At(0, Element(e, old)))
    IN  IF v.err # "nil" THEN Fail(v.err)
        ELSE IF Negative(w, v.i) THEN Fail("length")
        ELSE IF post > Len(b) THEN Fail("unexpected EOF")
        ELSE IF inner.err # "nil" THEN inner
        ELSE At(post, [x EXCEPT ![e[2]] = Stored(e, old, data, inner.m)])

\* One round of the loop of Unmarshal: a tag and its field.
ReadField(T, b, s) ==
    LET t == ReadVarint(b, s.i)
        wt == wireType(t.digits)
        num == fieldNum(t.digits)
        e == T.unmarshal[num]
        scalar == e[1] \in {"uint32", "uint64", "int64", "bool"}
    IN  IF t.err # "nil" THEN Fail(t.err)
        ELSE IF wt = 4 THEN Fail("end of group")
        ELSE IF num = 0 THEN Fail("illegal tag")
        ELSE IF num \notin DOMAIN T.unmarshal THEN SkipUnknown(b, s.i, s.m)
        ELSE IF wt # (IF scalar THEN 0 ELSE 2) THEN Fail("wire type")
        ELSE IF scalar THEN ReadScalar(e, b, t.i, s.m)
        ELSE ReadDelimited(e, b, t.i, s.m)

UnmarshalFrom(T, b, s) ==
    IF s.err # "nil" \/ s.i >= Len(b) THEN s ELSE UnmarshalFrom(T, b, ReadField(T, b, s))

-----------------------------------------------------------------------------
(* A value on its way from a writer to a reader                            *)

Msg == Table[name]

Init ==
    /\ name \in DOMAIN Table
    /\ value \in Values(name)
    /\ size = 0 /\ written = <<>> /\ next = 1
    /\ buf = <<>> /\ iNdEx = 0 /\ m = Zero(Table[name]) /\ err = "nil"
    /\ phase = "size" /\ wire = [kind |-> "none"]

\* Marshal: the size, and the buffer.
Allocate ==
    /\ phase = "size"
    /\ size' = Size(Msg, value)
    /\ phase' = "marshal"
    /\ UNCHANGED <<name, value, written, next, wire, reader>>

\* One field of MarshalToSizedBuffer.
MarshalField ==
    /\ phase = "marshal" /\ next <= Len(Msg.marshal)
    /\ LET e == Msg.marshal[next] IN written' = WriteField(e, value[e[3]]) \o written
    /\ next' = next + 1
    /\ UNCHANGED <<name, value, size, phase, wire, reader>>

Marshalled == phase = "marshal" /\ next > Len(Msg.marshal)

\* Unmarshal is called on b, for a new message.
Receive(b, w) ==
    /\ buf' = b /\ wire' = w
    /\ phase' = "unmarshal"
    /\ UNCHANGED <<writer, iNdEx, m, err>>

Deliver == Marshalled /\ Receive(written, [kind |-> "intact"])

\* The bytes end early.
Truncate ==
    /\ Marshalled /\ value \in Richest(name)
    /\ \E n \in 0..(Len(written) - 1) :
          Receive(SubSeq(written, 1, n), [kind |-> "cut", at |-> n])

\* Another encoding of the same message follows.
Follow ==
    /\ Marshalled
    /\ \E other \in Richest(name) :
          Receive(written \o Marshal(Msg, other), [kind |-> "merged", other |-> other])

\* Where field k of the marshal table, and all behind it in the table, end in
\* the bytes.
EndOf(k) == Len(WriteFields(SubSeq(Msg.marshal, k, Len(Msg.marshal)), value))

\* A newer writer added a field.
Extend ==
    /\ Marshalled /\ value \in Richest(name)
    /\ \E u \in Unknowns, k \in 1..(Len(Msg.marshal) + 1) :
          Receive(SubSeq(written, 1, EndOf(k)) \o u \o SubSeq(written, EndOf(k) + 1, Len(written)),
                  [kind |-> "extended"])

\* Bytes of another encoder.
Intrude ==
    /\ Marshalled /\ value = Zero(Msg)
    /\ \E b \in Foreign(name) : Receive(b, [kind |-> "foreign"])

\* The loop of Unmarshal.
UnmarshalField ==
    /\ phase = "unmarshal" /\ iNdEx < Len(buf)
    /\ LET s == ReadField(Msg, buf, At(iNdEx, m))
       IN  IF s.err = "nil"
           THEN iNdEx' = s.i /\ m' = s.m /\ UNCHANGED <<phase, err>>
           ELSE err' = s.err /\ phase' = "returned" /\ UNCHANGED <<iNdEx, m>>
    /\ UNCHANGED <<writer, wire, buf>>

Return ==
    /\ phase = "unmarshal" /\ iNdEx >= Len(buf)
    /\ err' = IF iNdEx > Len(buf) THEN "unexpected EOF" ELSE "nil"
    /\ phase' = "returned"
    /\ UNCHANGED <<writer, wire, buf, iNdEx, m>>

Next ==
    \/ Allocate \/ MarshalField
    \/ Deliver \/ Truncate \/ Follow \/ Extend \/ Intrude
    \/ UnmarshalField \/ Return

Spec == Init /\ [][Next]_vars

-----------------------------------------------------------------------------
(* Properties                                                              *)

\* Size() is what MarshalToSizedBuffer writes, in all messages and at every
\* length of a length: filling the buffer from its end never passes its
\* beginning, where the index would panic, and arrives there, or Marshal would
\* return the wrong part of it.
SizeExact ==
    /\ Len(written) <= size
    /\ phase \in {"unmarshal", "returned"} => Len(written) = size

\* What two encodings, one after the other, mean: the last scalar counts,
\* repeated fields are joined, embedded messages merged.  A zero scalar is not
\* on the wire.
RECURSIVE Merge(_, _, _)
MergeField(e, x, y) ==
    CASE e[1] \in {"strings", "messages"} -> x \o y
      [] e[1] = "message" -> Merge(e[3], x, y)
      [] e[1] = "pointer" -> IF x = <<>> \/ y = <<>> THEN x \o y
                             ELSE <<Merge(e[3], x[1], y[1])>>
      [] e[1] = "bool" -> x \/ y
      [] OTHER -> IF y = <<>> THEN x ELSE y
Merge(T, a, b) == [f \in Fields(T) |-> MergeField(Entry(T, f), a[f], b[f])]

\* What Unmarshal made of the bytes, when it returned no error.
Read(kind) == phase = "returned" /\ err = "nil" /\ wire.kind = kind

\* A value that is marshalled and unmarshalled comes back as it was, although
\* the writer and the reader have their own tables of numbers, types and order;
\* two encodings in one buffer come back merged.  A message that was read from
\* foreign bytes is written in a form that is read as the same message again.
RoundTrip ==
    /\ phase = "returned" /\ wire.kind \in {"intact", "merged"} => err = "nil"
    /\ Read("intact") => m = value
    /\ Read("merged") => m = Merge(Msg, value, wire.other)
    /\ Read("foreign") =>
          LET b == Marshal(Msg, m)
          IN  Len(b) = Size(Msg, m) /\ UnmarshalFrom(Msg, b, At(0, Zero(Msg))) = At(Len(b), m)

\* Where each payload of field k of the marshal table ends in the bytes.
PayloadEnds(k) ==
    LET p == Payloads(Msg.marshal[k], value[Msg.marshal[k][3]])
    IN  [j \in DOMAIN p |-> EndOf(k + 1) + SumOf([q \in 1..j |-> 1 + Len(p[q])])]

\* What the first n bytes say of the field.
Before(k, n) ==
    LET e == Msg.marshal[k]
        x == value[e[3]]
        j == Cardinality({q \in DOMAIN PayloadEnds(k) : PayloadEnds(k)[q] <= n})
    IN  IF e[2] \in {"strings", "messages"} THEN SubSeq(x, 1, j)
        ELSE IF j = 1 THEN x ELSE ZeroOf(Entry(Msg, e[3]))

\* Bytes that are cut short are noticed, inside an embedded message too, except
\* at the end of a field: then the fields and elements before the cut are all
\* there and those behind it read as zero.
CutDetected ==
    phase = "returned" /\ wire.kind = "cut" =>
        LET table == DOMAIN Msg.marshal
            whole == wire.at \in {0} \cup UNION {Range(PayloadEnds(k)) : k \in table}
        IN  /\ err = IF whole THEN "nil" ELSE "unexpected EOF"
            /\ whole => \A k \in table : m[Msg.marshal[k][3]] = Before(k, wire.at)

\* A reader that does not know a field of a newer writer skips it, between
\* whichever fields it stands and whatever it holds (a group in a group, bytes
\* that look like a field of the message), and reads all others as they were
\* sent.
UnknownFieldsSkipped ==
    phase = "returned" /\ wire.kind = "extended" => err = "nil" /\ m = value
=============================================================================
