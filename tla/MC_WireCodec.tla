---------------------------- MODULE MC_WireCodec ----------------------------
(***************************************************************************)
(* WireCodec over every message of the four modules.  The integers are at  *)
(* the ends of their types and where an encoding grows, the strings and    *)
(* embedded messages empty, short and of 128 bytes, where a length grows.  *)
(***************************************************************************)
EXTENDS WireCodec

EM == INSTANCE EnergyMessages
OM == INSTANCE OracleMessages
IM == INSTANCE IdentityMessages
AM == INSTANCE AuditMessages

Of(module, t) == [n \in {<<module, k>> : k \in DOMAIN t} |-> t[n[2]]]
MCTable == Of("energy", EM!ByName) @@ Of("oracle", OM!ByName)
               @@ Of("identity", IM!ByName) @@ Of("audit", AM!ByName)

Filled(n, byte) == [k \in 1..n |-> byte]

\* The digits of the largest uint32, uint64 and int64, of -1 and of the least
\* int64.
MaxUint32 == Filled(4, 127) \o <<15>>
MaxUint64 == Filled(9, 127) \o <<1>>
MaxInt64 == Filled(9, 127)
MinInt64 == Filled(9, 0) \o <<1>>

\* A message with something in every field, another thing in each.
RECURSIVE Full(_)
FullOf(e, n) ==
    CASE e[1] \in {"uint32", "uint64", "int64"} -> <<n, 1>>
      [] e[1] = "bool"    -> TRUE
      [] e[1] = "string"  -> <<96 + n, 96 + n>>
      [] e[1] = "strings" -> << <<96 + n>>, <<>>, <<64 + n>> >>
      [] e[1] = "message" -> Full(e[3])
      [] e[1] = "pointer" -> <<Full(e[3])>>
      [] OTHER            -> <<Full(e[3]), Zero(e[3])>>
Full(T) ==
    [f \in Fields(T) |->
        LET n == CHOOSE k \in DOMAIN T.unmarshal : T.unmarshal[k][2] = f
        IN  FullOf(T.unmarshal[n], n)]

Sample(e) ==
    {ZeroOf(e)} \cup
    CASE e[1] = "uint32"  -> {<<127>>, <<0, 1>>, MaxUint32}
      [] e[1] = "uint64"  -> {<<0, 1>>, MaxUint64}
      [] e[1] = "int64"   -> {<<127>>, <<0, 1>>, MaxInt64, MaxUint64, MinInt64}
      [] e[1] = "bool"    -> {TRUE}
      [] e[1] = "string"  -> {<<97>>, Filled(127, 97), Filled(128, 97)}
      [] e[1] = "strings" -> {<< <<>> >>, << Filled(128, 97), <<97>> >>}
      [] e[1] = "message" -> {Full(e[3])}
      [] e[1] = "pointer" -> {<<Zero(e[3])>>, <<Full(e[3])>>}
      [] OTHER            -> {<<Zero(e[3])>>, <<Full(e[3]), Full(e[3])>>}

MCRichest(n) == {Full(MCTable[n])}
MCValues(n) ==
    UNION {{[v EXCEPT ![f] = x] : x \in Sample(Entry(MCTable[n], f))} :
              <<v, f>> \in {Zero(MCTable[n]), Full(MCTable[n])} \X Fields(MCTable[n])}
        \cup {Zero(MCTable[n]), Full(MCTable[n])}

\* Fields 15 and 2047 of each wire type; the group holds a group and the bytes
\* of fields that are known.
MCUnknowns ==
    {<<120, 128, 1>>, <<121, 1, 2, 3, 4, 5, 6, 7, 8>>, <<125, 1, 2, 3, 4>>,
     <<122, 2, 10, 200>>, <<250, 127, 0>>,
     <<123, 8, 1, 19, 26, 1, 97, 20, 124>>}

MCForeign(n) ==
    {<<8, 129, 128, 0>>,                       \* not the shortest varint
     <<8>> \o Filled(9, 255) \o <<127>>,       \* bits beyond the 64th
     <<8>> \o Filled(10, 128) \o <<1>>,        \* bytes beyond the tenth
     <<8, 1, 8, 0>>,                           \* written twice, and a zero
     <<16, 1, 8, 1>>, <<18, 1, 97, 10, 1, 98, 10, 1, 97>>,  \* another order
     <<10, 0>>, <<10, 2, 8, 1>>, <<10, 4, 10, 2, 10, 0>>,   \* embedded
     <<136, 128, 128, 128, 128, 8, 1>>,        \* a number beyond 32 bits
     <<136, 128, 128, 128, 64, 1>>,            \* a negative number
     <<0, 1>>, <<12>>, <<126, 1>>, <<9, 1>>,   \* tags that are refused
     <<10>> \o Filled(9, 255) \o <<1>>,        \* length -1
     <<10>> \o Filled(8, 255) \o <<127, 97>>,  \* length MaxInt64
     <<122>> \o Filled(8, 255) \o <<127, 97>>,
     <<10, 255, 255, 255, 255, 7>>, <<10, 5, 97>>, <<122, 5, 97>>,
     <<121, 1, 2, 3>>, <<123, 8, 1>>, <<124>>, <<123, 122, 200>>}
=============================================================================
