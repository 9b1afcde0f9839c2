------------------------------ MODULE Replies ------------------------------
(***************************************************************************)
(* The reply half of the codec, internal/resp/writer.go, and the helpers   *)
(* of internal/server that write more than one element.  What a writer     *)
(* emits is a sequence of elements, each a type byte and a number: the     *)
(* integer, the announced children, or the length -1 of a null.  Text is   *)
(* of interest only for the line breaks in it.                             *)
(***************************************************************************)
EXTENDS Integers, Sequences, FiniteSets

CONSTANT MaxErrEchoLen  \* maxErrEchoLen

Element(type, n) == [type |-> type, n |-> n]

\* A line that no type byte opens: what follows a line break inside a line.
Stray == Element("stray", 0)

WriteSimpleString == <<Element("+", 0)>>
WriteInt(n) == <<Element(":", n)>>
WriteBulk == <<Element("$", 0)>>
WriteArrayHeader(n) == <<Element("*", n)>>

\* The text goes out as it is, a control character being a line break.
WriteError(text) ==
  <<Element("-", 0)>>
    \o [i \in 1..Cardinality({j \in DOMAIN text : text[j] = "control"}) |-> Stray]

WriteNull(proto) == IF proto >= 3 THEN <<Element("_", 0)>> ELSE <<Element("$", -1)>>

WriteMapHeader(proto, n) ==
  IF proto >= 3 THEN <<Element("%", n)>> ELSE <<Element("*", 2 * n)>>

sanitizeText(text) ==
  [i \in 1..(IF Len(text) > MaxErrEchoLen THEN MaxErrEchoLen ELSE Len(text)) |->
     IF text[i] = "control" THEN "?" ELSE text[i]]

\* The server's own messages are one line each.
Message == <<"m">>

\* The fields server, version, proto, id, mode, role and modules.
writeHelloMap(wproto, proto, id) ==
  WriteMapHeader(wproto, 7)
    \o WriteBulk \o WriteBulk \o WriteBulk \o WriteBulk
    \o WriteBulk \o WriteInt(proto) \o WriteBulk \o WriteInt(id)
    \o WriteBulk \o WriteBulk \o WriteBulk \o WriteBulk
    \o WriteBulk \o WriteArrayHeader(0)

writeConfigPair == WriteArrayHeader(2) \o WriteBulk \o WriteBulk

-----------------------------------------------------------------------------
(* What a client makes of it. *)

children(e) == CASE e.type = "*" -> e.n [] e.type = "%" -> 2 * e.n [] OTHER -> 0

\* The elements are one reply, the whole of it and nothing else: each element
\* is one of those the ones before it announced.
OneValue(out) ==
  LET owed[i \in 0..Len(out)] ==
        IF i = 0 THEN 1 ELSE owed[i - 1] - 1 + children(out[i])
  IN  \A i \in 0..Len(out) : owed[i] = 0 <=> i = Len(out)

\* The dialect has the element.
Speaks(dialect, e) ==
  CASE e.type \in {"_", "%"} -> dialect = 3
    [] e = Element("$", -1) -> dialect = 2
    [] OTHER -> e.type \in {"+", "-", ":", "$", "*"}

\* A client that speaks this dialect reads it as one reply.
Decodes(dialect, out) ==
  OneValue(out) /\ \A i \in 1..Len(out) : Speaks(dialect, out[i])
=============================================================================
