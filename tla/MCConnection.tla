---------------------------- MODULE MCConnection ----------------------------
(***************************************************************************)
(* Connection on pipelined commands and on all that one wrong byte can     *)
(* make of them.                                                           *)
(***************************************************************************)
EXTENDS Connection

x == <<<<"x">>>>

\* A command and QUIT; an empty command and one with a payload of CRLF and an
\* empty payload.
Pipelined == {Encode(x) \o Encode(Quit), Encode(<<>>) \o Encode(<<CRLF, <<>>>>)}

\* Commands behind QUIT; numbers with a sign; a header line longer than
\* MaxHeaderLine, and one without an end.
Others == {Encode(x) \o Encode(Quit) \o Encode(x),
           Header("*", 1) \o <<"$", "+", "1">> \o CRLF \o <<"x">> \o CRLF,
           <<"*", "-", "0">> \o CRLF \o Encode(x),
           <<"*", "0", "0", "1">> \o CRLF \o Bulk(<<"x">>) \o Encode(x),
           [i \in 1..BufferSize + 1 |-> IF i = 1 THEN "*" ELSE "1"]}

Bytes == {"*", "0", "1", "2", "+", "CR", "LF"}

\* One byte replaced, dropped or doubled.
Garbled(s) ==
  {ReplaceAt(s, i, byte) : i \in DOMAIN s, byte \in Bytes}
    \cup {RemoveAt(s, i) : i \in DOMAIN s}
    \cup {InsertAt(s, i, s[i]) : i \in DOMAIN s}

MCStreams == Pipelined \cup Others \cup UNION {Garbled(s) : s \in Pipelined}
=============================================================================
