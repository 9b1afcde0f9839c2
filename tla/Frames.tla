------------------------------- MODULE Frames -------------------------------
(***************************************************************************)
(* The request frames of RESP: an array of bulk strings,                   *)
(*    * <count> CR LF   and, count times,   $ <length> CR LF <bytes> CR LF *)
(* with every number in canonical decimal.  This is what the two parsers   *)
(* of the server, RespReader and EventParser, are measured against: it     *)
(* says which bytes a command is, not how to find it in a stream.          *)
(*                                                                         *)
(* A byte is a string, a payload a sequence of bytes, a command the        *)
(* sequence of its arguments.                                              *)
(***************************************************************************)
EXTENDS Integers, Sequences, SequencesExt

CONSTANTS
  MaxBulkLen,       \* resp.DefaultMaxBulkLen (512 MiB)
  MaxMultibulkLen,  \* resp.DefaultMaxMultibulkLen (1 Mi)
  MaxHeaderLine,    \* resp.maxHeaderLine, evMaxHeaderLine (64)
  BufferSize,       \* resp.defaultBufferSize (16 KiB)
  MaxInt            \* the largest int

\* Within the limits a length is one digit, and its header line 4 bytes.
ASSUME FramesAssumption ==
  /\ MaxBulkLen \in 1..9 /\ MaxMultibulkLen \in 1..9
  /\ MaxHeaderLine \in Nat /\ MaxHeaderLine >= 4 /\ BufferSize >= MaxHeaderLine
  /\ MaxInt \in Nat /\ MaxInt > MaxBulkLen /\ MaxInt > MaxMultibulkLen

CRLF == <<"CR", "LF">>
Digits == <<"0", "1", "2", "3", "4", "5", "6", "7", "8", "9">>

digit == [d \in ToSet(Digits) |-> CHOOSE n \in 0..9 : Digits[n + 1] = d]

isNumber(s) == s # <<>> /\ \A i \in DOMAIN s : s[i] \in DOMAIN digit
valueOf(s) ==
  LET value[i \in 0..Len(s)] ==
        IF i = 0 THEN 0 ELSE 10 * value[i - 1] + digit[s[i]]
  IN  value[Len(s)]

\* What a parser makes of the bytes it has: too few of them, an error, or
\* something that ends before the byte at next.
Need == [verdict |-> "need"]
Bad == [verdict |-> "bad"]
Found(what, next) == [verdict |-> "ok", is |-> what, next |-> next]

\* Go on from what was found, unless there was an early return.
Then(r, goOn(_, _)) == IF r.verdict = "ok" THEN goOn(r.is, r.next) ELSE r

-----------------------------------------------------------------------------
(* The reference. *)

Header(type, n) == <<type, Digits[n + 1]>> \o CRLF
Bulk(arg) == Header("$", Len(arg)) \o arg \o CRLF
Encode(args) ==
  Header("*", Len(args)) \o FlattenSeq([i \in DOMAIN args |-> Bulk(args[i])])

\* The size of a frame whose arguments have these lengths, and the arguments
\* of such a frame at the head of s.
Size(lens) == 4 + FoldLeft(LAMBDA n, l : n + l + 6, 0, lens)
Cut(s, lens) ==
  LET at(i) == Size(SubSeq(lens, 1, i - 1)) + 5
  IN  [i \in DOMAIN lens |-> SubSeq(s, at(i), at(i) + lens[i] - 1)]

\* The command that s begins with, if it begins with one.
First(s) ==
  LET lengths == UNION {[1..n -> 0..MaxBulkLen] : n \in 0..MaxMultibulkLen}
      fits == {lens \in lengths : Size(lens) <= Len(s)}
  IN  {args \in {Cut(s, lens) : lens \in fits} : IsPrefix(Encode(args), s)}

\* The commands that s begins with.
RECURSIVE Leading(_)
Leading(s) ==
  IF First(s) = {} THEN <<>>
  ELSE LET args == CHOOSE args \in First(s) : TRUE
       IN  <<args>> \o Leading(SubSeq(s, Len(Encode(args)) + 1, Len(s)))
=============================================================================
