---------------------------- MODULE EventParser ----------------------------
(***************************************************************************)
(* The incremental parser of internal/server's event loop (CM_NET=gnet): a *)
(* parser of its own, that starts over at the first byte of a frame each   *)
(* time the loop has more bytes.                                           *)
(***************************************************************************)
EXTENDS Frames, FiniteSetsExt

\* The first CRLF at or after b[at]; 0 if there is none.
indexCRLF(b, at) ==
  LET found == {i \in at..Len(b) - 1 : <<b[i], b[i + 1]>> = CRLF}
  IN  IF found = {} THEN 0 ELSE Min(found)

\* strconv.Atoi, which accepts a sign and leading zeros.
Atoi(s) ==
  LET sign == IF s # <<>> /\ s[1] \in {"+", "-"} THEN 1 ELSE 0
      bounded(n) == IF n > MaxInt THEN -1 ELSE IF s[1] = "-" THEN -n ELSE n
      number(digits) == IF isNumber(digits) THEN bounded(valueOf(digits)) ELSE -1
  IN  number(SubSeq(s, 1 + sign, Len(s)))

\* The count or length on a header line.  A line is too long only as long as
\* its CRLF has not been seen.
evHeader(b, at, type, limit) ==
  LET within(n, next) == IF n \in 0..limit THEN Found(n, next) ELSE Bad
      number(nl) ==
        IF nl > 0 THEN within(Atoi(SubSeq(b, at + 1, nl - 1)), nl + 2)
        ELSE IF Len(b) - at + 1 > MaxHeaderLine THEN Bad ELSE Need
  IN  IF at > Len(b) THEN Need
      ELSE IF b[at] # type THEN Bad
      ELSE number(indexCRLF(b, at))

\* Mutant: a payload with the CR that follows it.
RECURSIVE evArgsLong(_, _, _, _)
evArgsLong(b, at, count, out) ==
  LET payload(n, next) ==
        IF next + n + 1 > Len(b) THEN Need
        ELSE IF SubSeq(b, next + n, next + n + 1) # CRLF THEN Bad
        ELSE evArgsLong(b, next + n + 2, count - 1,
                        Append(out, SubSeq(b, next, next + n)))
  IN  IF count = 0 THEN Found(out, at)
      ELSE Then(evHeader(b, at, "$", MaxBulkLen), payload)

\* count more arguments.
RECURSIVE evArgs(_, _, _, _)
evArgs(b, at, count, out) ==
  LET payload(n, next) ==
        IF next + n + 1 > Len(b) THEN Need
        ELSE IF SubSeq(b, next + n, next + n + 1) # CRLF THEN Bad
        ELSE evArgs(b, next + n + 2, count - 1,
                    Append(out, SubSeq(b, next, next + n - 1)))
  IN  IF count = 0 THEN Found(out, at)
      ELSE Then(evHeader(b, at, "$", MaxBulkLen), payload)

\* The command at the head of b.
parseCommand(b) ==
  LET arguments(n, next) == evArgs(b, next, n, <<>>)
  IN  Then(evHeader(b, 1, "*", MaxMultibulkLen), arguments)
=============================================================================
