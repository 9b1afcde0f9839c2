----------------------------- MODULE RespReader -----------------------------
(***************************************************************************)
(* internal/resp's Reader, as a function of the bytes it is given: those   *)
(* of the buffer and of the socket, from the end of the last command on.   *)
(* The reader blocks exactly when they are too few to decide ("need"), and *)
(* being the only one to touch its buffer it can be taken to read a        *)
(* command in one step once they do.                                       *)
(***************************************************************************)
EXTENDS Frames, FiniteSetsExt

\* readHeaderLine with trimCRLF: the line at b[at], without its CRLF.
readHeaderLine(b, at) ==
  LET ends == {i \in at..Len(b) : b[i] = "LF"}
      trimCRLF(line) ==
        IF Len(line) \in 2..MaxHeaderLine /\ line[Len(line) - 1] = "CR"
        THEN Found(SubSeq(line, 1, Len(line) - 2), at + Len(line)) ELSE Bad
  IN  IF ends # {} THEN trimCRLF(SubSeq(b, at, Min(ends)))
      ELSE IF Len(b) - at + 1 < BufferSize THEN Need ELSE Bad

\* parseInt accepts no sign, no leading zero and no overflow.
parseInt(s) ==
  LET bounded(n) == IF n <= MaxInt THEN n ELSE -1
  IN  IF isNumber(s) /\ (s[1] # "0" \/ Len(s) = 1) THEN bounded(valueOf(s)) ELSE -1

\* A header line of this type, and the number on it.
readLength(b, at, type, limit) ==
  LET number(line, next) ==
        LET within(n) == IF n \in 0..limit THEN Found(n, next) ELSE Bad
        IN  IF line # <<>> /\ Head(line) = type THEN within(parseInt(Tail(line)))
            ELSE Bad
  IN  Then(readHeaderLine(b, at), number)

\* Mutant: the two bytes after the payload are skipped without a look.
readBulkArgSkip(b, at) ==
  LET payload(n, next) ==
        IF Len(b) < next + n + 1 THEN Need
        ELSE Found(SubSeq(b, next, next + n - 1), next + n + 2)
  IN  Then(readLength(b, at, "$", MaxBulkLen), payload)

readBulkArg(b, at) ==
  LET payload(n, next) ==
        IF Len(b) < next + n + 1 THEN Need
        ELSE IF SubSeq(b, next + n, next + n + 1) # CRLF THEN Bad
        ELSE Found(SubSeq(b, next, next + n - 1), next + n + 2)
  IN  Then(readLength(b, at, "$", MaxBulkLen), payload)

\* n more arguments.
RECURSIVE readArgs(_, _, _, _)
readArgs(b, at, n, args) ==
  LET more(arg, next) == readArgs(b, next, n - 1, Append(args, arg))
  IN  IF n = 0 THEN Found(args, at) ELSE Then(readBulkArg(b, at), more)

ReadCommand(b) ==
  LET arguments(n, next) == readArgs(b, next, n, <<>>)
  IN  Then(readLength(b, 1, "*", MaxMultibulkLen), arguments)
=============================================================================
