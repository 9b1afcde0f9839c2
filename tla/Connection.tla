---------------------------- MODULE Connection ----------------------------
(***************************************************************************)
(* One connection, from the bytes of its client to the replies, served by  *)
(* either front end: serveConn, the goroutine that reads with RespReader   *)
(* and has an idle timeout, or the event loop, whose OnTraffic reads with  *)
(* EventParser.  The client's bytes arrive one by one and the server takes *)
(* them in pieces of any size.  A dispatch is a step here; what handlers   *)
(* do is the subject of Commands, and Shutdown that of Server.             *)
(*                                                                         *)
(* Time counts ticks, the unit of the idle timeout.  A goroutine that can  *)
(* run is not kept waiting for a tick, and a timer that is due goes off.   *)
(***************************************************************************)
EXTENDS RespReader, EventParser

CONSTANTS
  Streams,      \* what a client may send before it falls silent
  IdleTimeout   \* cfg.IdleTimeout, in ticks; 0 is none

ASSUME ConnectionAssumption == IdleTimeout \in Nat

VARIABLES
  front,      \* the front end: "goroutine" or "gnet"
  stream,     \* what the client sends
  arrived,    \* bytes of it that have reached the server
  hup,        \* "no", or how the client has hung up: "fin" or "rst"
  pc,         \* "read", "dispatch" or "closed"
  pos,        \* bytes consumed
  args,       \* what ReadCommand returned
  left,       \* ticks left until the read deadline
  handed,     \* bytes that had arrived at the last OnTraffic
  executed,   \* commands dispatched
  replies,    \* replies written
  held,       \* history: ticks since the connection or the last command
  ref         \* for the properties: what the stream amounts to

client == <<front, stream, arrived, hup, ref>>
vars == <<client, pc, pos, args, left, handed, executed, replies, held>>

Quit == <<<<"Q">>>>
bytes == SubSeq(stream, pos + 1, arrived)

\* The replies to a sequence of commands: dispatch ignores an empty one.
answers(cmds) == Cardinality({i \in DOMAIN cmds : cmds[i] # <<>>})

\* The loop of OnTraffic over the bytes from b[at] on: what it dispatches, the
\* bytes that are consumed after each, and why it ends.
RECURSIVE traffic(_, _, _, _)
traffic(b, at, cmds, ends) ==
  LET result(c, e, why) == [cmds |-> c, ends |-> e, why |-> why]
      more(cmd, next) ==
        IF cmd = Quit
        THEN result(Append(cmds, Quit), Append(ends, next - 1), "quit")
        ELSE traffic(b, next, Append(cmds, cmd), Append(ends, next - 1))
      after(r) == IF r.verdict = "ok" THEN more(r.is, at + r.next - 1)
                                      ELSE result(cmds, ends, r.verdict)
  IN  after(parseCommand(SubSeq(b, at, Len(b))))

\* What the bytes of s amount to, if nothing after QUIT counts: the canonical
\* frames they begin with, and what the front end makes of them if they come
\* all at once; known[n] commands of that are in the first n bytes.
Reference(f, s) ==
  LET canonical(b) ==
        LET cmds == Leading(b)
            quits == {i \in DOMAIN cmds : cmds[i] = Quit}
        IN  IF quits = {} THEN cmds ELSE SubSeq(cmds, 1, Min(quits))
      commands(b) ==
        IF f = "gnet" THEN traffic(b, 1, <<>>, <<>>).cmds ELSE canonical(b)
  IN  [canonical |-> canonical(s), script |-> commands(s),
       known |-> [n \in 0..Len(s) |-> Len(commands(SubSeq(s, 1, n)))]]

Init ==
  /\ front \in {"goroutine", "gnet"} /\ stream \in Streams
  /\ arrived = 0 /\ hup = "no" /\ ref = Reference(front, stream)
  /\ pc = "read" /\ pos = 0 /\ args = <<>> /\ left = IdleTimeout /\ handed = 0
  /\ executed = <<>> /\ replies = 0 /\ held = 0

-----------------------------------------------------------------------------
(* The client. *)

Send ==
  /\ pc # "closed" /\ hup = "no" /\ arrived < Len(stream)
  /\ arrived' = arrived + 1
  /\ UNCHANGED <<front, stream, ref, hup, pc, pos, args, left, handed, executed,
                 replies, held>>

\* A client that shuts down its side of the connection goes on reading
\* replies; one that resets it takes what has not been read yet with it.
HangUp ==
  /\ pc # "closed"
  /\ \/ hup = "no" /\ hup' = "fin"
     \/ hup # "rst" /\ hup' = "rst"
  /\ UNCHANGED <<front, stream, ref, arrived, pc, pos, args, left, handed, executed,
                 replies, held>>

-----------------------------------------------------------------------------
(* serveConn. *)

Close(reply) ==
  /\ pc' = "closed"
  /\ replies' = replies + reply
  /\ UNCHANGED <<client, pos, args, left, handed, executed, held>>

\* ReadCommand and classify.  Malformed bytes are answered; the end of the
\* stream, wherever it comes, and a transport error are not.
Read ==
  LET r == ReadCommand(bytes)
  IN  /\ front = "goroutine" /\ pc = "read"
      /\ \/ /\ r.verdict = "ok"
            /\ args' = r.is /\ pos' = pos + r.next - 1
            /\ pc' = "dispatch"
            /\ UNCHANGED <<client, left, handed, executed, replies, held>>
         \/ r.verdict = "bad" /\ Close(1)
         \/ r.verdict = "need" /\ hup = "fin" /\ Close(0)
         \/ hup = "rst" /\ Close(0)

\* Mutant: a connection times out between commands only.
timedOutBetween == IdleTimeout > 0 /\ left = 0 /\ bytes = <<>>

\* The deadline was set when the goroutine began to read the command.
timedOut == IdleTimeout > 0 /\ left = 0

ReadTimeout ==
  /\ front = "goroutine" /\ pc = "read" /\ timedOut
  /\ ReadCommand(bytes).verdict = "need"
  /\ Close(0)

\* dispatch and Flush, and the deadline of the next read.  The flush may fail
\* on a client that is gone.
Dispatch ==
  /\ front = "goroutine" /\ pc = "dispatch"
  /\ executed' = Append(executed, args)
  /\ replies' = replies + answers(<<args>>)
  /\ \/ args = Quit /\ pc' = "closed"
     \/ hup = "rst" /\ pc' = "closed"
     \/ args # Quit /\ pc' = "read"
  /\ args' = <<>>
  /\ left' = IdleTimeout /\ held' = 0
  /\ UNCHANGED <<client, pos, handed>>

Tick ==
  /\ front = "goroutine" /\ pc = "read" /\ IdleTimeout > 0 /\ ~timedOut
  /\ ReadCommand(bytes).verdict = "need" /\ hup = "no"
  /\ left' = IF left > 0 THEN left - 1 ELSE 0
  /\ held' = held + 1
  /\ UNCHANGED <<client, pc, pos, args, handed, executed, replies>>

-----------------------------------------------------------------------------
(* The event loop. *)

\* Mutant: one command per call.
OnTrafficOne ==
  LET r == parseCommand(bytes)
  IN  /\ front = "gnet" /\ pc = "read" /\ arrived > handed
      /\ executed' = IF r.verdict = "ok" THEN Append(executed, r.is) ELSE executed
      /\ replies' = CASE r.verdict = "ok" -> replies + answers(<<r.is>>)
                      [] r.verdict = "bad" -> replies + 1
                      [] r.verdict = "need" -> replies
      /\ pos' = IF r.verdict = "ok" THEN pos + r.next - 1 ELSE pos
      /\ pc' = IF r.verdict = "bad" \/ Quit \in ToSet(executed')
               THEN "closed" ELSE "read"
      /\ handed' = arrived
      /\ UNCHANGED <<client, args, left, held>>

\* Every complete command there is, then Discard and Flush.  The loop stops
\* early if a handler fails to write.
OnTraffic ==
  LET r == traffic(bytes, 1, <<>>, <<>>)
      all == Len(r.cmds)
  IN  /\ front = "gnet" /\ pc = "read" /\ arrived > handed
      /\ \E n \in 0..all :
           /\ n = all \/ (n > 0 /\ hup = "rst")
           /\ executed' = executed \o SubSeq(r.cmds, 1, n)
           /\ replies' = replies + answers(SubSeq(r.cmds, 1, n))
                          + (IF n = all /\ r.why = "bad" THEN 1 ELSE 0)
           /\ pos' = pos + (IF n = 0 THEN 0 ELSE r.ends[n])
           /\ pc' = IF n = all /\ r.why = "need" THEN "read" ELSE "closed"
      /\ handed' = arrived
      /\ UNCHANGED <<client, args, left, held>>

\* gnet closes the connection of a client that is gone.
OnClose ==
  /\ front = "gnet" /\ pc = "read"
  /\ hup = "rst" \/ (hup = "fin" /\ handed = arrived)
  /\ Close(0)

-----------------------------------------------------------------------------

Server == Read \/ ReadTimeout \/ Dispatch \/ OnTraffic \/ OnClose

\* Closed, or waiting for a client that has nothing left to send.
Finished ==
  /\ pc = "closed" \/ (front = "gnet" /\ arrived = Len(stream) /\ handed = arrived)
  /\ UNCHANGED vars

Next == Send \/ HangUp \/ Server \/ Tick \/ Finished

Spec == Init /\ [][Next]_vars

-----------------------------------------------------------------------------
(* Properties. *)

\* The server has nothing to do until more bytes arrive.
Waiting ==
  /\ pc = "read"
  /\ \/ front = "goroutine" /\ ReadCommand(bytes).verdict = "need"
     \/ front = "gnet" /\ handed = arrived

\* The commands of the bytes that have arrived.
soFar == SubSeq(ref.script, 1, ref.known[arrived])

\* Types.
TypeOK ==
  /\ arrived \in 0..Len(stream) /\ pos \in 0..arrived /\ handed \in 0..arrived
  /\ pc \in {"read", "dispatch", "closed"} /\ hup \in {"no", "fin", "rst"}
  /\ left \in 0..IdleTimeout /\ replies \in Nat

\* reader.go:20, "partial-read resumption and pipelining fall out for free", and
\* eventloop.go:89, "parses every complete command available": however the
\* bytes were split, when the server waits for more of them, or has closed the
\* connection of a client that did not reset it, all commands that have arrived
\* complete are executed, and nothing else is.
NothingStranded ==
  /\ TypeOK
  /\ Waiting \/ (pc = "closed" /\ hup # "rst") => executed = soFar

\* eventloop.go:15: the event loop changes the networking only.  What the
\* goroutine executes of a stream, the event loop executes too and before
\* anything else: its parser takes more for a command, never less, and never
\* reads a well-formed one differently.
FrontsAgree ==
  \/ IsPrefix(executed, ref.canonical)
  \/ front = "gnet" /\ IsPrefix(ref.canonical, executed)

\* The idle timeout bounds how long a connection is held for a command: one
\* that trickles in byte by byte is not waited for any longer than none at all.
HeldAtMostIdle ==
  front = "goroutine" /\ IdleTimeout > 0 => held <= IdleTimeout

Abstract ==
  INSTANCE Session WITH script <- ref.script, owed <- ref.canonical,
    known <- ref.known[arrived], done <- executed, ended <- (pc = "closed")

\* Both front ends keep the promise of Session.
ImplementsSession == Abstract!Spec
=============================================================================
