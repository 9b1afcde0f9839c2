------------------------------ MODULE Session ------------------------------
(***************************************************************************)
(* What a connection is promised, by whichever front end serves it: the    *)
(* commands it sends are executed in order, each once and none before its  *)
(* last byte is there, and every one but the empty one is answered once.   *)
(* An error reply is the last reply, and does not overtake a well-formed   *)
(* command.  QUIT is the last command.                                     *)
(***************************************************************************)
EXTENDS Integers, SequencesExt, FiniteSets

CONSTANTS Quit   \* the command that asks for the end

VARIABLES
  script,   \* the commands the client's bytes amount to
  owed,     \* those of them, from the first on, that are beyond doubt
  known,    \* how many have arrived to the last byte
  done,     \* those that have been executed
  replies,  \* replies written
  ended     \* the connection is closed

vars == <<script, owed, known, done, replies, ended>>

\* The replies to a sequence of commands.
Answers(cmds) == Cardinality({i \in DOMAIN cmds : cmds[i] # <<>>})

Init ==
  /\ IsPrefix(owed, script)
  /\ known = 0 /\ done = <<>> /\ replies = 0 /\ ended = FALSE

Arrive ==
  /\ known' > known /\ known' <= Len(script)
  /\ UNCHANGED <<script, owed, done, replies, ended>>

Serve ==
  /\ ~ended
  /\ \E n \in Len(done)..known : done' = SubSeq(script, 1, n)
  /\ \/ replies' = Answers(done')
     \/ replies' = Answers(done') + 1 /\ IsPrefix(owed, done') /\ ended'
  /\ \A i \in DOMAIN done' : done'[i] = Quit => i = Len(done') /\ ended'
  /\ UNCHANGED <<script, owed, known>>

Next == Arrive \/ Serve

Spec == Init /\ [][Next]_vars
=============================================================================
