---------------------------- MODULE ServerProofs ----------------------------
(***************************************************************************)
(* Proofs about the lifecycle of the server, for any number of             *)
(* connections, any cap and any number of frames.                          *)
(***************************************************************************)
EXTENDS Server, TLAPS, FiniteSetTheorems

-----------------------------------------------------------------------------
(* Types. *)

\* What a goroutine at "got" has got is one of what classify tells apart.
Types ==
  /\ TypeOK
  /\ \A c \in Conns : cpc[c] = "got" => got[c] \in Frames \cup {"close"}

\* TypeOK in two parts: the variables of the server, and those of each connection.
ServerTypes ==
  /\ ln \in {"unbound", "open", "closed"} /\ published \in BOOLEAN
  /\ inShutdown \in BOOLEAN /\ mu \in BOOLEAN
  /\ sem \in [cap: Caps, used: Nat] /\ conns \subseteq Conns
  /\ apc \in {"listen", "publish", "accept", "acceptErr", "admit", "add",
              "closed", "failed"}
  /\ nc \in Conns /\ target \in Conns
  /\ hup \subseteq Conns /\ stalled \subseteq Conns
  /\ active \subseteq Conns /\ todo \subseteq Conns /\ inflight \subseteq Conns
  /\ spc \in {"none", "flag", "closeListener", "lock", "sweep", "sweepClose",
              "count", "select", "returned"}
  /\ drained \in {"no", "clean", "deadline"}
  /\ mpc \in {"run", "shutdown", "close", "closed"}

PerConn ==
  /\ sock \in [Conns -> {"none", "backlog", "open", "closed"}]
  /\ sent \in [Conns -> 0..MaxFrames]
  /\ inbox \in [Conns -> Seq(Frames)] /\ buf \in [Conns -> Seq(Frames)]
  /\ cpc \in [Conns -> {"none", "reject", "check", "idle", "read", "got",
                        "dispatch", "flush", "drop", "remove", "release",
                        "gone"}]
  /\ got \in [Conns -> Frames \cup {"none", "close"}]
  /\ \A c \in Conns : cpc[c] = "got" => got[c] \in Frames \cup {"close"}

LEMMA TypesParts ==
  (Types <=> ServerTypes /\ PerConn) /\ (Types' <=> ServerTypes' /\ PerConn')
<1>1. Types <=> ServerTypes /\ PerConn
  BY Zenon DEF Types, TypeOK, ServerTypes, PerConn
<1>2. Types' <=> ServerTypes' /\ PerConn'
  BY Zenon DEF Types, TypeOK, ServerTypes, PerConn
<1> QED  BY <1>1, <1>2, Zenon

\* The rest of a sequence of frames.
LEMMA Frames2 ==
  ASSUME NEW S, NEW s \in Seq(S)
  PROVE  /\ s # <<>> => Head(s) \in S /\ Tail(s) \in Seq(S)
         /\ \A n \in 1..Len(s) : s[1] \in S /\ SubSeq(s, n + 1, Len(s)) \in Seq(S)
                                 /\ SubSeq(s, 2, n) \in Seq(S)
         /\ \A e \in S : Append(s, e) \in Seq(S)
<1>1. s # <<>> => Head(s) \in S /\ Tail(s) \in Seq(S)
  OBVIOUS
<1>2. \A e \in S : Append(s, e) \in Seq(S)
  OBVIOUS
<1>3. ASSUME NEW n \in 1..Len(s)
      PROVE  s[1] \in S /\ SubSeq(s, n + 1, Len(s)) \in Seq(S)
             /\ SubSeq(s, 2, n) \in Seq(S)
  <2>1. Len(s) \in Nat /\ n \in Nat /\ n >= 1 /\ n <= Len(s)
    OBVIOUS
  <2>2. s[1] \in S
    BY <2>1
  <2>3. \A i \in (n + 1)..Len(s) : s[i] \in S
    BY <2>1
  <2>4. \A i \in 2..n : s[i] \in S
    BY <2>1
  <2> QED  BY <2>1, <2>2, <2>3, <2>4
<1> QED  BY <1>1, <1>2, <1>3, Zenon

\* Steps of the clients.
LEMMA ClientTypes ==
  ASSUME Types, NEW c \in Conns, Client(c)
  PROVE  Types'
<1> SUFFICES ASSUME ServerTypes, PerConn
             PROVE  ServerTypes' /\ PerConn'
  BY TypesParts, Zenon
<1> USE DEF accepting, clients, serving, shutdown
<1>1a. CASE Dial(c)
  <2>1. ServerTypes'
    BY <1>1a, SMTT(30) DEF Dial, ServerTypes
  <2>2. PerConn'
    BY <1>1a, SMTT(30) DEF Dial, PerConn
  <2> QED  BY <2>1, <2>2, Zenon
<1>1b. CASE HangUp(c)
  <2>1. ServerTypes'
    BY <1>1b, SMTT(30) DEF HangUp, ServerTypes
  <2>2. PerConn'
    BY <1>1b, SMTT(30) DEF HangUp, PerConn
  <2> QED  BY <2>1, <2>2, Zenon
<1>1c. CASE Stall(c)
  <2>1. ServerTypes'
    BY <1>1c, SMTT(30) DEF Stall, ServerTypes
  <2>2. PerConn'
    BY <1>1c, SMTT(30) DEF Stall, PerConn
  <2> QED  BY <2>1, <2>2, Zenon
<1>2. ASSUME NEW f \in Frames, Send(c, f)
      PROVE  ServerTypes' /\ PerConn'
  <2>1. inbox' \in [Conns -> Seq(Frames)]
    <3>1. Append(inbox[c], f) \in Seq(Frames)
      BY Frames2, Zenon DEF PerConn
    <3> QED  BY <1>2, <3>1, Zenon DEF Send, PerConn
  <2>2. sent' \in [Conns -> 0..MaxFrames]
    BY <1>2, ServerAssumption, SMTT(30) DEF Send, PerConn
  <2>3. PerConn'
    BY <1>2, <2>1, <2>2, Zenon DEF Send, PerConn
  <2>4. ServerTypes'
    BY <1>2, SMTT(30) DEF Send, ServerTypes
  <2> QED  BY <2>3, <2>4, Zenon
<1> QED  BY <1>1a, <1>1b, <1>1c, <1>2, Zenon DEF Client

\* Steps of the accept loop and of main.
LEMMA ServeTypes ==
  ASSUME Types, sem' \in [cap : Caps, used : Nat],
         \/ ServeStep \/ AcceptFails \/ Signal \/ MainStep
         \/ \E c \in Conns : Accept(c)
  PROVE  Types'
<1> SUFFICES ASSUME ServerTypes, PerConn
             PROVE  ServerTypes' /\ PerConn'
  BY TypesParts, Zenon
<1>n. nc \in Conns
  BY Zenon DEF ServerTypes
<1> USE DEF accepting, clients, serving, shutdown
<1>1a. CASE Listen
  <2>1. ServerTypes'
    BY <1>1a, SMTT(30) DEF Listen, ServerTypes
  <2>2. PerConn'
    BY <1>1a, SMTT(30) DEF Listen, PerConn
  <2> QED  BY <2>1, <2>2, Zenon
<1>1b. CASE Publish
  <2>1. ServerTypes'
    BY <1>1b, ZenonT(30) DEF Publish, CloseListener, ServerTypes
  <2>2. PerConn'
    BY <1>1b, SMTT(30) DEF Publish, CloseListener, PerConn
  <2> QED  BY <2>1, <2>2, Zenon
<1>1c. CASE AcceptErr
  <2>1. ServerTypes'
    BY <1>1c, SMTT(30) DEF AcceptErr, ServerTypes
  <2>2. PerConn'
    BY <1>1c, SMTT(30) DEF AcceptErr, PerConn
  <2> QED  BY <2>1, <2>2, Zenon
<1>1d. CASE AcceptFails
  <2>1. ServerTypes'
    BY <1>1d, SMTT(30) DEF AcceptFails, ServerTypes
  <2>2. PerConn'
    BY <1>1d, SMTT(30) DEF AcceptFails, PerConn
  <2> QED  BY <2>1, <2>2, Zenon
<1>2. CASE Admit
  <2>1. /\ apc' \in {"add", "accept"}
        /\ cpc' = cpc \/ cpc' = [cpc EXCEPT ![nc] = "reject"]
        /\ UNCHANGED <<ln, published, nc, conns, sock, clients, inbox, buf, got,
                       active, shutdown, mpc>>
    BY <1>2, Zenon DEF Admit, AdmitIf
  <2>2. ServerTypes'
    BY <2>1, SMTT(30) DEF ServerTypes
  <2>3. PerConn'
    <3>1. CASE cpc' = cpc
      BY <2>1, <3>1, SMTT(30) DEF PerConn
    <3>2. CASE cpc' = [cpc EXCEPT ![nc] = "reject"]
      BY <1>n, <2>1, <3>2, SMTT(30) DEF PerConn
    <3> QED  BY <2>1, <3>1, <3>2, Zenon
  <2> QED  BY <2>2, <2>3, Zenon
<1>3. CASE AddConn
  <2>1. ServerTypes'
    BY <1>3, SMTT(30) DEF AddConn, ServerTypes
  <2>2. PerConn'
    BY <1>n, <1>3, SMTT(30) DEF AddConn, PerConn
  <2> QED  BY <2>1, <2>2, Zenon
<1>4. ASSUME NEW c \in Conns, Accept(c)
      PROVE  ServerTypes' /\ PerConn'
  <2>1. ServerTypes'
    BY <1>4, SMTT(30) DEF Accept, ServerTypes
  <2>2. PerConn'
    BY <1>4, SMTT(30) DEF Accept, PerConn
  <2> QED  BY <2>1, <2>2, Zenon
<1>5. CASE Signal \/ MainStep
  <2>1. ServerTypes'
    BY <1>5, SMTT(30)
       DEF Signal, MainStep, RunServeReturns, ShutdownReturns, EngineClose,
           ServerTypes
  <2>2. PerConn'
    BY <1>5, SMTT(30)
       DEF Signal, MainStep, RunServeReturns, ShutdownReturns, EngineClose,
           PerConn
  <2> QED  BY <2>1, <2>2, Zenon
<1> QED  BY <1>1a, <1>1b, <1>1c, <1>1d, <1>2, <1>3, <1>4, <1>5, Zenon
            DEF ServeStep

\* Steps of Shutdown.
LEMMA ShutdownTypes ==
  ASSUME Types, ShutdownStep \/ Deadline
  PROVE  Types'
<1> SUFFICES ASSUME ServerTypes, PerConn
             PROVE  ServerTypes' /\ PerConn'
  BY TypesParts, Zenon
<1>n. target \in Conns
  BY Zenon DEF ServerTypes
<1> USE DEF accepting, clients, serving, shutdown
<1>1a. CASE ShutdownFlag
  <2>1. ServerTypes'
    BY <1>1a, SMTT(30) DEF ShutdownFlag, ServerTypes
  <2>2. PerConn'
    BY <1>1a, SMTT(30) DEF ShutdownFlag, PerConn
  <2> QED  BY <2>1, <2>2, Zenon
<1>1b. CASE ShutdownListener
  <2>1. ServerTypes'
    BY <1>1b, SMTT(30) DEF ShutdownListener, CloseListener, ServerTypes
  <2>2. PerConn'
    BY <1>1b, SMTT(30) DEF ShutdownListener, CloseListener, PerConn
  <2> QED  BY <2>1, <2>2, Zenon
<1>2a. CASE SweepLock
  <2>1. ServerTypes'
    BY <1>2a, SMTT(30) DEF SweepLock, ServerTypes
  <2>2. PerConn'
    BY <1>2a, SMTT(30) DEF SweepLock, PerConn
  <2> QED  BY <2>1, <2>2, Zenon
<1>2b. CASE SweepClose
  <2>1. ServerTypes'
    BY <1>2b, SMTT(30) DEF SweepClose, ServerTypes
  <2>2. PerConn'
    BY <1>n, <1>2b, SMTT(30) DEF SweepClose, PerConn
  <2> QED  BY <2>1, <2>2, Zenon
<1>2c. CASE SweepEnd
  <2>1. ServerTypes'
    <3>1. mu' \in BOOLEAN
      BY <1>2c, Zenon DEF SweepEnd
    <3>2. /\ spc' = "count"
          /\ UNCHANGED <<accepting, sem, conns, clients, serving, inShutdown, todo,
                         target, drained, inflight, mpc>>
      BY <1>2c, Zenon DEF SweepEnd
    <3> QED  BY <3>1, <3>2, SMTT(30) DEF ServerTypes
  <2>2. PerConn'
    BY <1>2c, SMTT(30) DEF SweepEnd, PerConn
  <2> QED  BY <2>1, <2>2, Zenon
<1>3. ASSUME NEW c \in Conns, SweepLoad(c)
      PROVE  ServerTypes' /\ PerConn'
  <2>1. ServerTypes'
    BY <1>3, SMTT(30) DEF SweepLoad, SweepLoadBody, ServerTypes
  <2>2. PerConn'
    BY <1>3, SMTT(30) DEF SweepLoad, SweepLoadBody, PerConn
  <2> QED  BY <2>1, <2>2, Zenon
<1>4a. CASE ConnCount
  <2>1. ServerTypes'
    BY <1>4a, SMTT(30) DEF ConnCount, ServerTypes
  <2>2. PerConn'
    BY <1>4a, SMTT(30) DEF ConnCount, PerConn
  <2> QED  BY <2>1, <2>2, Zenon
<1>4b. CASE Poll
  <2>1. ServerTypes'
    BY <1>4b, SMTT(30) DEF Poll, ServerTypes
  <2>2. PerConn'
    BY <1>4b, SMTT(30) DEF Poll, PerConn
  <2> QED  BY <2>1, <2>2, Zenon
<1>4c. CASE Deadline
  <2>1. ServerTypes'
    BY <1>4c, SMTT(30) DEF Deadline, DeadlineBody, ServerTypes
  <2>2. PerConn'
    BY <1>4c, SMTT(30) DEF Deadline, DeadlineBody, PerConn
  <2> QED  BY <2>1, <2>2, Zenon
<1> QED  BY <1>1a, <1>1b, <1>2a, <1>2b, <1>2c, <1>3, <1>4a, <1>4b, <1>4c, Zenon
            DEF ShutdownStep

\* Steps of a connection's goroutine.
LEMMA ConnTypes ==
  ASSUME Types, sem' \in [cap : Caps, used : Nat], NEW c \in Conns,
         ConnStep(c) \/ Remove(c)
  PROVE  Types'
<1> SUFFICES ASSUME ServerTypes, PerConn
             PROVE  ServerTypes' /\ PerConn'
  BY TypesParts, Zenon
<1> USE DEF accepting, clients, serving, shutdown, Goto
<1>1a. CASE RejectConn(c)
  <2>1. ServerTypes'
    BY <1>1a, SMTT(30) DEF RejectConn, ServerTypes
  <2>2. PerConn'
    BY <1>1a, SMTT(30) DEF RejectConn, PerConn
  <2> QED  BY <2>1, <2>2, Zenon
<1>1b. CASE Check(c)
  <2>1. ServerTypes'
    BY <1>1b, SMTT(30) DEF Check, ServerTypes
  <2>2. PerConn'
    BY <1>1b, SMTT(30) DEF Check, PerConn
  <2> QED  BY <2>1, <2>2, Zenon
<1>1c. CASE Idle(c)
  <2>1. ServerTypes'
    BY <1>1c, SMTT(30) DEF Idle, ServerTypes
  <2>2. PerConn'
    BY <1>1c, SMTT(30) DEF Idle, PerConn
  <2> QED  BY <2>1, <2>2, Zenon
<1>1d. CASE Dispatch(c)
  <2>1. ServerTypes'
    BY <1>1d, SMTT(30) DEF Dispatch, ServerTypes
  <2>2. PerConn'
    BY <1>1d, SMTT(30) DEF Dispatch, PerConn
  <2> QED  BY <2>1, <2>2, Zenon
<1>1e. CASE Flush(c)
  <2>1. /\ \E label \in {"check", "drop"} : cpc' = [cpc EXCEPT ![c] = label]
        /\ UNCHANGED <<accepting, sem, conns, sock, clients, inbox, buf, got,
                       active, shutdown, mpc>>
    BY <1>1e, Zenon DEF Flush
  <2>2. ServerTypes'
    BY <2>1, SMTT(30) DEF ServerTypes
  <2>3. PerConn'
    BY <2>1, SMTT(30) DEF PerConn
  <2> QED  BY <2>2, <2>3, Zenon
<1>2a. CASE Drop(c)
  <2>1. ServerTypes'
    BY <1>2a, SMTT(30) DEF Drop, ServerTypes
  <2>2. PerConn'
    BY <1>2a, SMTT(30) DEF Drop, PerConn
  <2> QED  BY <2>1, <2>2, Zenon
<1>2b. CASE Remove(c)
  <2>1. ServerTypes'
    BY <1>2b, SMTT(30) DEF Remove, ServerTypes
  <2>2. PerConn'
    BY <1>2b, SMTT(30) DEF Remove, PerConn
  <2> QED  BY <2>1, <2>2, Zenon
<1>2c. CASE Release(c)
  <2>1. ServerTypes'
    BY <1>2c, SMTT(30) DEF Release, ServerTypes
  <2>2. PerConn'
    BY <1>2c, SMTT(30) DEF Release, PerConn
  <2> QED  BY <2>1, <2>2, Zenon
<1>3. CASE Classify(c)
  <2>1. got[c] \in {"cmd", "quit", "bad", "close"}
    BY <1>3, ServerAssumption, Zenon DEF Classify, PerConn
  <2>2. (CASE got[c] \in {"cmd", "quit"} -> "dispatch"
           [] got[c] = "bad" -> "flush"
           [] got[c] = "close" -> "drop") \in {"dispatch", "flush", "drop"}
    BY <2>1, Zenon
  <2>3. /\ \E label \in {"dispatch", "flush", "drop"} :
             cpc' = [cpc EXCEPT ![c] = label]
        /\ active' = active \cup {c}
        /\ UNCHANGED <<accepting, sem, conns, sock, clients, inbox, buf, got,
                       shutdown, mpc>>
    BY <1>3, <2>2, Zenon DEF Classify
  <2>4. ServerTypes'
    BY <2>3, SMTT(30) DEF ServerTypes
  <2>5. PerConn'
    BY <2>3, SMTT(30) DEF PerConn
  <2> QED  BY <2>4, <2>5, Zenon
<1>4. CASE ReadCommand(c)
  <2>1. ASSUME NEW o \in Frames \cup {"close"}, NEW k \in Seq(Frames),
               NEW b \in Seq(Frames), ReadReturns(c, o, k, b)
        PROVE  ServerTypes' /\ PerConn'
    <3>1. ServerTypes'
      BY <1>4, <2>1, SMTT(30) DEF ReadCommand, ReadReturns, ServerTypes
    <3>2. PerConn'
      BY <1>4, <2>1, SMTT(30) DEF ReadCommand, ReadReturns, PerConn
    <3> QED  BY <3>1, <3>2, Zenon
  <2>2. inbox[c] \in Seq(Frames) /\ buf[c] \in Seq(Frames)
    BY Zenon DEF PerConn
  <2>3. CASE buf[c] # <<>> /\ ReadReturns(c, Head(buf[c]), inbox[c], Tail(buf[c]))
    BY <2>1, <2>2, <2>3, Frames2, Zenon
  <2>4. ASSUME NEW n \in 1..Len(inbox[c]),
               ReadReturns(c, inbox[c][1], SubSeq(inbox[c], n + 1, Len(inbox[c])),
                           SubSeq(inbox[c], 2, n))
        PROVE  ServerTypes' /\ PerConn'
    BY <2>1, <2>2, <2>4, Frames2, Zenon
  <2>5. CASE ReadReturns(c, "close", inbox[c], buf[c])
    BY <2>1, <2>2, <2>5, Zenon
  <2> QED  BY <1>4, <2>3, <2>4, <2>5, Zenon DEF ReadCommand
<1> QED  BY <1>1a, <1>1b, <1>1c, <1>1d, <1>1e, <1>2a, <1>2b, <1>2c, <1>3, <1>4,
            Zenon DEF ConnStep
-----------------------------------------------------------------------------
(* The cap. *)

\* Where a goroutine is between addConn and removeConn, and until it gives its
\* slot back.
Tracked == {"check", "idle", "read", "got", "dispatch", "flush", "drop", "remove"}
Slotted == Tracked \cup {"release"}

\* The life of a connection: tracked from addConn to removeConn, and out of the
\* backlog before it has a goroutine; the one that the accept loop is busy with
\* has none yet.
Order ==
  /\ conns = {c \in Conns : cpc[c] \in Tracked}
  /\ \A c \in Conns : cpc[c] # "none" => sock[c] \in {"open", "closed"}
  /\ apc \in {"admit", "add"} =>
       cpc[nc] = "none" /\ sock[nc] \in {"open", "closed"}

SlotInv == sem.used = Cardinality(holders) /\ sem.used <= sem.cap

\* A goroutine is started, or goes from one place to another.
LEMMA MoveConn ==
  ASSUME Types, Order, NEW c \in Conns, NEW label, UNCHANGED <<apc, nc, sock>>,
         label \in Tracked \cup {"release", "gone"},
         cpc[c] \in Tracked \cup {"release", "reject"},
         Goto(c, label),
         conns' = IF label \in Tracked THEN conns ELSE conns \ {c},
         label \in Tracked => cpc[c] \in Tracked
  PROVE  Order'
<1>1. cpc \in [Conns -> {"none", "reject", "check", "idle", "read", "got",
                          "dispatch", "flush", "drop", "remove", "release", "gone"}]
  BY Zenon DEF Types, TypeOK
<1>2. cpc'[c] = label /\ \A d \in Conns \ {c} : cpc'[d] = cpc[d]
  BY <1>1, Zenon DEF Goto
<1>3. conns' = {d \in Conns : cpc'[d] \in Tracked}
  BY <1>2, Zenon DEF Order, Tracked
<1>4. \A d \in Conns : cpc'[d] # "none" => sock'[d] \in {"open", "closed"}
  BY <1>2, Zenon DEF Order, Tracked
<1>5. apc \in {"admit", "add"} => nc # c
  BY Zenon DEF Order, Tracked
<1>6. nc \in Conns
  BY Zenon DEF Types, TypeOK
<1> QED  BY <1>2, <1>3, <1>4, <1>5, <1>6, Zenon DEF Order

\* What changes sockets only.
LEMMA MoveSock ==
  ASSUME Types, Order, UNCHANGED <<apc, nc, cpc, conns>>,
         \A c \in Conns : sock[c] \in {"open", "closed"} => sock'[c] \in {"open", "closed"}
  PROVE  Order'
  BY ZenonT(30) DEF Order, Types, TypeOK

LEMMA OrderConn ==
  ASSUME Types, Order, NEW c \in Conns, ConnStep(c) \/ Remove(c)
  PROVE  Order'
<1> USE DEF accepting, serving
<1>1. CASE Check(c)
  BY <1>1, MoveConn, Zenon DEF Check, Tracked
<1>2. CASE Idle(c)
  BY <1>2, MoveConn, Zenon DEF Idle, Tracked
<1>3. CASE Dispatch(c)
  BY <1>3, MoveConn, Zenon DEF Dispatch, Tracked
<1>4. CASE Flush(c)
  BY <1>4, MoveConn, Zenon DEF Flush, Tracked
<1>5. CASE Remove(c)
  BY <1>5, MoveConn, Zenon DEF Remove, Tracked
<1>6. CASE Release(c)
  <2>1. c \notin conns
    BY <1>6, Zenon DEF Release, Order, Tracked
  <2>2. conns' = conns \ {c}
    BY <1>6, <2>1, Zenon DEF Release
  <2> QED  BY <1>6, <2>2, MoveConn, Zenon DEF Release, Tracked
<1>7. CASE Classify(c)
  <2>1. got[c] \in {"cmd", "quit", "bad", "close"}
    BY <1>7, ServerAssumption, Zenon DEF Classify, Types
  <2>2. \E label \in {"dispatch", "flush", "drop"} : Goto(c, label)
    BY <1>7, <2>1, Zenon DEF Classify
  <2>3. cpc[c] = "got" /\ UNCHANGED <<apc, nc, sock, conns>>
    BY <1>7, Zenon DEF Classify
  <2> QED  BY <2>2, <2>3, MoveConn, Zenon DEF Tracked
<1>8. CASE ReadCommand(c)
  <2>1. cpc[c] = "read" /\ Goto(c, "got") /\ UNCHANGED <<apc, nc, sock, conns>>
    BY <1>8, Zenon DEF ReadCommand, ReadReturns
  <2> QED  BY <2>1, MoveConn, Zenon DEF Tracked
<1>9. CASE RejectConn(c) \/ Drop(c)
  <2>1. \E from \in {"reject", "drop"}, to \in {"gone", "remove"} :
          /\ cpc[c] = from /\ cpc' = [cpc EXCEPT ![c] = to]
          /\ from = "drop" <=> to = "remove"
    BY <1>9, Zenon DEF RejectConn, Drop, Goto
  <2>2. sock' = [sock EXCEPT ![c] = "closed"] /\ UNCHANGED <<apc, nc, conns>>
    BY <1>9, Zenon DEF RejectConn, Drop
  <2>3. cpc \in [Conns -> {"none", "reject", "check", "idle", "read", "got",
                          "dispatch", "flush", "drop", "remove", "release", "gone"}]
        /\ sock \in [Conns -> {"none", "backlog", "open", "closed"}] /\ nc \in Conns
    BY Zenon DEF Types, TypeOK
  <2> QED  BY <2>1, <2>2, <2>3 DEF Order, Tracked
<1> QED  BY <1>1, <1>2, <1>3, <1>4, <1>5, <1>6, <1>7, <1>8, <1>9, Zenon
            DEF ConnStep

\* Every step keeps the order.
LEMMA OrderStep ==
  ASSUME Types, Order, [Next]_vars
  PROVE  Order'
<1> USE DEF accepting, serving, clients, shutdown
<1>0. /\ sock \in [Conns -> {"none", "backlog", "open", "closed"}]
      /\ cpc \in [Conns -> {"none", "reject", "check", "idle", "read", "got",
                            "dispatch", "flush", "drop", "remove", "release", "gone"}]
      /\ nc \in Conns /\ target \in Conns
  BY Zenon DEF Types, TypeOK
<1>1. ASSUME NEW c \in Conns, Client(c) \/ Accept(c) \/ ConnStep(c) \/ Remove(c)
      PROVE  Order'
  <2>1. CASE Dial(c)
    BY <1>0, <2>1, MoveSock, Zenon DEF Dial
  <2>2. CASE HangUp(c) \/ Stall(c) \/ \E f \in Frames : Send(c, f)
    BY <2>2, MoveSock, Zenon DEF HangUp, Stall, Send
  <2>3. CASE Accept(c)
    <3>1. cpc[c] = "none"
      BY <1>0, <2>3, Zenon DEF Accept, Order
    <3>2. /\ sock' = [sock EXCEPT ![c] = "open"] /\ nc' = c /\ apc' = "admit"
          /\ UNCHANGED <<cpc, conns>>
      BY <2>3, Zenon DEF Accept
    <3> QED  BY <1>0, <3>1, <3>2, Zenon DEF Order
  <2> QED  BY <1>1, <2>1, <2>2, <2>3, OrderConn, Zenon DEF Client
<1>2. CASE Listen \/ AcceptFails \/ AcceptErr
  BY <1>2, Zenon DEF Listen, AcceptFails, AcceptErr, Order
<1>3. CASE Publish
  <2>1. /\ apc' \in {"closed", "accept"} /\ UNCHANGED <<cpc, conns, nc>>
        /\ \/ sock' = sock
           \/ sock' = [c \in Conns |-> IF sock[c] = "backlog" THEN "closed" ELSE sock[c]]
    BY <1>3, Zenon DEF Publish, CloseListener
  <2> QED  BY <1>0, <2>1, Zenon DEF Order
<1>4. CASE Admit
  <2>1. /\ apc = "admit" /\ UNCHANGED <<sock, conns, nc>>
        /\ \/ apc' = "add" /\ cpc' = cpc
           \/ apc' = "accept" /\ cpc' = [cpc EXCEPT ![nc] = "reject"]
    BY <1>4, Zenon DEF Admit, AdmitIf
  <2>2. CASE apc' = "add" /\ cpc' = cpc
    BY <2>1, <2>2, Zenon DEF Order
  <2>3. CASE apc' = "accept" /\ cpc' = [cpc EXCEPT ![nc] = "reject"]
    BY <1>0, <2>1, <2>3, Zenon DEF Order, Tracked
  <2> QED  BY <2>1, <2>2, <2>3, Zenon
<1>5. CASE AddConn
  BY <1>0, <1>5, Zenon DEF AddConn, Order, Tracked
<1>6. CASE Signal \/ MainStep
  BY <1>6, MoveSock, Zenon
     DEF Signal, MainStep, RunServeReturns, ShutdownReturns, EngineClose
<1>7. CASE ShutdownStep \/ Deadline
  <2>1. CASE ShutdownFlag \/ SweepLock \/ SweepEnd \/ ConnCount \/ Poll
    BY <2>1, MoveSock, Zenon
       DEF ShutdownFlag, SweepLock, SweepEnd, ConnCount, Poll
  <2>2. CASE ShutdownListener
    BY <1>0, <2>2, MoveSock, Zenon DEF ShutdownListener, CloseListener
  <2>3. CASE \E c \in Conns : SweepLoad(c)
    BY <2>3, MoveSock, Zenon DEF SweepLoad, SweepLoadBody
  <2>4. CASE SweepClose
    BY <1>0, <2>4, MoveSock, Zenon DEF SweepClose
  <2>5. CASE Deadline
    BY <1>0, <2>5, MoveSock, Zenon DEF Deadline, DeadlineBody
  <2> QED  BY <1>7, <2>1, <2>2, <2>3, <2>4, <2>5, Zenon DEF ShutdownStep
<1>8. CASE UNCHANGED vars
  BY <1>8, MoveSock, Zenon DEF vars
<1> QED  BY <1>1, <1>2, <1>3, <1>4, <1>5, <1>6, <1>7, <1>8, Zenon
            DEF Next, ServeStep

\* How a step changes the holders of slots, and the semaphore with them.
LEMMA HoldersStep ==
  ASSUME Types, Order, [Next]_vars
  PROVE  \/ holders' = holders /\ sem' = sem
         \/ \E c \in Conns \ holders :
              /\ holders' = holders \cup {c}
              /\ sem.used < sem.cap /\ sem' = [sem EXCEPT !.used = @ + 1]
         \/ \E c \in holders :
              /\ holders' = holders \ {c}
              /\ sem' = [sem EXCEPT !.used = @ - 1]
<1> USE DEF accepting, serving, clients, shutdown
<1>0. /\ cpc \in [Conns -> {"none", "reject", "check", "idle", "read", "got",
                            "dispatch", "flush", "drop", "remove", "release", "gone"}]
      /\ nc \in Conns
      /\ apc \in {"admit", "add"} => cpc[nc] = "none"
  BY Zenon DEF Types, TypeOK, Order
<1>h. holders = {c \in Conns : cpc[c] \in Slotted \/ (apc = "add" /\ c = nc)}
  BY <1>0 DEF holders, Slotted, Tracked
<1>i. nc' \in Conns =>

     holders' = {c \in Conns : cpc'[c] \in Slotted \/ (apc' = "add" /\ c = nc')}
  BY Zenon DEF holders, Slotted, Tracked
<1>1. ASSUME NEW c \in Conns, NEW label \in Slotted, cpc[c] \in Slotted,
             Goto(c, label), UNCHANGED <<apc, nc, sem>>
      PROVE  holders' = holders /\ sem' = sem
  BY <1>0, <1>1, <1>h, <1>i, Zenon DEF Goto
<1>2. ASSUME cpc' = cpc, sem' = sem, nc' \in Conns,
             (apc = apc' /\ nc' = nc) \/ (apc # "add" /\ apc' # "add")
      PROVE  holders' = holders /\ sem' = sem
  BY <1>2, <1>h, <1>i, Zenon
<1>3. ASSUME NEW c \in Conns, ConnStep(c) \/ Remove(c), ~Release(c), ~RejectConn(c)
      PROVE  \E label \in Slotted : Goto(c, label) /\ cpc[c] \in Slotted
             /\ UNCHANGED <<apc, nc, sem>>
  <2>1. CASE Check(c) \/ Idle(c) \/ Dispatch(c) \/ Flush(c) \/ Drop(c) \/ Remove(c)
    BY <2>1, Zenon
       DEF Check, Idle, Dispatch, Flush, Drop, Remove, Slotted, Tracked
  <2>2. CASE Classify(c)
    <3>1. got[c] \in {"cmd", "quit", "bad", "close"}
      BY <2>2, ServerAssumption, Zenon DEF Classify, Types
    <3> QED  BY <2>2, <3>1, Zenon DEF Classify, Slotted, Tracked
  <2>3. CASE ReadCommand(c)
    BY <2>3, Zenon DEF ReadCommand, ReadReturns, Slotted, Tracked
  <2> QED  BY <1>3, <2>1, <2>2, <2>3, Zenon DEF ConnStep
<1>4. ASSUME NEW c \in Conns, RejectConn(c)
      PROVE  holders' = holders /\ sem' = sem
  BY <1>0, <1>4, <1>h, <1>i, Zenon DEF RejectConn, Slotted, Tracked
<1>5. ASSUME NEW c \in Conns, Release(c)
      PROVE  /\ c \in holders /\ holders' = holders \ {c}
             /\ sem' = [sem EXCEPT !.used = @ - 1]
  BY <1>0, <1>5, <1>h, <1>i, Zenon DEF Release, Goto, Slotted, Tracked
<1>6. CASE Admit
  <2>1. CASE /\ sem.used < sem.cap /\ sem' = [sem EXCEPT !.used = @ + 1]
             /\ apc = "admit" /\ apc' = "add" /\ UNCHANGED <<cpc, nc>>
    <3>1. nc \in Conns \ holders /\ holders' = holders \cup {nc}
      BY <1>0, <2>1, <1>h, <1>i, Zenon DEF Slotted, Tracked
    <3> QED  BY <2>1, <3>1, Zenon
  <2>2. CASE /\ apc = "admit" /\ apc' = "accept" /\ UNCHANGED <<nc, sem>>
             /\ cpc' = [cpc EXCEPT ![nc] = "reject"]
    BY <1>0, <2>2, <1>h, <1>i, Zenon DEF Slotted, Tracked
  <2> QED  BY <1>6, <2>1, <2>2, Zenon DEF Admit, AdmitIf
<1>7. CASE AddConn
  BY <1>0, <1>7, <1>h, <1>i, Zenon DEF AddConn, Slotted, Tracked
<1>8. CASE Listen \/ AcceptFails \/ AcceptErr \/ Publish
           \/ \E c \in Conns : Accept(c)
  <2>1. /\ UNCHANGED <<cpc, sem>> /\ apc # "add" /\ apc' # "add" /\ nc' \in Conns
    BY <1>0, <1>8, Zenon DEF Listen, AcceptFails, AcceptErr, Publish, Accept
  <2> QED  BY <1>2, <2>1, Zenon
<1>9. CASE Signal \/ MainStep \/ UNCHANGED vars
  <2>1. cpc' = cpc /\ sem' = sem /\ apc' = apc /\ nc' = nc
    BY <1>9, Zenon
       DEF Signal, MainStep, RunServeReturns, ShutdownReturns, EngineClose,
           vars
  <2> QED  BY <1>0, <1>2, <2>1, Zenon
<1>10. CASE ShutdownStep \/ Deadline
  <2>1. cpc' = cpc /\ sem' = sem /\ apc' = apc /\ nc' = nc
    BY <1>10, Zenon
       DEF ShutdownStep, ShutdownFlag, ShutdownListener, CloseListener,
           SweepLock, SweepLoad, SweepLoadBody, SweepClose, SweepEnd,
           ConnCount, Poll, Deadline, DeadlineBody
  <2> QED  BY <1>0, <1>2, <2>1, Zenon
<1>11. CASE \E c \in Conns : Client(c)
  <2>1. cpc' = cpc /\ sem' = sem /\ apc' = apc /\ nc' = nc
    BY <1>11, Zenon DEF Client, Dial, HangUp, Stall, Send
  <2> QED  BY <1>0, <1>2, <2>1, Zenon
<1> QED  BY <1>1, <1>3, <1>4, <1>5, <1>6, <1>7, <1>8, <1>9, <1>10, <1>11,
            ZenonT(30) DEF Next, ServeStep

\* The cap and the order are kept, and the types with them.
CapInv == Types /\ Order /\ SlotInv

LEMMA CapStep ==
  ASSUME CapInv, [Next]_vars
  PROVE  CapInv'
<1> USE DEF CapInv
<1>0. /\ sem \in [cap : Caps, used : Nat] /\ sem.cap \in Nat
      /\ sem.used = Cardinality(holders) /\ sem.used <= sem.cap
  BY ServerAssumption, Zenon DEF Types, TypeOK, SlotInv
<1>1. IsFiniteSet(holders)
  <2>1. holders \subseteq Conns
    BY Zenon DEF holders, Types, TypeOK
  <2> QED  BY <2>1, FS_Subset, ServerAssumption, Zenon
<1>2. sem' \in [cap : Caps, used : Nat] /\ SlotInv'
  <2>1. CASE holders' = holders /\ sem' = sem
    BY <1>0, <2>1, Zenon DEF SlotInv
  <2>2. ASSUME NEW c \in Conns \ holders, holders' = holders \cup {c},
               sem.used < sem.cap, sem' = [sem EXCEPT !.used = @ + 1]
        PROVE  sem' \in [cap : Caps, used : Nat] /\ SlotInv'
    <3>1. Cardinality(holders') = Cardinality(holders) + 1
      BY <1>1, <2>2, FS_AddElement, Zenon
    <3>2. sem'.used = sem.used + 1 /\ sem'.cap = sem.cap
      BY <1>0, <2>2, Zenon
    <3> QED  BY <1>0, <2>2, <3>1, <3>2 DEF SlotInv
  <2>3. ASSUME NEW c \in holders, holders' = holders \ {c},
               sem' = [sem EXCEPT !.used = @ - 1]
        PROVE  sem' \in [cap : Caps, used : Nat] /\ SlotInv'
    <3>1. Cardinality(holders') = Cardinality(holders) - 1
      BY <1>1, <2>3, FS_RemoveElement, Zenon
    <3>2. IsFiniteSet(holders')
      BY <1>1, <2>3, FS_Subset, Zenon
    <3>3. Cardinality(holders') \in Nat
      BY <3>2, FS_CardinalityType, Zenon
    <3>4. sem'.used = sem.used - 1 /\ sem'.cap = sem.cap
      BY <1>0, <2>3, Zenon
    <3> QED  BY <1>0, <2>3, <3>1, <3>3, <3>4 DEF SlotInv
  <2> QED  BY <2>1, <2>2, <2>3, HoldersStep, Zenon
<1>3. Types'
  <2>1. CASE UNCHANGED vars
    BY <2>1 DEF vars, accepting, clients, serving, shutdown, Types, TypeOK
  <2> QED  BY <1>2, <2>1, ClientTypes, ServeTypes, ShutdownTypes, ConnTypes,
              Zenon DEF Next
<1> QED  BY <1>2, <1>3, OrderStep, Zenon

LEMMA CapInvHolds == Spec => []CapInv
<1>1. Init => CapInv
  <2> SUFFICES ASSUME Init PROVE CapInv
    BY Zenon
  <2>1. holders = {}
    BY Zenon DEF Init, holders
  <2>2. sem.used = Cardinality(holders) /\ sem.used <= sem.cap
    <3>1. sem \in [cap : Caps, used : {0}] /\ Caps \subseteq Nat
      BY ServerAssumption, Zenon DEF Init
    <3>2. sem.used = 0 /\ sem.cap \in Nat
      BY <3>1, Zenon
    <3>3. Cardinality(holders) = 0
      BY <2>1, FS_EmptySet, Zenon
    <3> QED  BY <3>2, <3>3
  <2>3. Types
    <3>1. <<>> \in Seq(Frames) /\ 0 \in 0..MaxFrames /\ FALSE \in BOOLEAN
      BY ServerAssumption
    <3>2. sem \in [cap : Caps, used : Nat]
      BY DEF Init
    <3>3. cpc = [c \in Conns |-> "none"] /\ \A c \in Conns : cpc[c] = "none"
      BY Zenon DEF Init
    <3>4. TypeOK
      BY <3>1, <3>2, Zenon DEF Init, TypeOK
    <3> QED  BY <3>3, <3>4, Zenon DEF Types
  <2>4. Order
    <3>1. \A c \in Conns : cpc[c] = "none"
      BY Zenon DEF Init
    <3>2. apc = "listen" /\ conns = {}
      BY Zenon DEF Init
    <3> QED  BY <3>1, <3>2, Zenon DEF Order, Tracked
  <2> QED  BY <2>2, <2>3, <2>4, Zenon DEF CapInv, SlotInv
<1> QED  BY <1>1, CapStep, PTL DEF Spec

\* server.go:26, for any cap and any number of clients: a connection is served
\* only with a slot, no slot is lost or given back twice, and there are no more
\* than cfg.MaxConns.
THEOREM CapHoldsAlways == Spec => []CapHolds
<1>1. CapInv => CapHolds
  <2> SUFFICES ASSUME CapInv PROVE conns \subseteq holders
    BY Zenon DEF CapInv, CapHolds, Types, SlotInv
  <2> QED  BY Zenon DEF CapInv, Order, Tracked, holders
<1> QED  BY <1>1, CapInvHolds, PTL

-----------------------------------------------------------------------------
(* Shutdown. *)

Begun == {"closeListener", "lock", "sweep", "sweepClose", "count", "select",
          "returned"}
ListenerDone == Begun \ {"closeListener"}

\* Publishing the listener and looking at the flag are one critical section,
\* and so are setting the flag and looking for a published listener: one of
\* the two sees what the other did.
ListenInv ==
  /\ spc \in Begun => inShutdown
  /\ published => apc \notin {"listen", "publish"}
  /\ apc = "listen" => ln = "unbound"
  /\ ~published /\ apc \notin {"listen", "publish"} => ln # "open"
  /\ spc \in ListenerDone /\ published => ln = "closed"

LEMMA ListenStep ==
  ASSUME TypeOK, ListenInv, [Next]_vars
  PROVE  ListenInv'
<1> USE DEF accepting, serving, clients, shutdown
<1>1. CASE Listen
  BY <1>1, Zenon DEF Listen, ListenInv, Begun, ListenerDone
<1>2. CASE Publish
  BY <1>2, Zenon DEF Publish, CloseListener, ListenInv, Begun, ListenerDone
<1>3. CASE \/ AcceptErr \/ AcceptFails \/ Admit \/ AddConn
           \/ \E c \in Conns : Accept(c)
  <2>1. /\ apc \notin {"listen", "publish"} /\ apc' \notin {"listen", "publish"}
        /\ UNCHANGED <<ln, published, spc, inShutdown>>
    BY <1>3, Zenon DEF AcceptErr, AcceptFails, Admit, AdmitIf, AddConn, Accept
  <2> QED  BY <2>1, Zenon DEF ListenInv
<1>4. ASSUME UNCHANGED <<ln, published, apc, spc, inShutdown>>
      PROVE  ListenInv'
  BY <1>4, Zenon DEF ListenInv
<1>5. ASSUME NEW c \in Conns, Client(c) \/ ConnStep(c) \/ Remove(c)
      PROVE  ListenInv'
  <2>1. CASE Client(c)
    BY <1>4, <2>1, Zenon DEF Client, Dial, HangUp, Stall, Send
  <2>2. CASE RejectConn(c) \/ Check(c) \/ Idle(c) \/ ReadCommand(c) \/ Classify(c)
    BY <1>4, <2>2, Zenon DEF RejectConn, Check, Idle, ReadCommand, Classify
  <2>3. CASE Dispatch(c) \/ Flush(c) \/ Drop(c) \/ Remove(c) \/ Release(c)
    BY <1>4, <2>3, Zenon DEF Dispatch, Flush, Drop, Remove, Release
  <2> QED  BY <1>5, <2>1, <2>2, <2>3, Zenon DEF ConnStep
<1>6. CASE Signal
  BY <1>6, Zenon DEF Signal, ListenInv, Begun, ListenerDone
<1>7. CASE ShutdownFlag
  BY <1>7, Zenon DEF ShutdownFlag, ListenInv, Begun, ListenerDone
<1>8. CASE ShutdownListener
  BY <1>8, Zenon
     DEF ShutdownListener, CloseListener, ListenInv, Begun, ListenerDone
<1>9. CASE \/ SweepLock \/ (\E c \in Conns : SweepLoad(c)) \/ SweepClose
           \/ SweepEnd \/ ConnCount \/ Poll \/ Deadline
  <2>1. /\ spc \in ListenerDone /\ spc' \in ListenerDone
        /\ UNCHANGED <<ln, published, apc, inShutdown>>
    BY <1>9, Zenon
       DEF SweepLock, SweepLoad, SweepLoadBody, SweepClose, SweepEnd,
           ConnCount, Poll, Deadline, DeadlineBody, ListenerDone, Begun
  <2> QED  BY <2>1, Zenon DEF ListenInv, ListenerDone
<1>10. CASE MainStep \/ UNCHANGED vars
  BY <1>4, <1>10, Zenon
     DEF MainStep, RunServeReturns, ShutdownReturns, EngineClose, vars
<1> QED  BY <1>1, <1>2, <1>3, <1>5, <1>6, <1>7, <1>8, <1>9, <1>10, Zenon
            DEF Next, ServeStep, ShutdownStep

LEMMA ListenInvHolds == Spec => []ListenInv
<1>1. Init => ListenInv
  BY Zenon DEF Init, ListenInv, Begun, ListenerDone
<1>2. CapInv /\ ListenInv /\ [Next]_vars => ListenInv'
  BY ListenStep, Zenon DEF CapInv, Types
<1> QED  BY <1>1, <1>2, CapInvHolds, PTL DEF Spec

\* server.go:67: however a Shutdown falls between the steps of ListenAndServe,
\* no listener is left open behind it.
THEOREM NoListenerLeftHolds == Spec => []NoListenerLeft
<1>1. ListenInv => NoListenerLeft
  BY Zenon DEF ListenInv, NoListenerLeft, Begun, ListenerDone
<1> QED  BY <1>1, ListenInvHolds, PTL

-----------------------------------------------------------------------------
(* The drain. *)

\* A goroutine between its look at the flag and the end of its reply.
Serving == {"idle", "read", "got", "dispatch", "flush"}

\* The places of a goroutine's life from the request in hand to its end.
Leaving == {"dispatch", "flush", "check", "drop", "remove", "release", "gone"}

\* Shutdown runs once, and has ended when it has said how.
Once ==
  /\ inShutdown <=> spc \in Begun
  /\ mpc = "run" => spc = "none"
  /\ drained # "no" => spc = "returned"

\* Nobody but its own goroutine closes a socket before the flag is set.
Untouched ==
  ~inShutdown =>
    /\ inflight = {}
    /\ \A c \in Conns : cpc[c] \in Serving \cup {"check"} => sock[c] = "open"
    /\ apc \in {"admit", "add"} => sock[nc] = "open"

\* Nobody is served again after a clean drain: whoever is accepted late sees
\* the flag.
Emptied == drained = "clean" => \A c \in Conns : cpc[c] \notin Serving

\* A request in flight when the flag was set is its connection's last, and
\* until then the connection is active, so that no sweep has it for a target.
LastRequest ==
  /\ \A c \in inflight : cpc[c] \in Leaving /\ c \in active
  /\ spc = "sweepClose" => target \notin inflight
  /\ drained # "deadline" =>
       \A c \in inflight : cpc[c] \in {"dispatch", "flush"} => sock[c] = "open"

DrainInv == Once /\ Untouched /\ Emptied /\ LastRequest

\* Steps of a connection's goroutine.
LEMMA DrainConn ==
  ASSUME Types, Order, DrainInv, NEW c \in Conns, ConnStep(c) \/ Remove(c)
  PROVE  DrainInv'
<1> USE DEF accepting, serving, clients, shutdown
<1>0. /\ sock \in [Conns -> {"none", "backlog", "open", "closed"}]
      /\ cpc \in [Conns -> {"none", "reject", "check", "idle", "read", "got",
                            "dispatch", "flush", "drop", "remove", "release", "gone"}]
      /\ nc \in Conns /\ inflight \subseteq Conns /\ active \subseteq Conns
  BY Zenon DEF Types, TypeOK
<1>1. ASSUME NEW label, Goto(c, label),
             UNCHANGED <<inShutdown, spc, mpc, drained, inflight, target, apc, nc>>,
             active' = active \/ (active' = active \cup {c})
               \/ (active' = active \ {c} /\ cpc[c] \notin Leaving),
             sock' = sock \/ ( /\ sock' = [sock EXCEPT ![c] = "closed"]
                               /\ cpc[c] # "none"
                               /\ label \notin Serving \cup {"check"}),
             label \in Serving => cpc[c] \in Serving \/ ~inShutdown,
             label \in Serving \cup {"check"} => cpc[c] \in Serving \cup {"check"},
             cpc[c] \in Leaving => label \in Leaving \/ ~inShutdown,
             cpc[c] \in Leaving /\ label \in {"dispatch", "flush"} =>
               cpc[c] \in {"dispatch", "flush"}
      PROVE  DrainInv'
  <2>1. cpc'[c] = label /\ \A d \in Conns \ {c} : cpc'[d] = cpc[d]
    BY <1>0, <1>1, Zenon DEF Goto
  <2>2. \A d \in Conns \ {c} : sock'[d] = sock[d]
    BY <1>0, <1>1, Zenon
  <2>3. label \in Serving \cup {"check"} => sock' = sock
    BY <1>1, Zenon
  <2>4. Once'
    BY <1>1, Zenon DEF DrainInv, Once
  <2>5. Untouched'
    <3>1. apc \in {"admit", "add"} => sock'[nc] = sock[nc]
      BY <1>0, <1>1, <2>2, Zenon DEF Order
    <3> QED  BY <1>1, <2>1, <2>2, <2>3, <3>1, Zenon DEF DrainInv, Untouched
  <2>6. Emptied'
    <3>1. drained = "clean" => inShutdown
      BY Zenon DEF DrainInv, Once, Begun
    <3> QED  BY <1>1, <2>1, <3>1, Zenon DEF DrainInv, Emptied
  <2>7. LastRequest'
    <3>1. inflight # {} => inShutdown
      BY <1>0, Zenon DEF DrainInv, Untouched, Types, TypeOK
    <3>2. \A d \in inflight : cpc'[d] \in Leaving /\ d \in active'
      BY <1>0, <1>1, <2>1, <3>1, Zenon DEF DrainInv, LastRequest
    <3>3. drained # "deadline" =>
          \A d \in inflight : cpc'[d] \in {"dispatch", "flush"} => sock'[d] = "open"
      BY <1>0, <1>1, <2>1, <2>2, <2>3, Zenon DEF DrainInv, LastRequest, Serving
    <3> QED  BY <1>1, <3>2, <3>3, Zenon DEF DrainInv, LastRequest
  <2> QED  BY <2>4, <2>5, <2>6, <2>7, Zenon DEF DrainInv
<1> USE DEF Serving, Leaving
<1>2. CASE RejectConn(c)
  BY <1>1, <1>2, Zenon DEF RejectConn, Goto
<1>3. CASE Check(c)
  <2>1. CASE inShutdown
    BY <1>1, <1>3, <2>1, Zenon DEF Check
  <2>2. CASE ~inShutdown
    BY <1>1, <1>3, <2>2, Zenon DEF Check
  <2> QED  BY <2>1, <2>2, Zenon
<1>4. CASE Idle(c)
  BY <1>1, <1>4, Zenon DEF Idle
<1>5. CASE ReadCommand(c)
  <2>1. /\ cpc[c] = "read" /\ Goto(c, "got")
        /\ UNCHANGED <<inShutdown, spc, mpc, drained, inflight, target, apc, nc,
                       active, sock>>
    BY <1>5, Zenon DEF ReadCommand, ReadReturns
  <2> QED  BY <1>1, <2>1, Zenon
<1>6. CASE Classify(c)
  <2>1. got[c] \in {"cmd", "quit", "bad", "close"}
    BY <1>6, ServerAssumption, Zenon DEF Classify, Types
  <2>2. PICK label \in {"dispatch", "flush", "drop"} : Goto(c, label)
    BY <1>6, <2>1, Zenon DEF Classify
  <2>3. /\ cpc[c] = "got" /\ active' = active \cup {c}
        /\ UNCHANGED <<inShutdown, spc, mpc, drained, inflight, target, apc, nc,
                       sock>>
    BY <1>6, Zenon DEF Classify
  <2> QED  BY <1>1, <2>2, <2>3, Zenon
<1>7. CASE Dispatch(c)
  BY <1>1, <1>7, Zenon DEF Dispatch
<1>8. CASE Flush(c)
  <2>1. PICK label \in {"check", "drop"} : Goto(c, label)
    BY <1>8, Zenon DEF Flush
  <2>2. /\ cpc[c] = "flush"
        /\ UNCHANGED <<inShutdown, spc, mpc, drained, inflight, target, apc, nc,
                       active, sock>>
    BY <1>8, Zenon DEF Flush
  <2> QED  BY <1>1, <2>1, <2>2, Zenon
<1>9. CASE Drop(c)
  BY <1>1, <1>9, Zenon DEF Drop
<1>10. CASE Remove(c)
  BY <1>1, <1>10, Zenon DEF Remove
<1>11. CASE Release(c)
  BY <1>1, <1>11, Zenon DEF Release
<1> QED  BY <1>2, <1>3, <1>4, <1>5, <1>6, <1>7, <1>8, <1>9, <1>10, <1>11, Zenon
            DEF ConnStep

\* Steps of the clients, of the accept loop and of main: no place of a
\* goroutine changes but to "reject" and "check", and no socket is closed but
\* one in the backlog.
LEMMA DrainServe ==
  ASSUME Types, Order, DrainInv,
         \/ \E c \in Conns : Client(c) \/ Accept(c)
         \/ ServeStep \/ AcceptFails \/ Signal \/ MainStep \/ UNCHANGED vars
  PROVE  DrainInv'
<1> USE DEF accepting, serving, clients, shutdown
<1>0. /\ sock \in [Conns -> {"none", "backlog", "open", "closed"}]
      /\ cpc \in [Conns -> {"none", "reject", "check", "idle", "read", "got",
                            "dispatch", "flush", "drop", "remove", "release", "gone"}]
      /\ nc \in Conns /\ inflight \subseteq Conns
  BY Zenon DEF Types, TypeOK
<1>1. ASSUME UNCHANGED <<inShutdown, drained, inflight, target, active, cpc>>,
             Once', spc' # "sweepClose" \/ spc' = spc,
             \A c \in Conns : sock[c] = "open" => sock'[c] = "open",
             apc' \in {"admit", "add"} => sock'[nc'] = "open" \/ inShutdown
      PROVE  DrainInv'
  BY <1>0, <1>1, Zenon DEF DrainInv, Untouched, Emptied, LastRequest
<1>2. ASSUME UNCHANGED <<inShutdown, drained, inflight, target, active, spc, mpc, sock>>,
             NEW label \in {"reject", "check"}, cpc[nc] = "none",
             cpc' = [cpc EXCEPT ![nc] = label], apc' = "accept",
             ~inShutdown => sock[nc] = "open"
      PROVE  DrainInv'
  <2>1. nc \notin inflight
    BY <1>2, Zenon DEF DrainInv, LastRequest, Leaving
  <2>2. cpc'[nc] = label /\ \A d \in Conns \ {nc} : cpc'[d] = cpc[d]
    BY <1>0, <1>2, Zenon
  <2>3. Once' /\ Emptied'
    BY <1>0, <1>2, <2>2, Zenon DEF DrainInv, Once, Emptied, Serving
  <2>4. Untouched'
    BY <1>0, <1>2, <2>2, Zenon DEF DrainInv, Untouched, Serving
  <2>5. LastRequest'
    BY <1>0, <1>2, <2>1, <2>2, Zenon DEF DrainInv, LastRequest
  <2> QED  BY <2>3, <2>4, <2>5, Zenon DEF DrainInv
<1>3. apc \in {"admit", "add"} => cpc[nc] = "none" /\ (~inShutdown => sock[nc] = "open")
  BY Zenon DEF Order, DrainInv, Untouched
<1>4. ASSUME UNCHANGED <<inShutdown, spc, mpc, drained>>  PROVE Once'
  BY <1>4, Zenon DEF DrainInv, Once
<1>5. ASSUME NEW c \in Conns, Client(c)
      PROVE  DrainInv'
  <2>1. UNCHANGED <<inShutdown, spc, mpc, drained, inflight, target, active, cpc, apc, nc>>
    BY <1>5, Zenon DEF Client, Dial, HangUp, Stall, Send
  <2>2. sock' = sock \/ (sock[c] = "none" /\ sock' = [sock EXCEPT ![c] = "backlog"])
    BY <1>5, Zenon DEF Client, Dial, HangUp, Stall, Send
  <2>3. \A d \in Conns : sock[d] = "open" => sock'[d] = "open"
    BY <1>0, <2>2, Zenon
  <2> QED  BY <1>0, <1>1, <1>3, <1>4, <2>1, <2>3, ZenonT(30)
<1>6. ASSUME NEW c \in Conns, Accept(c)
      PROVE  DrainInv'
  <2>1. /\ UNCHANGED <<inShutdown, spc, mpc, drained, inflight, target, active, cpc>>
        /\ sock' = [sock EXCEPT ![c] = "open"] /\ nc' = c
    BY <1>6, Zenon DEF Accept
  <2> QED  BY <1>0, <1>1, <1>4, <2>1, Zenon
<1>7. CASE Listen \/ Publish \/ AcceptErr \/ AcceptFails
  <2>1. /\ UNCHANGED <<inShutdown, spc, mpc, drained, inflight, target, active, cpc>>
        /\ apc' \notin {"admit", "add"}
    BY <1>7, Zenon DEF Listen, Publish, AcceptErr, AcceptFails
  <2>2. \A d \in Conns : sock[d] = "open" => sock'[d] = "open"
    BY <1>0, <1>7, Zenon
       DEF Listen, Publish, CloseListener, AcceptErr, AcceptFails
  <2> QED  BY <1>1, <1>4, <2>1, <2>2, Zenon
<1>8. CASE Admit
  <2>1. /\ UNCHANGED <<inShutdown, spc, mpc, drained, inflight, target, active, sock, nc>>
        /\ apc = "admit"
        /\ \/ cpc' = cpc
           \/ cpc' = [cpc EXCEPT ![nc] = "reject"] /\ apc' = "accept"
    BY <1>8, Zenon DEF Admit, AdmitIf
  <2>2. CASE cpc' = cpc
    BY <1>1, <1>3, <1>4, <2>1, <2>2, Zenon
  <2>3. CASE cpc' = [cpc EXCEPT ![nc] = "reject"] /\ apc' = "accept"
    BY <1>2, <1>3, <2>1, <2>3, Zenon
  <2> QED  BY <2>1, <2>2, <2>3, Zenon
<1>9. CASE AddConn
  <2>1. /\ UNCHANGED <<inShutdown, spc, mpc, drained, inflight, target, active, sock>>
        /\ apc = "add" /\ apc' = "accept" /\ cpc' = [cpc EXCEPT ![nc] = "check"]
    BY <1>9, Zenon DEF AddConn
  <2> QED  BY <1>2, <1>3, <2>1, Zenon
<1>10. CASE Signal
  <2>1. /\ UNCHANGED <<inShutdown, drained, inflight, target, active, cpc, sock, apc, nc>>
        /\ mpc = "run" /\ mpc' = "shutdown" /\ spc' = "flag"
    BY <1>10, Zenon DEF Signal
  <2>2. Once'
    BY <2>1, Zenon DEF DrainInv, Once, Begun
  <2> QED  BY <1>1, <1>3, <2>1, <2>2, Zenon
<1>11. CASE MainStep \/ UNCHANGED vars
  <2>1. /\ UNCHANGED <<inShutdown, drained, inflight, target, active, cpc, sock, apc, nc, spc>>
        /\ mpc' = mpc \/ mpc' # "run"
    BY <1>11, Zenon
       DEF MainStep, RunServeReturns, ShutdownReturns, EngineClose, vars
  <2>2. Once'
    BY <2>1, Zenon DEF DrainInv, Once
  <2> QED  BY <1>1, <1>3, <2>1, <2>2, Zenon
<1> QED  BY <1>5, <1>6, <1>7, <1>8, <1>9, <1>10, <1>11, ZenonT(30) DEF ServeStep

\* Steps of Shutdown.
LEMMA DrainShutdown ==
  ASSUME Types, Order, DrainInv, ShutdownStep \/ Deadline
  PROVE  DrainInv'
<1> USE DEF accepting, serving, clients, shutdown
<1>0. /\ sock \in [Conns -> {"none", "backlog", "open", "closed"}]
      /\ nc \in Conns /\ inflight \subseteq Conns /\ target \in Conns
  BY Zenon DEF Types, TypeOK
<1>1. UNCHANGED <<apc, nc, cpc, active, mpc, conns>>
  BY Zenon
     DEF ShutdownStep, ShutdownFlag, ShutdownListener, SweepLock, SweepLoad,
         SweepLoadBody, SweepClose, SweepEnd, ConnCount, Poll, Deadline,
         DeadlineBody
<1>2. CASE ShutdownFlag
  <2>1. /\ spc = "flag" /\ inShutdown' = TRUE /\ spc' = "closeListener"
        /\ inflight' = {c \in active : cpc[c] \in {"dispatch", "flush"}}
        /\ UNCHANGED <<sock, target, drained>>
    BY <1>2, Zenon DEF ShutdownFlag
  <2>2. ~inShutdown /\ drained = "no" /\ mpc # "run"
    BY <2>1, Zenon DEF DrainInv, Once, Begun
  <2>3. Once' /\ Untouched' /\ Emptied'
    BY <1>1, <2>1, <2>2, Zenon DEF Once, Untouched, Emptied, Begun
  <2>4. active \subseteq Conns
    BY Zenon DEF Types, TypeOK
  <2>5. LastRequest'
    BY <1>1, <2>1, <2>2, <2>4, Zenon
       DEF DrainInv, Untouched, LastRequest, Serving, Leaving
  <2> QED  BY <2>3, <2>5, Zenon DEF DrainInv
<1>3. ASSUME UNCHANGED <<inShutdown, inflight>>, spc \in Begun, spc' \in Begun,
             drained' # "no" => spc' = "returned", Emptied',
             spc' = "sweepClose" => target' \notin inflight,
             drained' = "deadline" \/ drained # "deadline",
             drained' # "deadline" =>
               \A c \in inflight : sock[c] = "open" => sock'[c] = "open"
      PROVE  DrainInv'
  <2>1. inShutdown /\ mpc # "run"
    BY <1>3, Zenon DEF DrainInv, Once, Begun
  <2>2. Once' /\ Untouched'
    BY <1>1, <1>3, <2>1, Zenon DEF Once, Untouched
  <2>3. LastRequest'
    BY <1>1, <1>3, Zenon DEF DrainInv, LastRequest
  <2> QED  BY <1>3, <2>2, <2>3, Zenon DEF DrainInv
<1>4. ASSUME drained' = drained  PROVE Emptied'
  BY <1>1, <1>4, Zenon DEF DrainInv, Emptied
<1>5. spc # "returned" => drained = "no"
  BY Zenon DEF DrainInv, Once
<1>6. CASE ShutdownListener
  <2>1. \A c \in inflight : sock[c] = "open" => sock'[c] = "open"
    BY <1>0, <1>6, Zenon DEF ShutdownListener, CloseListener
  <2>2. /\ spc = "closeListener" /\ spc' = "lock"
        /\ UNCHANGED <<inShutdown, inflight, drained>>
    BY <1>6, Zenon DEF ShutdownListener
  <2> QED  BY <1>3, <1>4, <1>5, <2>1, <2>2, Zenon DEF Begun
<1>7. CASE SweepLock \/ SweepEnd \/ Poll
  <2>1. /\ spc \in Begun \ {"returned"} /\ spc' \in Begun \ {"sweepClose"}
        /\ UNCHANGED <<inShutdown, inflight, drained, sock>>
    BY <1>7, Zenon DEF SweepLock, SweepEnd, Poll, Begun
  <2> QED  BY <1>3, <1>4, <1>5, <2>1, Zenon
<1>8. ASSUME NEW c \in Conns, SweepLoad(c)
      PROVE  DrainInv'
  <2>1. /\ spc = "sweep" /\ spc' \in {"sweep", "sweepClose"}
        /\ spc' = "sweepClose" => target' \notin active
        /\ UNCHANGED <<inShutdown, inflight, drained, sock>>
    BY <1>8, Zenon DEF SweepLoad, SweepLoadBody
  <2>2. inflight \subseteq active
    BY Zenon DEF DrainInv, LastRequest
  <2> QED  BY <1>3, <1>4, <1>5, <2>1, <2>2, Zenon DEF Begun
<1>9. CASE SweepClose
  <2>1. /\ spc = "sweepClose" /\ spc' = "sweep"
        /\ sock' = [sock EXCEPT ![target] = "closed"]
        /\ UNCHANGED <<inShutdown, inflight, drained>>
    BY <1>9, Zenon DEF SweepClose
  <2>2. target \notin inflight
    BY <2>1, Zenon DEF DrainInv, LastRequest
  <2>3. \A c \in inflight : sock'[c] = sock[c]
    BY <1>0, <2>1, <2>2, Zenon
  <2> QED  BY <1>3, <1>4, <1>5, <2>1, <2>3, Zenon DEF Begun
<1>10. CASE ConnCount
  <2>1. /\ spc = "count" /\ spc' \in {"returned", "select"}
        /\ drained' # "deadline" \/ drained' = drained
        /\ UNCHANGED <<inShutdown, inflight, sock>>
        /\ \/ conns = {} /\ spc' = "returned" /\ drained' = "clean"
           \/ drained' = drained
    BY <1>10, Zenon DEF ConnCount
  <2>2. conns = {} => \A c \in Conns : cpc[c] \notin Serving
    BY Zenon DEF Order, Tracked, Serving
  <2>3. Emptied'
    BY <1>1, <1>4, <2>1, <2>2, Zenon DEF Emptied
  <2> QED  BY <1>3, <1>5, <2>1, <2>3, Zenon DEF Begun
<1>11. CASE Deadline
  <2>1. /\ spc = "select" /\ spc' = "returned" /\ drained' = "deadline"
        /\ UNCHANGED <<inShutdown, inflight>>
    BY <1>11, Zenon DEF Deadline, DeadlineBody
  <2>2. Emptied'
    BY <2>1, Zenon DEF Emptied
  <2> QED  BY <1>3, <2>1, <2>2, Zenon DEF Begun
<1> QED  BY <1>2, <1>6, <1>7, <1>8, <1>9, <1>10, <1>11, ZenonT(30)
            DEF ShutdownStep

LEMMA DrainInvHolds == Spec => []DrainInv
<1>1. Init => DrainInv
  BY Zenon
     DEF Init, DrainInv, Once, Untouched, Emptied, LastRequest, Begun, Serving
<1>2. CapInv /\ DrainInv /\ [Next]_vars => DrainInv'
  BY DrainConn, DrainServe, DrainShutdown, Zenon DEF CapInv, Next
<1> QED  BY <1>1, <1>2, CapInvHolds, PTL DEF Spec

\* main.go:62, for any number of clients: after a clean drain no goroutine is
\* in the engine that main goes on to close.
THEOREM CleanDrainHolds == Spec => []CleanDrain
<1>1. DrainInv => CleanDrain
  BY Zenon DEF DrainInv, Emptied, CleanDrain, Serving
<1> QED  BY <1>1, DrainInvHolds, PTL

\* shutdown.go:19, for any number of clients: Shutdown closes no socket under a
\* request that was being served when it began, before the deadline.
THEOREM InFlightKeptHolds == Spec => []InFlightKept
<1>1. DrainInv => InFlightKept
  BY Zenon DEF DrainInv, LastRequest, InFlightKept
<1> QED  BY <1>1, DrainInvHolds, PTL
=============================================================================
