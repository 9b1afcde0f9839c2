------------------------------- MODULE Server -------------------------------
(***************************************************************************)
(* The lifecycle of internal/server and of cmd/cachemoney's run: the       *)
(* accept loop with its connection cap, one goroutine per connection, the  *)
(* bounded drain of Shutdown, and main, which closes the engine last.      *)
(*                                                                         *)
(* A connection is named by its client.  What it carries is a sequence of  *)
(* frames; what a command does to the engine is the subject of Engine, and *)
(* here a goroutine is in the engine while it is at "dispatch".            *)
(***************************************************************************)
EXTENDS Integers, Sequences, FiniteSets

CONSTANTS
  Conns,         \* connections, one per client
  Caps,          \* values of cfg.MaxConns
  IdleTimeout,   \* cfg.IdleTimeout is set: a blocked read may time out
  AcceptErrors,  \* Accept may fail on an open listener, and Listen may fail
  Frames,        \* what clients send
  MaxFrames      \* bound: frames a client sends

ASSUME ServerAssumption ==
  /\ IsFiniteSet(Conns) /\ Caps \subseteq Nat \ {0} /\ MaxFrames \in Nat
  /\ IdleTimeout \in BOOLEAN /\ AcceptErrors \in BOOLEAN
  /\ Frames \subseteq {"cmd", "quit", "bad"}

VARIABLES
  ln,          \* the listener: "unbound", "open" or "closed"
  published,   \* s.ln is set
  inShutdown,
  mu,          \* s.mu is held (by a sweep: other critical sections are steps)
  sem,         \* the semaphore: a channel's capacity, and its slots in use
  conns,       \* the tracked connections
  apc, nc,     \* the accept loop, and the connection it has accepted
  sock,        \* sock[c]: "none", "backlog", "open" or "closed"
  hup, stalled,  \* the clients that have hung up, that have stopped reading
  sent,        \* sent[c]: frames sent so far
  inbox, buf,  \* frames in the kernel's buffer and in the codec's
  cpc, got,    \* the goroutine of c, and what its last read returned
  active,      \* c.active
  spc, todo,   \* Shutdown, and the connections its sweep has left to look at
  target,      \* the connection it has found idle
  drained,     \* how Shutdown ended
  mpc,         \* main
  inflight     \* history: the connections that were serving a request when
               \* Shutdown began

clients == <<hup, stalled, sent>>
accepting == <<ln, published, apc, nc>>
serving == <<inbox, buf, cpc, got, active>>
shutdown == <<inShutdown, mu, spc, todo, target, drained, inflight>>
vars == <<accepting, sem, conns, sock, clients, serving, shutdown, mpc>>

Init ==
  /\ ln = "unbound" /\ published = FALSE /\ apc = "listen" /\ nc \in Conns
  /\ sem \in [cap: Caps, used: {0}] /\ conns = {}
  /\ sock = [c \in Conns |-> "none"]
  /\ hup = {} /\ stalled = {} /\ sent = [c \in Conns |-> 0]
  /\ inbox = [c \in Conns |-> <<>>] /\ buf = [c \in Conns |-> <<>>]
  /\ cpc = [c \in Conns |-> "none"] /\ got = [c \in Conns |-> "none"]
  /\ active = {}
  /\ inShutdown = FALSE /\ mu = FALSE
  /\ spc = "none" /\ todo = {} /\ target \in Conns
  /\ drained = "no" /\ inflight = {}
  /\ mpc = "run"

-----------------------------------------------------------------------------
(* The clients. *)

Dial(c) ==
  /\ sock[c] = "none" /\ ln = "open"
  /\ sock' = [sock EXCEPT ![c] = "backlog"]
  /\ UNCHANGED <<accepting, sem, conns, clients, serving, shutdown, mpc>>

Send(c, f) ==
  /\ sock[c] \in {"backlog", "open"} /\ c \notin hup /\ sent[c] < MaxFrames
  /\ sent' = [sent EXCEPT ![c] = @ + 1]
  /\ inbox' = [inbox EXCEPT ![c] = Append(@, f)]
  /\ UNCHANGED <<accepting, sem, conns, sock, hup, stalled, buf, cpc, got,
                 active, shutdown, mpc>>

HangUp(c) ==
  /\ sock[c] \in {"backlog", "open"} /\ c \notin hup
  /\ hup' = hup \cup {c}
  /\ UNCHANGED <<accepting, sem, conns, sock, stalled, sent, serving, shutdown,
                 mpc>>

\* The client reads no more replies, and the kernel's buffers are full.
Stall(c) ==
  /\ sock[c] = "open" /\ c \notin stalled
  /\ stalled' = stalled \cup {c}
  /\ UNCHANGED <<accepting, sem, conns, sock, hup, sent, serving, shutdown,
                 mpc>>

-----------------------------------------------------------------------------
(* ListenAndServe and Serve. *)

Listen ==
  /\ apc = "listen"
  /\ \/ ln' = "open" /\ apc' = "publish"
     \/ AcceptErrors /\ apc' = "failed" /\ UNCHANGED ln
  /\ UNCHANGED <<published, nc, sem, conns, sock, clients, serving, shutdown,
                 mpc>>

\* The connections that the listener had not handed out are reset with it.
CloseListener ==
  /\ ln' = "closed"
  /\ sock' = [c \in Conns |-> IF sock[c] = "backlog" THEN "closed" ELSE sock[c]]

\* Mutant: the flag is not looked at.
PublishUnchecked ==
  /\ apc = "publish" /\ ~mu
  /\ published' = TRUE /\ apc' = "accept"
  /\ UNCHANGED <<ln, nc, sem, conns, sock, clients, serving, shutdown, mpc>>

\* Under the lock: a Shutdown that ran already means that there is no Serve.
Publish ==
  /\ apc = "publish" /\ ~mu
  /\ \/ /\ inShutdown
        /\ CloseListener
        /\ apc' = "closed"
        /\ UNCHANGED published
     \/ /\ ~inShutdown
        /\ published' = TRUE
        /\ apc' = "accept"
        /\ UNCHANGED <<ln, sock>>
  /\ UNCHANGED <<nc, sem, conns, clients, serving, shutdown, mpc>>

Accept(c) ==
  /\ apc = "accept" /\ ln = "open" /\ sock[c] = "backlog"
  /\ sock' = [sock EXCEPT ![c] = "open"]
  /\ nc' = c
  /\ apc' = "admit"
  /\ UNCHANGED <<ln, published, sem, conns, clients, serving, shutdown, mpc>>

AcceptFails ==
  /\ apc = "accept" /\ (ln = "closed" \/ AcceptErrors)
  /\ apc' = "acceptErr"
  /\ UNCHANGED <<ln, published, nc, sem, conns, sock, clients, serving,
                 shutdown, mpc>>

AcceptErr ==
  /\ apc = "acceptErr"
  /\ apc' = IF inShutdown THEN "closed" ELSE "failed"
  /\ UNCHANGED <<ln, published, nc, sem, conns, sock, clients, serving,
                 shutdown, mpc>>

\* A slot if there is one, and the refusal notice otherwise.
AdmitIf(free) ==
  /\ apc = "admit"
  /\ \/ /\ free
        /\ sem' = [sem EXCEPT !.used = @ + 1]
        /\ apc' = "add"
        /\ UNCHANGED cpc
     \/ /\ ~free
        /\ cpc' = [cpc EXCEPT ![nc] = "reject"]
        /\ apc' = "accept"
        /\ UNCHANGED sem
  /\ UNCHANGED <<ln, published, nc, conns, sock, clients, inbox, buf, got,
                 active, shutdown, mpc>>

\* Mutant: a semaphore with a slot too many.
AdmitOneMore == AdmitIf(sem.used <= sem.cap)

Admit == AdmitIf(sem.used < sem.cap)

\* addConn, and then the connection's goroutine.
AddConn ==
  /\ apc = "add" /\ ~mu
  /\ conns' = conns \cup {nc}
  /\ cpc' = [cpc EXCEPT ![nc] = "check"]
  /\ apc' = "accept"
  /\ UNCHANGED <<ln, published, nc, sem, sock, clients, inbox, buf, got,
                 active, shutdown, mpc>>

RejectConn(c) ==
  /\ cpc[c] = "reject"
  /\ sock' = [sock EXCEPT ![c] = "closed"]
  /\ cpc' = [cpc EXCEPT ![c] = "gone"]
  /\ UNCHANGED <<accepting, sem, conns, clients, inbox, buf, got, active,
                 shutdown, mpc>>

-----------------------------------------------------------------------------
(* serveConn, and the goroutine around it. *)

\* The goroutine of c goes on to label, without touching what others see.
Goto(c, label) == cpc' = [cpc EXCEPT ![c] = label]

\* Mutant: the flag is not looked at.
CheckNever(c) ==
  /\ cpc[c] = "check" /\ Goto(c, "idle")
  /\ UNCHANGED <<accepting, sem, conns, sock, clients, inbox, buf, got, active,
                 shutdown, mpc>>

Check(c) ==
  /\ cpc[c] = "check" /\ Goto(c, IF inShutdown THEN "drop" ELSE "idle")
  /\ UNCHANGED <<accepting, sem, conns, sock, clients, inbox, buf, got, active,
                 shutdown, mpc>>

Idle(c) ==
  /\ cpc[c] = "idle" /\ Goto(c, "read")
  /\ active' = active \ {c}
  /\ UNCHANGED <<accepting, sem, conns, sock, clients, inbox, buf, got,
                 shutdown, mpc>>

\* ReadCommand returned outcome, and left these frames to be read.
ReadReturns(c, outcome, kernel, codec) ==
  /\ got' = [got EXCEPT ![c] = outcome]
  /\ inbox' = [inbox EXCEPT ![c] = kernel]
  /\ buf' = [buf EXCEPT ![c] = codec]
  /\ Goto(c, "got")

\* A frame of the codec's buffer, which is filled first if it is empty; or
\* the end of the stream, a timeout, or a socket closed under the reader.
ReadCommand(c) ==
  /\ cpc[c] = "read"
  /\ \/ /\ buf[c] # <<>>
        /\ ReadReturns(c, Head(buf[c]), inbox[c], Tail(buf[c]))
     \/ /\ buf[c] = <<>> /\ sock[c] = "open"
        /\ \E n \in 1..Len(inbox[c]) :
             ReadReturns(c, inbox[c][1], SubSeq(inbox[c], n + 1, Len(inbox[c])),
                         SubSeq(inbox[c], 2, n))
     \/ /\ buf[c] = <<>>
        /\ \/ sock[c] = "closed" \/ IdleTimeout
           \/ c \in hup /\ inbox[c] = <<>>
        /\ ReadReturns(c, "close", inbox[c], buf[c])
  /\ UNCHANGED <<accepting, sem, conns, sock, clients, active, shutdown, mpc>>

\* c.active.Store(true), and classify.
Classify(c) ==
  /\ cpc[c] = "got"
  /\ active' = active \cup {c}
  /\ Goto(c, CASE got[c] \in {"cmd", "quit"} -> "dispatch"
               [] got[c] = "bad" -> "flush"
               [] got[c] = "close" -> "drop")
  /\ UNCHANGED <<accepting, sem, conns, sock, clients, inbox, buf, got,
                 shutdown, mpc>>

Dispatch(c) ==
  /\ cpc[c] = "dispatch" /\ Goto(c, "flush")
  /\ UNCHANGED <<accepting, sem, conns, sock, clients, inbox, buf, got, active,
                 shutdown, mpc>>

\* The reply is delivered, or the write fails: it blocks while the client does
\* not read.
Flush(c) ==
  /\ cpc[c] = "flush"
  /\ \/ /\ sock[c] = "open" /\ c \notin stalled
        /\ Goto(c, IF got[c] = "cmd" THEN "check" ELSE "drop")
     \/ (sock[c] = "closed" \/ c \in hup) /\ Goto(c, "drop")
  /\ UNCHANGED <<accepting, sem, conns, sock, clients, inbox, buf, got, active,
                 shutdown, mpc>>

\* dropConn closes the socket...
Drop(c) ==
  /\ cpc[c] = "drop" /\ Goto(c, "remove")
  /\ sock' = [sock EXCEPT ![c] = "closed"]
  /\ UNCHANGED <<accepting, sem, conns, clients, inbox, buf, got, active,
                 shutdown, mpc>>

\* ...and stops tracking the connection; then its slot is free again.
Remove(c) ==
  /\ cpc[c] = "remove" /\ ~mu /\ Goto(c, "release")
  /\ conns' = conns \ {c}
  /\ UNCHANGED <<accepting, sem, sock, clients, inbox, buf, got, active,
                 shutdown, mpc>>

Release(c) ==
  /\ cpc[c] = "release" /\ Goto(c, "gone")
  /\ sem' = [sem EXCEPT !.used = @ - 1]
  /\ UNCHANGED <<accepting, conns, sock, clients, inbox, buf, got, active,
                 shutdown, mpc>>

-----------------------------------------------------------------------------
(* main's run, and Shutdown. *)

\* ListenAndServe has returned: run returns what it did.
RunServeReturns ==
  /\ mpc = "run" /\ apc \in {"closed", "failed"}
  /\ mpc' = "close"
  /\ UNCHANGED <<accepting, sem, conns, sock, clients, serving, shutdown>>

Signal ==
  /\ mpc = "run" /\ mpc' = "shutdown" /\ spc' = "flag"
  /\ UNCHANGED <<accepting, sem, conns, sock, clients, serving, inShutdown, mu,
                 todo, target, drained, inflight>>

\* Under the lock: set the flag and read s.ln.
ShutdownFlag ==
  /\ spc = "flag" /\ ~mu
  /\ inShutdown' = TRUE
  /\ inflight' = {c \in active : cpc[c] \in {"dispatch", "flush"}}
  /\ spc' = "closeListener"
  /\ UNCHANGED <<accepting, sem, conns, sock, clients, serving, mu, todo,
                 target, drained, mpc>>

ShutdownListener ==
  /\ spc = "closeListener" /\ spc' = "lock"
  /\ \/ published /\ CloseListener
     \/ ~published /\ UNCHANGED <<ln, sock>>
  /\ UNCHANGED <<published, apc, nc, sem, conns, clients, serving, inShutdown,
                 mu, todo, target, drained, inflight, mpc>>

\* closeIdleConns: under the lock, connection by connection, load active...
SweepLock ==
  /\ spc = "lock" /\ ~mu
  /\ mu' = TRUE /\ todo' = conns /\ spc' = "sweep"
  /\ UNCHANGED <<accepting, sem, conns, sock, clients, serving, inShutdown,
                 target, drained, inflight, mpc>>

SweepLoadBody(c, idle) ==
  /\ spc = "sweep" /\ c \in todo
  /\ todo' = todo \ {c}
  /\ \/ idle /\ target' = c /\ spc' = "sweepClose"
     \/ ~idle /\ UNCHANGED <<target, spc>>
  /\ UNCHANGED <<accepting, sem, conns, sock, clients, serving, inShutdown, mu,
                 drained, inflight, mpc>>

\* Mutant: every connection is closed.
SweepLoadAll(c) == SweepLoadBody(c, TRUE)

SweepLoad(c) == SweepLoadBody(c, c \notin active)

\* ...and close the socket of one that was idle.
SweepClose ==
  /\ spc = "sweepClose" /\ spc' = "sweep"
  /\ sock' = [sock EXCEPT ![target] = "closed"]
  /\ UNCHANGED <<accepting, sem, conns, clients, serving, inShutdown, mu, todo,
                 target, drained, inflight, mpc>>

SweepEnd ==
  /\ spc = "sweep" /\ todo = {}
  /\ mu' = FALSE /\ spc' = "count"
  /\ UNCHANGED <<accepting, sem, conns, sock, clients, serving, inShutdown,
                 todo, target, drained, inflight, mpc>>

ConnCount ==
  /\ spc = "count" /\ ~mu
  /\ \/ conns = {} /\ spc' = "returned" /\ drained' = "clean"
     \/ conns # {} /\ spc' = "select" /\ UNCHANGED drained
  /\ UNCHANGED <<accepting, sem, conns, sock, clients, serving, inShutdown, mu,
                 todo, target, inflight, mpc>>

Poll ==
  /\ spc = "select" /\ spc' = "lock"
  /\ UNCHANGED <<accepting, sem, conns, sock, clients, serving, inShutdown, mu,
                 todo, target, drained, inflight, mpc>>

\* ctx is done: close the given sockets and return.
DeadlineBody(closed) ==
  /\ spc = "select" /\ ~mu
  /\ sock' = [c \in Conns |-> IF c \in closed THEN "closed" ELSE sock[c]]
  /\ spc' = "returned" /\ drained' = "deadline"
  /\ UNCHANGED <<accepting, sem, conns, clients, serving, inShutdown, mu, todo,
                 target, inflight, mpc>>

\* Mutants: the stragglers are left alone; the deadline is not looked at.
DeadlineCloseNone == DeadlineBody({})
DeadlineIgnored == Poll

Deadline == DeadlineBody(conns)

ShutdownReturns ==
  /\ mpc = "shutdown" /\ spc = "returned" /\ mpc' = "close"
  /\ UNCHANGED <<accepting, sem, conns, sock, clients, serving, shutdown>>

\* engine.Close runs from "close" to "closed"; then the process exits.
EngineClose ==
  /\ mpc = "close" /\ mpc' = "closed"
  /\ UNCHANGED <<accepting, sem, conns, sock, clients, serving, shutdown>>

-----------------------------------------------------------------------------

Client(c) ==
  Dial(c) \/ HangUp(c) \/ Stall(c) \/ \E f \in Frames : Send(c, f)

\* Serve, once it can go on without a client.
ServeStep == Listen \/ Publish \/ AcceptErr \/ Admit \/ AddConn

\* The goroutine of c, but for taking the lock.
ConnStep(c) ==
  \/ RejectConn(c) \/ Check(c) \/ Idle(c) \/ ReadCommand(c) \/ Classify(c)
  \/ Dispatch(c) \/ Flush(c) \/ Drop(c) \/ Release(c)

ShutdownStep ==
  \/ ShutdownFlag \/ ShutdownListener
  \/ SweepLock \/ (\E c \in Conns : SweepLoad(c)) \/ SweepClose \/ SweepEnd
  \/ ConnCount \/ Poll

MainStep == RunServeReturns \/ ShutdownReturns \/ EngineClose

Next ==
  \/ \E c \in Conns : Client(c) \/ Accept(c) \/ ConnStep(c) \/ Remove(c)
  \/ ServeStep \/ AcceptFails
  \/ Signal \/ ShutdownStep \/ Deadline \/ MainStep

Spec == Init /\ [][Next]_vars

\* Goroutines that can run do run and a mutex is got in the end; Accept fails
\* on a closed listener; the drain's context has a deadline, and once it is
\* past, the select finds it ready every time.  Nothing is assumed of the
\* clients, nor that a signal comes.
FairSpec ==
  /\ Spec
  /\ \A c \in Conns : WF_vars(ConnStep(c)) /\ SF_vars(Remove(c))
  /\ WF_vars(ServeStep) /\ WF_vars(ln = "closed" /\ AcceptFails)
  /\ WF_vars(ShutdownStep) /\ SF_vars(Deadline) /\ WF_vars(MainStep)

-----------------------------------------------------------------------------
(* Properties. *)

\* Types.
TypeOK ==
  /\ ln \in {"unbound", "open", "closed"} /\ published \in BOOLEAN
  /\ inShutdown \in BOOLEAN /\ mu \in BOOLEAN
  /\ sem \in [cap: Caps, used: Nat] /\ conns \subseteq Conns
  /\ apc \in {"listen", "publish", "accept", "acceptErr", "admit", "add",
              "closed", "failed"}
  /\ nc \in Conns /\ target \in Conns
  /\ sock \in [Conns -> {"none", "backlog", "open", "closed"}]
  /\ hup \subseteq Conns /\ stalled \subseteq Conns
  /\ sent \in [Conns -> 0..MaxFrames]
  /\ inbox \in [Conns -> Seq(Frames)] /\ buf \in [Conns -> Seq(Frames)]
  /\ cpc \in [Conns -> {"none", "reject", "check", "idle", "read", "got",
                        "dispatch", "flush", "drop", "remove", "release",
                        "gone"}]
  /\ got \in [Conns -> Frames \cup {"none", "close"}]
  /\ active \subseteq Conns /\ todo \subseteq Conns /\ inflight \subseteq Conns
  /\ spc \in {"none", "flag", "closeListener", "lock", "sweep", "sweepClose",
              "count", "select", "returned"}
  /\ drained \in {"no", "clean", "deadline"}
  /\ mpc \in {"run", "shutdown", "close", "closed"}

\* The connections that hold a slot: from Admit to Release.
holders ==
  {c \in Conns : cpc[c] \in {"check", "idle", "read", "got", "dispatch",
                             "flush", "drop", "remove", "release"}}
  \cup (IF apc = "add" THEN {nc} ELSE {})

\* server.go:26: the semaphore bounds "concurrent served connections to
\* cfg.MaxConns": it counts exactly the connections that are served, and the
\* tracked ones, which Shutdown waits for, are among them.
CapHolds ==
  /\ TypeOK
  /\ sem.used = Cardinality(holders) /\ sem.used <= sem.cap
  /\ conns \subseteq holders

\* main.go:62: "Stop the engine's eviction drainer AFTER the server has drained
\* connections": once Shutdown has returned from a clean drain no goroutine is
\* in the engine, whatever was accepted too late for the drain to wait for it.
CleanDrain == drained = "clean" => \A c \in Conns : cpc[c] # "dispatch"

\* shutdown.go:19: "an in-flight request must complete and deliver its reply":
\* a request that was being served when Shutdown began keeps its socket until
\* its reply is out or the deadline is past.
InFlightKept ==
  \A c \in inflight :
    cpc[c] \in {"dispatch", "flush"} /\ sock[c] = "closed"
    => drained = "deadline"

\* server.go:67: "the bind-vs-shutdown ordering is total": when Shutdown has
\* returned there is no listener that Serve would go on accepting from.
NoListenerLeft ==
  spc = "returned" /\ apc \notin {"listen", "publish"} => ln # "open"

\* shutdown.go:16: "Shutdown cannot hang": not on a client that stopped reading
\* its replies, nor on one that keeps sending.
ShutdownCannotHang == spc = "flag" ~> spc = "returned"

\* A shutdown leaves no goroutine, slot or tracked connection behind.
NothingLeaks ==
  inShutdown ~> sem.used = 0 /\ conns = {} /\ apc \in {"closed", "failed"}

\* shutdown.go:19: "an in-flight request must complete and deliver its reply":
\* a request that has been executed finds its socket open, unless the drain's
\* deadline is past.
ExecutedIsAnswered ==
  \A c \in Conns :
    cpc[c] = "flush" /\ got[c] = "cmd" /\ sock[c] = "closed"
    => drained = "deadline"
=============================================================================
