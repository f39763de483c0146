------------------------------ MODULE Terminals ------------------------------
(* The pseudo-terminals that the server runs for its clients, and the        *)
(* sockets connected to them (pty/index.ts, server/server.ts).  A chunk of   *)
(* output is its number; what a client types is left out, it goes straight   *)
(* to the process.                                                           *)
EXTENDS Integers, Sequences, FiniteSets

CONSTANTS
  Ptys, Sockets,
  MaxOutput        \* bound: chunks of a terminal

ASSUME TerminalsAssumption == MaxOutput \in Nat

VARIABLES
  pty,       \* the sessions: state, buffer and subscribers of each
  socket,    \* each socket's terminal, state and what it was sent
  printed,   \* chunks of each terminal's process so far
  dropped    \* chunks that only sockets about to close could have had

ptyVars == <<pty, socket, printed, dropped>>

Terminal(state) == [state |-> state, buffer |-> <<>>, subscribers |-> {}]
TerminalsInit ==
  /\ pty = [p \in Ptys |-> Terminal("none")]
  /\ socket = [w \in Sockets |-> [to |-> "none", state |-> "new", got |-> <<>>]]
  /\ printed = [p \in Ptys |-> 0] /\ dropped = [p \in Ptys |-> {}]

IsOpen(w) == socket[w].state = "open"

CreatePty(p) ==
  /\ pty[p].state = "none"
  /\ pty' = [pty EXCEPT ![p] = Terminal("running")]
  /\ UNCHANGED <<socket, printed, dropped>>

\* Output is kept while nobody is connected; a socket that is closing gets
\* nothing, and keeps it from being kept.
Data(p) ==
  LET n == printed[p] + 1
      to == {w \in pty[p].subscribers : IsOpen(w)}
  IN /\ pty[p].state = "running" /\ n <= MaxOutput
     /\ printed' = [printed EXCEPT ![p] = n]
     /\ IF pty[p].subscribers = {}
        THEN pty' = [pty EXCEPT ![p].buffer = Append(@, n)] /\ UNCHANGED <<socket, dropped>>
        ELSE /\ socket' = [w \in Sockets |-> IF w \in to THEN [socket[w] EXCEPT !.got = Append(@, n)]
                                             ELSE socket[w]]
             /\ dropped' = [dropped EXCEPT ![p] = IF to = {} THEN @ \cup {n} ELSE @]
             /\ UNCHANGED pty

\* The process exits: the session is forgotten, its sockets stay open.
Exit(p) ==
  /\ pty[p].state = "running"
  /\ pty' = [pty EXCEPT ![p] = Terminal("gone")]
  /\ UNCHANGED <<socket, printed, dropped>>

\* Removed, or the instance disposed: killed, the sockets closed, forgotten.
RemovePty(p) ==
  /\ pty[p].state = "running"
  /\ socket' = [w \in Sockets |-> IF w \in pty[p].subscribers THEN [socket[w] EXCEPT !.state = "closed"]
                                  ELSE socket[w]]
  /\ pty' = [pty EXCEPT ![p] = Terminal("gone")]
  /\ UNCHANGED <<printed, dropped>>

\* The session is looked up before the upgrade, and again once it is open.
ConnectRoute(w, p) ==
  /\ socket[w].state = "new" /\ pty[p].state = "running"
  /\ socket' = [socket EXCEPT ![w].state = "upgrading", ![w].to = p]
  /\ UNCHANGED <<pty, printed, dropped>>

\* Mutant: the buffer is sent again to whoever connects next.
KeepBuffer(b) == b

\* Sent once.
TakeBuffer(b) == <<>>

Connect(w) ==
  LET p == socket[w].to IN
  /\ socket[w].state = "upgrading"
  /\ IF pty[p].state # "running"
     THEN socket' = [socket EXCEPT ![w].state = "closed"] /\ UNCHANGED pty
     ELSE /\ socket' = [socket EXCEPT ![w].state = "open", ![w].got = pty[p].buffer]
          /\ pty' = [pty EXCEPT ![p].subscribers = @ \cup {w}, ![p].buffer = TakeBuffer(@)]
  /\ UNCHANGED <<printed, dropped>>

\* The client goes; the server hears of it later.
SocketCloses(w) ==
  /\ IsOpen(w)
  /\ socket' = [socket EXCEPT ![w].state = "closing"]
  /\ UNCHANGED <<pty, printed, dropped>>
CloseSocket(w) ==
  /\ socket[w].state = "closing"
  /\ socket' = [socket EXCEPT ![w].state = "closed"]
  /\ pty' = [p \in Ptys |-> [pty[p] EXCEPT !.subscribers = @ \ {w}]]
  /\ UNCHANGED <<printed, dropped>>

TerminalsNext ==
  \/ \E p \in Ptys : CreatePty(p) \/ Data(p) \/ Exit(p) \/ RemovePty(p)
  \/ \E w \in Sockets :
       \/ \E p \in Ptys : ConnectRoute(w, p)
       \/ Connect(w) \/ SocketCloses(w) \/ CloseSocket(w)

TerminalsTypeOK ==
  /\ \A p \in Ptys : /\ pty[p].state \in {"none", "running", "gone"}
                     /\ pty[p].subscribers \subseteq {w \in Sockets : socket[w].to = p}
                     /\ printed[p] \in 0..MaxOutput /\ dropped[p] \subseteq 1..MaxOutput
  /\ \A w \in Sockets : socket[w].state \in {"new", "upgrading", "open", "closing", "closed"}

\* A socket is sent a stretch of its terminal's output without a gap, and all
\* the output of a terminal that still runs was sent to somebody or waits for
\* the next to connect, once: but for what came while the only ones connected
\* were about to close.
Sent(w) == {socket[w].got[i] : i \in DOMAIN socket[w].got}
SentOf(p) == UNION {Sent(w) : w \in {v \in Sockets : socket[v].to = p}}
Waiting(p) == {pty[p].buffer[i] : i \in DOMAIN pty[p].buffer}
OutputIsWhole ==
  /\ TerminalsTypeOK
  /\ \A w \in Sockets : \A i \in 2..Len(socket[w].got) :
       socket[w].got[i] > socket[w].got[i - 1]
         /\ (socket[w].got[i - 1] + 1)..(socket[w].got[i] - 1) \subseteq dropped[socket[w].to]
  /\ \A p \in Ptys : pty[p].state = "running" =>
       /\ SentOf(p) \cup Waiting(p) \cup dropped[p] = 1..printed[p]
       /\ Waiting(p) \cap SentOf(p) = {}
=============================================================================
