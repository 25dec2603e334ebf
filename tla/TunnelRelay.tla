---------------------------- MODULE TunnelRelay ----------------------------
(***************************************************************************)
(* The tunnel: an agent beside a DCC dials the relay and registers, remote *)
(* clients open sessions through the relay, and both ends multiplex those  *)
(* sessions over the agent's one connection.                               *)
(*                                                                         *)
(* Tunnel t is the t-th connection of the agent.  Session s is one client  *)
(* of the relay and the backend connection the agent opens for it.  Chunks *)
(* of bytes are counted, not represented: a queue of a session holds only  *)
(* that session's chunks, in order.  Frontend[s] is "tcp" for the raw and  *)
(* the WebSocket frontends, which have the same two pumps, "http" for the  *)
(* HTTP proxy, and "off" for a session that is not used.                   *)
(***************************************************************************)
EXTENDS Integers, Sequences, FiniteSets

CONSTANTS
    Sessions,
    MaxConns,     \* connections the agent makes
    QueueCap,     \* AGENT_FRAME_QUEUE
    InboxCap,     \* SESSION_INBOX_QUEUE
    SocketCap,    \* frames the agent's socket holds towards the relay
    Worlds        \* settings: frontend of each session, max_tunnels, faults

ASSUME TunnelAssumption ==
    /\ MaxConns \in Nat \ {0} /\ QueueCap \in Nat \ {0}
    /\ InboxCap \in Nat \ {0} /\ SocketCap \in Nat \ {0}
    /\ \A w \in Worlds : w.cap \in Nat /\ w.cuts \in Nat /\ w.refusals \in Nat
                         /\ w.reply \in Nat /\ w.asks \in [Sessions -> Nat] /\ w.stays \subseteq Sessions
                         /\ w.evicts \in BOOLEAN
                         /\ w.kind \in [Sessions -> {"tcp", "http", "off"}]

VARIABLES
    tnWorld,   \* RelayConfig.max_tunnels and what the environment may do
    tnAgent,   \* [pc, tunnel]: run_with_reconnect and its current connection
    tnLink,    \* the TCP connection of each tunnel is up
    tnRows,    \* TunnelRegistry
    tnCtl,     \* handle_agent's read_loop of each tunnel
    tnOut,     \* its writer task drains frame_rx
    tnDown,    \* frames towards the agent
    tnUp,      \* frames towards the relay
    tnHand,    \* the session whose payload each read loop is placing, or 0
    tnFront,   \* the relay's half of each session
    tnBack,    \* the agent's half of each session
    tnSpent    \* cuts of the connection and refused dials so far

tnVars == <<tnWorld, tnAgent, tnLink, tnRows, tnCtl, tnOut, tnDown, tnUp, tnHand, tnFront, tnBack,
            tnSpent>>

tnConn == <<tnWorld, tnAgent, tnLink, tnRows, tnCtl, tnOut, tnSpent>>

Tunnels == 1..MaxConns
Frontend == tnWorld.kind
Reply == tnWorld.reply   \* the chunks a backend answers with

Frame(kind, s) == [kind |-> kind, session |-> s]

NoFront == [tunnel |-> 0, reader |-> "none", writer |-> "none", entry |-> FALSE,
            inbox |-> 0, got |-> 0, client |-> "none", asked |-> 0]
NoBack == [entry |-> FALSE, inbox |-> 0, bridge |-> "none", pump |-> "none",
           fed |-> FALSE, eof |-> FALSE, sent |-> 0, closed |-> FALSE]

TunnelOf(s) == tnFront[s].tunnel

-----------------------------------------------------------------------------
(* The agent's connection: run_once, run_with_reconnect, handle_agent.     *)

\* A dial is refused, is rejected because the relay is full (which ends the
\* agent), or registers a row and is acknowledged.
Dial ==
    LET t == tnAgent.tunnel + 1
    IN  /\ tnAgent.pc = "dial" /\ t \in Tunnels
        /\ \/ /\ tnSpent.refusals < tnWorld.refusals
              /\ tnAgent' = [tnAgent EXCEPT !.pc = "wait"]
              /\ tnSpent' = [tnSpent EXCEPT !.refusals = @ + 1]
              /\ UNCHANGED <<tnLink, tnRows, tnCtl, tnOut>>
           \/ /\ tnWorld.cap # 0 /\ Cardinality(tnRows) >= tnWorld.cap
              /\ tnAgent' = [tnAgent EXCEPT !.pc = "fatal"]
              /\ UNCHANGED <<tnSpent, tnLink, tnRows, tnCtl, tnOut>>
           \/ /\ tnWorld.cap = 0 \/ Cardinality(tnRows) < tnWorld.cap
              /\ tnAgent' = [pc |-> "up", tunnel |-> t]
              /\ tnLink' = [tnLink EXCEPT ![t] = TRUE]
              /\ tnRows' = tnRows \cup {t}
              /\ tnCtl' = [tnCtl EXCEPT ![t] = "read"]
              /\ tnOut' = [tnOut EXCEPT ![t] = TRUE]
              /\ UNCHANGED tnSpent
        /\ UNCHANGED <<tnWorld, tnDown, tnUp, tnHand, tnFront, tnBack>>

Backoff ==
    /\ tnAgent.pc = "wait"
    /\ tnAgent' = [tnAgent EXCEPT !.pc = "dial"]
    /\ UNCHANGED <<tnWorld, tnLink, tnRows, tnCtl, tnOut, tnDown, tnUp, tnHand, tnFront, tnBack, tnSpent>>

\* The network drops the connection; what was on the wire is lost.
Cut ==
    /\ tnAgent.pc = "up" /\ tnLink[tnAgent.tunnel]
    /\ tnSpent.cuts < tnWorld.cuts
    /\ tnLink' = [tnLink EXCEPT ![tnAgent.tunnel] = FALSE]
    /\ tnUp' = [tnUp EXCEPT ![tnAgent.tunnel] = <<>>]
    /\ tnSpent' = [tnSpent EXCEPT !.cuts = @ + 1]
    /\ UNCHANGED <<tnWorld, tnAgent, tnRows, tnCtl, tnOut, tnDown, tnHand, tnFront, tnBack>>

\* Faulty: the agent waits for its bridges before it redials.
AgentSeesEofJoins ==
    /\ tnAgent.pc = "up" /\ ~tnLink[tnAgent.tunnel] /\ tnHand.agent = 0
    /\ \A s \in Sessions : tnBack[s].bridge \in {"none", "done"}
    /\ tnAgent' = [tnAgent EXCEPT !.pc = "wait"]
    /\ UNCHANGED <<tnWorld, tnLink, tnRows, tnCtl, tnOut, tnDown, tnUp, tnHand, tnFront, tnBack, tnSpent>>

AgentSeesEof ==
    /\ tnAgent.pc = "up" /\ ~tnLink[tnAgent.tunnel] /\ tnHand.agent = 0
    /\ tnAgent' = [tnAgent EXCEPT !.pc = "wait"]
    /\ UNCHANGED <<tnWorld, tnLink, tnRows, tnCtl, tnOut, tnDown, tnUp, tnHand, tnFront, tnBack, tnSpent>>

\* read_loop ends: its Arc of the handle and the registry row go.
RelaySeesEof(t) ==
    /\ tnCtl[t] = "read" /\ ~tnLink[t] /\ tnHand.relay[t] = 0
    /\ tnCtl' = [tnCtl EXCEPT ![t] = "gone"]
    /\ tnRows' = tnRows \ {t}
    /\ UNCHANGED <<tnWorld, tnAgent, tnLink, tnOut, tnDown, tnUp, tnHand, tnFront, tnBack, tnSpent>>

\* sweep_once: the agent sends no heartbeat, so any row grows stale.
Evict(t) ==
    /\ tnWorld.evicts /\ t \in tnRows
    /\ tnRows' = tnRows \ {t}
    /\ UNCHANGED <<tnWorld, tnAgent, tnLink, tnCtl, tnOut, tnDown, tnUp, tnHand, tnFront, tnBack, tnSpent>>

\* A session's tasks hold clones of the handle, and with them of frame_tx.
Holds(s, t) ==
    /\ TunnelOf(s) = t
    /\ tnFront[s].reader \notin {"none", "done"} \/ tnFront[s].writer \notin {"none", "done"}

\* The writer task returns when a write fails, or when its queue is empty and
\* every clone of frame_tx is gone.
WriterEnds(t) ==
    /\ tnOut[t]
    /\ \/ ~tnLink[t] /\ tnDown[t] # <<>>
       \/ /\ tnDown[t] = <<>> /\ tnCtl[t] = "gone" /\ t \notin tnRows
          /\ \A s \in Sessions : ~Holds(s, t)
    /\ tnOut' = [tnOut EXCEPT ![t] = FALSE]
    /\ tnDown' = [tnDown EXCEPT ![t] = <<>>]
    /\ UNCHANGED <<tnWorld, tnAgent, tnLink, tnRows, tnCtl, tnUp, tnHand, tnFront, tnBack, tnSpent>>

-----------------------------------------------------------------------------
(* The relay's half of a session: handle_frontend, serve_socket and        *)
(* proxy_http_once.                                                        *)

\* TunnelHandle::send: it waits for room and fails once the writer is gone.
Sends(s, kind) ==
    LET t == TunnelOf(s)
    IN  /\ tnOut[t] => Len(tnDown[t]) < QueueCap
        /\ tnDown' = IF tnOut[t] THEN [tnDown EXCEPT ![t] = Append(@, Frame(kind, s))] ELSE tnDown

SetFront(s, r) == tnFront' = [tnFront EXCEPT ![s] = r]

\* The receiver of a session's inbox exists: until the writer task has ended.
Receiving(s) ==
    tnFront[s].writer \in {"recv", "close", "drop"} \/ tnFront[s].reader \in {"open", "ask", "half", "head"}

\* registry.get and open_session; an unknown tunnel closes the client.
Select(s, t) ==
    /\ tnFront[s].client = "none" /\ Frontend[s] # "off"
    /\ t \in tnRows
    /\ SetFront(s, [NoFront EXCEPT !.tunnel = t, !.reader = "open", !.entry = TRUE,
                                   !.client = "open"])
    /\ UNCHANGED <<tnConn, tnHand, tnDown, tnUp, tnBack>>

SendOpen(s) ==
    /\ tnFront[s].reader = "open"
    /\ Sends(s, "open")
    /\ SetFront(s, IF ~tnOut[TunnelOf(s)]
                   THEN [tnFront[s] EXCEPT !.reader = "done", !.entry = FALSE]
                   ELSE IF Frontend[s] = "http" THEN [tnFront[s] EXCEPT !.reader = "ask"]
                   ELSE [tnFront[s] EXCEPT !.reader = "read", !.writer = "recv"])
    /\ UNCHANGED <<tnConn, tnHand, tnUp, tnBack>>

\* frontend -> agent: a chunk of the client's request, one Data frame.
SendData(s) ==
    /\ tnFront[s].reader = "read" /\ tnFront[s].client = "open"
    /\ tnFront[s].asked < tnWorld.asks[s]
    /\ Sends(s, "data")
    /\ SetFront(s, [tnFront[s] EXCEPT !.asked = @ + 1,
                      !.reader = IF tnOut[TunnelOf(s)] THEN "read" ELSE "close"])
    /\ UNCHANGED <<tnConn, tnHand, tnUp, tnBack>>


\* The read half of the client's socket has ended, whatever became of the other.
ReadEof(s) ==
    /\ tnFront[s].reader = "read" /\ tnFront[s].client \in {"half", "closed"}
    /\ SetFront(s, [tnFront[s] EXCEPT !.reader = "close"])
    /\ UNCHANGED <<tnConn, tnHand, tnDown, tnUp, tnBack>>

\* Faulty: the reader aborts the writer and forgets the entry.
CloseFrontAborts(s) ==
    \/ /\ tnFront[s].reader = "close"
       /\ Sends(s, "close")
       /\ SetFront(s, [tnFront[s] EXCEPT !.reader = "join", !.writer = "done"])
       /\ UNCHANGED <<tnConn, tnHand, tnUp, tnBack>>
    \/ /\ tnFront[s].writer = "close"
       /\ Sends(s, "close")
       /\ SetFront(s, [tnFront[s] EXCEPT !.writer = "done", !.entry = FALSE, !.inbox = 0])
       /\ UNCHANGED <<tnConn, tnHand, tnUp, tnBack>>
    \/ /\ tnFront[s].reader = "join" /\ tnFront[s].writer = "done"
       /\ SetFront(s, [tnFront[s] EXCEPT !.reader = "done"])
       /\ UNCHANGED <<tnConn, tnHand, tnDown, tnUp, tnBack>>

\* The end of either pump: CloseSession to the agent, then close_session; the
\* reader side then waits for the writer task.
CloseFront(s) ==
    \/ /\ tnFront[s].reader = "close"
       /\ Sends(s, "close")
       /\ SetFront(s, [tnFront[s] EXCEPT !.reader = "join", !.entry = FALSE])
       /\ UNCHANGED <<tnConn, tnHand, tnUp, tnBack>>
    \/ /\ tnFront[s].writer = "close"
       /\ Sends(s, "close")
       /\ SetFront(s, [tnFront[s] EXCEPT !.writer = "done", !.entry = FALSE, !.inbox = 0])
       /\ UNCHANGED <<tnConn, tnHand, tnUp, tnBack>>
    \/ /\ tnFront[s].reader = "join" /\ tnFront[s].writer = "done"
       /\ SetFront(s, [tnFront[s] EXCEPT !.reader = "done"])
       /\ UNCHANGED <<tnConn, tnHand, tnDown, tnUp, tnBack>>

\* agent -> frontend: the inbox is drained into the client; an empty inbox with
\* no sender left, or a client that is gone, ends the pump.
Deliver(s) ==
    LET f == tnFront[s]
        ended == IF Frontend[s] = "http" THEN "drop" ELSE "close"
    IN  /\ f.writer = "recv"
        /\ \/ /\ f.inbox > 0
              /\ SetFront(s, IF f.client = "closed" THEN [f EXCEPT !.inbox = @ - 1, !.writer = ended]
                             ELSE [f EXCEPT !.inbox = @ - 1, !.got = @ + 1])
           \/ /\ f.inbox = 0 /\ ~f.entry /\ tnHand.relay[f.tunnel] # s
              /\ SetFront(s, [f EXCEPT !.writer = ended])
        /\ UNCHANGED <<tnConn, tnHand, tnDown, tnUp, tnBack>>

\* proxy_http_once: the request, the half close, the wait for the head.  A
\* request that cannot be built, and a head that does not come in time or is
\* refused, return without close_session.
SendRequest(s) ==
    /\ tnFront[s].reader = "ask"
    /\ \/ /\ Sends(s, "data")
          /\ SetFront(s, IF tnOut[TunnelOf(s)]
                         THEN [tnFront[s] EXCEPT !.reader = "half", !.asked = @ + 1]
                         ELSE [tnFront[s] EXCEPT !.reader = "done", !.entry = FALSE])
       \/ SetFront(s, [tnFront[s] EXCEPT !.reader = "done"]) /\ UNCHANGED tnDown
    /\ UNCHANGED <<tnConn, tnHand, tnUp, tnBack>>

HalfClose(s) ==
    /\ tnFront[s].reader = "half"
    /\ Sends(s, "close")
    /\ SetFront(s, [tnFront[s] EXCEPT !.reader = "head"])
    /\ UNCHANGED <<tnConn, tnHand, tnUp, tnBack>>

AwaitHead(s) ==
    LET f == tnFront[s]
    IN  /\ f.reader = "head"
        /\ \/ f.inbox > 0 /\ SetFront(s, [f EXCEPT !.inbox = @ - 1, !.got = @ + 1,
                                                   !.reader = "done", !.writer = "recv"])
           \/ SetFront(s, [f EXCEPT !.reader = "done", !.inbox = 0])
        /\ UNCHANGED <<tnConn, tnHand, tnDown, tnUp, tnBack>>

\* TunnelBodyStream is dropped when the body ends or the client leaves:
\* try_send never waits.
DropBody(s) ==
    LET t == TunnelOf(s)
    IN  /\ \/ tnFront[s].writer = "drop"
           \/ tnFront[s].writer = "recv" /\ Frontend[s] = "http" /\ tnFront[s].client = "closed"
        /\ tnDown' = IF tnOut[t] /\ Len(tnDown[t]) < QueueCap
                     THEN [tnDown EXCEPT ![t] = Append(@, Frame("close", s))] ELSE tnDown
        /\ SetFront(s, [tnFront[s] EXCEPT !.writer = "done", !.entry = FALSE, !.inbox = 0])
        /\ UNCHANGED <<tnConn, tnHand, tnUp, tnBack>>

\* A raw client ends its request by shutting down its write half; it still reads.
ClientHalfCloses(s) ==
    /\ tnFront[s].client = "open" /\ Frontend[s] = "tcp" /\ s \notin tnWorld.stays
    /\ SetFront(s, [tnFront[s] EXCEPT !.client = "half"])
    /\ UNCHANGED <<tnConn, tnHand, tnDown, tnUp, tnBack>>

\* The client leaves: on its own, or when its socket is shut down.
Shut(s) == tnFront[s].writer \in {"close", "done"}
ClientLeaves(s) ==
    /\ tnFront[s].client \in {"open", "half"} /\ (s \in tnWorld.stays => Shut(s))
    /\ SetFront(s, [tnFront[s] EXCEPT !.client = "closed"])
    /\ UNCHANGED <<tnConn, tnHand, tnDown, tnUp, tnBack>>

\* A client whose socket the relay has shut down leaves.
ShutClientLeaves(s) == Shut(s) /\ ClientLeaves(s)

Finished(s) == tnFront[s].reader = "done" /\ tnFront[s].writer \in {"none", "done"}

-----------------------------------------------------------------------------
(* read_loop of the relay, dispatch loop and bridge_session of the agent.  *)

\* Faulty: a close drops what the inbox holds.
RelayReadsCutsOff(t) ==
    LET m == tnUp[t][1]
        f == tnFront[m.session]
    IN  /\ tnCtl[t] = "read" /\ tnHand.relay[t] = 0 /\ tnUp[t] # <<>>
        /\ tnUp' = [tnUp EXCEPT ![t] = Tail(@)]
        /\ tnHand' = IF m.kind = "data" /\ f.entry THEN [tnHand EXCEPT !.relay[t] = m.session] ELSE tnHand
        /\ SetFront(m.session, IF m.kind = "close" THEN [f EXCEPT !.entry = FALSE, !.inbox = 0] ELSE f)
        /\ UNCHANGED <<tnConn, tnDown, tnBack>>

\* One frame from the agent: a payload for a session that is open is taken in
\* hand, with a clone of the sender of its inbox.
RelayReads(t) ==
    LET m == tnUp[t][1]
        f == tnFront[m.session]
    IN  /\ tnCtl[t] = "read" /\ tnHand.relay[t] = 0 /\ tnUp[t] # <<>>
        /\ tnUp' = [tnUp EXCEPT ![t] = Tail(@)]
        /\ tnHand' = IF m.kind = "data" /\ f.entry THEN [tnHand EXCEPT !.relay[t] = m.session] ELSE tnHand
        /\ SetFront(m.session, IF m.kind = "close" THEN [f EXCEPT !.entry = FALSE] ELSE f)
        /\ UNCHANGED <<tnConn, tnDown, tnBack>>

\* inbox.send: a full inbox holds up the whole tunnel; a session without
\* receiver loses its entry.
RelayPlaces(t) ==
    LET s == tnHand.relay[t]
        f == tnFront[s]
    IN  /\ s # 0
        /\ \/ Receiving(s) /\ f.inbox < InboxCap /\ SetFront(s, [f EXCEPT !.inbox = @ + 1])
           \/ ~Receiving(s) /\ SetFront(s, [f EXCEPT !.entry = FALSE])
        /\ tnHand' = [tnHand EXCEPT !.relay[t] = 0]
        /\ UNCHANGED <<tnConn, tnDown, tnUp, tnBack>>

SetBack(s, r) == tnBack' = [tnBack EXCEPT ![s] = r]

\* One frame from the relay, in run_once.
AgentReads ==
    LET t == tnAgent.tunnel
        m == tnDown[t][1]
        b == tnBack[m.session]
    IN  /\ tnAgent.pc = "up" /\ tnLink[t] /\ tnHand.agent = 0 /\ tnOut[t] /\ tnDown[t] # <<>>
        /\ tnDown' = [tnDown EXCEPT ![t] = Tail(@)]
        /\ tnHand' = IF m.kind = "data" /\ b.entry THEN [tnHand EXCEPT !.agent = m.session] ELSE tnHand
        /\ SetBack(m.session, CASE m.kind = "open" -> [NoBack EXCEPT !.entry = TRUE, !.bridge = "connect"]
                                 [] m.kind = "close" -> [b EXCEPT !.entry = FALSE]
                                 [] OTHER -> b)
        /\ UNCHANGED <<tnConn, tnUp, tnFront>>

\* tx.send: the loop waits for room until the bridge has ended.
AgentPlaces ==
    LET s == tnHand.agent
        b == tnBack[s]
    IN  /\ s # 0
        /\ \/ b.bridge # "done" /\ b.inbox < InboxCap /\ SetBack(s, [b EXCEPT !.inbox = @ + 1])
           \/ b.bridge = "done" /\ SetBack(s, [b EXCEPT !.entry = FALSE])
        /\ tnHand' = [tnHand EXCEPT !.agent = 0]
        /\ UNCHANGED <<tnConn, tnDown, tnUp, tnFront>>

\* A backend that cannot be reached ends the bridge; the relay is not told.
Connect(s) ==
    /\ tnBack[s].bridge = "connect"
    /\ \/ SetBack(s, [tnBack[s] EXCEPT !.bridge = "pump", !.pump = "run"])
       \/ SetBack(s, [tnBack[s] EXCEPT !.bridge = "done", !.entry = FALSE, !.inbox = 0])
    /\ UNCHANGED <<tnConn, tnHand, tnDown, tnUp, tnFront>>

\* relay -> backend, then the shutdown of the write half and the wait for the
\* other pump.  The bridge itself keeps the map, and so its own sender, alive.
Feed(s) ==
    LET b == tnBack[s]
    IN  /\ \/ /\ b.bridge = "pump" /\ b.inbox > 0
              /\ SetBack(s, IF b.closed THEN [b EXCEPT !.inbox = @ - 1, !.bridge = "join"]
                            ELSE [b EXCEPT !.inbox = @ - 1, !.fed = TRUE])
           \/ /\ b.bridge = "pump" /\ b.inbox = 0 /\ ~b.entry
              /\ SetBack(s, [b EXCEPT !.bridge = "join", !.eof = TRUE])
           \/ /\ b.bridge = "join" /\ b.pump = "done"
              /\ SetBack(s, [b EXCEPT !.bridge = "done", !.entry = FALSE, !.inbox = 0])
        /\ UNCHANGED <<tnConn, tnHand, tnDown, tnUp, tnFront>>

\* backend -> relay: a chunk of the answer, or the end of it.
Pump(s) ==
    LET b == tnBack[s]
        t == TunnelOf(s)
        room == tnLink[t] => Len(tnUp[t]) < SocketCap
        put(kind) == IF tnLink[t] THEN [tnUp EXCEPT ![t] = Append(@, Frame(kind, s))] ELSE tnUp
    IN  /\ \/ /\ b.pump = "run" /\ ~b.closed /\ b.fed /\ b.sent < Reply /\ room
              /\ SetBack(s, [b EXCEPT !.sent = @ + 1, !.pump = IF tnLink[t] THEN "run" ELSE "close"])
              /\ tnUp' = put("data")
           \/ /\ b.pump = "run" /\ ~b.closed /\ (b.eof \/ b.sent = Reply)
              /\ b.eof /\ b.fed => b.sent = Reply
              /\ SetBack(s, [b EXCEPT !.closed = TRUE, !.pump = "close"])
              /\ UNCHANGED tnUp
           \/ /\ b.pump = "close" /\ room
              /\ SetBack(s, [b EXCEPT !.pump = "done"])
              /\ tnUp' = put("close")
        /\ UNCHANGED <<tnConn, tnHand, tnDown, tnFront>>

-----------------------------------------------------------------------------
TunnelInit ==
    /\ tnWorld \in Worlds
    /\ tnAgent = [pc |-> "dial", tunnel |-> 0]
    /\ tnLink = [t \in Tunnels |-> FALSE] /\ tnRows = {}
    /\ tnCtl = [t \in Tunnels |-> "none"] /\ tnOut = [t \in Tunnels |-> FALSE]
    /\ tnDown = [t \in Tunnels |-> <<>>] /\ tnUp = [t \in Tunnels |-> <<>>]
    /\ tnHand = [agent |-> 0, relay |-> [t \in Tunnels |-> 0]]
    /\ tnFront = [s \in Sessions |-> NoFront]
    /\ tnBack = [s \in Sessions |-> NoBack]
    /\ tnSpent = [cuts |-> 0, refusals |-> 0]

FrontStep(s) ==
    \/ SendOpen(s) \/ ReadEof(s) \/ CloseFront(s) \/ Deliver(s)
    \/ SendRequest(s) \/ HalfClose(s) \/ AwaitHead(s) \/ DropBody(s)

BridgeStep(s) == Connect(s) \/ Feed(s)

AgentStep == Dial \/ Backoff \/ AgentSeesEof \/ AgentReads \/ AgentPlaces
RelayStep(t) == RelaySeesEof(t) \/ RelayReads(t) \/ RelayPlaces(t)

TunnelNext ==
    \/ AgentStep \/ Cut
    \/ \E t \in Tunnels : RelayStep(t) \/ WriterEnds(t) \/ Evict(t)
    \/ \E s \in Sessions, t \in Tunnels : Select(s, t)
    \/ \E s \in Sessions : FrontStep(s) \/ BridgeStep(s) \/ Pump(s)
    \/ \E s \in Sessions : SendData(s) \/ ClientHalfCloses(s) \/ ClientLeaves(s)

\* Every task is polled, timers fire, a client reads what it is sent, and it
\* leaves once its own socket was shut down.
TunnelFairness ==
    /\ WF_tnVars(AgentStep)
    /\ \A t \in Tunnels : WF_tnVars(RelayStep(t)) /\ WF_tnVars(WriterEnds(t))
    /\ \A s \in Sessions :
         /\ WF_tnVars(FrontStep(s)) /\ WF_tnVars(BridgeStep(s)) /\ WF_tnVars(Pump(s))
         /\ WF_tnVars(ShutClientLeaves(s))

TunnelSpec == TunnelInit /\ [][TunnelNext]_tnVars /\ TunnelFairness

-----------------------------------------------------------------------------
\* Shape of the state; every queue stays within its bound.
TunnelTypeOK ==
    /\ tnAgent.pc \in {"dial", "wait", "up", "fatal"} /\ tnAgent.tunnel \in 0..MaxConns
    /\ tnRows \subseteq Tunnels
    /\ \A t \in Tunnels : Len(tnDown[t]) <= QueueCap /\ Len(tnUp[t]) <= SocketCap
    /\ \A s \in Sessions : tnFront[s].inbox <= InboxCap /\ tnBack[s].inbox <= InboxCap

\* An answer is delivered whole: while the tunnel is up and neither half of the
\* client's socket was closed by the client, the client's stream ends only after
\* every chunk the backend sent, although the close travels in the same bounded
\* queues as the data and one session's full inbox holds up the others.
NothingTruncated ==
    \A s \in Sessions :
        /\ tnFront[s].writer \in {"close", "drop", "done"} /\ tnFront[s].client = "open"
        /\ tnLink[TunnelOf(s)]
        => tnBack[s].closed /\ tnFront[s].got = tnBack[s].sent

\* The same for a client that has ended its request with a half close and waits
\* for the answer, the way the HTTP proxy uses a session: "Half-close the request
\* side ... while continuing to stream the response back" (ws_frontend.rs:145).
\* handle_frontend takes the end of the read half for the end of the session.
HalfCloseKeepsAnswer ==
    \A s \in Sessions :
        /\ tnFront[s].writer \in {"close", "drop", "done"} /\ tnFront[s].client \in {"open", "half"}
        /\ tnLink[TunnelOf(s)]
        => tnBack[s].closed /\ tnFront[s].got = tnBack[s].sent

\* A finished session of the raw or WebSocket frontend has no entry left in
\* TunnelHandle.sessions, whichever pump ended first and wherever it failed.
NoSessionLeft ==
    \A s \in Sessions : Frontend[s] = "tcp" /\ Finished(s) => ~tnFront[s].entry


\* An agent whose connection drops comes back with a new tunnel, unless the relay
\* was full or the model's connections are used up.
AgentComesBack ==
    \A t \in 1..(MaxConns - 1) :
        tnAgent.tunnel = t /\ ~tnLink[t] ~> tnAgent.tunnel > t \/ tnAgent.pc = "fatal"

\* The end of the agent's connection ends its sessions: "Dropping our
\* Arc<TunnelHandle> and removing the registry row drops every frame_tx clone,
\* which closes frame_rx" (control.rs:100).  The frontend tasks hold clones, and
\* with them the senders of the inboxes they wait on.
SessionEndsWithAgent ==
    \A s \in Sessions :
        TunnelOf(s) # 0 /\ tnCtl[IF TunnelOf(s) = 0 THEN 1 ELSE TunnelOf(s)] = "gone"
        ~> Finished(s)

\* An evicted tunnel is replaced: eviction "closes the agent writer's queue and
\* tears down the per-tunnel tasks" (eviction.rs:5), after which the agent would
\* dial again.  read_loop holds the handle, so nothing is torn down.
EvictedComesBack ==
    \A t \in 1..(MaxConns - 1) :
        tnAgent.tunnel = t /\ t \notin tnRows ~> tnAgent.tunnel > t \/ tnAgent.pc = "fatal"
=============================================================================
