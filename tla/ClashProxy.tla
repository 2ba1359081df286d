----------------------------- MODULE ClashProxy -----------------------------
(***************************************************************************)
(* The local SOCKS5 proxy (internal/native/clash_vless.go): clash.start    *)
(* and clash.stop, the goroutine that accepts clients, and the goroutines  *)
(* that carry one client each through the SOCKS5 handshake, the VLESS dial *)
(* and the two copies of the relay.  clashRT is one for the process and is *)
(* never replaced, so the goroutines of one start meet those of the next.  *)
(*                                                                         *)
(* A start is named by the listener it opens; so is the accept loop it     *)
(* spawns.  A client's stream is the greeting, the request and payload.    *)
(* Of what clash.status reports for diagnosis the model keeps conns; the   *)
(* counts of accepts, errors and bytes and the last error only ever grow   *)
(* or change text between two starts, and no step reads them.              *)
(***************************************************************************)
EXTENDS Integers, Sequences, FiniteSets

CONSTANTS
  Listeners,   \* one for each start
  Clients,     \* connections of clients, each with its goroutine
  Nodes,       \* outbound nodes a configuration may name
  WsNodes,     \* those of them with network = "ws"
  MaxPayload,  \* items that a client sends after its request
  None

\* What the constants have to be.
ProxyAssumption ==
  /\ IsFiniteSet(Listeners) /\ IsFiniteSet(Clients)
  /\ None \notin Listeners
  /\ MaxPayload \in Nat

VARIABLES
  rt,        \* clashRT: running, ln, node, conns
  listening, \* listeners that the system holds open
  backlog,   \* the listener in whose queue a client waits
  loop,      \* the accept loops
  client,    \* what each client has done to its connection
  handler,   \* the goroutine of each client
  config     \* history: the node each listener was started with

vars == <<rt, listening, backlog, loop, client, handler, config>>

\* A greeting, a CONNECT request, one of a version or command that is refused,
\* and payload.
Greeting == -3
Connecting == -2
Refused == -1
Item == {Greeting, Connecting, Refused} \cup (1 .. MaxPayload)
Streams == UNION {[1 .. n -> Item] : n \in 0 .. MaxPayload + 2}

Runtime == [running : BOOLEAN, ln : Listeners \cup {None}, node : Nodes \cup {None},
            conns : Int]
LoopState == [pc : {"none", "top", "accept", "accepted", "failed", "exited"},
              ln : Listeners \cup {None}, node : Nodes \cup {None},
              conn : Clients \cup {None}]

\* wrote: what the client has written; unread: what of it lies in the socket;
\* shut: it has closed its side; early: it wrote payload before the reply.
ClientState == [wrote : Streams, unread : Streams, shut : BOOLEAN, early : BOOLEAN]

\* at: the listener it was accepted on; buf: the handshake's bufio.Reader;
\* sent: payload written to the remote end; upDone and downDone: the copies
\* that have ended; gone: the remote end has closed; born, died: the starts
\* that had happened when conns was raised and lowered.
HandlerState ==
  [pc : {"none", "accepted", "greeting", "request", "dial", "header", "count", "relay",
         "lower", "gone"},
   at : Listeners \cup {None}, node : Nodes \cup {None}, buf : Streams, sent : Streams,
   upDone : BOOLEAN, downDone : BOOLEAN, gone : BOOLEAN,
   born : Nat, died : Nat]

NoLoop == [pc |-> "none", ln |-> None, node |-> None, conn |-> None]
NoHandler ==
  [pc |-> "none", at |-> None, node |-> None, buf |-> <<>>, sent |-> <<>>,
   upDone |-> FALSE, downDone |-> FALSE, gone |-> FALSE, born |-> 0, died |-> 0]

Starts == Cardinality({l \in Listeners : loop[l].pc # "none"})

Init ==
  /\ rt = [running |-> FALSE, ln |-> None, node |-> None, conns |-> 0]
  /\ listening = {}
  /\ backlog = [c \in Clients |-> None]
  /\ loop = [l \in Listeners |-> NoLoop]
  /\ client = [c \in Clients |-> [wrote |-> <<>>, unread |-> <<>>, shut |-> FALSE,
                                  early |-> FALSE]]
  /\ handler = [c \in Clients |-> NoHandler]
  /\ config = [l \in Listeners |-> None]

-----------------------------------------------------------------------------
(* The natives.                                                            *)

\* Mistake: the count of the last start is kept.
KeepsConns(l, n) ==
  /\ ~rt.running /\ loop[l].pc = "none"
  /\ rt' = [rt EXCEPT !.running = TRUE, !.ln = l, !.node = n]
  /\ listening' = listening \cup {l}
  /\ config' = [config EXCEPT ![l] = n]
  /\ loop' = [loop EXCEPT ![l] = [NoLoop EXCEPT !.pc = "top"]]
  /\ UNCHANGED <<backlog, client, handler>>

\* A configuration that does not parse and a listen that fails change nothing.
ClashStart(l, n) ==
  /\ ~rt.running /\ loop[l].pc = "none"
  /\ rt' = [running |-> TRUE, ln |-> l, node |-> n, conns |-> 0]
  /\ listening' = listening \cup {l}
  /\ config' = [config EXCEPT ![l] = n]
  /\ loop' = [loop EXCEPT ![l] = [NoLoop EXCEPT !.pc = "top"]]
  /\ UNCHANGED <<backlog, client, handler>>

\* Closing a listener resets the connections that wait in its queue.
Closed(ls) == [c \in Clients |-> IF backlog[c] \in ls THEN None ELSE backlog[c]]

ClashStop ==
  /\ rt.running
  /\ listening' = listening \ {rt.ln}
  /\ backlog' = Closed({rt.ln})
  /\ rt' = [rt EXCEPT !.running = FALSE, !.ln = None]
  /\ UNCHANGED <<loop, client, handler, config>>
-----------------------------------------------------------------------------
(* clashAcceptLoop.                                                        *)

\* Mistake: the loop goes on accepting when the proxy has been stopped.
NoStopTest(l) ==
  /\ loop[l].pc = "top"
  /\ loop' = [loop EXCEPT ![l] =
                IF rt.ln = None THEN @ ELSE [NoLoop EXCEPT !.pc = "accept", !.ln = rt.ln, !.node = rt.node]]
  /\ UNCHANGED <<rt, listening, backlog, client, handler, config>>

\* Mistake: the loop takes the listener without a look at what it is.
NoNilTest(l) ==
  /\ loop[l].pc = "top"
  /\ loop' = [loop EXCEPT ![l] = [NoLoop EXCEPT !.pc = "accept", !.ln = rt.ln, !.node = rt.node]]
  /\ UNCHANGED <<rt, listening, backlog, client, handler, config>>

\* One look at the runtime under its lock.
LoopTop(l) ==
  /\ loop[l].pc = "top"
  /\ loop' = [loop EXCEPT ![l] =
                IF rt.running /\ rt.ln # None
                THEN [NoLoop EXCEPT !.pc = "accept", !.ln = rt.ln, !.node = rt.node]
                ELSE [@ EXCEPT !.pc = "exited"]]
  /\ UNCHANGED <<rt, listening, backlog, client, handler, config>>

Accept(l, c) ==
  /\ loop[l].pc = "accept" /\ loop[l].ln \in listening /\ backlog[c] = loop[l].ln
  /\ backlog' = [backlog EXCEPT ![c] = None]
  /\ handler' = [handler EXCEPT ![c] = [NoHandler EXCEPT !.pc = "accepted", !.at = loop[l].ln]]
  /\ loop' = [loop EXCEPT ![l].pc = "accepted", ![l].conn = c]
  /\ UNCHANGED <<rt, listening, client, config>>

\* Mistake: the node is read again once a client has come.
NodeNow(l) == rt.node

NodeOf(l) == loop[l].node

\* The counts are raised under the lock, and the goroutine is started.
Spawn(l) ==
  /\ loop[l].pc = "accepted"
  /\ handler' = [handler EXCEPT ![loop[l].conn].pc = "greeting",
                                ![loop[l].conn].node = NodeOf(l)]
  /\ loop' = [loop EXCEPT ![l].pc = "top", ![l].conn = None]
  /\ UNCHANGED <<rt, listening, backlog, client, config>>

\* The listener is closed, or Accept fails for a reason of the system's.
AcceptFails(l) ==
  /\ loop[l].pc = "accept"
  /\ loop' = [loop EXCEPT ![l].pc = "failed"]
  /\ UNCHANGED <<rt, listening, backlog, client, handler, config>>

\* Mistake: the loop ends whenever Accept fails.
EndsAtError(l) ==
  /\ loop[l].pc = "failed"
  /\ loop' = [loop EXCEPT ![l].pc = "exited"]
  /\ UNCHANGED <<rt, listening, backlog, client, handler, config>>

\* rt.running again, under the lock; if it runs, a sleep of 50 ms.
LoopStill(l) ==
  /\ loop[l].pc = "failed"
  /\ loop' = [loop EXCEPT ![l].pc = IF rt.running THEN "top" ELSE "exited"]
  /\ UNCHANGED <<rt, listening, backlog, client, handler, config>>
-----------------------------------------------------------------------------
(* clashHandleClient.                                                      *)

Goto(c, pc) == [handler EXCEPT ![c].pc = pc]

\* The error is recorded and the connections are closed.
Fails(c) == Goto(c, "gone")

\* socks5Handshake reads through a bufio.Reader: a read that finds its buffer
\* empty takes what lies in the socket.
Buffered(c) == IF handler[c].buf = <<>> THEN client[c].unread ELSE handler[c].buf
Drained(c) == IF handler[c].buf = <<>> THEN <<>> ELSE client[c].unread

Handshake(c, pc, wanted, next) ==
  /\ handler[c].pc = pc
  /\ Buffered(c) # <<>>
  /\ handler' = IF Head(Buffered(c)) = wanted
                THEN [handler EXCEPT ![c].buf = Tail(Buffered(c)), ![c].pc = next]
                ELSE Fails(c)
  /\ client' = [client EXCEPT ![c].unread = Drained(c)]
  /\ UNCHANGED <<rt, listening, backlog, loop, config>>

ReadGreeting(c) == Handshake(c, "greeting", Greeting, "request")
ReadRequest(c) == Handshake(c, "request", Connecting, "dial")

\* The client closes, or the deadline of 30 seconds ends the read.
HandshakeEnds(c) ==
  /\ handler[c].pc \in {"greeting", "request"}
  /\ handler' = Fails(c)
  /\ UNCHANGED <<rt, listening, backlog, loop, client, config>>

\* dialVLESS: connect and write the header; the dialer has a deadline.
Dial(c) ==
  /\ handler[c].pc = "dial"
  /\ \/ handler' = Goto(c, "header")
     \/ handler' = Fails(c)
  /\ UNCHANGED <<rt, listening, backlog, loop, client, config>>

\* The read of the response header has no deadline: it ends when the remote
\* end answers or closes.  Answering is followed by the SOCKS5 reply.
DialAnswered(c) ==
  /\ handler[c].pc = "header"
  /\ handler' = IF handler[c].gone THEN Fails(c) ELSE Goto(c, "count")
  /\ UNCHANGED <<rt, listening, backlog, loop, client, config>>

\* The count on the way in.
EnterRelay(c) ==
  /\ handler[c].pc = "count"
  /\ rt' = [rt EXCEPT !.conns = @ + 1]
  /\ handler' = [handler EXCEPT ![c].pc = "relay", ![c].born = Starts]
  /\ UNCHANGED <<listening, backlog, loop, client, config>>

\* io.Copy(remote, client): one item, or its end and the CloseWrite after it.
CopyUp(c) ==
  /\ handler[c].pc = "relay" /\ ~handler[c].upDone
  /\ client[c].unread # <<>> /\ ~handler[c].gone
  /\ handler' = [handler EXCEPT ![c].sent = Append(@, Head(client[c].unread))]
  /\ client' = [client EXCEPT ![c].unread = Tail(@)]
  /\ UNCHANGED <<rt, listening, backlog, loop, config>>

\* Mistake: the end of the client's side is taken for the end of its data.
DropsTail(c) ==
  /\ handler[c].pc = "relay" /\ ~handler[c].upDone
  /\ client[c].shut \/ handler[c].gone
  /\ handler' = [handler EXCEPT ![c].upDone = TRUE]
  /\ UNCHANGED <<rt, listening, backlog, loop, client, config>>

UpEnds(c) ==
  /\ handler[c].pc = "relay" /\ ~handler[c].upDone
  /\ \/ client[c].unread = <<>> /\ client[c].shut
     \/ client[c].unread # <<>> /\ handler[c].gone
  /\ handler' = [handler EXCEPT ![c].upDone = TRUE]
  /\ UNCHANGED <<rt, listening, backlog, loop, client, config>>

\* io.Copy(client, remote) ends when the remote end has closed.
DownEnds(c) ==
  /\ handler[c].pc = "relay" /\ ~handler[c].downDone /\ handler[c].gone
  /\ handler' = [handler EXCEPT ![c].downDone = TRUE]
  /\ UNCHANGED <<rt, listening, backlog, loop, client, config>>

\* Mistake: the end of the copy is not passed on.
NeverTold(c) == FALSE

\* closeWrite(remote): the remote end learns that the client's data are over.
\* A websocket connection has no CloseWrite.
EndPassedOn(c) == handler[c].upDone /\ handler[c].node \notin WsNodes

\* wg.Wait, then the deferred calls.
RelayEnds(c) ==
  /\ handler[c].pc = "relay" /\ handler[c].upDone /\ handler[c].downDone
  /\ handler' = Goto(c, "lower")
  /\ UNCHANGED <<rt, listening, backlog, loop, client, config>>

LeaveRelay(c) ==
  /\ handler[c].pc = "lower"
  /\ rt' = [rt EXCEPT !.conns = @ - 1]
  /\ handler' = [handler EXCEPT ![c].pc = "gone", ![c].died = Starts]
  /\ UNCHANGED <<listening, backlog, loop, client, config>>
-----------------------------------------------------------------------------
(* What the clients and the remote ends do.                                *)

Connected(c) == backlog[c] # None \/ handler[c].pc \notin {"none", "gone"}
Replied(c) == handler[c].pc \in {"count", "relay", "lower"}
Payload(c) == SubSeq(client[c].wrote, 3, Len(client[c].wrote))

Connect(c, l) ==
  /\ backlog[c] = None /\ handler[c].pc = "none" /\ client[c].wrote = <<>>
  /\ l \in listening
  /\ backlog' = [backlog EXCEPT ![c] = l]
  /\ UNCHANGED <<rt, listening, loop, client, handler, config>>

NextItems(c) ==
  LET n == Len(client[c].wrote)
  IN CASE n = 0 -> {Greeting, Refused}
       [] n = 1 -> {Connecting, Refused}
       [] n \in 2 .. MaxPayload + 1 -> {n - 1}
       [] OTHER -> {}

ClientWrites(c, item) ==
  /\ Connected(c) /\ ~client[c].shut /\ item \in NextItems(c)
  /\ client' = [client EXCEPT ![c].wrote = Append(@, item),
                              ![c].unread = Append(@, item),
                              ![c].early = @ \/ (item \in 1 .. MaxPayload /\ ~Replied(c))]
  /\ UNCHANGED <<rt, listening, backlog, loop, handler, config>>

ClientShuts(c) ==
  /\ Connected(c) /\ ~client[c].shut
  /\ client' = [client EXCEPT ![c].shut = TRUE]
  /\ UNCHANGED <<rt, listening, backlog, loop, handler, config>>

RemoteCloses(c) ==
  /\ handler[c].pc \in {"header", "count", "relay"} /\ ~handler[c].gone
  /\ handler' = [handler EXCEPT ![c].gone = TRUE]
  /\ UNCHANGED <<rt, listening, backlog, loop, client, config>>
-----------------------------------------------------------------------------
AcceptLoop(l) ==
  \/ LoopTop(l) \/ Spawn(l) \/ LoopStill(l)
  \/ \E c \in Clients : Accept(l, c)
  \/ AcceptFails(l)

HandleClient(c) ==
  \/ ReadGreeting(c) \/ ReadRequest(c) \/ HandshakeEnds(c)
  \/ Dial(c) \/ DialAnswered(c) \/ EnterRelay(c)
  \/ CopyUp(c) \/ UpEnds(c) \/ DownEnds(c) \/ RelayEnds(c) \/ LeaveRelay(c)

Peers(c) ==
  \/ \E l \in Listeners : Connect(c, l)
  \/ \E item \in NextItems(c) : ClientWrites(c, item)
  \/ ClientShuts(c) \/ RemoteCloses(c)

Next ==
  \/ \E l \in Listeners, n \in Nodes : ClashStart(l, n)
  \/ ClashStop
  \/ \E l \in Listeners : AcceptLoop(l)
  \/ \E c \in Clients : HandleClient(c) \/ Peers(c)

Spec == Init /\ [][Next]_vars

\* Goroutines run; an Accept on a closed listener returns; a peer that has
\* been told the end of the other's data closes in its turn.
LoopRuns(l) == AcceptLoop(l) /\ (loop[l].pc = "accept" => loop[l].ln \notin listening)
RemoteAnswersEnd(c) == EndPassedOn(c) /\ RemoteCloses(c)
ClientAnswersEnd(c) == handler[c].downDone /\ ClientShuts(c)

Fairness ==
  /\ \A l \in Listeners : WF_vars(LoopRuns(l))
  /\ \A c \in Clients :
       /\ WF_vars(CopyUp(c)) /\ WF_vars(UpEnds(c)) /\ WF_vars(DownEnds(c))
       /\ WF_vars(RelayEnds(c)) /\ WF_vars(LeaveRelay(c))
       /\ WF_vars(RemoteAnswersEnd(c)) /\ WF_vars(ClientAnswersEnd(c))

FairSpec == Spec /\ Fairness
-----------------------------------------------------------------------------
TypeOK ==
  /\ rt \in Runtime
  /\ listening \subseteq Listeners
  /\ backlog \in [Clients -> Listeners \cup {None}]
  /\ loop \in [Listeners -> LoopState]
  /\ \A l \in Listeners : loop[l].pc = "accept" => loop[l].ln # None
  /\ client \in [Clients -> ClientState]
  /\ handler \in [Clients -> HandlerState]
  /\ config \in [Listeners -> Nodes \cup {None}]

\* A client is carried to the node of the configuration whose port it
\* connected to, also when the proxy is stopped and started with another
\* configuration while the accept loop is between its steps
\* (clashAcceptLoop reads listener and node together).
NodeOfItsListener ==
  \A c \in Clients : handler[c].pc \notin {"none", "accepted"} =>
                    handler[c].node = config[handler[c].at]

\* While the proxy runs, the accept loop of its start does too: an error of
\* Accept, or a stop and start while it was looking, does not end it.
KeepsAccepting == rt.running => loop[rt.ln].pc \in {"top", "accept", "accepted", "failed"}

\* clash.status counts the relays that this start has begun and that have not
\* ended, less those of earlier starts that ended under it: start resets the
\* counter under relays that go on and lower it when they end.
ConnsCounted ==
  rt.conns =
    Cardinality({c \in Clients : handler[c].pc \in {"relay", "lower"}
                                   /\ handler[c].born = Starts})
    - Cardinality({c \in Clients : handler[c].pc = "gone" /\ handler[c].died = Starts
                                     /\ handler[c].born < Starts})

\* When the copy to the remote end is over and the remote end has not closed,
\* it has been sent all that the client wrote after its request, in order,
\* unless the client wrote before it had the reply: the handshake's reader
\* keeps what it has read beyond the request.
NothingLost ==
  \A c \in Clients :
    handler[c].upDone /\ ~handler[c].gone /\ ~client[c].early
      => handler[c].sent = Payload(c)

\* Once the proxy is stopped, the accept loops of this start and of all
\* earlier ones end, unless it is started again.
StopEndsLoops ==
  ~rt.running ~> (rt.running \/ \A l \in Listeners : loop[l].pc \in {"none", "exited"})

\* A relay over TCP or TLS ends when either side has closed, a relay over a
\* websocket when the remote end has.
RelayFinishes ==
  \A c \in Clients :
    (handler[c].pc = "relay"
       /\ (handler[c].gone \/ (client[c].shut /\ handler[c].node \notin WsNodes)))
      ~> handler[c].pc = "gone"
=============================================================================
