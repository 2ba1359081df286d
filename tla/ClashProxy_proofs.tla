--------------------------- MODULE ClashProxy_proofs ---------------------------
(***************************************************************************)
(* Proofs about ClashProxy, for every set of starts, clients and nodes and *)
(* payloads of any length, as one of the services of a process.            *)
(***************************************************************************)
EXTENDS MCServices, FiniteSetTheorems, SequenceTheorems, TLAPS

-----------------------------------------------------------------------------
(* The invariant: who serves whom.                                         *)

Started(l) == loop[l].pc # "none"

\* The runtime names an open listener and the node it was started with.
RuntimeMeans ==
  IF rt.running
  THEN /\ rt.ln \in listening /\ rt.node = config[rt.ln]
  ELSE rt.ln = None

\* A loop that has looked at the runtime holds a listener and its node.
LoopsMean ==
  \A l \in Listeners : loop[l].pc \in {"accept", "accepted", "failed"} =>
    /\ loop[l].ln \in Listeners /\ Started(loop[l].ln)
    /\ loop[l].node = config[loop[l].ln]

\* A client just accepted is in the hands of one loop.
HandedOver ==
  /\ \A l \in Listeners : loop[l].pc = "accepted" =>
       /\ loop[l].conn \in Clients
       /\ handler[loop[l].conn].pc = "accepted"
       /\ handler[loop[l].conn].at = loop[l].ln
  /\ \A l, m \in Listeners :
       loop[l].pc = "accepted" /\ loop[m].pc = "accepted" /\ loop[l].conn = loop[m].conn => l = m

\* A client waits in a queue before it has a goroutine, and its goroutine
\* serves it for a listener that was started.
ClientsMean ==
  \A c \in Clients :
    /\ backlog[c] # None => handler[c].pc = "none"
    /\ handler[c].pc = "none" => handler[c] = Proxy!NoHandler
    /\ handler[c].pc # "none" => handler[c].at \in Listeners /\ Started(handler[c].at)

Served ==
  /\ RuntimeMeans /\ Proxy!KeepsAccepting /\ LoopsMean /\ HandedOver /\ ClientsMean
  /\ Proxy!NodeOfItsListener
-----------------------------------------------------------------------------
(* The invariant: what has been carried.                                   *)

\* Items of the handshake that have been read.
ItemsRead(pc) ==
  IF pc \in {"none", "accepted", "greeting"} THEN 0 ELSE IF pc = "request" THEN 1 ELSE 2

\* Every item that a client wrote is in the socket, in the reader of the
\* handshake, with the remote end, or was part of the handshake; only the
\* failure of a handshake drops items.
Measured(c) ==
  /\ Len(handler[c].buf) + Len(handler[c].sent) + Len(client[c].unread) <= Len(client[c].wrote)
  /\ handler[c].pc # "gone" =>
       Len(client[c].wrote) = ItemsRead(handler[c].pc) + Len(handler[c].buf)
                                + Len(handler[c].sent) + Len(client[c].unread)

\* Before the relay nothing is sent, and two items at most are written but for
\* early payload.
Prepared(c) ==
  /\ handler[c].pc \notin {"relay", "lower", "gone"} => handler[c].sent = <<>> /\ ~handler[c].upDone
  /\ handler[c].pc \notin {"count", "relay", "lower", "gone"} /\ ~client[c].early =>
       Len(client[c].wrote) <= 2

\* In the relay the payload is sent or in the socket, and nothing is left when
\* the copy has ended, unless payload was early or the remote end closed.
Carried(c) ==
  /\ handler[c].pc \in {"count", "relay"} /\ ~client[c].early =>
       handler[c].sent \o client[c].unread = Proxy!Payload(c)
  /\ handler[c].upDone /\ ~handler[c].gone /\ ~client[c].early =>
       client[c].shut /\ client[c].unread = <<>> /\ handler[c].sent = Proxy!Payload(c)

AllCarried == \A c \in Clients : Measured(c) /\ Prepared(c) /\ Carried(c)
-----------------------------------------------------------------------------
(* The invariant: what is counted.                                         *)

Relaying == {c \in Clients : handler[c].pc \in {"relay", "lower"} /\ handler[c].born = Proxy!Starts}
Overstayed == {c \in Clients : handler[c].pc = "gone" /\ handler[c].died = Proxy!Starts
                                 /\ handler[c].born < Proxy!Starts}

\* Nothing was counted under a start that has not happened.
Dated ==
  \A c \in Clients : /\ handler[c].born <= Proxy!Starts /\ handler[c].died <= Proxy!Starts
                     /\ handler[c].pc # "gone" => handler[c].died = 0

Counted == Dated /\ rt.conns = Cardinality(Relaying) - Cardinality(Overstayed)

ProxyInv == Proxy!TypeOK /\ Served /\ AllCarried /\ Counted
-----------------------------------------------------------------------------
(* Sizes, and streams.                                                     *)

\* The instance has the definitions of FiniteSets under its own name.
LEMMA SameCardinality ==
  \A S : Proxy!Cardinality(S) = Cardinality(S) /\ Proxy!IsFiniteSet(S) = IsFiniteSet(S)
BY DEF Cardinality, IsFiniteSet, Proxy!Cardinality, Proxy!IsFiniteSet

LEMMA StreamIs ==
  ASSUME Proxy!ProxyAssumption, NEW s
  PROVE  s \in Proxy!Streams <=> s \in Seq(Proxy!Item) /\ Len(s) <= MaxPayload + 2
<1>1. ASSUME s \in Proxy!Streams PROVE s \in Seq(Proxy!Item) /\ Len(s) <= MaxPayload + 2
  <2>1. PICK n \in 0 .. MaxPayload + 2 : s \in [1 .. n -> Proxy!Item]
    BY <1>1 DEF Proxy!Streams
  <2>2. n \in Nat
    BY <2>1 DEF Proxy!ProxyAssumption
  <2>3. s \in Seq(Proxy!Item) /\ Len(s) = n
    BY <2>1, <2>2, SeqDef, LenProperties
  <2>. QED
    BY <2>1, <2>3 DEF Proxy!ProxyAssumption
<1>2. ASSUME s \in Seq(Proxy!Item), Len(s) <= MaxPayload + 2 PROVE s \in Proxy!Streams
  <2>1. s \in [1 .. Len(s) -> Proxy!Item] /\ Len(s) \in 0 .. MaxPayload + 2
    BY <1>2, LenProperties DEF Proxy!ProxyAssumption
  <2>. QED
    BY <2>1 DEF Proxy!Streams
<1>. QED
  BY <1>1, <1>2

LEMMA EmptyStream == <<>> \in Seq(Proxy!Item) /\ Len(<<>>) = 0
BY EmptySeq

\* What is behind the handshake grows with the stream.
LEMMA PayloadGrows ==
  ASSUME NEW w \in Seq(Proxy!Item), Len(w) >= 2, NEW x \in Proxy!Item
  PROVE  SubSeq(Append(w, x), 3, Len(w) + 1) = Append(SubSeq(w, 3, Len(w)), x)
<1>. DEFINE a == SubSeq(Append(w, x), 3, Len(w) + 1)
            b == Append(SubSeq(w, 3, Len(w)), x)
<1>1. Append(w, x) \in Seq(Proxy!Item) /\ Len(Append(w, x)) = Len(w) + 1
      /\ \A i \in 1 .. Len(w) + 1 : Append(w, x)[i] = IF i = Len(w) + 1 THEN x ELSE w[i]
  BY AppendProperties
<1>2. SubSeq(w, 3, Len(w)) \in Seq(Proxy!Item) /\ Len(SubSeq(w, 3, Len(w))) = Len(w) - 2
      /\ \A i \in 1 .. Len(w) - 2 : SubSeq(w, 3, Len(w))[i] = w[i + 2]
  <2>1. \A i \in 3 .. Len(w) : w[i] \in Proxy!Item
    BY ElementOfSeq
  <2>2. Len(w) \in Int
    BY LenProperties
  <2>3. /\ SubSeq(w, 3, Len(w)) \in Seq(Proxy!Item)
        /\ Len(SubSeq(w, 3, Len(w))) = IF 3 <= Len(w) THEN Len(w) - 3 + 1 ELSE 0
        /\ \A i \in 1 .. Len(w) - 3 + 1 : SubSeq(w, 3, Len(w))[i] = w[3 + i - 1]
    BY <2>1, <2>2, SubSeqProperties
  <2>4. Len(w) - 3 + 1 = Len(w) - 2 /\ \A i \in 1 .. Len(w) - 2 : 3 + i - 1 = i + 2
    BY <2>2
  <2>. QED
    BY <2>2, <2>3, <2>4
<1>3. a \in Seq(Proxy!Item) /\ Len(a) = Len(w) - 1
      /\ \A i \in 1 .. Len(w) - 1 : a[i] = Append(w, x)[i + 2]
  BY <1>1, SubSeqProperties
<1>4. b \in Seq(Proxy!Item) /\ Len(b) = Len(w) - 1
      /\ \A i \in 1 .. Len(w) - 1 : b[i] = IF i = Len(w) - 1 THEN x ELSE SubSeq(w, 3, Len(w))[i]
  BY <1>2, AppendProperties
<1>5. \A i \in 1 .. Len(w) - 1 : a[i] = b[i]
  BY <1>1, <1>2, <1>3, <1>4
<1>. HIDE DEF a, b
<1>6. a = b
  BY <1>3, <1>4, <1>5, SeqEqual
<1>. QED
  BY <1>6 DEF a, b

LEMMA MovesOver ==
  ASSUME NEW s \in Seq(Proxy!Item), NEW t \in Seq(Proxy!Item)
  PROVE  /\ \A x \in Proxy!Item : s \o Append(t, x) = Append(s \o t, x)
         /\ t # <<>> => Append(s, Head(t)) \o Tail(t) = s \o t
         /\ s \o <<>> = s
<1>1. \A x \in Proxy!Item : s \o Append(t, x) = Append(s \o t, x)
  BY ConcatProperties, AppendProperties, ConcatAssociative, SeqEqual
<1>2. t # <<>> => Append(s, Head(t)) \o Tail(t) = s \o t
  BY ConcatProperties, AppendProperties, HeadTailProperties
<1>3. s \o <<>> = s
  BY ConcatEmptySeq
<1>. QED
  BY <1>1, <1>2, <1>3
-----------------------------------------------------------------------------
(* Who serves whom: the accept loops.                                      *)

LEMMA StartServes ==
  ASSUME Proxy!ProxyAssumption, Proxy!TypeOK, Served, NEW l \in Listeners, NEW n \in Nodes, Proxy!ClashStart(l, n)
  PROVE  Served'
<1>1. /\ rt' = [running |-> TRUE, ln |-> l, node |-> n, conns |-> 0]
      /\ listening' = listening \cup {l}
      /\ \A m \in Listeners : config'[m] = IF m = l THEN n ELSE config[m]
      /\ \A m \in Listeners : loop'[m] = IF m = l THEN [Proxy!NoLoop EXCEPT !.pc = "top"] ELSE loop[m]
      /\ UNCHANGED <<backlog, client, handler>>
      /\ loop[l].pc = "none"
  BY DEF Proxy!ClashStart, Proxy!TypeOK
<1>2. loop'[l].pc = "top"
  BY <1>1 DEF Proxy!NoLoop
<1>3. RuntimeMeans' /\ Proxy!KeepsAccepting'
  BY <1>1, <1>2 DEF RuntimeMeans, Proxy!KeepsAccepting
<1>4. LoopsMean' /\ HandedOver'
  BY <1>1, <1>2 DEF Served, LoopsMean, HandedOver, Started
<1>5. ClientsMean' /\ Proxy!NodeOfItsListener'
  BY <1>1, <1>2 DEF Served, ClientsMean, Proxy!NodeOfItsListener, Started
<1>. QED
  BY <1>3, <1>4, <1>5 DEF Served

LEMMA StopServes ==
  ASSUME Proxy!ProxyAssumption, Proxy!TypeOK, Served, Proxy!ClashStop
  PROVE  Served'
<1>1. /\ rt'.running = FALSE /\ rt'.ln = None
      /\ \A c \in Clients : backlog'[c] # None => backlog[c] # None
      /\ UNCHANGED <<loop, client, handler, config>>
  BY DEF Proxy!ClashStop, Proxy!Closed, Proxy!TypeOK, Proxy!Runtime
<1>. QED
  BY <1>1 DEF Served, RuntimeMeans, Proxy!KeepsAccepting, LoopsMean, HandedOver, ClientsMean,
              Proxy!NodeOfItsListener, Started

\* The steps of a loop that touch no client.
LEMMA LooksServe ==
  ASSUME Proxy!ProxyAssumption, Proxy!TypeOK, Served, NEW l \in Listeners,
         Proxy!LoopTop(l) \/ Proxy!AcceptFails(l) \/ Proxy!LoopStill(l)
  PROVE  Served'
<1>1. /\ UNCHANGED <<rt, listening, backlog, client, handler, config>>
      /\ \A m \in Listeners : m # l => loop'[m] = loop[m]
  BY DEF Proxy!LoopTop, Proxy!AcceptFails, Proxy!LoopStill, Proxy!TypeOK
<1>2. /\ loop[l].pc \in {"top", "accept", "failed"}
      /\ \/ loop'[l].pc \in {"top", "exited"}
         \/ /\ loop'[l].pc \in {"accept", "failed"}
            /\ \/ loop'[l].ln = rt.ln /\ loop'[l].node = rt.node /\ rt.running
               \/ loop'[l].ln = loop[l].ln /\ loop'[l].node = loop[l].node /\ loop[l].pc = "accept"
      /\ rt.running /\ rt.ln = l => loop'[l].pc # "exited"
  <2>1. loop[l] \in Proxy!LoopState /\ rt.running /\ rt.ln = l => rt.ln # None
    BY DEF Proxy!TypeOK, Proxy!ProxyAssumption
  <2>2. CASE Proxy!LoopTop(l)
    BY <2>1, <2>2 DEF Proxy!LoopTop, Proxy!NoLoop, Proxy!TypeOK, Proxy!LoopState
  <2>3. CASE Proxy!AcceptFails(l)
    BY <2>1, <2>3 DEF Proxy!AcceptFails, Proxy!TypeOK, Proxy!LoopState
  <2>4. CASE Proxy!LoopStill(l)
    BY <2>1, <2>4 DEF Proxy!LoopStill, Proxy!TypeOK, Proxy!LoopState
  <2>. QED
    BY <2>2, <2>3, <2>4
<1>3. \A m \in Listeners : Started(m)' = Started(m)
  BY <1>1, <1>2 DEF Started
<1>4. rt.running => rt.ln \in Listeners /\ Started(rt.ln) /\ rt.node = config[rt.ln]
  BY DEF Served, RuntimeMeans, Proxy!KeepsAccepting, Proxy!TypeOK, Started
<1>5. RuntimeMeans' /\ Proxy!KeepsAccepting'
  BY <1>1, <1>2, <1>4 DEF Served, RuntimeMeans, Proxy!KeepsAccepting
<1>6. LoopsMean'
  BY <1>1, <1>2, <1>3, <1>4 DEF Served, LoopsMean
<1>7. HandedOver'
  BY <1>1, <1>2 DEF Served, HandedOver
<1>8. ClientsMean' /\ Proxy!NodeOfItsListener'
  BY <1>1, <1>3 DEF Served, ClientsMean, Proxy!NodeOfItsListener
<1>. QED
  BY <1>5, <1>6, <1>7, <1>8 DEF Served

LEMMA AcceptServes ==
  ASSUME Proxy!ProxyAssumption, Proxy!TypeOK, Served, NEW l \in Listeners, NEW c \in Clients, Proxy!Accept(l, c)
  PROVE  Served'
<1>1. /\ loop[l].pc = "accept" /\ backlog[c] # None /\ handler[c].pc = "none"
      /\ UNCHANGED <<rt, listening, client, config>>
  BY DEF Proxy!Accept, Proxy!TypeOK, Served, ClientsMean
<1>2. \A m \in Listeners : m # l => loop'[m] = loop[m]
  BY DEF Proxy!Accept, Proxy!TypeOK
<1>3. /\ loop'[l].pc = "accepted" /\ loop'[l].conn = c
      /\ loop'[l].ln = loop[l].ln /\ loop'[l].node = loop[l].node
  BY DEF Proxy!Accept, Proxy!TypeOK, Proxy!LoopState
<1>4. \A d \in Clients : d # c => handler'[d] = handler[d] /\ backlog'[d] = backlog[d]
  BY DEF Proxy!Accept, Proxy!TypeOK
<1>5. handler'[c].pc = "accepted" /\ handler'[c].at = loop[l].ln /\ backlog'[c] = None
  BY DEF Proxy!Accept, Proxy!TypeOK, Proxy!NoHandler
<1>6. loop[l].ln \in Listeners /\ Started(loop[l].ln)
  BY <1>1 DEF Served, LoopsMean
<1>7. \A m \in Listeners : Started(m)' = Started(m)
  BY <1>1, <1>2, <1>3 DEF Started
<1>8. RuntimeMeans' /\ Proxy!KeepsAccepting'
  BY <1>1, <1>2, <1>3 DEF Served, RuntimeMeans, Proxy!KeepsAccepting, Proxy!TypeOK
<1>9. LoopsMean'
  BY <1>1, <1>2, <1>3, <1>7 DEF Served, LoopsMean
<1>10. HandedOver'
  BY <1>1, <1>2, <1>3, <1>4, <1>5 DEF Served, HandedOver
<1>11. ClientsMean' /\ Proxy!NodeOfItsListener'
  BY <1>1, <1>4, <1>5, <1>6, <1>7 DEF Served, ClientsMean, Proxy!NodeOfItsListener
<1>. QED
  BY <1>8, <1>9, <1>10, <1>11 DEF Served

LEMMA SpawnServes ==
  ASSUME Proxy!ProxyAssumption, Proxy!TypeOK, Served, NEW l \in Listeners, Proxy!Spawn(l)
  PROVE  Served'
<1>. DEFINE c == loop[l].conn
<1>1. /\ loop[l].pc = "accepted" /\ c \in Clients /\ handler[c].pc = "accepted"
      /\ handler[c].at = loop[l].ln /\ loop[l].ln \in Listeners /\ Started(loop[l].ln)
      /\ loop[l].node = config[loop[l].ln]
      /\ UNCHANGED <<rt, listening, backlog, client, config>>
  BY DEF Proxy!Spawn, Served, HandedOver, LoopsMean
<1>2. \A m \in Listeners : m # l => loop'[m] = loop[m]
  BY DEF Proxy!Spawn, Proxy!TypeOK
<1>3. loop'[l].pc = "top"
  BY DEF Proxy!Spawn, Proxy!TypeOK, Proxy!LoopState
<1>4. \A d \in Clients : d # c => handler'[d] = handler[d]
  BY DEF Proxy!Spawn, Proxy!TypeOK
<1>5. handler'[c].pc = "greeting" /\ handler'[c].at = loop[l].ln /\ handler'[c].node = loop[l].node
  BY <1>1 DEF Proxy!Spawn, Proxy!TypeOK, Proxy!HandlerState, Proxy!NodeOf
<1>. HIDE DEF c
<1>6. \A m \in Listeners : Started(m)' = Started(m)
  BY <1>1, <1>2, <1>3 DEF Started
<1>7. RuntimeMeans' /\ Proxy!KeepsAccepting'
  BY <1>1, <1>2, <1>3 DEF Served, RuntimeMeans, Proxy!KeepsAccepting, Proxy!TypeOK
<1>8. LoopsMean'
  BY <1>1, <1>2, <1>3, <1>6 DEF Served, LoopsMean
<1>9. HandedOver'
  <2>1. \A m \in Listeners : m # l /\ loop[m].pc = "accepted" => loop[m].conn # c
    BY <1>1 DEF Served, HandedOver, c
  <2>. QED
    BY <1>2, <1>3, <1>4, <2>1 DEF Served, HandedOver
<1>10. ClientsMean' /\ Proxy!NodeOfItsListener'
  BY <1>1, <1>4, <1>5, <1>6 DEF Served, ClientsMean, Proxy!NodeOfItsListener
<1>. QED
  BY <1>7, <1>8, <1>9, <1>10 DEF Served

LEMMA ConnectServes ==
  ASSUME Proxy!ProxyAssumption, Proxy!TypeOK, Served, NEW c \in Clients, NEW l \in Listeners, Proxy!Connect(c, l)
  PROVE  Served'
<1>1. /\ UNCHANGED <<rt, listening, loop, client, handler, config>>
      /\ \A d \in Clients : d # c => backlog'[d] = backlog[d]
      /\ handler[c].pc = "none"
  BY DEF Proxy!Connect, Proxy!TypeOK
<1>. QED
  BY <1>1 DEF Served, RuntimeMeans, Proxy!KeepsAccepting, LoopsMean, HandedOver, ClientsMean,
              Proxy!NodeOfItsListener, Started

\* A goroutine of a client that has been spawned keeps its listener and node.
Carries(c) ==
  /\ handler[c].pc \notin {"none", "accepted"} /\ handler'[c].pc \notin {"none", "accepted"}
  /\ handler'[c].at = handler[c].at /\ handler'[c].node = handler[c].node

LEMMA CarriageServes ==
  ASSUME Proxy!TypeOK, Served, NEW c \in Clients,
         UNCHANGED <<listening, backlog, loop, config>>,
         rt'.running = rt.running, rt'.ln = rt.ln, rt'.node = rt.node,
         \A d \in Clients : d # c => handler'[d] = handler[d],
         handler'[c] = handler[c] \/ Carries(c)
  PROVE  Served'
<1>1. RuntimeMeans' /\ Proxy!KeepsAccepting' /\ LoopsMean'
  BY DEF Served, RuntimeMeans, Proxy!KeepsAccepting, LoopsMean, Started
<1>2. HandedOver'
  BY DEF Served, HandedOver, Carries
<1>3. ClientsMean' /\ Proxy!NodeOfItsListener'
  BY DEF Served, ClientsMean, Proxy!NodeOfItsListener, Carries, Started
<1>. QED
  BY <1>1, <1>2, <1>3 DEF Served
-----------------------------------------------------------------------------
(* What has been carried, and what is counted.                             *)

LEMMA Fields ==
  ASSUME Proxy!ProxyAssumption, Proxy!TypeOK, NEW c \in Clients
  PROVE  /\ client[c].wrote \in Seq(Proxy!Item) /\ Len(client[c].wrote) \in Nat
         /\ client[c].unread \in Seq(Proxy!Item) /\ Len(client[c].unread) \in Nat
         /\ handler[c].buf \in Seq(Proxy!Item) /\ Len(handler[c].buf) \in Nat
         /\ handler[c].sent \in Seq(Proxy!Item) /\ Len(handler[c].sent) \in Nat
         /\ Len(client[c].wrote) <= MaxPayload + 2
<1>1. /\ client[c].wrote \in Proxy!Streams /\ client[c].unread \in Proxy!Streams
      /\ handler[c].buf \in Proxy!Streams /\ handler[c].sent \in Proxy!Streams
  BY DEF Proxy!TypeOK, Proxy!ClientState, Proxy!HandlerState
<1>. QED
  BY <1>1, StreamIs, LenProperties

LEMMA EmptyIsShort == \A s \in Seq(Proxy!Item) : s = <<>> <=> Len(s) = 0
BY EmptyStream, LenProperties

LEMMA StartsType == Proxy!ProxyAssumption => Proxy!Starts \in Nat
<1>1. ASSUME Proxy!ProxyAssumption PROVE IsFiniteSet({l \in Listeners : loop[l].pc # "none"})
  BY <1>1, FS_Subset, SameCardinality DEF Proxy!ProxyAssumption
<1>. QED
  BY <1>1, FS_CardinalityType, SameCardinality DEF Proxy!Starts

\* A goroutine that is counted all along, or neither before nor after.
CountedAlike(c) ==
  \/ handler'[c].pc = handler[c].pc
  \/ (handler[c].pc \in {"relay", "lower"} /\ handler'[c].pc \in {"relay", "lower"})
  \/ (handler[c].pc \notin {"relay", "lower", "gone"} /\ handler'[c].pc \notin {"relay", "lower"})

LEMMA CountsKept ==
  ASSUME Proxy!ProxyAssumption, Proxy!TypeOK, Counted, NEW c \in Clients,
         rt'.conns = rt.conns, Proxy!Starts' = Proxy!Starts,
         \A d \in Clients : d # c => handler'[d] = handler[d],
         handler'[c].born = handler[c].born, handler'[c].died = handler[c].died,
         CountedAlike(c)
  PROVE  Counted'
<1>1. Proxy!Starts \in Nat /\ handler[c].born \in Nat
  BY StartsType DEF Proxy!TypeOK, Proxy!HandlerState
<1>2. Dated'
  BY <1>1 DEF Counted, Dated, CountedAlike
<1>3. Relaying' = Relaying
  BY DEF Relaying, CountedAlike
<1>4. Overstayed' = Overstayed
  BY <1>1 DEF Overstayed, CountedAlike, Counted, Dated
<1>. QED
  BY <1>2, <1>3, <1>4 DEF Counted

LEMMA LoopsUncounted == loop' = loop => Proxy!Starts' = Proxy!Starts
BY DEF Proxy!Starts

\* What is left to show of a step of one client's goroutine or peers.
LEMMA Carriage ==
  ASSUME Proxy!ProxyAssumption, ProxyInv, NEW c \in Clients,
         UNCHANGED <<listening, backlog, loop, config>>,
         rt' \in Proxy!Runtime, rt'.running = rt.running, rt'.ln = rt.ln, rt'.node = rt.node,
         \A d \in Clients : d # c => handler'[d] = handler[d] /\ client'[d] = client[d],
         handler' \in [Clients -> Proxy!HandlerState], client' \in [Clients -> Proxy!ClientState],
         handler'[c] = handler[c] \/ Carries(c),
         Measured(c)', Prepared(c)', Carried(c)', Counted'
  PROVE  ProxyInv'
<1>1. Proxy!TypeOK'
  BY DEF ProxyInv, Proxy!TypeOK
<1>2. Served'
  BY CarriageServes DEF ProxyInv
<1>3. AllCarried'
  BY ZenonT(30) DEF ProxyInv, AllCarried, Measured, Prepared, Carried, Proxy!Payload
<1>. QED
  BY <1>1, <1>2, <1>3 DEF ProxyInv

LEMMA HandshakeKeeps ==
  ASSUME Proxy!ProxyAssumption, ProxyInv, NEW c \in Clients, Proxy!ReadGreeting(c) \/ Proxy!ReadRequest(c)
  PROVE  ProxyInv'
<1>1. PICK pc \in {"greeting", "request"}, next \in {"request", "dial"},
           wanted \in {Proxy!Greeting, Proxy!Connecting} :
        /\ Proxy!Handshake(c, pc, wanted, next)
        /\ pc = "greeting" <=> next = "request"
  BY DEF Proxy!ReadGreeting, Proxy!ReadRequest
<1>. DEFINE b == Proxy!Buffered(c)
            u == Proxy!Drained(c)
<1>2. /\ client[c].wrote \in Seq(Proxy!Item) /\ Len(client[c].wrote) \in Nat
      /\ client[c].unread \in Seq(Proxy!Item) /\ Len(client[c].unread) \in Nat
      /\ handler[c].buf \in Seq(Proxy!Item) /\ Len(handler[c].buf) \in Nat
      /\ Len(client[c].wrote) <= MaxPayload + 2
      /\ handler[c].sent = <<>> /\ Len(handler[c].sent) = 0
      /\ ~handler[c].upDone
      /\ Measured(c) /\ Prepared(c) /\ handler[c].pc = pc
  BY <1>1, Fields, EmptyStream DEF ProxyInv, AllCarried, Prepared, Proxy!Handshake
<1>3. b \in Seq(Proxy!Item) /\ b # <<>> /\ u \in Seq(Proxy!Item) /\ Len(b) \in Nat /\ Len(u) \in Nat
      /\ Len(b) + Len(u) = Len(handler[c].buf) + Len(client[c].unread)
  <2>1. CASE handler[c].buf = <<>>
    BY <1>1, <1>2, <2>1, EmptyStream DEF Proxy!Handshake, Proxy!Buffered, Proxy!Drained
  <2>2. CASE handler[c].buf # <<>>
    BY <1>1, <1>2, <2>2 DEF Proxy!Handshake, Proxy!Buffered, Proxy!Drained
  <2>. QED
    BY <2>1, <2>2
<1>4. Tail(b) \in Seq(Proxy!Item) /\ Len(Tail(b)) = Len(b) - 1 /\ Len(b) >= 1
  BY <1>3, HeadTailProperties, EmptyIsShort
<1>. HIDE DEF b, u
<1>5. /\ UNCHANGED <<rt, listening, backlog, loop, config>>
      /\ client' = [client EXCEPT ![c].unread = u]
      /\ \/ handler' = [handler EXCEPT ![c].buf = Tail(b), ![c].pc = next]
         \/ handler' = [handler EXCEPT ![c].pc = "gone"]
  BY <1>1 DEF Proxy!Handshake, Proxy!Fails, Proxy!Goto, b, u
<1>6. /\ \A d \in Clients : d # c => handler'[d] = handler[d] /\ client'[d] = client[d]
      /\ client'[c] = [client[c] EXCEPT !.unread = u]
      /\ \/ handler'[c] = [handler[c] EXCEPT !.buf = Tail(b), !.pc = next]
         \/ handler'[c] = [handler[c] EXCEPT !.pc = "gone"]
  BY <1>5 DEF ProxyInv, Proxy!TypeOK
<1>. DEFINE w == Len(client[c].wrote)
            n == Len(client[c].unread)
            k == Len(handler[c].buf)
            bb == Len(b)
            uu == Len(u)
<1>a. /\ w \in Nat /\ n \in Nat /\ k \in Nat /\ bb \in Nat /\ uu \in Nat
      /\ bb + uu = k + n /\ bb >= 1 /\ w <= MaxPayload + 2 /\ MaxPayload \in Nat
      /\ w = (IF pc = "greeting" THEN 0 ELSE 1) + k + n
      /\ k + uu <= w
  <2>1. Len(client[c].wrote) = (IF pc = "greeting" THEN 0 ELSE 1) + k + 0 + n
    BY <1>1, <1>2 DEF Measured, ItemsRead
  <2>2. uu = n \/ (k = 0 /\ uu = 0)
    BY <1>2, EmptyStream DEF u, Proxy!Drained
  <2>3. /\ w \in Nat /\ n \in Nat /\ k \in Nat /\ bb \in Nat /\ uu \in Nat
        /\ bb + uu = k + n /\ bb >= 1 /\ w <= MaxPayload + 2 /\ MaxPayload \in Nat
        /\ w = (IF pc = "greeting" THEN 0 ELSE 1) + k + 0 + n
    BY <1>2, <1>3, <1>4, <2>1 DEF Proxy!ProxyAssumption
  <2>. HIDE DEF w, n, k, bb, uu
  <2>. QED
    BY <2>2, <2>3
<1>7. u \in Proxy!Streams /\ Tail(b) \in Proxy!Streams
  <2>1. bb - 1 <= MaxPayload + 2 /\ uu <= MaxPayload + 2
    <3>. HIDE DEF w, n, k, bb, uu
    <3>. QED
      BY <1>a
  <2>. QED
    BY <1>3, <1>4, <2>1, StreamIs
<1>8. client'[c] \in Proxy!ClientState /\ handler'[c] \in Proxy!HandlerState
  BY <1>6, <1>7 DEF ProxyInv, Proxy!TypeOK, Proxy!ClientState, Proxy!HandlerState
<1>9. client' \in [Clients -> Proxy!ClientState] /\ handler' \in [Clients -> Proxy!HandlerState]
  BY <1>5, <1>6, <1>8 DEF ProxyInv, Proxy!TypeOK
<1>10. /\ client'[c].wrote = client[c].wrote /\ client'[c].unread = u
       /\ client'[c].shut = client[c].shut /\ client'[c].early = client[c].early
       /\ handler'[c].sent = handler[c].sent /\ handler'[c].upDone = handler[c].upDone
       /\ \/ handler'[c].pc = next /\ handler'[c].buf = Tail(b)
          \/ handler'[c].pc = "gone" /\ handler'[c].buf = handler[c].buf
       /\ handler'[c].at = handler[c].at /\ handler'[c].node = handler[c].node
       /\ handler'[c].born = handler[c].born /\ handler'[c].died = handler[c].died
  <2>1. client[c] \in Proxy!ClientState /\ handler[c] \in Proxy!HandlerState
    BY DEF ProxyInv, Proxy!TypeOK
  <2>2. /\ client'[c].wrote = client[c].wrote /\ client'[c].unread = u
        /\ client'[c].shut = client[c].shut /\ client'[c].early = client[c].early
    BY <1>6, <2>1 DEF Proxy!ClientState
  <2>3. CASE handler'[c] = [handler[c] EXCEPT !.buf = Tail(b), !.pc = next]
    BY <2>1, <2>2, <2>3 DEF Proxy!HandlerState
  <2>4. CASE handler'[c] = [handler[c] EXCEPT !.pc = "gone"]
    BY <2>1, <2>2, <2>4 DEF Proxy!HandlerState
  <2>. QED
    BY <1>6, <2>3, <2>4
<1>11. Measured(c)'
  <2>1. CASE handler'[c].pc = "gone" /\ handler'[c].buf = handler[c].buf
    <3>1. k + 0 + uu <= w
      <4>. HIDE DEF w, n, k, bb, uu
      <4>. QED
        BY <1>a
    <3>. QED
      BY <1>2, <1>10, <2>1, <3>1 DEF Measured
  <2>2. CASE handler'[c].pc = next /\ handler'[c].buf = Tail(b)
    <3>1. /\ (bb - 1) + 0 + uu <= w
          /\ w = (IF pc = "greeting" THEN 1 ELSE 2) + (bb - 1) + 0 + uu
      <4>. HIDE DEF w, n, k, bb, uu
      <4>. QED
        BY <1>a
    <3>2. ItemsRead(next) = IF pc = "greeting" THEN 1 ELSE 2
      BY <1>1 DEF ItemsRead
    <3>. QED
      BY <1>2, <1>4, <1>10, <2>2, <3>1, <3>2 DEF Measured
  <2>. QED
    BY <1>10, <2>1, <2>2
<1>14. Prepared(c)' /\ Carried(c)'
  BY <1>1, <1>2, <1>10 DEF Prepared, Carried
<1>12. Counted'
  BY <1>1, <1>2, <1>5, <1>6, <1>10, CountsKept, LoopsUncounted DEF ProxyInv, CountedAlike
<1>13. Carries(c)
  BY <1>1, <1>2, <1>10 DEF Carries
<1>. QED
  BY <1>5, <1>6, <1>9, <1>11, <1>12, <1>13, <1>14, Carriage DEF ProxyInv, Proxy!TypeOK

\* The steps that only move a goroutine on, or end it.
LEMMA GotoKeeps ==
  ASSUME Proxy!ProxyAssumption, ProxyInv, NEW c \in Clients, NEW pc,
         handler' = Proxy!Goto(c, pc), UNCHANGED <<rt, listening, backlog, loop, client, config>>,
         \/ handler[c].pc \in {"greeting", "request", "dial", "header"} /\ pc = "gone"
         \/ handler[c].pc = "dial" /\ pc = "header"
         \/ handler[c].pc = "header" /\ pc = "count"
         \/ handler[c].pc = "relay" /\ pc = "lower"
  PROVE  ProxyInv'
<1>1. handler'[c] = [handler[c] EXCEPT !.pc = pc]
      /\ \A d \in Clients : d # c => handler'[d] = handler[d]
  BY DEF Proxy!Goto, ProxyInv, Proxy!TypeOK
<1>2. handler'[c] \in Proxy!HandlerState
  BY <1>1 DEF ProxyInv, Proxy!TypeOK, Proxy!HandlerState
<1>3. handler' \in [Clients -> Proxy!HandlerState]
  BY <1>1, <1>2 DEF Proxy!Goto, ProxyInv, Proxy!TypeOK
<1>4. /\ handler'[c].pc = pc /\ handler'[c].buf = handler[c].buf
      /\ handler'[c].sent = handler[c].sent /\ handler'[c].upDone = handler[c].upDone
      /\ handler'[c].gone = handler[c].gone
      /\ handler'[c].at = handler[c].at /\ handler'[c].node = handler[c].node
      /\ handler'[c].born = handler[c].born /\ handler'[c].died = handler[c].died
  BY <1>1 DEF ProxyInv, Proxy!TypeOK, Proxy!HandlerState
<1>5. Measured(c) /\ Prepared(c) /\ Carried(c) /\ Proxy!Payload(c)' = Proxy!Payload(c)
  BY DEF ProxyInv, AllCarried, Proxy!Payload
<1>6. /\ client[c].wrote \in Seq(Proxy!Item) /\ Len(client[c].wrote) \in Nat
      /\ client[c].unread \in Seq(Proxy!Item) /\ Len(client[c].unread) \in Nat
      /\ handler[c].buf \in Seq(Proxy!Item) /\ Len(handler[c].buf) \in Nat
      /\ handler[c].sent \in Seq(Proxy!Item) /\ Len(handler[c].sent) \in Nat
  BY Fields DEF ProxyInv
<1>7. Measured(c)' /\ Prepared(c)'
  BY <1>4, <1>5, <1>6 DEF Measured, Prepared, ItemsRead
<1>a. Carried(c)'
  <2>1. CASE pc # "count"
    BY <1>4, <1>5, <2>1 DEF Carried, Prepared
  <2>2. CASE pc = "count"
    <3>1. ~client[c].early => /\ Len(client[c].wrote) = 2 /\ handler[c].sent = <<>>
                              /\ Len(client[c].unread) = 0
      <4>1. Len(client[c].wrote) = 2 + Len(handler[c].buf) + Len(handler[c].sent) + Len(client[c].unread)
        BY <1>5, <2>2 DEF Measured, ItemsRead
      <4>2. handler[c].sent = <<>> /\ (~client[c].early => Len(client[c].wrote) <= 2)
        BY <1>5, <2>2 DEF Prepared
      <4>. DEFINE w == Len(client[c].wrote)
                  b == Len(handler[c].buf)
                  s == Len(handler[c].sent)
                  u == Len(client[c].unread)
      <4>3. /\ w \in Nat /\ b \in Nat /\ s \in Nat /\ u \in Nat
            /\ w = 2 + b + s + u /\ (~client[c].early => w <= 2)
        BY <1>6, <4>1, <4>2
      <4>. HIDE DEF w, b, s, u
      <4>4. ~client[c].early => w = 2 /\ u = 0
        BY <4>3
      <4>. QED
        BY <4>2, <4>4 DEF w, u
    <3>2. ~client[c].early => Proxy!Payload(c) = <<>> /\ client[c].unread = <<>>
      <4>1. SubSeq(client[c].wrote, 3, 2) = <<>>
        BY SubSeqEmpty
      <4>. QED
        BY <1>6, <3>1, <4>1, EmptyIsShort DEF Proxy!Payload
    <3>3. <<>> \o <<>> = <<>>
      BY ConcatEmptySeq, EmptyStream
    <3>4. ~handler'[c].upDone
      BY <1>4, <1>5, <2>2 DEF Prepared
    <3>. QED
      BY <1>4, <1>5, <3>1, <3>2, <3>3, <3>4 DEF Carried
  <2>. QED
    BY <2>1, <2>2
<1>8. Counted'
  BY <1>1, <1>4, CountsKept, LoopsUncounted DEF ProxyInv, CountedAlike
<1>9. Carries(c)
  BY <1>4 DEF Carries
<1>. QED
  BY <1>1, <1>3, <1>7, <1>a, <1>8, <1>9, Carriage DEF ProxyInv, Proxy!TypeOK
-----------------------------------------------------------------------------
(* The relay.                                                              *)

\* Steps of a relay that only note an end.
LEMMA EndsKeep ==
  ASSUME Proxy!ProxyAssumption, ProxyInv, NEW c \in Clients, Proxy!UpEnds(c) \/ Proxy!DownEnds(c) \/ Proxy!RemoteCloses(c)
  PROVE  ProxyInv'
<1>1. UNCHANGED <<rt, listening, backlog, loop, client, config>>
  BY DEF Proxy!UpEnds, Proxy!DownEnds, Proxy!RemoteCloses
<1>2. \/ /\ handler' = [handler EXCEPT ![c].upDone = TRUE]
         /\ (client[c].unread = <<>> /\ client[c].shut) \/ handler[c].gone
         /\ handler[c].pc = "relay"
      \/ handler' = [handler EXCEPT ![c].downDone = TRUE] /\ handler[c].pc = "relay"
      \/ /\ handler' = [handler EXCEPT ![c].gone = TRUE]
         /\ handler[c].pc \in {"header", "count", "relay"}
  BY DEF Proxy!UpEnds, Proxy!DownEnds, Proxy!RemoteCloses
<1>3. \A d \in Clients : d # c => handler'[d] = handler[d]
  BY <1>2 DEF ProxyInv, Proxy!TypeOK
<1>4. handler[c] \in Proxy!HandlerState
  BY DEF ProxyInv, Proxy!TypeOK
<1>5. \/ handler'[c] = [handler[c] EXCEPT !.upDone = TRUE]
      \/ handler'[c] = [handler[c] EXCEPT !.downDone = TRUE]
      \/ handler'[c] = [handler[c] EXCEPT !.gone = TRUE]
  BY <1>2 DEF ProxyInv, Proxy!TypeOK
<1>6. handler'[c] \in Proxy!HandlerState
  BY <1>4, <1>5 DEF Proxy!HandlerState
<1>7. handler' \in [Clients -> Proxy!HandlerState]
  BY <1>2, <1>6 DEF ProxyInv, Proxy!TypeOK
<1>8. /\ handler'[c].pc = handler[c].pc /\ handler'[c].buf = handler[c].buf
      /\ handler'[c].sent = handler[c].sent
      /\ handler'[c].at = handler[c].at /\ handler'[c].node = handler[c].node
      /\ handler'[c].born = handler[c].born /\ handler'[c].died = handler[c].died
  BY <1>4, <1>5 DEF Proxy!HandlerState
<1>9. \/ /\ handler'[c].upDone = handler[c].upDone
         /\ handler'[c].gone = handler[c].gone \/ handler'[c].gone
      \/ /\ handler[c].pc = "relay" /\ handler'[c].gone = handler[c].gone
         /\ (client[c].unread = <<>> /\ client[c].shut) \/ handler[c].gone
  <2>1. CASE handler' = [handler EXCEPT ![c].upDone = TRUE]
    <3>1. handler'[c] = [handler[c] EXCEPT !.upDone = TRUE]
      BY <2>1 DEF ProxyInv, Proxy!TypeOK
    <3>2. handler'[c].gone = handler[c].gone
      BY <1>4, <3>1 DEF Proxy!HandlerState
    <3>3. \/ handler[c].pc = "relay" /\ ((client[c].unread = <<>> /\ client[c].shut) \/ handler[c].gone)
          \/ handler' = [handler EXCEPT ![c].downDone = TRUE]
          \/ handler' = [handler EXCEPT ![c].gone = TRUE]
      BY <1>2
    <3>4. ASSUME handler' = [handler EXCEPT ![c].downDone = TRUE] \/ handler' = [handler EXCEPT ![c].gone = TRUE]
          PROVE  handler'[c].upDone = handler[c].upDone
      <4>1. \/ handler'[c] = [handler[c] EXCEPT !.downDone = TRUE]
            \/ handler'[c] = [handler[c] EXCEPT !.gone = TRUE]
        BY <3>4 DEF ProxyInv, Proxy!TypeOK
      <4>. QED
        BY <1>4, <4>1 DEF Proxy!HandlerState
    <3>. QED
      BY <3>2, <3>3, <3>4
  <2>2. CASE handler'[c] = [handler[c] EXCEPT !.downDone = TRUE]
    BY <1>4, <2>2 DEF Proxy!HandlerState
  <2>3. CASE handler'[c] = [handler[c] EXCEPT !.gone = TRUE]
    BY <1>4, <2>3 DEF Proxy!HandlerState
  <2>4. \/ handler' = [handler EXCEPT ![c].upDone = TRUE]
        \/ handler'[c] = [handler[c] EXCEPT !.downDone = TRUE]
        \/ handler'[c] = [handler[c] EXCEPT !.gone = TRUE]
    BY <1>2 DEF ProxyInv, Proxy!TypeOK
  <2>. QED
    BY <2>1, <2>2, <2>3, <2>4
<1>10. Measured(c)' /\ Prepared(c)'
  BY <1>1, <1>8, <1>9 DEF ProxyInv, AllCarried, Measured, Prepared
<1>11. Carried(c)'
  <2>1. client[c].unread = <<>> /\ handler[c].sent \o client[c].unread = Proxy!Payload(c)
          => handler[c].sent = Proxy!Payload(c)
    BY Fields, MovesOver DEF ProxyInv
  <2>2. Proxy!Payload(c)' = Proxy!Payload(c) /\ Carried(c)
    BY <1>1 DEF ProxyInv, AllCarried, Proxy!Payload
  <2>. QED
    BY <1>1, <1>8, <1>9, <2>1, <2>2 DEF Carried
<1>12. Counted'
  BY <1>1, <1>3, <1>8, CountsKept, LoopsUncounted DEF ProxyInv, CountedAlike
<1>13. Carries(c)
  <2>1. handler[c].pc \in {"header", "count", "relay"}
    BY <1>2
  <2>. QED
    BY <1>8, <2>1 DEF Carries
<1>. QED
  BY <1>1, <1>3, <1>7, <1>10, <1>11, <1>12, <1>13, Carriage DEF ProxyInv, Proxy!TypeOK

LEMMA CopyKeeps ==
  ASSUME Proxy!ProxyAssumption, ProxyInv, NEW c \in Clients, Proxy!CopyUp(c)
  PROVE  ProxyInv'
<1>. DEFINE x == Head(client[c].unread)
            sent == Append(handler[c].sent, x)
            rest == Tail(client[c].unread)
<1>1. /\ handler[c].pc = "relay" /\ ~handler[c].upDone /\ client[c].unread # <<>>
      /\ handler' = [handler EXCEPT ![c].sent = sent]
      /\ client' = [client EXCEPT ![c].unread = rest]
      /\ UNCHANGED <<rt, listening, backlog, loop, config>>
  BY DEF Proxy!CopyUp
<1>2. /\ handler[c] \in Proxy!HandlerState /\ client[c] \in Proxy!ClientState
      /\ handler'[c] = [handler[c] EXCEPT !.sent = sent]
      /\ client'[c] = [client[c] EXCEPT !.unread = rest]
      /\ \A d \in Clients : d # c => handler'[d] = handler[d] /\ client'[d] = client[d]
  BY <1>1 DEF ProxyInv, Proxy!TypeOK
<1>3. /\ client[c].unread \in Seq(Proxy!Item) /\ Len(client[c].unread) \in Nat
      /\ handler[c].sent \in Seq(Proxy!Item) /\ Len(handler[c].sent) \in Nat
      /\ Len(handler[c].buf) \in Nat /\ Len(client[c].wrote) \in Nat
      /\ Len(client[c].wrote) <= MaxPayload + 2 /\ MaxPayload \in Nat
  BY Fields DEF ProxyInv, Proxy!ProxyAssumption
<1>4. /\ x \in Proxy!Item /\ sent \in Seq(Proxy!Item) /\ Len(sent) = Len(handler[c].sent) + 1
      /\ rest \in Seq(Proxy!Item) /\ Len(rest) = Len(client[c].unread) - 1
      /\ sent \o rest = handler[c].sent \o client[c].unread
  <2>1. x \in Proxy!Item /\ rest \in Seq(Proxy!Item) /\ Len(rest) = Len(client[c].unread) - 1
    BY <1>1, <1>3, HeadTailProperties
  <2>2. sent \in Seq(Proxy!Item) /\ Len(sent) = Len(handler[c].sent) + 1
    BY <1>3, <2>1, AppendProperties
  <2>3. sent \o rest = handler[c].sent \o client[c].unread
    BY <1>1, <1>3, MovesOver
  <2>. QED
    BY <2>1, <2>2, <2>3
<1>. HIDE DEF x, sent, rest
<1>. DEFINE w == Len(client[c].wrote)
            n == Len(client[c].unread)
            k == Len(handler[c].buf)
            s == Len(handler[c].sent)
<1>5. /\ w \in Nat /\ n \in Nat /\ k \in Nat /\ s \in Nat
      /\ k + s + n <= w /\ w = 2 + k + s + n /\ w <= MaxPayload + 2 /\ MaxPayload \in Nat
  BY <1>1, <1>3 DEF ProxyInv, AllCarried, Measured, ItemsRead
<1>6. /\ n >= 1 /\ s + 1 <= MaxPayload + 2 /\ n - 1 <= MaxPayload + 2
      /\ k + (s + 1) + (n - 1) <= w /\ w = 2 + k + (s + 1) + (n - 1)
  <2>1. n # 0
    BY <1>1, <1>3, EmptyIsShort
  <2>. HIDE DEF w, n, k, s
  <2>. QED
    BY <1>5, <2>1
<1>7. sent \in Proxy!Streams /\ rest \in Proxy!Streams
  BY <1>4, <1>6, StreamIs
<1>8. handler'[c] \in Proxy!HandlerState /\ client'[c] \in Proxy!ClientState
  BY <1>2, <1>7 DEF Proxy!HandlerState, Proxy!ClientState
<1>9. handler' \in [Clients -> Proxy!HandlerState] /\ client' \in [Clients -> Proxy!ClientState]
  BY <1>1, <1>8 DEF ProxyInv, Proxy!TypeOK
<1>10. /\ client'[c].wrote = client[c].wrote /\ client'[c].unread = rest
       /\ client'[c].early = client[c].early
  BY <1>2 DEF Proxy!ClientState
<1>11. /\ handler'[c].pc = "relay" /\ handler'[c].buf = handler[c].buf /\ handler'[c].sent = sent
       /\ ~handler'[c].upDone
       /\ handler'[c].at = handler[c].at /\ handler'[c].node = handler[c].node
       /\ handler'[c].born = handler[c].born /\ handler'[c].died = handler[c].died
  BY <1>1, <1>2 DEF Proxy!HandlerState
<1>12. Measured(c)'
  <2>1. /\ Len(handler'[c].buf) = k /\ Len(handler'[c].sent) = s + 1
        /\ Len(client'[c].unread) = n - 1 /\ Len(client'[c].wrote) = w
    BY <1>4, <1>10, <1>11
  <2>. QED
    BY <1>6, <1>11, <2>1 DEF Measured, ItemsRead
<1>13. Prepared(c)'
  BY <1>11 DEF Prepared
<1>14. Carried(c)'
  <2>1. Proxy!Payload(c)' = Proxy!Payload(c)
    BY <1>10 DEF Proxy!Payload
  <2>2. ~client[c].early => handler[c].sent \o client[c].unread = Proxy!Payload(c)
    BY <1>1 DEF ProxyInv, AllCarried, Carried
  <2>. QED
    BY <1>4, <1>10, <1>11, <2>1, <2>2 DEF Carried
<1>15. Counted'
  BY <1>1, <1>2, <1>11, CountsKept, LoopsUncounted DEF ProxyInv, CountedAlike
<1>16. Carries(c)
  BY <1>1, <1>11 DEF Carries
<1>. QED
  BY <1>1, <1>2, <1>9, <1>12, <1>13, <1>14, <1>15, <1>16, Carriage DEF ProxyInv, Proxy!TypeOK

\* The count on the way in.
LEMMA EnterKeeps ==
  ASSUME Proxy!ProxyAssumption, ProxyInv, NEW c \in Clients, Proxy!EnterRelay(c)
  PROVE  ProxyInv'
<1>1. /\ handler[c].pc = "count" /\ rt' = [rt EXCEPT !.conns = @ + 1]
      /\ handler' = [handler EXCEPT ![c].pc = "relay", ![c].born = Proxy!Starts]
      /\ UNCHANGED <<listening, backlog, loop, client, config>>
  BY DEF Proxy!EnterRelay
<1>2. /\ handler[c] \in Proxy!HandlerState /\ rt \in Proxy!Runtime
      /\ handler'[c] = [handler[c] EXCEPT !.pc = "relay", !.born = Proxy!Starts]
      /\ \A d \in Clients : d # c => handler'[d] = handler[d]
  BY <1>1 DEF ProxyInv, Proxy!TypeOK
<1>3. Proxy!Starts \in Nat /\ Proxy!Starts' = Proxy!Starts /\ Proxy!Starts <= Proxy!Starts
  BY <1>1, StartsType, LoopsUncounted
<1>4. handler'[c] \in Proxy!HandlerState
  BY <1>2, <1>3 DEF Proxy!HandlerState
<1>5. handler' \in [Clients -> Proxy!HandlerState]
  BY <1>1, <1>4 DEF ProxyInv, Proxy!TypeOK
<1>6. rt' \in Proxy!Runtime /\ rt'.running = rt.running /\ rt'.ln = rt.ln /\ rt'.node = rt.node
      /\ rt'.conns = rt.conns + 1
  BY <1>1, <1>2 DEF Proxy!Runtime
<1>7. /\ handler'[c].pc = "relay" /\ handler'[c].born = Proxy!Starts
      /\ handler'[c].buf = handler[c].buf /\ handler'[c].sent = handler[c].sent
      /\ handler'[c].upDone = handler[c].upDone /\ handler'[c].gone = handler[c].gone
      /\ handler'[c].at = handler[c].at /\ handler'[c].node = handler[c].node
      /\ handler'[c].died = handler[c].died
  BY <1>2 DEF Proxy!HandlerState
<1>8. Measured(c)' /\ Prepared(c)'
  BY <1>1, <1>7 DEF ProxyInv, AllCarried, Measured, Prepared, ItemsRead
<1>9. Carried(c)'
  BY <1>1, <1>7 DEF ProxyInv, AllCarried, Prepared, Carried, Proxy!Payload
<1>10. Dated'
  <2>1. \A d \in Clients : d # c => /\ handler'[d].born <= Proxy!Starts' /\ handler'[d].died <= Proxy!Starts'
                                    /\ handler'[d].pc # "gone" => handler'[d].died = 0
    BY <1>2, <1>3 DEF ProxyInv, Counted, Dated
  <2>2. /\ handler'[c].born <= Proxy!Starts' /\ handler'[c].died <= Proxy!Starts'
        /\ handler'[c].pc # "gone" => handler'[c].died = 0
    BY <1>1, <1>3, <1>7 DEF ProxyInv, Counted, Dated
  <2>. QED
    BY <2>1, <2>2 DEF Dated
<1>11. Relaying' = Relaying \cup {c} /\ c \notin Relaying
  BY <1>1, <1>2, <1>3, <1>7, ZenonT(30) DEF Relaying
<1>12. Overstayed' = Overstayed
  BY <1>1, <1>2, <1>3, <1>7 DEF Overstayed
<1>13. Cardinality(Relaying') = Cardinality(Relaying) + 1 /\ Cardinality(Relaying) \in Nat
  <2>1. IsFiniteSet(Relaying)
    BY FS_Subset, SameCardinality DEF Relaying, Proxy!ProxyAssumption
  <2>. QED
    BY <1>11, <2>1, FS_AddElement, FS_CardinalityType
<1>14. Cardinality(Overstayed) \in Nat
  <2>1. IsFiniteSet(Overstayed)
    BY FS_Subset, SameCardinality DEF Overstayed, Proxy!ProxyAssumption
  <2>. QED
    BY <2>1, FS_CardinalityType
<1>15. Counted'
  BY <1>6, <1>10, <1>12, <1>13, <1>14 DEF ProxyInv, Counted
<1>16. Carries(c)
  BY <1>1, <1>7 DEF Carries
<1>. QED
  BY <1>1, <1>2, <1>5, <1>6, <1>8, <1>9, <1>15, <1>16, Carriage DEF ProxyInv, Proxy!TypeOK

\* And on the way out: either it is this start that counted it in, or an
\* earlier one.
LEMMA LeaveKeeps ==
  ASSUME Proxy!ProxyAssumption, ProxyInv, NEW c \in Clients, Proxy!LeaveRelay(c)
  PROVE  ProxyInv'
<1>1. /\ handler[c].pc = "lower" /\ rt' = [rt EXCEPT !.conns = @ - 1]
      /\ handler' = [handler EXCEPT ![c].pc = "gone", ![c].died = Proxy!Starts]
      /\ UNCHANGED <<listening, backlog, loop, client, config>>
  BY DEF Proxy!LeaveRelay
<1>2. /\ handler[c] \in Proxy!HandlerState /\ rt \in Proxy!Runtime
      /\ handler'[c] = [handler[c] EXCEPT !.pc = "gone", !.died = Proxy!Starts]
      /\ \A d \in Clients : d # c => handler'[d] = handler[d]
  BY <1>1 DEF ProxyInv, Proxy!TypeOK
<1>3. /\ Proxy!Starts \in Nat /\ Proxy!Starts' = Proxy!Starts /\ Proxy!Starts <= Proxy!Starts
      /\ handler[c].born = Proxy!Starts \/ handler[c].born < Proxy!Starts
      /\ ~ (handler[c].born = Proxy!Starts /\ handler[c].born < Proxy!Starts)
  <2>1. Proxy!Starts \in Nat /\ Proxy!Starts' = Proxy!Starts
    BY <1>1, StartsType, LoopsUncounted
  <2>2. handler[c].born \in Nat /\ handler[c].born <= Proxy!Starts
    BY <1>2 DEF Proxy!HandlerState, ProxyInv, Counted, Dated
  <2>. QED
    BY <2>1, <2>2
<1>4. handler'[c] \in Proxy!HandlerState
  BY <1>2, <1>3 DEF Proxy!HandlerState
<1>5. handler' \in [Clients -> Proxy!HandlerState]
  BY <1>1, <1>4 DEF ProxyInv, Proxy!TypeOK
<1>6. rt' \in Proxy!Runtime /\ rt'.running = rt.running /\ rt'.ln = rt.ln /\ rt'.node = rt.node
      /\ rt'.conns = rt.conns - 1 /\ rt.conns \in Int
  BY <1>1, <1>2 DEF Proxy!Runtime
<1>7. /\ handler'[c].pc = "gone" /\ handler'[c].died = Proxy!Starts
      /\ handler'[c].buf = handler[c].buf /\ handler'[c].sent = handler[c].sent
      /\ handler'[c].upDone = handler[c].upDone /\ handler'[c].gone = handler[c].gone
      /\ handler'[c].at = handler[c].at /\ handler'[c].node = handler[c].node
      /\ handler'[c].born = handler[c].born
  BY <1>2 DEF Proxy!HandlerState
<1>8. Measured(c)' /\ Prepared(c)'
  BY <1>1, <1>7 DEF ProxyInv, AllCarried, Measured, Prepared, ItemsRead
<1>9. Carried(c)'
  BY <1>1, <1>7 DEF ProxyInv, AllCarried, Carried, Proxy!Payload
<1>10. Dated'
  <2>1. \A d \in Clients : d # c => /\ handler'[d].born <= Proxy!Starts' /\ handler'[d].died <= Proxy!Starts'
                                    /\ handler'[d].pc # "gone" => handler'[d].died = 0
    BY <1>2, <1>3 DEF ProxyInv, Counted, Dated
  <2>2. /\ handler'[c].born <= Proxy!Starts' /\ handler'[c].died <= Proxy!Starts'
        /\ handler'[c].pc # "gone" => handler'[c].died = 0
    BY <1>1, <1>3, <1>7 DEF ProxyInv, Counted, Dated
  <2>. QED
    BY <2>1, <2>2 DEF Dated
<1>11. IsFiniteSet(Relaying) /\ IsFiniteSet(Overstayed)
  BY FS_Subset, SameCardinality DEF Relaying, Overstayed, Proxy!ProxyAssumption
<1>12. Cardinality(Relaying) \in Nat /\ Cardinality(Overstayed) \in Nat
  BY <1>11, FS_CardinalityType
<1>13. Counted'
  <2>1. CASE handler[c].born = Proxy!Starts
    <3>1. Relaying' = Relaying \ {c} /\ c \in Relaying
      BY <1>1, <1>2, <1>3, <1>7, <2>1 DEF Relaying
    <3>2. Overstayed' = Overstayed
      BY <1>1, <1>2, <1>3, <1>7, <2>1, ZenonT(30) DEF Overstayed
    <3>3. Cardinality(Relaying') = Cardinality(Relaying) - 1
      BY <1>11, <3>1, FS_RemoveElement
    <3>. QED
      BY <1>6, <1>10, <1>12, <3>2, <3>3 DEF ProxyInv, Counted
  <2>2. CASE handler[c].born < Proxy!Starts
    <3>1. Relaying' = Relaying
      BY <1>1, <1>2, <1>3, <1>7, <2>2 DEF Relaying
    <3>2. Overstayed' = Overstayed \cup {c} /\ c \notin Overstayed
      BY <1>1, <1>2, <1>3, <1>7, <2>2, ZenonT(30) DEF Overstayed
    <3>3. Cardinality(Overstayed') = Cardinality(Overstayed) + 1
      BY <1>11, <3>2, FS_AddElement
    <3>. QED
      BY <1>6, <1>10, <1>12, <3>1, <3>3 DEF ProxyInv, Counted
  <2>. QED
    BY <1>3, <2>1, <2>2
<1>14. Carries(c)
  BY <1>1, <1>7 DEF Carries
<1>. QED
  BY <1>1, <1>2, <1>5, <1>6, <1>8, <1>9, <1>13, <1>14, Carriage DEF ProxyInv, Proxy!TypeOK
-----------------------------------------------------------------------------
(* The clients.                                                            *)

LEMMA WriteKeeps ==
  ASSUME Proxy!ProxyAssumption, ProxyInv, NEW c \in Clients, NEW item \in Proxy!NextItems(c), Proxy!ClientWrites(c, item)
  PROVE  ProxyInv'
<1>. DEFINE wrote == Append(client[c].wrote, item)
            unread == Append(client[c].unread, item)
            early == client[c].early \/ (item \in 1 .. MaxPayload /\ ~Proxy!Replied(c))
            w == Len(client[c].wrote)
            n == Len(client[c].unread)
            k == Len(handler[c].buf)
            s == Len(handler[c].sent)
<1>1. /\ ~client[c].shut /\ UNCHANGED <<rt, listening, backlog, loop, handler, config>>
      /\ client' = [client EXCEPT ![c].wrote = wrote, ![c].unread = unread, ![c].early = early]
      /\ Proxy!Connected(c)
  BY DEF Proxy!ClientWrites
<1>2. /\ handler[c] \in Proxy!HandlerState /\ client[c] \in Proxy!ClientState
      /\ client'[c] = [client[c] EXCEPT !.wrote = wrote, !.unread = unread, !.early = early]
      /\ \A d \in Clients : d # c => client'[d] = client[d]
  BY <1>1 DEF ProxyInv, Proxy!TypeOK
<1>3. /\ client[c].wrote \in Seq(Proxy!Item) /\ client[c].unread \in Seq(Proxy!Item)
      /\ handler[c].sent \in Seq(Proxy!Item)
      /\ w \in Nat /\ n \in Nat /\ k \in Nat /\ s \in Nat
      /\ w <= MaxPayload + 2 /\ MaxPayload \in Nat
  BY Fields DEF ProxyInv, Proxy!ProxyAssumption
<1>4. handler[c].pc # "gone"
  BY <1>1 DEF Proxy!Connected, ProxyInv, Served, ClientsMean
<1>5. k + s + n <= w /\ w = ItemsRead(handler[c].pc) + k + s + n
  BY <1>4 DEF ProxyInv, AllCarried, Measured
<1>6. item \in Proxy!Item /\ w <= MaxPayload + 1 /\ (w >= 2 => item \in 1 .. MaxPayload)
  <2>1. \/ w = 0 /\ item \in {Proxy!Greeting, Proxy!Refused}
        \/ w = 1 /\ item \in {Proxy!Connecting, Proxy!Refused}
        \/ w \in 2 .. MaxPayload + 1 /\ item = w - 1
    BY DEF Proxy!NextItems
  <2>. HIDE DEF w
  <2>2. w \in 2 .. MaxPayload + 1 /\ item = w - 1 => item \in 1 .. MaxPayload
    BY <1>3
  <2>. QED
    BY <1>3, <2>1, <2>2 DEF Proxy!Item
<1>7. /\ wrote \in Seq(Proxy!Item) /\ Len(wrote) = w + 1
      /\ unread \in Seq(Proxy!Item) /\ Len(unread) = n + 1
  BY <1>3, <1>6, AppendProperties
<1>8. /\ w + 1 <= MaxPayload + 2 /\ n + 1 <= MaxPayload + 2
      /\ k + s + (n + 1) <= w + 1
      /\ w + 1 = ItemsRead(handler[c].pc) + k + s + (n + 1)
  <2>1. ItemsRead(handler[c].pc) \in Nat
    BY DEF ItemsRead
  <2>. HIDE DEF w, n, k, s
  <2>. QED
    BY <1>3, <1>5, <1>6, <2>1, SMTT(30)
<1>9. wrote \in Proxy!Streams /\ unread \in Proxy!Streams
  BY <1>7, <1>8, StreamIs
<1>10. early \in BOOLEAN
  BY <1>2 DEF Proxy!ClientState
<1>. HIDE DEF wrote, unread, early
<1>11. client' \in [Clients -> Proxy!ClientState]
  <2>1. client'[c] \in Proxy!ClientState
    BY <1>2, <1>9, <1>10 DEF Proxy!ClientState
  <2>. QED
    BY <1>1, <2>1 DEF ProxyInv, Proxy!TypeOK
<1>12. /\ client'[c].wrote = wrote /\ client'[c].unread = unread
       /\ client'[c].shut = client[c].shut /\ client'[c].early = early
  BY <1>2 DEF Proxy!ClientState
<1>13. Measured(c)'
  <2>1. /\ Len(client'[c].unread) = n + 1 /\ Len(client'[c].wrote) = w + 1
    BY <1>7, <1>12
  <2>. QED
    BY <1>1, <1>8, <2>1 DEF Measured
<1>14. Prepared(c)'
  <2>1. handler[c].pc \notin {"count", "relay", "lower", "gone"} /\ ~early => w + 1 <= 2
    <3>1. handler[c].pc \notin {"count", "relay", "lower", "gone"} /\ ~early => ~ (w >= 2)
      BY <1>6 DEF early, Proxy!Replied
    <3>. HIDE DEF w
    <3>. QED
      BY <1>3, <3>1
  <2>. QED
    BY <1>1, <1>7, <1>12, <2>1 DEF ProxyInv, AllCarried, Prepared
<1>15. Carried(c)'
  <2>1. ASSUME handler[c].pc \in {"count", "relay"}, ~early
        PROVE  handler[c].sent \o unread = SubSeq(wrote, 3, Len(wrote))
    <3>1. handler[c].sent \o client[c].unread = SubSeq(client[c].wrote, 3, w)
      BY <2>1 DEF early, ProxyInv, AllCarried, Carried, Proxy!Payload
    <3>2. handler[c].sent \o unread = Append(handler[c].sent \o client[c].unread, item)
      BY <1>3, <1>6, MovesOver DEF unread
    <3>3. w >= 2
      <4>1. ItemsRead(handler[c].pc) = 2
        BY <2>1 DEF ItemsRead
      <4>. HIDE DEF w, n, k, s
      <4>. QED
        BY <1>3, <1>5, <4>1
    <3>4. SubSeq(wrote, 3, w + 1) = Append(SubSeq(client[c].wrote, 3, w), item)
      BY <1>3, <1>6, <3>3, PayloadGrows DEF wrote
    <3>. QED
      BY <1>7, <3>1, <3>2, <3>4
  <2>2. handler[c].upDone /\ ~handler[c].gone /\ ~early => client[c].shut
    BY DEF early, ProxyInv, AllCarried, Carried
  <2>. QED
    BY <1>1, <1>12, <2>1, <2>2 DEF Carried, Proxy!Payload
<1>16. Counted'
  BY <1>1, CountsKept, LoopsUncounted DEF ProxyInv, CountedAlike
<1>. QED
  BY <1>1, <1>2, <1>11, <1>13, <1>14, <1>15, <1>16, Carriage DEF ProxyInv, Proxy!TypeOK

LEMMA ShutKeeps ==
  ASSUME Proxy!ProxyAssumption, ProxyInv, NEW c \in Clients, Proxy!ClientShuts(c)
  PROVE  ProxyInv'
<1>1. /\ UNCHANGED <<rt, listening, backlog, loop, handler, config>>
      /\ client' = [client EXCEPT ![c].shut = TRUE]
  BY DEF Proxy!ClientShuts
<1>2. /\ client[c] \in Proxy!ClientState
      /\ client'[c] = [client[c] EXCEPT !.shut = TRUE]
      /\ \A d \in Clients : d # c => client'[d] = client[d]
  BY <1>1 DEF ProxyInv, Proxy!TypeOK
<1>3. client' \in [Clients -> Proxy!ClientState]
  <2>1. client'[c] \in Proxy!ClientState
    BY <1>2 DEF Proxy!ClientState
  <2>. QED
    BY <1>1, <2>1 DEF ProxyInv, Proxy!TypeOK
<1>4. /\ client'[c].wrote = client[c].wrote /\ client'[c].unread = client[c].unread
      /\ client'[c].shut /\ client'[c].early = client[c].early
  BY <1>2 DEF Proxy!ClientState
<1>5. Measured(c)' /\ Prepared(c)' /\ Carried(c)'
  BY <1>1, <1>4 DEF ProxyInv, AllCarried, Measured, Prepared, Carried, Proxy!Payload
<1>6. Counted'
  BY <1>1, CountsKept, LoopsUncounted DEF ProxyInv, CountedAlike
<1>. QED
  BY <1>1, <1>2, <1>3, <1>5, <1>6, Carriage DEF ProxyInv, Proxy!TypeOK

LEMMA ConnectKeeps ==
  ASSUME Proxy!ProxyAssumption, ProxyInv, NEW c \in Clients, NEW l \in Listeners, Proxy!Connect(c, l)
  PROVE  ProxyInv'
<1>1. UNCHANGED <<rt, listening, loop, client, handler, config>>
      /\ backlog' = [backlog EXCEPT ![c] = l]
  BY DEF Proxy!Connect
<1>2. Proxy!TypeOK'
  BY <1>1 DEF ProxyInv, Proxy!TypeOK
<1>3. Served'
  BY ConnectServes DEF ProxyInv
<1>4. AllCarried'
  BY <1>1 DEF ProxyInv, AllCarried, Measured, Prepared, Carried, Proxy!Payload
<1>5. Counted'
  BY <1>1, CountsKept, LoopsUncounted DEF ProxyInv, CountedAlike
<1>. QED
  BY <1>2, <1>3, <1>4, <1>5 DEF ProxyInv
-----------------------------------------------------------------------------
(* The natives and the accept loops.                                       *)

\* Goroutines that are not yet, or not yet counted, change without a trace.
LEMMA UncountedKept ==
  ASSUME Proxy!ProxyAssumption, Proxy!TypeOK, Counted, rt'.conns = rt.conns, Proxy!Starts' = Proxy!Starts,
         \A c \in Clients :
           \/ handler'[c] = handler[c]
           \/ /\ handler[c].pc \notin {"relay", "lower", "gone"}
              /\ handler'[c].pc \notin {"relay", "lower", "gone"}
              /\ handler'[c].born = 0 /\ handler'[c].died = 0
  PROVE  Counted'
<1>1. Proxy!Starts \in Nat /\ 0 <= Proxy!Starts
  BY StartsType
<1>2. Dated'
  BY <1>1 DEF Counted, Dated
<1>3. Relaying' = Relaying
  BY DEF Relaying
<1>4. Overstayed' = Overstayed
  BY DEF Overstayed
<1>. QED
  BY <1>2, <1>3, <1>4 DEF Counted

LEMMA StartKeeps ==
  ASSUME Proxy!ProxyAssumption, ProxyInv, NEW l \in Listeners, NEW n \in Nodes, Proxy!ClashStart(l, n)
  PROVE  ProxyInv'
<1>1. /\ loop[l].pc = "none" /\ rt' = [running |-> TRUE, ln |-> l, node |-> n, conns |-> 0]
      /\ listening' = listening \cup {l} /\ config' = [config EXCEPT ![l] = n]
      /\ loop' = [loop EXCEPT ![l] = [Proxy!NoLoop EXCEPT !.pc = "top"]]
      /\ UNCHANGED <<backlog, client, handler>>
  BY DEF Proxy!ClashStart
<1>2. [Proxy!NoLoop EXCEPT !.pc = "top"] \in Proxy!LoopState /\ [Proxy!NoLoop EXCEPT !.pc = "top"].pc = "top"
  BY DEF Proxy!NoLoop, Proxy!LoopState
<1>3. Proxy!TypeOK'
  BY <1>1, <1>2 DEF ProxyInv, Proxy!TypeOK, Proxy!Runtime
<1>4. Served'
  BY StartServes DEF ProxyInv
<1>5. AllCarried'
  BY <1>1 DEF ProxyInv, AllCarried, Measured, Prepared, Carried, Proxy!Payload
<1>6. Proxy!Starts' = Proxy!Starts + 1 /\ Proxy!Starts \in Nat
  <2>. DEFINE S == {m \in Listeners : loop[m].pc # "none"}
  <2>1. {m \in Listeners : loop'[m].pc # "none"} = S \cup {l} /\ l \notin S
    BY <1>1, <1>2 DEF ProxyInv, Proxy!TypeOK
  <2>2. IsFiniteSet(S)
    BY FS_Subset, SameCardinality DEF Proxy!ProxyAssumption
  <2>3. Cardinality(S \cup {l}) = Cardinality(S) + 1 /\ Cardinality(S) \in Nat
    BY <2>1, <2>2, FS_AddElement, FS_CardinalityType
  <2>. QED
    BY <2>1, <2>3, SameCardinality DEF Proxy!Starts
<1>7. \A c \in Clients : /\ handler[c].born \in Nat /\ handler[c].died \in Nat
                         /\ handler[c].born <= Proxy!Starts /\ handler[c].died <= Proxy!Starts
                         /\ handler[c].pc # "gone" => handler[c].died = 0
  BY DEF ProxyInv, Proxy!TypeOK, Proxy!HandlerState, Counted, Dated
<1>8. \A c \in Clients : /\ handler[c].born <= Proxy!Starts' /\ handler[c].died <= Proxy!Starts'
                         /\ handler[c].born # Proxy!Starts' /\ handler[c].died # Proxy!Starts'
  BY <1>6, <1>7
<1>9. Relaying' = {} /\ Overstayed' = {}
  BY <1>1, <1>8 DEF Relaying, Overstayed
<1>10. Dated'
  BY <1>1, <1>7, <1>8 DEF Dated
<1>11. Counted'
  <2>1. Cardinality({}) = 0
    BY FS_EmptySet
  <2>2. rt'.conns = 0
    BY <1>1
  <2>. QED
    BY <1>9, <1>10, <2>1, <2>2 DEF Counted
<1>. QED
  BY <1>3, <1>4, <1>5, <1>11 DEF ProxyInv

LEMMA StopKeeps ==
  ASSUME Proxy!ProxyAssumption, ProxyInv, Proxy!ClashStop
  PROVE  ProxyInv'
<1>1. /\ listening' = listening \ {rt.ln} /\ backlog' = Proxy!Closed({rt.ln})
      /\ rt' = [rt EXCEPT !.running = FALSE, !.ln = None]
      /\ UNCHANGED <<loop, client, handler, config>>
  BY DEF Proxy!ClashStop
<1>2. rt' \in Proxy!Runtime /\ rt'.conns = rt.conns
  BY <1>1 DEF ProxyInv, Proxy!TypeOK, Proxy!Runtime
<1>3. backlog' \in [Clients -> Listeners \cup {None}]
  BY <1>1 DEF ProxyInv, Proxy!TypeOK, Proxy!Closed
<1>4. Proxy!TypeOK'
  BY <1>1, <1>2, <1>3 DEF ProxyInv, Proxy!TypeOK
<1>5. Served'
  BY StopServes DEF ProxyInv
<1>6. AllCarried'
  BY <1>1 DEF ProxyInv, AllCarried, Measured, Prepared, Carried, Proxy!Payload
<1>7. Counted'
  BY <1>1, <1>2, UncountedKept, LoopsUncounted DEF ProxyInv
<1>. QED
  BY <1>4, <1>5, <1>6, <1>7 DEF ProxyInv

LEMMA StartsKept ==
  ASSUME \A l \in Listeners : (loop'[l].pc = "none") <=> (loop[l].pc = "none")
  PROVE  Proxy!Starts' = Proxy!Starts
<1>1. {l \in Listeners : loop'[l].pc # "none"} = {l \in Listeners : loop[l].pc # "none"}
  OBVIOUS
<1>. QED
  BY <1>1 DEF Proxy!Starts

LEMMA LooksKeep ==
  ASSUME Proxy!ProxyAssumption, ProxyInv, NEW l \in Listeners, Proxy!LoopTop(l) \/ Proxy!AcceptFails(l) \/ Proxy!LoopStill(l)
  PROVE  ProxyInv'
<1>1. UNCHANGED <<rt, listening, backlog, client, handler, config>>
  BY DEF Proxy!LoopTop, Proxy!AcceptFails, Proxy!LoopStill
<1>2. loop[l] \in Proxy!LoopState /\ rt \in Proxy!Runtime
  BY DEF ProxyInv, Proxy!TypeOK
<1>3. PICK m \in Proxy!LoopState :
        /\ loop' = [loop EXCEPT ![l] = m] /\ m.pc # "none" /\ loop[l].pc # "none"
        /\ m.pc = "accept" => m.ln # None
  <2>1. CASE Proxy!LoopTop(l) /\ rt.running /\ rt.ln # None
    <3>. DEFINE m == [Proxy!NoLoop EXCEPT !.pc = "accept", !.ln = rt.ln, !.node = rt.node]
    <3>1. m \in Proxy!LoopState /\ m.pc = "accept" /\ m.ln = rt.ln
      BY <1>2 DEF Proxy!NoLoop, Proxy!LoopState, Proxy!Runtime
    <3>2. loop' = [loop EXCEPT ![l] = m] /\ loop[l].pc = "top"
      BY <2>1 DEF Proxy!LoopTop
    <3>. QED
      BY <2>1, <3>1, <3>2
  <2>2. CASE Proxy!LoopTop(l) /\ ~ (rt.running /\ rt.ln # None)
    <3>. DEFINE m == [loop[l] EXCEPT !.pc = "exited"]
    <3>1. m \in Proxy!LoopState /\ m.pc = "exited"
      BY <1>2 DEF Proxy!LoopState
    <3>2. loop' = [loop EXCEPT ![l] = m] /\ loop[l].pc = "top"
      BY <2>2 DEF Proxy!LoopTop
    <3>. QED
      BY <3>1, <3>2
  <2>3. CASE Proxy!AcceptFails(l) \/ Proxy!LoopStill(l)
    <3>1. PICK p \in {"failed", "top", "exited"} :
            loop' = [loop EXCEPT ![l].pc = p] /\ loop[l].pc \in {"accept", "failed"}
      BY <2>3 DEF Proxy!AcceptFails, Proxy!LoopStill
    <3>. DEFINE m == [loop[l] EXCEPT !.pc = p]
    <3>2. m \in Proxy!LoopState /\ m.pc = p
      BY <1>2, <3>1 DEF Proxy!LoopState
    <3>3. loop' = [loop EXCEPT ![l] = m]
      BY <3>1
    <3>. QED
      BY <3>1, <3>2, <3>3
  <2>. QED
    BY <2>1, <2>2, <2>3
<1>4. Proxy!TypeOK'
  BY <1>1, <1>3 DEF ProxyInv, Proxy!TypeOK
<1>5. Served'
  BY LooksServe DEF ProxyInv
<1>6. AllCarried'
  BY <1>1 DEF ProxyInv, AllCarried, Measured, Prepared, Carried, Proxy!Payload
<1>7. Proxy!Starts' = Proxy!Starts
  BY <1>3, StartsKept DEF ProxyInv, Proxy!TypeOK
<1>8. Counted'
  BY <1>1, <1>7, UncountedKept DEF ProxyInv
<1>. QED
  BY <1>4, <1>5, <1>6, <1>8 DEF ProxyInv

\* A goroutine that has read nothing yet.
LEMMA Untouched ==
  ASSUME Proxy!ProxyAssumption, ProxyInv, NEW c \in Clients, UNCHANGED client,
         handler[c].pc \in {"none", "accepted"}, handler'[c].pc \in {"accepted", "greeting"},
         handler'[c].buf = handler[c].buf, handler'[c].sent = handler[c].sent,
         handler'[c].upDone = handler[c].upDone,
         \A d \in Clients : d # c => handler'[d] = handler[d]
  PROVE  AllCarried'
<1>1. Measured(c)' /\ Prepared(c)' /\ Carried(c)'
  BY DEF ProxyInv, AllCarried, Measured, Prepared, Carried, ItemsRead
<1>2. \A d \in Clients : d # c => Measured(d)' /\ Prepared(d)' /\ Carried(d)'
  BY DEF ProxyInv, AllCarried, Measured, Prepared, Carried, Proxy!Payload
<1>. QED
  BY <1>1, <1>2 DEF AllCarried

LEMMA AcceptKeeps ==
  ASSUME Proxy!ProxyAssumption, ProxyInv, NEW l \in Listeners, NEW c \in Clients, Proxy!Accept(l, c)
  PROVE  ProxyInv'
<1>. DEFINE h == [Proxy!NoHandler EXCEPT !.pc = "accepted", !.at = loop[l].ln]
<1>1. /\ loop[l].pc = "accept" /\ backlog' = [backlog EXCEPT ![c] = None]
      /\ handler' = [handler EXCEPT ![c] = h]
      /\ loop' = [loop EXCEPT ![l].pc = "accepted", ![l].conn = c]
      /\ UNCHANGED <<rt, listening, client, config>>
      /\ handler[c] = Proxy!NoHandler
  BY DEF Proxy!Accept, ProxyInv, Proxy!TypeOK, Served, ClientsMean
<1>2. loop[l] \in Proxy!LoopState
  BY DEF ProxyInv, Proxy!TypeOK
<1>3. /\ h \in Proxy!HandlerState /\ h.pc = "accepted" /\ h.born = 0 /\ h.died = 0
      /\ h.buf = Proxy!NoHandler.buf /\ h.sent = Proxy!NoHandler.sent /\ h.upDone = Proxy!NoHandler.upDone
  <2>1. handler[c] \in Proxy!HandlerState
    BY DEF ProxyInv, Proxy!TypeOK
  <2>. QED
    BY <1>1, <1>2, <2>1 DEF Proxy!NoHandler, Proxy!HandlerState, Proxy!LoopState
<1>. HIDE DEF h
<1>4. Proxy!NoHandler.pc = "none"
  BY DEF Proxy!NoHandler
<1>5. loop'[l] \in Proxy!LoopState /\ loop'[l].pc = "accepted"
      /\ \A m \in Listeners : m # l => loop'[m] = loop[m]
  BY <1>1, <1>2 DEF ProxyInv, Proxy!TypeOK, Proxy!LoopState
<1>6. loop' \in [Listeners -> Proxy!LoopState]
  BY <1>1, <1>5 DEF ProxyInv, Proxy!TypeOK
<1>7. handler'[c] = h /\ \A d \in Clients : d # c => handler'[d] = handler[d]
  BY <1>1 DEF ProxyInv, Proxy!TypeOK
<1>8. Proxy!TypeOK'
  BY <1>1, <1>3, <1>5, <1>6 DEF ProxyInv, Proxy!TypeOK
<1>9. Served'
  BY AcceptServes DEF ProxyInv
<1>10. AllCarried'
  BY <1>1, <1>3, <1>4, <1>7, Untouched
<1>11. Proxy!Starts' = Proxy!Starts
  BY <1>1, <1>5, StartsKept
<1>12. Counted'
  BY <1>1, <1>3, <1>4, <1>7, <1>11, UncountedKept DEF ProxyInv
<1>. QED
  BY <1>8, <1>9, <1>10, <1>12 DEF ProxyInv

LEMMA SpawnKeeps ==
  ASSUME Proxy!ProxyAssumption, ProxyInv, NEW l \in Listeners, Proxy!Spawn(l)
  PROVE  ProxyInv'
<1>. DEFINE c == loop[l].conn
            h == [handler[c] EXCEPT !.pc = "greeting", !.node = loop[l].node]
<1>1. /\ loop[l].pc = "accepted" /\ c \in Clients /\ handler[c].pc = "accepted"
      /\ handler' = [handler EXCEPT ![c] = h]
      /\ loop' = [loop EXCEPT ![l].pc = "top", ![l].conn = None]
      /\ UNCHANGED <<rt, listening, backlog, client, config>>
  BY DEF Proxy!Spawn, Proxy!NodeOf, ProxyInv, Served, HandedOver, Proxy!TypeOK
<1>2. loop[l] \in Proxy!LoopState /\ handler[c] \in Proxy!HandlerState
  BY <1>1 DEF ProxyInv, Proxy!TypeOK
<1>. HIDE DEF c
<1>3. /\ h \in Proxy!HandlerState /\ h.pc = "greeting" /\ h.buf = handler[c].buf
      /\ h.sent = handler[c].sent /\ h.upDone = handler[c].upDone
      /\ h.born = handler[c].born /\ h.died = handler[c].died
  BY <1>2 DEF Proxy!HandlerState, Proxy!LoopState
<1>. HIDE DEF h
<1>4. loop'[l] \in Proxy!LoopState /\ loop'[l].pc = "top"
      /\ \A m \in Listeners : m # l => loop'[m] = loop[m]
  BY <1>1, <1>2 DEF ProxyInv, Proxy!TypeOK, Proxy!LoopState
<1>5. loop' \in [Listeners -> Proxy!LoopState]
  BY <1>1, <1>4 DEF ProxyInv, Proxy!TypeOK
<1>6. handler'[c] = h /\ \A d \in Clients : d # c => handler'[d] = handler[d]
  BY <1>1 DEF ProxyInv, Proxy!TypeOK
<1>7. Proxy!TypeOK'
  BY <1>1, <1>3, <1>4, <1>5 DEF ProxyInv, Proxy!TypeOK
<1>8. Served'
  BY SpawnServes DEF ProxyInv
<1>9. AllCarried'
  BY <1>1, <1>3, <1>6, Untouched
<1>10. Proxy!Starts' = Proxy!Starts
  BY <1>1, <1>4, StartsKept
<1>11. Counted'
  BY <1>1, <1>3, <1>6, <1>10, CountsKept DEF ProxyInv, CountedAlike
<1>. QED
  BY <1>7, <1>8, <1>9, <1>11 DEF ProxyInv
-----------------------------------------------------------------------------
(* The theorems.                                                           *)

LEMMA ProxyInit == Proxy!ProxyAssumption /\ Proxy!Init => ProxyInv
<1>. SUFFICES ASSUME Proxy!ProxyAssumption, Proxy!Init PROVE ProxyInv
  OBVIOUS
<1>1. \A c \in Clients :
        /\ handler[c] = Proxy!NoHandler /\ backlog[c] = None
        /\ client[c] = [wrote |-> <<>>, unread |-> <<>>, shut |-> FALSE, early |-> FALSE]
  BY DEF Proxy!Init
<1>2. \A l \in Listeners : loop[l].pc = "none"
  BY DEF Proxy!Init, Proxy!NoLoop
<1>3. <<>> \in Proxy!Streams
  <2>1. 0 <= MaxPayload + 2
    BY DEF Proxy!ProxyAssumption
  <2>. QED
    BY <2>1, EmptyStream, StreamIs
<1>4. /\ Proxy!NoHandler \in Proxy!HandlerState /\ Proxy!NoHandler.pc = "none" /\ Proxy!NoHandler.buf = <<>>
      /\ Proxy!NoHandler.sent = <<>> /\ ~Proxy!NoHandler.upDone /\ Proxy!NoHandler.born = 0 /\ Proxy!NoHandler.died = 0
  BY <1>3 DEF Proxy!NoHandler, Proxy!HandlerState
<1>5. Proxy!TypeOK
  BY <1>2, <1>3, <1>4 DEF Proxy!Init, Proxy!TypeOK, Proxy!Runtime, Proxy!ClientState, Proxy!LoopState, Proxy!NoLoop
<1>6. Served
  BY <1>1, <1>2, <1>4 DEF Proxy!Init, Served, RuntimeMeans, Proxy!KeepsAccepting, LoopsMean, HandedOver, ClientsMean,
              Proxy!NodeOfItsListener
<1>7. AllCarried
  <2>. SUFFICES ASSUME NEW c \in Clients PROVE Measured(c) /\ Prepared(c) /\ Carried(c)
    BY DEF AllCarried
  <2>1. /\ Len(handler[c].buf) = 0 /\ Len(handler[c].sent) = 0 /\ Len(client[c].unread) = 0
        /\ Len(client[c].wrote) = 0 /\ handler[c].pc = "none" /\ handler[c].sent = <<>>
        /\ ~handler[c].upDone
    BY <1>1, <1>4, EmptyStream
  <2>. QED
    BY <2>1 DEF Measured, Prepared, Carried, ItemsRead
<1>8. Counted
  <2>1. Relaying = {} /\ Overstayed = {}
    BY <1>1, <1>4 DEF Relaying, Overstayed
  <2>2. Proxy!Starts \in Nat /\ 0 <= Proxy!Starts
    BY StartsType
  <2>3. Dated
    BY <1>1, <1>4, <2>2 DEF Dated
  <2>. QED
    BY <2>1, <2>3, FS_EmptySet DEF Counted, Proxy!Init
<1>. QED
  BY <1>5, <1>6, <1>7, <1>8 DEF ProxyInv

LEMMA ProxyNext == Proxy!ProxyAssumption /\ ProxyInv /\ [Proxy!Next]_(Proxy!vars) => ProxyInv'
<1>. SUFFICES ASSUME Proxy!ProxyAssumption, ProxyInv, [Proxy!Next]_(Proxy!vars) PROVE ProxyInv'
  OBVIOUS
<1>1. ASSUME NEW l \in Listeners, NEW n \in Nodes, Proxy!ClashStart(l, n) PROVE ProxyInv'
  BY <1>1, StartKeeps
<1>2. ASSUME Proxy!ClashStop PROVE ProxyInv'
  BY <1>2, StopKeeps
<1>3. ASSUME NEW l \in Listeners, Proxy!AcceptLoop(l) PROVE ProxyInv'
  BY <1>3, LooksKeep, SpawnKeeps, AcceptKeeps DEF Proxy!AcceptLoop
<1>4. ASSUME NEW c \in Clients, Proxy!HandshakeEnds(c) \/ Proxy!Dial(c) \/ Proxy!DialAnswered(c) \/ Proxy!RelayEnds(c)
      PROVE  ProxyInv'
  BY <1>4, GotoKeeps DEF Proxy!HandshakeEnds, Proxy!Dial, Proxy!DialAnswered, Proxy!RelayEnds, Proxy!Fails
<1>5. ASSUME NEW c \in Clients, Proxy!HandleClient(c) PROVE ProxyInv'
  BY <1>4, <1>5, HandshakeKeeps, EnterKeeps, CopyKeeps, EndsKeep, LeaveKeeps DEF Proxy!HandleClient
<1>6. ASSUME NEW c \in Clients, Proxy!Peers(c) PROVE ProxyInv'
  BY <1>6, ConnectKeeps, WriteKeeps, ShutKeeps, EndsKeep DEF Proxy!Peers
<1>7. CASE UNCHANGED Proxy!vars
  <2>1. UNCHANGED <<rt, listening, backlog, loop, client, handler, config>>
    BY <1>7 DEF Proxy!vars
  <2>2. Proxy!TypeOK' /\ Served' /\ AllCarried'
    BY <2>1 DEF ProxyInv, Proxy!TypeOK, Served, RuntimeMeans, Proxy!KeepsAccepting, LoopsMean, HandedOver, ClientsMean,
                Proxy!NodeOfItsListener, Started, AllCarried, Measured, Prepared, Carried, Proxy!Payload
  <2>3. Counted'
    BY <2>1, UncountedKept, LoopsUncounted DEF ProxyInv
  <2>. QED
    BY <2>2, <2>3 DEF ProxyInv
<1>. QED
  BY <1>1, <1>2, <1>3, <1>5, <1>6, <1>7 DEF Proxy!Next

LEMMA ProxyAlways == Spec => []ProxyInv
<1>1. Init => ProxyInv
  BY ProxyInit, ServicesAssumption DEF Init
<1>2. ProxyInv /\ [Next]_vars => ProxyInv'
  <2>1. [Next]_vars => [Proxy!Next]_(Proxy!vars)
    BY DEF Next, ProxyMoves, HandlesMove, ValuesMove, vars, proxyVars, Proxy!vars
  <2>. QED
    BY <2>1, ProxyNext, ServicesAssumption
<1>. QED
  BY <1>1, <1>2, PTL DEF Spec

\* The variables of ClashProxy keep their types.
THEOREM ProxyTypes == Spec => []Proxy!TypeOK
<1>1. ProxyInv => Proxy!TypeOK
  BY DEF ProxyInv
<1>. QED
  BY <1>1, ProxyAlways, PTL

\* A client is carried to the node of the configuration whose port it
\* connected to, whatever starts and stops fall between the steps of a loop.
THEOREM RightNode == Spec => []NodeOfItsListener
<1>1. ProxyInv => NodeOfItsListener
  BY DEF ProxyInv, Served, NodeOfItsListener, Proxy!NodeOfItsListener
<1>. QED
  BY <1>1, ProxyAlways, PTL

\* While the proxy runs, so does the accept loop of its start.
THEOREM LoopLives == Spec => []KeepsAccepting
<1>1. ProxyInv => KeepsAccepting
  BY DEF ProxyInv, Served, KeepsAccepting, Proxy!KeepsAccepting
<1>. QED
  BY <1>1, ProxyAlways, PTL

\* A copy that has ended has passed on all that the client wrote after its
\* request, unless the client wrote early or the remote end closed.
THEOREM RelayLosesNothing == Spec => []NothingLost
<1>1. ProxyInv => NothingLost
  BY DEF ProxyInv, AllCarried, Carried, NothingLost, Proxy!NothingLost
<1>. QED
  BY <1>1, ProxyAlways, PTL

\* What clash.status reports as conns is the relays of this start less those
\* of earlier starts that have ended under it.
THEOREM StatusCounts == Spec => []ConnsCounted
<1>1. ProxyInv => ConnsCounted
  BY SameCardinality DEF ProxyInv, Counted, Relaying, Overstayed, ConnsCounted, Proxy!ConnsCounted
<1>. QED
  BY <1>1, ProxyAlways, PTL
=============================================================================
