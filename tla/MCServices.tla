----------------------------- MODULE MCServices -----------------------------
(* The services of one process that run beside the interpreter, for TLC:   *)
(* the proxy, the handles on the system's objects, and the values that     *)
(* tasks hold in common.  They share no state of the program, so one of    *)
(* them moves in each behaviour.                                           *)
EXTENDS Integers

CONSTANTS Listeners, Clients, Nodes, WsNodes, MaxPayload, Tasks, Kinds, Objects, None,
  Cells, MaxLength, MaxValues, MaxBlocks

VARIABLES
  service,
  rt, listening, backlog, loop, client, handler, config,
  made, open, table, counter, closed, op, released,
  blocks, values, meant, busy, lock

proxyVars == <<rt, listening, backlog, loop, client, handler, config>>
handleVars == <<made, open, table, counter, closed, op, released>>
valueVars == <<blocks, values, meant, busy, lock>>
vars == <<service, proxyVars, handleVars, valueVars>>

Proxy == INSTANCE ClashProxy
Handles == INSTANCE HostHandles
Values == INSTANCE ValueStore

ASSUME ServicesAssumption ==
  Proxy!ProxyAssumption /\ Handles!HandlesAssumption /\ Values!StoreAssumption

Init ==
  /\ service \in {"proxy", "handles", "values"}
  /\ Proxy!Init /\ Handles!Init /\ Values!Init

ProxyMoves == service = "proxy" /\ Proxy!Next /\ UNCHANGED <<service, handleVars, valueVars>>
HandlesMove == service = "handles" /\ Handles!Next /\ UNCHANGED <<service, proxyVars, valueVars>>
ValuesMove == service = "values" /\ Values!Next /\ UNCHANGED <<service, proxyVars, handleVars>>
Next == ProxyMoves \/ HandlesMove \/ ValuesMove

Spec == Init /\ [][Next]_vars /\ Proxy!Fairness

\* The types of all three.
TypeOK == Proxy!TypeOK /\ Handles!TypeOK /\ Values!TypeOK

\* What the proxy keeps: see ClashProxy.
NodeOfItsListener == Proxy!NodeOfItsListener
KeepsAccepting == Proxy!KeepsAccepting
ConnsCounted == Proxy!ConnsCounted
NothingLost == Proxy!NothingLost
StopEndsLoops == Proxy!StopEndsLoops
RelayFinishes == Proxy!RelayFinishes

\* What numbered handles keep: see HostHandles.
OwnObject == Handles!OwnObject
TablesExact == Handles!TablesExact

\* Sharing storage shows in no value: see ValueStore.
StorageMeans == Values!StorageMeans
=============================================================================
