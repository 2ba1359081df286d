-------------------------- MODULE AsyncChannel_proofs --------------------------
(***************************************************************************)
(* Proofs about AsyncChannel, for every set of tasks, every capacity and   *)
(* every number of sends.                                                  *)
(***************************************************************************)
EXTENDS MCAsyncChannel, SequenceTheorems, TLAPS

-----------------------------------------------------------------------------
(* Sequences.                                                              *)

\* Appending to a sequence adds one element to its range.
LEMMA RangeAppend ==
  ASSUME NEW S, NEW s \in Seq(S), NEW v \in S
  PROVE  /\ Append(s, v) \in Seq(S)
         /\ Range(Append(s, v)) = Range(s) \cup {v}
<1>1. /\ Append(s, v) \in Seq(S)
      /\ Len(Append(s, v)) = Len(s) + 1
      /\ \A i \in 1 .. Len(s) : Append(s, v)[i] = s[i]
      /\ Append(s, v)[Len(s) + 1] = v
  BY AppendProperties
<1>2. DOMAIN s = 1 .. Len(s) /\ DOMAIN Append(s, v) = 1 .. Len(s) + 1 /\ Len(s) \in Nat
  BY <1>1, LenProperties
<1>3. Range(Append(s, v)) \subseteq Range(s) \cup {v}
  BY <1>1, <1>2 DEF Range
<1>4. Range(s) \cup {v} \subseteq Range(Append(s, v))
  BY <1>1, <1>2 DEF Range
<1>. QED
  BY <1>1, <1>3, <1>4

\* A new element keeps a sequence without repetition.
LEMMA InjectiveAppend ==
  ASSUME NEW S, NEW s \in Seq(S), NEW v \in S, IsInjective(s), v \notin Range(s)
  PROVE  IsInjective(Append(s, v))
<1>1. /\ Append(s, v) \in Seq(S)
      /\ Len(Append(s, v)) = Len(s) + 1
      /\ \A i \in 1 .. Len(s) : Append(s, v)[i] = s[i]
      /\ Append(s, v)[Len(s) + 1] = v
  BY AppendProperties
<1>2. DOMAIN s = 1 .. Len(s) /\ DOMAIN Append(s, v) = 1 .. Len(s) + 1 /\ Len(s) \in Nat
  BY <1>1, LenProperties
<1>3. \A i \in 1 .. Len(s) : s[i] # v
  BY <1>2 DEF Range
<1>. QED
  BY <1>1, <1>2, <1>3 DEF IsInjective

\* A queue of values and one value behind them, taken from the front.
LEMMA MoveUp ==
  ASSUME NEW S, NEW s \in Seq(S), NEW v \in S
  PROVE  /\ Append(s, v) \in Seq(S)
         /\ Head(Append(s, v)) \in S
         /\ Tail(Append(s, v)) \in Seq(S)
         /\ Len(Tail(Append(s, v))) = Len(s)
         /\ Append(s, v) = <<Head(Append(s, v))>> \o Tail(Append(s, v))
<1>1. Append(s, v) \in Seq(S) /\ Len(Append(s, v)) = Len(s) + 1 /\ Append(s, v) # <<>>
  BY AppendProperties
<1>. QED
  BY <1>1, HeadTailProperties, LenProperties
-----------------------------------------------------------------------------
(* The invariant.                                                          *)

Sending(p) == op[p].kind \in {"check", "send"}

\* Every send in progress has a value of its own that was drawn and not
\* answered yet, and no value is answered before it is drawn.
SendsOpen ==
  /\ \A p \in Procs : Sending(p) => op[p].val \in 1 .. sends /\ answer[op[p].val] = "none"
  /\ \A p, q \in Procs : Sending(p) /\ Sending(q) /\ op[p].val = op[q].val => p = q
  /\ \A v \in Value : v > sends => answer[v] = "none"

\* Only an operation on the Go channel waits inside it.
ParkedKinds == \A p \in Procs : op[p].parked => op[p].kind \in {"send", "recv"}

\* Once a receiver has been told, the channel is closed and empty and nobody
\* waits to send.
ToldIsEmpty == toldClosed /\ ~crashed => closed /\ buf = <<>> /\ Parked("send") = {}

\* The channel gives its values in the order in which it took them: those
\* that it took and has not given yet are the buffer.
Fifo == accepted = received \o buf

Inv ==
  /\ TypeOK
  /\ SendsOpen
  /\ ParkedKinds
  /\ AnswersTrue
  /\ NoIdleWait
  /\ ToldIsEmpty
  /\ Fifo
-----------------------------------------------------------------------------
(* Types.                                                                  *)

LEMMA NoOpType == NoOp \in Op /\ NoOp.kind = "none" /\ NoOp.parked = FALSE
BY DEF NoOp, Call, Op, Kind, Mode

LEMMA CallType ==
  ASSUME NEW k \in Kind, NEW m \in Mode, NEW v \in Value \cup {0}
  PROVE  Call(k, m, v) \in Op
BY DEF Call, Op

\* Ending calls leaves the others as they are.
LEMMA EndType ==
  ASSUME op \in [Procs -> Op], NEW S, End(S)
  PROVE  /\ op' \in [Procs -> Op]
         /\ \A q \in Procs : op'[q] = IF q \in S THEN NoOp ELSE op[q]
BY NoOpType DEF End

LEMMA ParkType ==
  ASSUME op \in [Procs -> Op], NEW p \in Procs, Park(p)
  PROVE  /\ op' \in [Procs -> Op]
         /\ op'[p] = [op[p] EXCEPT !.parked = TRUE]
         /\ \A q \in Procs \ {p} : op'[q] = op[q]
BY DEF Park, Op

LEMMA AfterCloseType ==
  ASSUME NEW p \in Procs
  PROVE  /\ AfterClose(p) \in Op
         /\ AfterClose(p).kind \in {"none", "delete"}
         /\ AfterClose(p).parked = FALSE
BY NoOpType DEF AfterClose, Call, Op, Kind, Mode

\* The value of a send in progress.
LEMMA SendValue ==
  ASSUME TypeOK, SendsOpen, NEW p \in Procs, Sending(p)
  PROVE  op[p].val \in Value /\ op[p].val \in 1 .. sends /\ answer[op[p].val] = "none"
BY ChannelAssumption DEF TypeOK, SendsOpen, Value

LEMMA BufType ==
  ASSUME TypeOK
  PROVE  /\ cap \in Nat
         /\ buf \in Seq(Value)
         /\ Len(buf) \in Nat
         /\ Len(buf) <= cap
         /\ buf = <<>> <=> Len(buf) = 0
         /\ buf # <<>> => /\ Head(buf) \in Value
                          /\ Tail(buf) \in Seq(Value)
                          /\ Len(Tail(buf)) = Len(buf) - 1
                          /\ buf = <<Head(buf)>> \o Tail(buf)
<1>1. cap \in Nat /\ buf \in Seq(Value) /\ Len(buf) <= cap
  BY ChannelAssumption DEF TypeOK
<1>. QED
  BY <1>1, LenProperties, EmptySeq, HeadTailProperties

LEMMA TypeInit == Init => TypeOK
<1>. SUFFICES ASSUME Init PROVE TypeOK
  OBVIOUS
<1>1. op \in [Procs -> Op]
  BY NoOpType DEF Init
<1>2. buf \in Seq(Value) /\ Len(buf) <= cap
  BY EmptySeq, ChannelAssumption DEF Init
<1>3. answer \in [Value -> {"none", "ok", "error"}] /\ sends \in 0 .. MaxSends
  BY ChannelAssumption DEF Init
<1>. QED
  BY <1>1, <1>2, <1>3 DEF Init, TypeOK

\* What a send does to the channel when it is possible.
LEMMA ChanSendType ==
  ASSUME TypeOK, SendsOpen, NEW p \in Procs, op[p].kind = "send", ChanSend(p)
  PROVE  /\ buf' \in Seq(Value) /\ Len(buf') <= cap
         /\ op' \in [Procs -> Op]
         /\ answer' \in [Value -> {"none", "ok", "error"}]
         /\ accepted' \in Seq(Value) /\ received' \in Seq(Value)
<1>1. op[p].val \in Value
  BY SendValue DEF Sending
<1>2. op' \in [Procs -> Op]
  BY EndType DEF TypeOK, ChanSend
<1>a. /\ accepted' = Append(accepted, op[p].val)
      /\ received' = received \/ received' = Append(received, op[p].val)
  BY DEF ChanSend
<1>b. accepted \in Seq(Value) /\ received \in Seq(Value)
  BY DEF TypeOK
<1>c. Append(accepted, op[p].val) \in Seq(Value) /\ Append(received, op[p].val) \in Seq(Value)
  BY <1>1, <1>b, AppendProperties
<1>3. accepted' \in Seq(Value) /\ received' \in Seq(Value)
  BY <1>a, <1>b, <1>c
<1>4. answer' \in [Value -> {"none", "ok", "error"}]
  BY <1>1 DEF TypeOK, ChanSend
<1>5. buf' \in Seq(Value) /\ Len(buf') <= cap
  <2>1. CASE UNCHANGED buf
    BY <2>1 DEF TypeOK
  <2>2. CASE Parked("recv") = {} /\ buf' = Append(buf, op[p].val)
    BY <1>1, <2>2, BufType, AppendProperties DEF ChanSend, CanSend
  <2>. QED
    BY <2>1, <2>2 DEF ChanSend
<1>. QED
  BY <1>2, <1>3, <1>4, <1>5

\* What a receive does to the channel when it is possible.
LEMMA ChanRecvType ==
  ASSUME TypeOK, SendsOpen, NoIdleWait, ~crashed, NEW p \in Procs, ChanRecv(p)
  PROVE  /\ buf' \in Seq(Value) /\ Len(buf') <= cap
         /\ op' \in [Procs -> Op]
         /\ answer' \in [Value -> {"none", "ok", "error"}]
         /\ accepted' \in Seq(Value) /\ received' \in Seq(Value)
<1>1. op' \in [Procs -> Op]
  BY EndType DEF TypeOK, ChanRecv
<1>2. CASE /\ Parked("send") = {}
           /\ buf' = Tail(buf)
           /\ received' = Append(received, Head(buf))
           /\ UNCHANGED <<accepted, answer>>
  <2>1. buf # <<>>
    BY <1>2 DEF ChanRecv, CanRecv
  <2>2. received' \in Seq(Value)
    BY <1>2, <2>1, BufType, AppendProperties DEF TypeOK
  <2>. QED
    BY <1>1, <1>2, <2>1, <2>2, BufType DEF TypeOK
<1>3. CASE \E s \in Parked("send") :
             /\ buf' = Tail(Append(buf, op[s].val))
             /\ received' = Append(received, Head(Append(buf, op[s].val)))
             /\ accepted' = Append(accepted, op[s].val)
             /\ answer' = [answer EXCEPT ![op[s].val] = "ok"]
  <2>1. PICK s \in Parked("send") :
             /\ buf' = Tail(Append(buf, op[s].val))
             /\ received' = Append(received, Head(Append(buf, op[s].val)))
             /\ accepted' = Append(accepted, op[s].val)
             /\ answer' = [answer EXCEPT ![op[s].val] = "ok"]
    BY <1>3
  <2>2. op[s].val \in Value
    BY SendValue DEF Parked, Sending
  <2>3. buf' \in Seq(Value) /\ Len(buf') = Len(buf) /\ received' \in Seq(Value)
    BY <2>1, <2>2, BufType, MoveUp, AppendProperties, ZenonT(30) DEF TypeOK
  <2>4. accepted' \in Seq(Value) /\ answer' \in [Value -> {"none", "ok", "error"}]
    BY <2>1, <2>2, AppendProperties DEF TypeOK
  <2>. QED
    BY <1>1, <2>3, <2>4, BufType
<1>. QED
  BY <1>2, <1>3 DEF ChanRecv

LEMMA TypeNext ==
  ASSUME TypeOK, SendsOpen, NoIdleWait, [Next]_vars
  PROVE  TypeOK'
<1>a. op \in [Procs -> Op]
  BY DEF TypeOK
<1>1. ASSUME NEW p \in Procs, StartSend(p) PROVE TypeOK'
  <2>1. sends + 1 \in Value /\ sends + 1 \in 0 .. MaxSends
    BY <1>1, ChannelAssumption DEF StartSend, TypeOK, Value
  <2>2. op' \in [Procs -> Op]
    BY <1>1, <1>a, <2>1, CallType DEF StartSend, Kind
  <2>. QED
    BY <1>1, <2>1, <2>2 DEF StartSend, channel, TypeOK
<1>2. ASSUME NEW p \in Procs, StartRecv(p) \/ StartClose(p) PROVE TypeOK'
  <2>1. op' \in [Procs -> Op]
    BY <1>2, <1>a, CallType DEF StartRecv, StartClose, Kind, Mode
  <2>. QED
    BY <1>2, <2>1 DEF StartRecv, StartClose, channel, history, TypeOK
<1>3. ASSUME NEW p \in Procs, Sending(p), SendFails(p) PROVE TypeOK'
  <2>1. op[p].val \in Value
    BY <1>3, SendValue
  <2>. QED
    BY <1>3, <2>1, EndType DEF SendFails, channel, TypeOK
<1>4. ASSUME NEW p \in Procs, SendPasses(p) PROVE TypeOK'
  <2>1. op[p].mode \in Mode /\ op[p].val \in Value \cup {0}
    BY <1>a DEF Op
  <2>2. op' \in [Procs -> Op]
    BY <1>4, <1>a, <2>1, CallType DEF SendPasses, Kind
  <2>. QED
    BY <1>4, <2>2 DEF SendPasses, channel, history, TypeOK
<1>5. ASSUME NEW p \in Procs, Send(p) PROVE TypeOK'
  BY <1>5, ChanSendType DEF Send, TypeOK
<1>6. ASSUME NEW p \in Procs, ~crashed, Recv(p) PROVE TypeOK'
  BY <1>6, ChanRecvType DEF Recv, TypeOK
<1>7. ASSUME NEW p \in Procs, SendPanics(p) PROVE TypeOK'
  BY <1>7 DEF SendPanics, channel, history, TypeOK
<1>8. ASSUME NEW p \in Procs, SendParks(p) \/ RecvParks(p) PROVE TypeOK'
  BY <1>8, ParkType DEF SendParks, RecvParks, channel, history, TypeOK
<1>9. ASSUME NEW p \in Procs, RecvClosed(p) \/ RecvFails(p) \/ Delete(p) PROVE TypeOK'
  BY <1>9, EndType DEF RecvClosed, RecvFails, Delete, channel, history, TypeOK
<1>10. ASSUME NEW p \in Procs, Close(p) PROVE TypeOK'
  <2>1. op' \in [Procs -> Op]
    BY <1>10, <1>a, NoOpType, AfterCloseType DEF Close
  <2>. QED
    BY <1>10, <2>1 DEF Close, TypeOK
<1>11. ASSUME NEW p \in Procs, CloseAgain(p) PROVE TypeOK'
  <2>1. op' \in [Procs -> Op]
    BY <1>11, <1>a, AfterCloseType DEF CloseAgain
  <2>. QED
    BY <1>11, <2>1 DEF CloseAgain, channel, history, TypeOK
<1>12. CASE UNCHANGED vars
  BY <1>12 DEF vars, channel, history, TypeOK
<1>. QED
  BY <1>1, <1>2, <1>3, <1>4, <1>5, <1>6, <1>7, <1>8, <1>9, <1>10, <1>11, <1>12
  DEF Next, Start, Proceed, Timer, Sending, SendRejected, SendWouldBlock, SendTimesOut,
      RecvWouldBlock, RecvTimesOut
-----------------------------------------------------------------------------
(* Sends and their answers.                                                *)

\* No send begins, and those in S are over.
SendsEnd(S) ==
  \A q \in Procs : Sending(q)' => q \notin S /\ Sending(q) /\ op'[q].val = op[q].val

LEMMA EndEnds ==
  ASSUME op \in [Procs -> Op], ParkedKinds, NEW S, End(S)
  PROVE  SendsEnd(S) /\ ParkedKinds'
BY EndType, NoOpType DEF SendsEnd, Sending, ParkedKinds

LEMMA SendsKept ==
  ASSUME SendsOpen, SendsEnd({}), sends' = sends, answer' = answer
  PROVE  SendsOpen'
<1>1. \A q \in Procs : Sending(q)' => Sending(q) /\ op'[q].val = op[q].val
  BY DEF SendsEnd
<1>. QED
  BY <1>1 DEF SendsOpen

\* One send is answered.
LEMMA SendAnswered ==
  ASSUME TypeOK, SendsOpen, NEW p \in Procs, Sending(p), SendsEnd({p}), sends' = sends,
         NEW a, answer' = [answer EXCEPT ![op[p].val] = a]
  PROVE  SendsOpen'
<1>1. op[p].val \in Value /\ op[p].val \in 1 .. sends
  BY SendValue
<1>2. \A q \in Procs : Sending(q)' => /\ q # p /\ Sending(q) /\ op'[q].val = op[q].val
                                      /\ op[q].val \in Value /\ op[q].val # op[p].val
  BY SendValue DEF SendsEnd, SendsOpen
<1>3. \A v \in Value : v # op[p].val => answer'[v] = answer[v]
  BY <1>1 DEF TypeOK
<1>4. sends \in Nat
  BY ChannelAssumption DEF TypeOK
<1>5. \A v \in Value : v > sends => v # op[p].val
  BY <1>1, <1>4 DEF Value
<1>. QED
  BY <1>2, <1>3, <1>5 DEF SendsOpen

\* An answer other than "ok" delivers nothing.
LEMMA ErrorDelivers ==
  ASSUME TypeOK, AnswersTrue, NEW v \in Value, answer[v] = "none",
         answer' = [answer EXCEPT ![v] = "error"], accepted' = accepted
  PROVE  AnswersTrue'
BY DEF AnswersTrue, TypeOK

\* "ok" delivers the value.
LEMMA OkDelivers ==
  ASSUME TypeOK, AnswersTrue, NEW v \in Value, answer[v] = "none",
         answer' = [answer EXCEPT ![v] = "ok"], accepted' = Append(accepted, v)
  PROVE  AnswersTrue'
<1>1. accepted \in Seq(Value) /\ IsInjective(accepted) /\ v \notin Range(accepted)
  BY DEF AnswersTrue, TypeOK
<1>2. IsInjective(accepted') /\ Range(accepted') = Range(accepted) \cup {v}
  BY <1>1, InjectiveAppend, RangeAppend
<1>3. {u \in Value : answer'[u] = "ok"} = {u \in Value : answer[u] = "ok"} \cup {v}
  BY DEF TypeOK
<1>. QED
  BY <1>2, <1>3 DEF AnswersTrue

\* What holds of every send.
Sends == SendsOpen /\ ParkedKinds /\ AnswersTrue

LEMMA SendsInit == Init => Sends
<1>. SUFFICES ASSUME Init PROVE Sends
  OBVIOUS
<1>1. SendsOpen /\ ParkedKinds
  BY NoOpType DEF Init, SendsOpen, Sending, ParkedKinds
<1>2. AnswersTrue
  BY DEF Init, AnswersTrue, Range, IsInjective
<1>. QED
  BY <1>1, <1>2 DEF Sends

LEMMA SendsNext ==
  ASSUME TypeOK, Sends, [Next]_vars
  PROVE  Sends'
<1>a. op \in [Procs -> Op] /\ SendsOpen /\ ParkedKinds /\ AnswersTrue
  BY DEF TypeOK, Sends
<1>b. ASSUME SendsEnd({}), ParkedKinds', sends' = sends, answer' = answer, accepted' = accepted
      PROVE  Sends'
  BY <1>a, <1>b, SendsKept DEF Sends, AnswersTrue
<1>1. ASSUME NEW p \in Procs, StartSend(p) PROVE Sends'
  <2>1. PICK m \in Mode : op' = [op EXCEPT ![p] = Call("check", m, sends + 1)]
    BY <1>1 DEF StartSend
  <2>2. sends \in Nat /\ sends + 1 \in Value /\ sends' = sends + 1 /\ answer' = answer
    BY <1>1, ChannelAssumption DEF StartSend, TypeOK, Value
  <2>3. /\ op'[p].kind = "check" /\ op'[p].val = sends + 1 /\ op'[p].parked = FALSE
        /\ \A q \in Procs : q # p => op'[q] = op[q]
    BY <2>1, <1>a DEF Call
  <2>4. \A q \in Procs : Sending(q) => op[q].val \in 1 .. sends
    BY <1>a, SendValue
  <2>5. SendsOpen'
    <3>1. \A q \in Procs : Sending(q)' => op'[q].val \in 1 .. sends' /\ answer'[op'[q].val] = "none"
      BY <1>a, <2>2, <2>3, <2>4 DEF SendsOpen, Sending
    <3>2. \A q, r \in Procs : Sending(q)' /\ Sending(r)' /\ op'[q].val = op'[r].val => q = r
      BY <1>a, <2>2, <2>3, <2>4 DEF SendsOpen, Sending
    <3>3. \A v \in Value : v > sends' => answer'[v] = "none"
      BY <1>a, <2>2 DEF SendsOpen, Value
    <3>. QED
      BY <3>1, <3>2, <3>3 DEF SendsOpen
  <2>6. ParkedKinds'
    BY <1>a, <2>3 DEF ParkedKinds
  <2>7. AnswersTrue'
    BY <1>1, <1>a DEF StartSend, AnswersTrue
  <2>. QED
    BY <2>5, <2>6, <2>7 DEF Sends
<1>2. ASSUME NEW p \in Procs, Sending(p), SendFails(p) PROVE Sends'
  <2>1. SendsEnd({p}) /\ ParkedKinds'
    BY <1>2, <1>a, EndEnds DEF SendFails
  <2>2. SendsOpen'
    BY <1>2, <1>a, <2>1, SendAnswered DEF SendFails
  <2>3. AnswersTrue'
    BY <1>2, <1>a, SendValue, ErrorDelivers DEF SendFails
  <2>. QED
    BY <2>1, <2>2, <2>3 DEF Sends
<1>3. ASSUME NEW p \in Procs, Send(p) PROVE Sends'
  <2>a. End({p}) \/ \E r \in Parked("recv") : End({p, r})
    BY <1>3 DEF Send, ChanSend
  <2>b. ASSUME NEW S, p \in S, End(S) PROVE SendsEnd({p}) /\ ParkedKinds'
    BY <1>a, <2>b, EndEnds DEF SendsEnd
  <2>2. SendsEnd({p}) /\ ParkedKinds'
    BY <2>a, <2>b
  <2>3. /\ Sending(p) /\ sends' = sends
        /\ answer' = [answer EXCEPT ![op[p].val] = "ok"]
        /\ accepted' = Append(accepted, op[p].val)
    BY <1>3 DEF Send, ChanSend, Sending
  <2>. QED
    BY <1>a, <2>2, <2>3, SendValue, SendAnswered, OkDelivers DEF Sends
<1>4. ASSUME NEW p \in Procs, Recv(p) PROVE Sends'
  <2>1. CASE End({p}) /\ UNCHANGED <<accepted, answer>>
    <3>1. SendsEnd({}) /\ ParkedKinds'
      BY <1>a, <2>1, EndEnds DEF SendsEnd
    <3>. QED
      BY <1>4, <1>b, <2>1, <3>1 DEF Recv
  <2>2. CASE \E s \in Parked("send") :
               /\ accepted' = Append(accepted, op[s].val)
               /\ answer' = [answer EXCEPT ![op[s].val] = "ok"]
               /\ End({p, s})
    <3>1. PICK s \in Parked("send") :
               /\ accepted' = Append(accepted, op[s].val)
               /\ answer' = [answer EXCEPT ![op[s].val] = "ok"]
               /\ End({p, s})
      BY <2>2
    <3>2. s \in Procs /\ Sending(s) /\ sends' = sends
      BY <1>4 DEF Parked, Sending, Recv
    <3>3. SendsEnd({s}) /\ ParkedKinds'
      BY <1>a, <3>1, EndEnds DEF SendsEnd
    <3>. QED
      BY <1>a, <3>1, <3>2, <3>3, SendValue, SendAnswered, OkDelivers DEF Sends
  <2>. QED
    BY <1>4, <2>1, <2>2 DEF Recv, ChanRecv
<1>5. ASSUME NEW p \in Procs, StartRecv(p) \/ StartClose(p) PROVE Sends'
  <2>1. SendsEnd({}) /\ ParkedKinds'
    BY <1>5, <1>a DEF StartRecv, StartClose, SendsEnd, Sending, ParkedKinds, Call
  <2>. QED
    BY <1>5, <1>b, <2>1 DEF StartRecv, StartClose, history
<1>6. ASSUME NEW p \in Procs, SendPasses(p) PROVE Sends'
  <2>1. SendsEnd({}) /\ ParkedKinds'
    BY <1>6, <1>a DEF SendPasses, SendsEnd, Sending, ParkedKinds, Call
  <2>. QED
    BY <1>6, <1>b, <2>1 DEF SendPasses, history
<1>7. ASSUME NEW p \in Procs, SendParks(p) \/ RecvParks(p) PROVE Sends'
  <2>1. /\ op[p].kind \in {"send", "recv"}
        /\ op'[p] = [op[p] EXCEPT !.parked = TRUE]
        /\ \A q \in Procs \ {p} : op'[q] = op[q]
    BY <1>7, <1>a, ParkType DEF SendParks, RecvParks
  <2>2. op'[p].kind = op[p].kind /\ op'[p].val = op[p].val
    BY <2>1, <1>a DEF Op
  <2>3. SendsEnd({}) /\ ParkedKinds'
    BY <1>a, <2>1, <2>2 DEF SendsEnd, Sending, ParkedKinds
  <2>. QED
    BY <1>7, <1>b, <2>3 DEF SendParks, RecvParks, history
<1>8. ASSUME NEW p \in Procs, RecvClosed(p) \/ RecvFails(p) \/ Delete(p) PROVE Sends'
  <2>1. End({p})
    BY <1>8 DEF RecvClosed, RecvFails, Delete
  <2>2. SendsEnd({}) /\ ParkedKinds'
    BY <1>a, <2>1, EndEnds DEF SendsEnd
  <2>. QED
    BY <1>8, <1>b, <2>2 DEF RecvClosed, RecvFails, Delete, history
<1>9. ASSUME NEW p \in Procs, Close(p) \/ CloseAgain(p) PROVE Sends'
  <2>1. \A q \in Procs : op'[q] \in {AfterClose(p), NoOp, op[q]}
    BY <1>9, <1>a DEF Close, CloseAgain
  <2>2. SendsEnd({}) /\ ParkedKinds'
    BY <1>a, <2>1, AfterCloseType, NoOpType DEF SendsEnd, Sending, ParkedKinds
  <2>. QED
    BY <1>9, <1>b, <2>2 DEF Close, CloseAgain, history
<1>10. ASSUME op' = op, history' = history PROVE Sends'
  BY <1>a, <1>b, <1>10 DEF history, SendsEnd, Sending, ParkedKinds
<1>11. CASE UNCHANGED vars
  BY <1>10, <1>11 DEF vars
<1>. QED
  BY <1>1, <1>2, <1>3, <1>4, <1>5, <1>6, <1>7, <1>8, <1>9, <1>10, <1>11
  DEF Next, Start, Proceed, Timer, Sending, SendRejected, SendPanics, SendWouldBlock,
      SendTimesOut, RecvWouldBlock, RecvTimesOut
-----------------------------------------------------------------------------
(* Waiting, and the end of the channel.                                    *)

LEMMA ParkedEnd ==
  ASSUME op \in [Procs -> Op], NEW S, End(S), NEW k \in {"send", "recv"}
  PROVE  Parked(k)' = Parked(k) \ S
BY EndType, NoOpType DEF Parked

LEMMA ParkedCall ==
  ASSUME op \in [Procs -> Op], NEW p \in Procs, NEW o, o.parked = FALSE,
         op' = [op EXCEPT ![p] = o], NEW k \in {"send", "recv"}
  PROVE  Parked(k)' = Parked(k) \ {p}
BY DEF Parked

LEMMA ParkedPark ==
  ASSUME op \in [Procs -> Op], NEW p \in Procs, Park(p), NEW k \in {"send", "recv"}
  PROVE  Parked(k)' = IF op[p].kind = k THEN Parked(k) \cup {p} ELSE Parked(k)
<1>a. op[p] \in Op
  OBVIOUS
<1>1. op'[p].kind = op[p].kind /\ op'[p].parked = TRUE
  BY <1>a, ParkType DEF Op
<1>2. \A q \in Procs \ {p} : op'[q] = op[q]
  BY ParkType
<1>. QED
  BY <1>1, <1>2 DEF Parked

Waits == NoIdleWait /\ ToldIsEmpty

\* Fewer wait on a channel that stays as it is.
LEMMA FewerWait ==
  ASSUME Waits, ~crashed, UNCHANGED <<channel, toldClosed>>,
         \A k \in {"send", "recv"} : Parked(k)' \subseteq Parked(k)
  PROVE  Waits'
BY DEF Waits, NoIdleWait, ToldIsEmpty, channel

LEMMA WaitsInit == Init => Waits
BY NoOpType DEF Init, Waits, NoIdleWait, ToldIsEmpty, Parked

LEMMA WaitsNext ==
  ASSUME TypeOK, SendsOpen, Waits, [Next]_vars
  PROVE  Waits'
<1>a. op \in [Procs -> Op] /\ NoIdleWait /\ ToldIsEmpty
  BY DEF TypeOK, Waits
<1>b. "send" \in {"send", "recv"} /\ "recv" \in {"send", "recv"}
  OBVIOUS
<1>1. ASSUME ~crashed, NEW p \in Procs,
             StartSend(p) \/ StartRecv(p) \/ StartClose(p) \/ SendPasses(p) \/ CloseAgain(p)
      PROVE  Waits'
  <2>b. ASSUME NEW k, NEW m, NEW v, op' = [op EXCEPT ![p] = Call(k, m, v)]
        PROVE  \A i \in {"send", "recv"} : Parked(i)' \subseteq Parked(i)
    <3>1. Call(k, m, v).parked = FALSE
      BY DEF Call
    <3>2. ASSUME NEW i \in {"send", "recv"} PROVE Parked(i)' = Parked(i) \ {p}
      BY <1>a, <2>b, <3>1, ParkedCall
    <3>. QED
      BY <3>2
  <2>c. ASSUME CloseAgain(p)
        PROVE  \A i \in {"send", "recv"} : Parked(i)' \subseteq Parked(i)
    <3>1. AfterClose(p).parked = FALSE /\ op' = [op EXCEPT ![p] = AfterClose(p)]
      BY <2>c, AfterCloseType DEF CloseAgain
    <3>2. ASSUME NEW i \in {"send", "recv"} PROVE Parked(i)' = Parked(i) \ {p}
      BY <1>a, <3>1, ParkedCall
    <3>. QED
      BY <3>2
  <2>2. \A k \in {"send", "recv"} : Parked(k)' \subseteq Parked(k)
    BY <1>1, <2>b, <2>c DEF StartSend, StartRecv, StartClose, SendPasses
  <2>3. UNCHANGED <<channel, toldClosed>>
    BY <1>1 DEF StartSend, StartRecv, StartClose, SendPasses, CloseAgain, history
  <2>. QED
    BY <1>1, <2>2, <2>3, FewerWait
<1>2. ASSUME ~crashed, NEW p \in Procs, SendFails(p) \/ RecvFails(p) \/ Delete(p)
      PROVE  Waits'
  <2>1. End({p}) /\ UNCHANGED <<channel, toldClosed>>
    BY <1>2 DEF SendFails, RecvFails, Delete, history
  <2>2. \A k \in {"send", "recv"} : Parked(k)' \subseteq Parked(k)
    BY <1>a, <2>1, ParkedEnd
  <2>. QED
    BY <1>2, <2>1, <2>2, FewerWait
<1>3. ASSUME ~crashed, NEW p \in Procs, Send(p) PROVE Waits'
  <2>1. ~closed /\ ~toldClosed /\ UNCHANGED <<cap, closed, crashed, toldClosed>>
    BY <1>3, <1>a DEF Send, ChanSend, CanSend, ToldIsEmpty
  <2>a. \/ /\ \E r \in Parked("recv") : End({p, r})
           /\ UNCHANGED buf
        \/ /\ Parked("recv") = {}
           /\ buf' = Append(buf, op[p].val)
           /\ End({p})
           /\ Len(buf) < cap
    BY <1>3 DEF Send, ChanSend, CanSend
  <2>2. CASE (\E r \in Parked("recv") : End({p, r})) /\ UNCHANGED buf
    <3>1. \A k \in {"send", "recv"} : Parked(k)' \subseteq Parked(k)
      BY <1>a, <2>2, ParkedEnd
    <3>. QED
      BY <1>3, <2>1, <2>2, <3>1, FewerWait DEF Waits, channel
  <2>3. CASE Parked("recv") = {} /\ End({p}) /\ Len(buf) < cap
    <3>1. Parked("recv")' = {} /\ Parked("send")' \subseteq Parked("send")
      BY <1>a, <1>b, <2>3, ParkedEnd
    <3>2. Parked("send") = {}
      BY <1>3, <1>a, <2>3, BufType DEF NoIdleWait
    <3>. QED
      BY <2>1, <3>1, <3>2 DEF Waits, NoIdleWait, ToldIsEmpty
  <2>. QED
    BY <2>a, <2>2, <2>3
<1>4. ASSUME ~crashed, NEW p \in Procs, SendPanics(p) PROVE Waits'
  BY <1>4 DEF SendPanics, Waits, NoIdleWait, ToldIsEmpty
<1>5. ASSUME ~crashed, NEW p \in Procs, SendParks(p) PROVE Waits'
  <2>1. Parked("recv") = {} /\ Len(buf) = cap /\ ~closed /\ ~toldClosed
    BY <1>5, <1>a, BufType DEF SendParks, CanSend, ToldIsEmpty
  <2>2. Parked("recv")' = {}
    BY <1>5, <1>a, <1>b, <2>1, ParkedPark DEF SendParks
  <2>. QED
    BY <1>5, <2>1, <2>2 DEF SendParks, Waits, NoIdleWait, ToldIsEmpty, channel, history
<1>6. ASSUME ~crashed, NEW p \in Procs, RecvParks(p) PROVE Waits'
  <2>1. Parked("send") = {} /\ buf = <<>> /\ ~closed /\ ~toldClosed
    BY <1>6, <1>a DEF RecvParks, CanRecv, ToldIsEmpty
  <2>2. Parked("send")' = {}
    BY <1>6, <1>a, <1>b, <2>1, ParkedPark DEF RecvParks
  <2>. QED
    BY <1>6, <2>1, <2>2 DEF RecvParks, Waits, NoIdleWait, ToldIsEmpty, channel, history
<1>7. ASSUME ~crashed, NEW p \in Procs, Recv(p) PROVE Waits'
  <2>1. UNCHANGED <<cap, closed, crashed, toldClosed>> /\ CanRecv /\ ~toldClosed
    BY <1>7, <1>a DEF Recv, ChanRecv, CanRecv, ToldIsEmpty
  <2>2. CASE Parked("send") = {} /\ End({p})
    <3>1. Parked("recv") = {}
      BY <1>7, <1>a, <2>1, <2>2 DEF CanRecv, NoIdleWait
    <3>2. Parked("recv")' = {} /\ Parked("send")' = {}
      BY <1>a, <1>b, <2>2, <3>1, ParkedEnd
    <3>. QED
      BY <2>1, <3>2 DEF Waits, NoIdleWait, ToldIsEmpty
  <2>3. CASE \E s \in Parked("send") : buf' = Tail(Append(buf, op[s].val)) /\ End({p, s})
    <3>1. PICK s \in Parked("send") : buf' = Tail(Append(buf, op[s].val)) /\ End({p, s})
      BY <2>3
    <3>2. op[s].val \in Value
      BY SendValue DEF Parked, Sending
    <3>3. Len(buf') = Len(buf)
      BY <3>1, <3>2, BufType, MoveUp
    <3>4. Parked("recv") = {} /\ ~closed /\ Len(buf) = cap
      BY <1>7, <1>a, <3>1 DEF NoIdleWait
    <3>5. Parked("recv")' = {}
      BY <1>a, <1>b, <3>1, <3>4, ParkedEnd
    <3>. QED
      BY <2>1, <3>3, <3>4, <3>5 DEF Waits, NoIdleWait, ToldIsEmpty
  <2>. QED
    BY <1>7, <2>2, <2>3 DEF Recv, ChanRecv
<1>8. ASSUME ~crashed, NEW p \in Procs, RecvClosed(p) PROVE Waits'
  <2>1. closed /\ buf = <<>> /\ Parked("send") = {} /\ Parked("recv") = {}
    BY <1>8, <1>a DEF RecvClosed, CanRecv, NoIdleWait
  <2>2. Parked("recv")' = {} /\ Parked("send")' = {}
    BY <1>8, <1>a, <1>b, <2>1, ParkedEnd DEF RecvClosed
  <2>. QED
    BY <1>8, <2>1, <2>2 DEF RecvClosed, Waits, NoIdleWait, ToldIsEmpty, channel
<1>9. ASSUME ~crashed, NEW p \in Procs, Close(p) PROVE Waits'
  <2>1. \A q \in Procs : op'[q] = IF q = p THEN AfterClose(p)
                                  ELSE IF q \in Parked("recv") THEN NoOp ELSE op[q]
    BY <1>9 DEF Close
  <2>2. op[p].kind \in {"close", "drop"}
    BY <1>9 DEF Close
  <2>3. Parked("recv")' = {}
    BY <2>1, AfterCloseType, NoOpType DEF Parked
  <2>4. Parked("send")' \subseteq Parked("send")
    BY <2>1, AfterCloseType, NoOpType DEF Parked
  <2>5. /\ crashed' = (Parked("send") # {}) /\ toldClosed' = (Parked("recv") # {})
        /\ closed' = TRUE /\ buf' = buf
    BY <1>9 DEF Close
  <2>6. CASE Parked("send") # {}
    BY <2>5, <2>6 DEF Waits, NoIdleWait, ToldIsEmpty
  <2>7. CASE Parked("send") = {}
    BY <1>9, <1>a, <2>3, <2>4, <2>5, <2>7 DEF Waits, NoIdleWait, ToldIsEmpty
  <2>. QED
    BY <2>6, <2>7
<1>10. CASE UNCHANGED vars
  BY <1>10 DEF vars, channel, history, Waits, NoIdleWait, ToldIsEmpty, Parked
<1>. QED
  BY <1>1, <1>2, <1>3, <1>4, <1>5, <1>6, <1>7, <1>8, <1>9, <1>10
  DEF Next, Start, Proceed, Timer, SendRejected, SendWouldBlock, SendTimesOut,
      RecvWouldBlock, RecvTimesOut
-----------------------------------------------------------------------------
(* The order of the values, and the queue that a channel is.               *)

\* Putting a value behind the second of two sequences puts it behind both.
LEMMA ConcatAppend ==
  \A s, t \in Seq(Value) : \A v \in Value : Append(s \o t, v) = s \o Append(t, v)
<1>. SUFFICES ASSUME NEW s \in Seq(Value), NEW t \in Seq(Value), NEW v \in Value
              PROVE  Append(s \o t, v) = s \o Append(t, v)
  OBVIOUS
<1>1. <<v>> \in Seq(Value) /\ s \o t \in Seq(Value)
  BY ConcatProperties
<1>2. Append(s \o t, v) = (s \o t) \o <<v>> /\ Append(t, v) = t \o <<v>>
  BY <1>1, AppendIsConcat
<1>. QED
  BY <1>1, <1>2, ConcatAssociative

\* Moving the first value of one sequence behind another keeps their order.
LEMMA ConcatTake ==
  ASSUME NEW S, NEW s \in Seq(S), NEW t \in Seq(S), t # <<>>
  PROVE  Append(s, Head(t)) \o Tail(t) = s \o t
<1>1. Head(t) \in S /\ Tail(t) \in Seq(S) /\ <<Head(t)>> \in Seq(S)
  BY HeadTailProperties
<1>2. t = <<Head(t)>> \o Tail(t)
  BY HeadTailProperties, LenProperties
<1>3. Append(s, Head(t)) = s \o <<Head(t)>>
  BY <1>1, AppendIsConcat
<1>. QED
  BY <1>1, <1>2, <1>3, ConcatAssociative

\* The values that a step moves: in the order of the queue.
Unmoved == UNCHANGED <<cap, closed, buf, accepted, received>>

Put(v) ==
  /\ ~closed /\ Len(buf) < cap
  /\ buf' = Append(buf, v) /\ accepted' = Append(accepted, v)
  /\ UNCHANGED <<cap, closed, received>>

Take ==
  /\ buf # <<>>
  /\ buf' = Tail(buf) /\ received' = Append(received, Head(buf))
  /\ UNCHANGED <<cap, closed, accepted>>

PutAndTake(v) ==
  /\ ~closed
  /\ buf' = Tail(Append(buf, v)) /\ received' = Append(received, Head(Append(buf, v)))
  /\ accepted' = Append(accepted, v)
  /\ UNCHANGED <<cap, closed>>

CloseQueue == closed' = TRUE /\ UNCHANGED <<cap, buf, accepted, received>>

\* Every step of the channel moves its values in one of these ways, and
\* moves none when a receiver has been told that it is closed.
LEMMA Moves ==
  ASSUME TypeOK, SendsOpen, Waits, [Next]_vars
  PROVE  /\ Unmoved \/ CloseQueue \/ Take \/ \E v \in Value : Put(v) \/ PutAndTake(v)
         /\ toldClosed => UNCHANGED <<accepted, received>>
<1>. DEFINE Step == Unmoved \/ CloseQueue \/ Take \/ \E v \in Value : Put(v) \/ PutAndTake(v)
            Final == toldClosed => UNCHANGED <<accepted, received>>
<1>. SUFFICES Step /\ Final
  OBVIOUS
<1>a. Unmoved \/ CloseQueue => Step /\ Final
  BY DEF Unmoved, CloseQueue
<1>1. ASSUME NEW p \in Procs,
             \/ Start(p) \/ SendPasses(p) \/ SendPanics(p) \/ SendParks(p) \/ SendFails(p)
             \/ RecvClosed(p) \/ RecvParks(p) \/ RecvFails(p) \/ CloseAgain(p) \/ Delete(p)
      PROVE  Step /\ Final
  <2>1. Unmoved
    BY <1>1 DEF Start, StartSend, StartRecv, StartClose, SendPasses, SendPanics, SendParks,
       SendFails, RecvClosed, RecvParks, RecvFails, CloseAgain, Delete, Unmoved, channel, history
  <2>. QED
    BY <2>1, <1>a
<1>2. ASSUME NEW p \in Procs, Close(p) PROVE Step /\ Final
  BY <1>2, <1>a DEF Close, CloseQueue
<1>3. ASSUME ~crashed, NEW p \in Procs, Send(p) PROVE Step /\ Final
  <2>1. op[p].val \in Value
    BY <1>3, SendValue DEF Send, Sending
  <2>2. /\ ~closed /\ ~toldClosed
        /\ UNCHANGED <<cap, closed>>
        /\ accepted' = Append(accepted, op[p].val)
    BY <1>3 DEF Send, ChanSend, CanSend, Waits, ToldIsEmpty
  <2>a. \/ /\ Parked("recv") # {}
           /\ received' = Append(received, op[p].val)
           /\ UNCHANGED buf
        \/ /\ Parked("recv") = {} /\ Len(buf) < cap
           /\ buf' = Append(buf, op[p].val)
           /\ UNCHANGED received
    BY <1>3 DEF Send, ChanSend, CanSend
  <2>3. CASE /\ Parked("recv") # {}
             /\ received' = Append(received, op[p].val)
             /\ UNCHANGED buf
    <3>1. buf = <<>>
      BY <1>3, <2>3 DEF Waits, NoIdleWait
    <3>2. Append(buf, op[p].val) = <<op[p].val>>
      BY <3>1
    <3>3. Head(Append(buf, op[p].val)) = op[p].val /\ Tail(Append(buf, op[p].val)) = <<>>
      BY <3>2
    <3>4. PutAndTake(op[p].val)
      BY <2>2, <2>3, <3>1, <3>3 DEF PutAndTake
    <3>. QED
      BY <2>1, <2>2, <3>4
  <2>4. CASE /\ Len(buf) < cap
             /\ buf' = Append(buf, op[p].val)
             /\ UNCHANGED received
    <3>1. Put(op[p].val)
      BY <2>2, <2>4 DEF Put
    <3>. QED
      BY <2>1, <2>2, <3>1
  <2>. QED
    BY <2>a, <2>3, <2>4
<1>4. ASSUME ~crashed, NEW p \in Procs, Recv(p) PROVE Step /\ Final
  <2>1. UNCHANGED <<cap, closed>> /\ CanRecv /\ ~toldClosed
    BY <1>4 DEF Recv, ChanRecv, CanRecv, Waits, ToldIsEmpty
  <2>2. CASE /\ Parked("send") = {}
             /\ buf' = Tail(buf)
             /\ received' = Append(received, Head(buf))
             /\ UNCHANGED accepted
    <3>1. Take
      BY <2>1, <2>2 DEF CanRecv, Take
    <3>. QED
      BY <2>1, <3>1
  <2>3. CASE \E s \in Parked("send") :
               /\ buf' = Tail(Append(buf, op[s].val))
               /\ received' = Append(received, Head(Append(buf, op[s].val)))
               /\ accepted' = Append(accepted, op[s].val)
    <3>1. PICK s \in Parked("send") :
               /\ buf' = Tail(Append(buf, op[s].val))
               /\ received' = Append(received, Head(Append(buf, op[s].val)))
               /\ accepted' = Append(accepted, op[s].val)
      BY <2>3
    <3>2. op[s].val \in Value
      BY SendValue DEF Parked, Sending
    <3>3. ~closed
      BY <1>4, <3>1 DEF Waits, NoIdleWait
    <3>4. PutAndTake(op[s].val)
      BY <2>1, <3>1, <3>3 DEF PutAndTake
    <3>. QED
      BY <2>1, <3>2, <3>4
  <2>. QED
    BY <1>4, <2>2, <2>3 DEF Recv, ChanRecv
<1>5. CASE UNCHANGED vars
  BY <1>5, <1>a DEF vars, channel, history, Unmoved
<1>. QED
  BY <1>1, <1>2, <1>3, <1>4, <1>5
  DEF Next, Proceed, Timer, SendRejected, SendWouldBlock, SendTimesOut,
      RecvWouldBlock, RecvTimesOut
-----------------------------------------------------------------------------
(* Theorems.                                                               *)

\* The values a channel took and has not given are its buffer, in order.
LEMMA FifoNext ==
  ASSUME TypeOK, SendsOpen, Waits, Fifo, [Next]_vars
  PROVE  Fifo'
<1>a. accepted = received \o buf /\ buf \in Seq(Value) /\ received \in Seq(Value)
  BY DEF Fifo, TypeOK
<1>b. \A v \in Value : Append(accepted, v) = received \o Append(buf, v)
  BY <1>a, ConcatAppend
<1>1. CASE Unmoved \/ CloseQueue
  BY <1>1, <1>a DEF Unmoved, CloseQueue, Fifo
<1>2. CASE Take
  BY <1>2, <1>a, ConcatTake DEF Take, Fifo
<1>3. ASSUME NEW v \in Value, Put(v) PROVE Fifo'
  BY <1>3, <1>b DEF Put, Fifo
<1>4. ASSUME NEW v \in Value, PutAndTake(v) PROVE Fifo'
  <2>1. Append(buf, v) \in Seq(Value) /\ Append(buf, v) # <<>>
    BY <1>a, AppendProperties
  <2>2. accepted' = received \o Append(buf, v)
    BY <1>4, <1>b DEF PutAndTake
  <2>. QED
    BY <1>4, <1>a, <2>1, <2>2, ConcatTake DEF PutAndTake, Fifo
<1>. QED
  BY <1>1, <1>2, <1>3, <1>4, Moves

LEMMA InvInit == Init => Inv
<1>. SUFFICES ASSUME Init PROVE Inv
  OBVIOUS
<1>1. Fifo
  BY ConcatEmptySeq, EmptySeq DEF Init, Fifo
<1>. QED
  BY <1>1, TypeInit, SendsInit, WaitsInit DEF Inv, Sends, Waits

LEMMA InvNext == Inv /\ [Next]_vars => Inv'
<1>. SUFFICES ASSUME Inv, [Next]_vars PROVE Inv'
  OBVIOUS
<1>1. TypeOK /\ SendsOpen /\ NoIdleWait /\ Sends /\ Waits /\ Fifo
  BY DEF Inv, Sends, Waits
<1>2. TypeOK'
  BY <1>1, TypeNext
<1>3. Sends'
  BY <1>1, SendsNext
<1>4. Waits'
  BY <1>1, WaitsNext
<1>5. Fifo'
  BY <1>1, FifoNext
<1>. QED
  BY <1>2, <1>3, <1>4, <1>5 DEF Inv, Sends, Waits

\* The invariant holds in every reachable state.
LEMMA Invariant == Spec => []Inv
BY InvInit, InvNext, PTL DEF Spec

\* The variables of AsyncChannel keep their types, and the buffer never holds
\* more than the capacity.
THEOREM TypeCorrect == Spec => []TypeOK
<1>1. Inv => TypeOK
  BY DEF Inv
<1>. QED
  BY <1>1, Invariant, PTL

\* async.send tells the truth: a send that reports an error has delivered
\* nothing, one that reports success has delivered its value once.
THEOREM SendsTellTheTruth == Spec => []AnswersTrue
<1>1. Inv => AnswersTrue
  BY DEF Inv
<1>. QED
  BY <1>1, Invariant, PTL

\* No task waits inside the channel for what is already there.
THEOREM NobodyWaitsInVain == Spec => []NoIdleWait
<1>1. Inv => NoIdleWait
  BY DEF Inv
<1>. QED
  BY <1>1, Invariant, PTL

\* Values leave the channel in the order in which their sends succeeded,
\* none twice and none lost.
THEOREM FirstInFirstOut == Spec => []Fifo
<1>1. Inv => Fifo
  BY DEF Inv
<1>. QED
  BY <1>1, Invariant, PTL

\* After async.recv has said "closed" to one receiver, no other gets a value
\* and no send succeeds.
THEOREM ClosedForGood == Spec => ClosedIsFinal
<1>1. ASSUME Inv, [Next]_vars
      PROVE  [toldClosed => UNCHANGED <<accepted, received>>]_vars
  BY <1>1, Moves DEF Inv, Waits
<1>. QED
  BY <1>1, Invariant, PTL DEF Spec, ClosedIsFinal

\* Send, Recv and Close of internal/vm/async.go, with all their races, are a
\* bounded first-in first-out queue.
THEOREM ChannelIsQueue == Spec => ImplementsQueue
<1>1. ASSUME Init PROVE Queue!Init
  BY <1>1 DEF Init, Queue!Init
<1>2. ASSUME Inv, [Next]_vars
      PROVE  [Queue!Next]_<<cap, buf, received, closed>>
  <2>1. TypeOK /\ SendsOpen /\ Waits
    BY <1>2 DEF Inv, Waits
  <2>2. CASE Unmoved
    BY <2>2 DEF Unmoved
  <2>3. CASE CloseQueue
    BY <2>3 DEF CloseQueue, Queue!Next, Queue!Close
  <2>4. CASE Take
    BY <2>4 DEF Take, Queue!Next, Queue!Take
  <2>5. ASSUME NEW v \in Value, Put(v) PROVE Queue!Next
    BY <2>5 DEF Put, Queue!Next, Queue!Put
  <2>6. ASSUME NEW v \in Value, PutAndTake(v) PROVE Queue!Next
    BY <2>6 DEF PutAndTake, Queue!Next, Queue!PutAndTake
  <2>. QED
    BY <1>2, <2>1, <2>2, <2>3, <2>4, <2>5, <2>6, Moves
<1>. QED
  BY <1>1, <1>2, Invariant, PTL DEF Spec, ImplementsQueue, Queue!Spec
=============================================================================
