---------------------------- MODULE AsyncChannel ----------------------------
(***************************************************************************)
(* One channel of async.channel and the tasks that use it: Send, Recv and  *)
(* Close of internal/vm/async.go over a Go channel, called by async.send,  *)
(* async.recv, async.close and async.drop of internal/native/async.go      *)
(* through the channel's entry in the handle table.                        *)
(*                                                                         *)
(* A value is known by its number: the n-th send carries n.  The timer of  *)
(* a timed operation may fire at any time.                                 *)
(***************************************************************************)
EXTENDS Naturals, Sequences, SequencesExt

CONSTANTS
  Procs,     \* the tasks that know the handle
  Caps,      \* capacities that async.channel is called with
  MaxSends   \* sends started in one run

ASSUME ChannelAssumption == Caps \subseteq Nat /\ MaxSends \in Nat

VARIABLES
  cap,       \* capacity of the channel
  buf,       \* values in the Go channel
  closed,    \* Channel.closed, and the Go channel is closed
  listed,    \* the channel's handle is in the table
  op,        \* the call that each task is in
  crashed,   \* a goroutine has panicked: the process is gone
  \* history
  sends,     \* sends started
  answer,    \* what the n-th send reported
  accepted,  \* values the channel took from senders
  received,  \* values the channel gave to receivers
  toldClosed \* a receiver was told that the channel is closed

channel == <<cap, buf, closed>>
history == <<sends, answer, accepted, received, toldClosed>>
vars == <<channel, listed, op, crashed, history>>

Value == 1 .. MaxSends
Mode == {"block", "try", "timed"}   \* timeout_ms < 0, = 0, > 0
Kind == {"none", "check", "send", "recv", "close", "drop", "delete"}

\* parked: the goroutine waits inside the Go channel.
Op == [kind : Kind, mode : Mode, val : Value \cup {0}, parked : BOOLEAN]
Call(kind, mode, val) ==
  [kind |-> kind, mode |-> mode, val |-> val, parked |-> FALSE]
NoOp == Call("none", "block", 0)

Idle(p) == op[p] = NoOp
Parked(kind) == {p \in Procs : op[p].kind = kind /\ op[p].parked}
Park(p) == op' = [op EXCEPT ![p] = [@ EXCEPT !.parked = TRUE]]
End(S) == op' = [p \in Procs |-> IF p \in S THEN NoOp ELSE op[p]]

-----------------------------------------------------------------------------
(* The Go channel.                                                         *)

\* Mistake: the channel is made one larger than asked for.
CanSendOneMore == ~closed /\ (Parked("recv") # {} \/ Len(buf) <= cap)

\* c.ch <- v can proceed: a receiver waits or there is room, and the channel
\* is open.
CanSend == ~closed /\ (Parked("recv") # {} \/ Len(buf) < cap)

\* A waiting receiver gets the value, otherwise the buffer.
ChanSend(p) ==
  LET v == op[p].val
  IN /\ CanSend
     /\ accepted' = Append(accepted, v)
     /\ answer' = [answer EXCEPT ![v] = "ok"]
     /\ \/ \E r \in Parked("recv") :
             /\ received' = Append(received, v)
             /\ End({p, r})
             /\ UNCHANGED buf
        \/ /\ Parked("recv") = {}
           /\ buf' = Append(buf, v)
           /\ End({p})
           /\ UNCHANGED received

CanRecv == buf # <<>> \/ Parked("send") # {}

\* The oldest value is taken; one waiting sender's value moves up.
ChanRecv(p) ==
  /\ CanRecv
  /\ \/ /\ Parked("send") = {}
        /\ buf' = Tail(buf)
        /\ received' = Append(received, Head(buf))
        /\ End({p})
        /\ UNCHANGED <<accepted, answer>>
     \/ \E s \in Parked("send") :
          LET all == Append(buf, op[s].val)
          IN /\ buf' = Tail(all)
             /\ received' = Append(received, Head(all))
             /\ accepted' = Append(accepted, op[s].val)
             /\ answer' = [answer EXCEPT ![op[s].val] = "ok"]
             /\ End({p, s})

-----------------------------------------------------------------------------
(* Send, Recv and Close.                                                   *)

\* async.send: the handle is looked up.
StartSend(p) ==
  /\ Idle(p) /\ listed /\ sends < MaxSends
  /\ sends' = sends + 1
  /\ \E m \in Mode : op' = [op EXCEPT ![p] = Call("check", m, sends + 1)]
  /\ UNCHANGED <<channel, listed, crashed, answer, accepted, received, toldClosed>>

\* The send reports an error and is over.
SendFails(p) ==
  /\ answer' = [answer EXCEPT ![op[p].val] = "error"]
  /\ End({p})
  /\ UNCHANGED <<channel, listed, crashed, sends, accepted, received, toldClosed>>

\* Send looks at closed under the mutex, which it then gives up.
SendRejected(p) == op[p].kind = "check" /\ closed /\ SendFails(p)

SendPasses(p) ==
  /\ op[p].kind = "check" /\ ~closed
  /\ op' = [op EXCEPT ![p] = Call("send", op[p].mode, op[p].val)]
  /\ UNCHANGED <<channel, listed, crashed, history>>

\* The send itself; on a channel closed since the look it panics.
Send(p) ==
  /\ op[p].kind = "send" /\ ~op[p].parked
  /\ ChanSend(p)
  /\ UNCHANGED <<cap, closed, listed, crashed, sends, toldClosed>>

SendPanics(p) ==
  /\ op[p].kind = "send" /\ ~op[p].parked /\ closed
  /\ crashed' = TRUE
  /\ UNCHANGED <<channel, listed, op, history>>

SendWouldBlock(p) ==
  /\ op[p].kind = "send" /\ op[p].mode = "try"
  /\ ~closed /\ ~CanSend
  /\ SendFails(p)

SendParks(p) ==
  /\ op[p].kind = "send" /\ ~op[p].parked /\ op[p].mode # "try"
  /\ ~closed /\ ~CanSend
  /\ Park(p)
  /\ UNCHANGED <<channel, listed, crashed, history>>

\* Mistake: the timer is looked at after the value has been sent.
SendTimesOutLate(p) ==
  /\ op[p].kind = "send" /\ op[p].mode = "timed" /\ CanSend
  /\ Parked("recv") = {}
  /\ buf' = Append(buf, op[p].val)
  /\ accepted' = Append(accepted, op[p].val)
  /\ answer' = [answer EXCEPT ![op[p].val] = "error"]
  /\ End({p})
  /\ UNCHANGED <<cap, closed, listed, crashed, sends, received, toldClosed>>

\* Mistake: the timer is looked at only before the send waits.
SendTimesOutEarly(p) ==
  /\ op[p].kind = "send" /\ ~op[p].parked /\ op[p].mode = "timed"
  /\ SendFails(p)

SendTimesOut(p) == op[p].kind = "send" /\ op[p].mode = "timed" /\ SendFails(p)

\* async.recv.
StartRecv(p) ==
  /\ Idle(p) /\ listed
  /\ \E m \in Mode : op' = [op EXCEPT ![p] = Call("recv", m, 0)]
  /\ UNCHANGED <<channel, listed, crashed, history>>

Recv(p) ==
  /\ op[p].kind = "recv" /\ ~op[p].parked
  /\ ChanRecv(p)
  /\ UNCHANGED <<cap, closed, listed, crashed, sends, toldClosed>>

\* Mistake: a closed channel is not emptied first.
RecvClosedAtOnce(p) ==
  /\ op[p].kind = "recv" /\ ~op[p].parked
  /\ closed
  /\ toldClosed' = TRUE
  /\ End({p})
  /\ UNCHANGED <<channel, listed, crashed, sends, answer, accepted, received>>

RecvClosed(p) ==
  /\ op[p].kind = "recv" /\ ~op[p].parked
  /\ closed /\ ~CanRecv
  /\ toldClosed' = TRUE
  /\ End({p})
  /\ UNCHANGED <<channel, listed, crashed, sends, answer, accepted, received>>

RecvParks(p) ==
  /\ op[p].kind = "recv" /\ ~op[p].parked /\ op[p].mode # "try"
  /\ ~closed /\ ~CanRecv
  /\ Park(p)
  /\ UNCHANGED <<channel, listed, crashed, history>>

\* The receive reports an error and is over.
RecvFails(p) ==
  /\ End({p})
  /\ UNCHANGED <<channel, listed, crashed, history>>

RecvWouldBlock(p) ==
  /\ op[p].kind = "recv" /\ op[p].mode = "try"
  /\ ~closed /\ ~CanRecv
  /\ RecvFails(p)

RecvTimesOut(p) == op[p].kind = "recv" /\ op[p].mode = "timed" /\ RecvFails(p)

\* async.close and async.drop look the handle up.
StartClose(p) ==
  /\ Idle(p) /\ listed
  /\ \E kind \in {"close", "drop"} : op' = [op EXCEPT ![p] = Call(kind, "block", 0)]
  /\ UNCHANGED <<channel, listed, crashed, history>>

\* What asyncClose and asyncDrop do next.
AfterClose(p) == IF op[p].kind = "drop" THEN Call("delete", "block", 0) ELSE NoOp

\* Mistake: the flag is set and the Go channel stays open.
CloseFlagOnly(p) ==
  /\ op[p].kind \in {"close", "drop"} /\ ~closed
  /\ closed' = TRUE
  /\ op' = [op EXCEPT ![p] = AfterClose(p)]
  /\ UNCHANGED <<cap, buf, listed, crashed, history>>

\* Mistake: closing throws the buffer away.
CloseDiscards(p) ==
  /\ op[p].kind \in {"close", "drop"} /\ ~closed
  /\ closed' = TRUE /\ buf' = <<>>
  /\ crashed' = (Parked("send") # {})
  /\ toldClosed' = (Parked("recv") # {})
  /\ op' = [q \in Procs |-> IF q = p THEN AfterClose(p)
                           ELSE IF q \in Parked("recv") THEN NoOp ELSE op[q]]
  /\ UNCHANGED <<cap, listed, sends, answer, accepted, received>>

\* close(c.ch): waiting receivers are told; a waiting sender panics.
Close(p) ==
  /\ op[p].kind \in {"close", "drop"} /\ ~closed
  /\ closed' = TRUE
  /\ crashed' = (Parked("send") # {})
  /\ toldClosed' = (Parked("recv") # {})
  /\ op' = [q \in Procs |-> IF q = p THEN AfterClose(p)
                           ELSE IF q \in Parked("recv") THEN NoOp ELSE op[q]]
  /\ UNCHANGED <<cap, buf, listed, sends, answer, accepted, received>>

CloseAgain(p) ==
  /\ op[p].kind \in {"close", "drop"} /\ closed
  /\ op' = [op EXCEPT ![p] = AfterClose(p)]
  /\ UNCHANGED <<channel, listed, crashed, history>>

\* async.drop: delHandle.
Delete(p) ==
  /\ op[p].kind = "delete"
  /\ listed' = FALSE
  /\ End({p})
  /\ UNCHANGED <<channel, crashed, history>>

-----------------------------------------------------------------------------
\* async.channel.
Init ==
  /\ cap \in Caps
  /\ buf = <<>> /\ closed = FALSE /\ listed = TRUE
  /\ op = [p \in Procs |-> NoOp]
  /\ crashed = FALSE
  /\ sends = 0
  /\ answer = [v \in Value |-> "none"]
  /\ accepted = <<>> /\ received = <<>>
  /\ toldClosed = FALSE

Start(p) == StartSend(p) \/ StartRecv(p) \/ StartClose(p)

Proceed(p) ==
  \/ SendRejected(p) \/ SendPasses(p) \/ Send(p) \/ SendPanics(p)
  \/ SendWouldBlock(p) \/ SendParks(p)
  \/ Recv(p) \/ RecvClosed(p) \/ RecvWouldBlock(p) \/ RecvParks(p)
  \/ Close(p) \/ CloseAgain(p) \/ Delete(p)

Timer(p) == SendTimesOut(p) \/ RecvTimesOut(p)

Next == ~crashed /\ \E p \in Procs : Start(p) \/ Proceed(p) \/ Timer(p)

Spec == Init /\ [][Next]_vars

\* The scheduler runs every goroutine that can run, and timers fire.
FairSpec ==
  Spec /\ \A p \in Procs : /\ WF_vars(~crashed /\ Proceed(p))
                           /\ WF_vars(~crashed /\ Timer(p))
-----------------------------------------------------------------------------
(* Properties.                                                             *)

\* The variables have their types.
TypeOK ==
  /\ cap \in Caps
  /\ buf \in Seq(Value) /\ Len(buf) <= cap
  /\ {closed, listed, crashed, toldClosed} \subseteq BOOLEAN
  /\ op \in [Procs -> Op]
  /\ sends \in 0 .. MaxSends
  /\ answer \in [Value -> {"none", "ok", "error"}]
  /\ accepted \in Seq(Value) /\ received \in Seq(Value)

\* A send that reports an error has delivered nothing and never will; one
\* that reports success has delivered its value once.
AnswersTrue ==
  /\ Range(accepted) = {v \in Value : answer[v] = "ok"}
  /\ IsInjective(accepted)

\* Nobody waits in vain: a receiver waits only while the channel is open and
\* empty, a sender only while it is open and full, and never do both.
NoIdleWait ==
  ~crashed =>
    /\ Parked("recv") # {} => ~closed /\ buf = <<>> /\ Parked("send") = {}
    /\ Parked("send") # {} => ~closed /\ Len(buf) = cap

\* "closed" is the last word: after one receiver has been told, no other
\* gets a value and no send succeeds.
ClosedIsFinal == [][toldClosed => UNCHANGED <<accepted, received>>]_vars

\* "Channel is a thread-safe buffered channel" (vm/async.go:44): whatever
\* the tasks do with a channel, its operations return or report an error.
NoPanic == ~crashed

\* Once the channel is closed, every call on it comes to an end.
ClosedEnds == \A p \in Procs : closed ~> Idle(p) \/ crashed

\* A call with a timeout comes to an end whatever the others do.
TimedEnds ==
  \A p \in Procs : op[p].mode # "block" ~> op[p].mode = "block" \/ crashed
=============================================================================
