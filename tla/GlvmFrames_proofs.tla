-------------------------- MODULE GlvmFrames_proofs --------------------------
(***************************************************************************)
(* Proofs about GlvmFrames, for every number of frames, closures and       *)
(* handlers and every value of MaxOps.                                     *)
(***************************************************************************)
EXTENDS GlvmFrames, SequenceTheorems, TLAPS

-----------------------------------------------------------------------------
(* Sequences.                                                              *)

\* A prefix of a sequence.
LEMMA PrefixType ==
  ASSUME NEW S, NEW s \in Seq(S), NEW n \in 0 .. Len(s)
  PROVE  /\ SubSeq(s, 1, n) \in Seq(S)
         /\ Len(SubSeq(s, 1, n)) = n
         /\ \A i \in 1 .. n : SubSeq(s, 1, n)[i] = s[i]
<1>1. \A i \in 1 .. n : s[i] \in S
  BY LenProperties, ElementOfSeq
<1>. QED
  BY <1>1, LenProperties, SubSeqProperties

\* What Front and Last return on a sequence that is not empty.
LEMMA FrontLast ==
  ASSUME NEW S, NEW s \in Seq(S), s # <<>>
  PROVE  /\ Front(s) \in Seq(S)
         /\ Len(Front(s)) = Len(s) - 1
         /\ \A i \in 1 .. Len(s) - 1 : Front(s)[i] = s[i]
         /\ Last(s) \in S
         /\ Len(s) \in Nat \ {0}
<1>1. Len(s) \in Nat \ {0}
  BY EmptySeq
<1>2. Last(s) \in S
  BY <1>1, ElementOfSeq DEF Last
<1>3. Len(s) - 1 \in 0 .. Len(s)
  BY <1>1
<1>. QED
  BY <1>1, <1>2, <1>3, PrefixType DEF Front

-----------------------------------------------------------------------------
(* Types and the shape of the Go stack.                                    *)

\* A frame runs or waits in every activation, and each activation but the
\* outermost rests on a native call.
Shape ==
  /\ pc \in {"exec", "native"} => frames # <<>>
  /\ \A i \in 1 .. Len(saved) : saved[i] # <<>>
  /\ pc \in {"done", "released"} => saved = <<>>
  /\ Len(natives) = Len(saved) + (IF pc = "native" THEN 1 ELSE 0)

TInv == TypeOK /\ Shape

LEMMA NilledType == Nilled \in Frame
BY FramesAssumption DEF Nilled, Frame, Val

LEMMA NewFrameType ==
  ASSUME NEW c \in ClosureIds \cup {NoClosure}, NEW v \in Val, NEW r \in Regs
  PROVE  NewFrame(c, v, r) \in Frame
BY DEF NewFrame, Frame, Val

LEMMA SetRegType ==
  ASSUME NEW h \in [FrameIds -> Frame], NEW f \in FrameIds,
         NEW r \in Regs, NEW v \in Val
  PROVE  [h EXCEPT ![f].regs[r] = v] \in [FrameIds -> Frame]
BY DEF Frame

LEMMA DropType ==
  ASSUME NEW h \in [FrameIds -> Frame], NEW S
  PROVE  Drop(h, S) \in [FrameIds -> Frame]
BY NilledType DEF Drop

\* What is true of the Go stack after execute() has returned or an error has
\* been handled, stated of the next state.
Settled ==
  /\ frames' \in Seq(FrameIds)
  /\ heap' \in [FrameIds -> Frame]
  /\ saved' \in Seq(Seq(FrameIds))
  /\ pc' \in {"exec", "native", "done"}
  /\ outcome' \in {"none", "value", "error"}
  /\ pc' \in {"exec", "native"} => frames' # <<>>
  /\ \A i \in 1 .. Len(saved') : saved'[i] # <<>>
  /\ pc' = "done" => saved' = <<>>
  /\ Len(saved) = Len(saved') + (IF pc' = "native" THEN 1 ELSE 0)

LEMMA LeaveSettles ==
  ASSUME TInv, NEW fs \in Seq(FrameIds), NEW h \in [FrameIds -> Frame],
         NEW o \in {"value", "error"}, Leave(fs, h, o)
  PROVE  Settled
<1>1. CASE saved = <<>>
  BY <1>1, EmptySeq DEF Leave, Settled, TInv, TypeOK, Shape
<1>2. CASE saved # <<>>
  <2>1. /\ frames' = Last(saved) /\ saved' = Front(saved)
        /\ heap' = Drop(h, Range(fs)) /\ pc' = "native" /\ outcome' = outcome
    BY <1>2 DEF Leave
  <2>2. saved \in Seq(Seq(FrameIds))
    BY DEF TInv, TypeOK
  <2>3. /\ saved' \in Seq(Seq(FrameIds)) /\ Len(saved') = Len(saved) - 1
        /\ \A i \in 1 .. Len(saved) - 1 : saved'[i] = saved[i]
        /\ frames' \in Seq(FrameIds) /\ Len(saved) \in Nat \ {0}
    BY <1>2, <2>1, <2>2, FrontLast
  <2>4. heap' \in [FrameIds -> Frame]
    BY <2>1, DropType
  <2>5. \A i \in 1 .. Len(saved) : saved[i] # <<>>
    BY DEF TInv, Shape
  <2>6. frames' = saved[Len(saved)] /\ Len(saved) \in 1 .. Len(saved)
    BY <2>1, <2>3 DEF Last
  <2>7. frames' # <<>>
    BY <2>5, <2>6
  <2>8. \A i \in 1 .. Len(saved') : saved'[i] # <<>>
    BY <2>3, <2>5
  <2>. QED
    BY <2>1, <2>3, <2>4, <2>7, <2>8 DEF Settled, TInv, TypeOK
<1>. QED
  BY <1>1, <1>2

LEMMA CatchSettles ==
  ASSUME TInv, pc \in {"exec", "native"}, NEW i \in Handling, Catch(i),
         pc' = "exec", UNCHANGED <<saved, outcome>>
  PROVE  /\ Settled
         /\ caught' \in [Stamps -> Nat]
         /\ awaits' \in [FrameIds -> Regs \cup {NoReg}]
<1>. DEFINE f == frames[i]
            t == heap[f].trys
            h == Last(t)
<1>1. /\ i \in 1 .. Len(frames) /\ t # <<>>
      /\ frames \in Seq(FrameIds) /\ heap \in [FrameIds -> Frame]
  BY DEF Handling, TInv, TypeOK
<1>2. f \in FrameIds /\ Len(frames) \in Nat
  BY <1>1, ElementOfSeq, LenProperties
<1>3. t \in Seq(Handler)
  BY <1>1, <1>2 DEF Frame
<1>4. h \in Handler /\ Front(t) \in Seq(Handler)
  BY <1>1, <1>3, FrontLast
<1>5. frames' \in Seq(FrameIds) /\ Len(frames') = i
  BY <1>1, <1>2, PrefixType DEF Catch
<1>6. [heap EXCEPT ![f].trys = Front(@), ![f].regs[h.errReg] = Err]
        \in [FrameIds -> Frame]
  <2>1. [heap EXCEPT ![f].trys = Front(@)] \in [FrameIds -> Frame]
    BY <1>1, <1>2, <1>4 DEF Frame
  <2>2. ASSUME NEW g \in [FrameIds -> Frame]
        PROVE  [g EXCEPT ![f].regs[h.errReg] = Err] \in [FrameIds -> Frame]
    BY <1>2, <1>4, SetRegType DEF Handler, Val
  <2>. QED
    BY <2>1, <2>2
<1>7. heap' \in [FrameIds -> Frame]
  BY <1>6, DropType DEF Catch
<1>8. caught' \in [Stamps -> Nat] /\ awaits' \in [FrameIds -> Regs \cup {NoReg}]
  BY <1>2, <1>4 DEF Catch, Handler, TInv, TypeOK
<1>9. frames' # <<>>
  BY <1>1, <1>2, <1>5
<1>10. Len(saved) \in Nat
  BY LenProperties DEF TInv, TypeOK
<1>. QED
  BY <1>5, <1>7, <1>8, <1>9, <1>10 DEF Settled, TInv, TypeOK, Shape

LEMMA RaiseSettles ==
  ASSUME TInv, pc \in {"exec", "native"}, Raise
  PROVE  /\ Settled
         /\ caught' \in [Stamps -> Nat]
         /\ awaits' \in [FrameIds -> Regs \cup {NoReg}]
<1>1. CASE Handling # {}
  BY <1>1, CatchSettles DEF Raise
<1>2. CASE Handling = {}
  <2>1. Leave(frames, heap, "error") /\ UNCHANGED <<caught, awaits>>
    BY <1>2 DEF Raise
  <2>. QED
    BY <2>1, LeaveSettles DEF TInv, TypeOK
<1>. QED
  BY <1>1, <1>2

\* The running frame is one of FrameIds and of type Frame.
LEMMA CurType ==
  ASSUME TInv, pc \in {"exec", "native"}
  PROVE  /\ Cur \in FrameIds
         /\ heap[Cur] \in Frame
         /\ Front(frames) \in Seq(FrameIds)
         /\ Front(frames) # <<>> => Last(Front(frames)) \in FrameIds
         /\ Len(frames) \in Nat \ {0}
         /\ Len(Front(frames)) = Len(frames) - 1
         /\ Len(frames) > 1 => Front(frames) # <<>>
<1>1. frames \in Seq(FrameIds) /\ frames # <<>> /\ heap \in [FrameIds -> Frame]
  BY DEF TInv, TypeOK, Shape
<1>2. /\ Cur \in FrameIds /\ Front(frames) \in Seq(FrameIds)
      /\ Len(frames) \in Nat \ {0} /\ Len(Front(frames)) = Len(frames) - 1
  BY <1>1, FrontLast DEF Cur
<1>3. Front(frames) # <<>> => Last(Front(frames)) \in FrameIds
  BY <1>2, FrontLast
<1>. QED
  BY <1>1, <1>2, <1>3

LEMMA ReleaseUpvalsType ==
  ASSUME TInv, NEW S
  PROVE  ReleaseUpvals(S) \in [ClosureIds -> Seq(Val)]
<1>1. ASSUME NEW c \in ClosureIds
      PROVE  [i \in DOMAIN upvals[c] |-> Null] \in Seq(Val)
  <2>1. upvals[c] \in Seq(Val) /\ Null \in Val
    BY DEF TInv, TypeOK, Val
  <2>2. DOMAIN upvals[c] = 1 .. Len(upvals[c]) /\ Len(upvals[c]) \in Nat
    BY <2>1, LenProperties
  <2>3. [i \in 1 .. Len(upvals[c]) |-> Null] \in Seq(Val)
    BY <2>1, <2>2, SeqDef
  <2>. QED
    BY <2>2, <2>3
<1>. QED
  BY <1>1 DEF ReleaseUpvals, TInv, TypeOK

LEMMA DoReturnType ==
  ASSUME TInv, pc \in {"exec", "native"}, NEW v \in Val
  PROVE  /\ Popped(v) \in [FrameIds -> Frame]
         /\ DoReturn => /\ upvals' \in [ClosureIds -> Seq(Val)]
                        /\ returned' \subseteq ClosureIds
                        /\ awaits' \in [FrameIds -> Regs \cup {NoReg}]
<1>. DEFINE rest == Front(frames)
            rel == [heap EXCEPT ![Cur] = Nilled]
<1>1. rel \in [FrameIds -> Frame] /\ heap[Cur].retReg \in Regs
      /\ heap[Cur].cl \in ClosureIds \cup {NoClosure}
  BY CurType, NilledType DEF TInv, TypeOK, Frame
<1>2. Popped(v) \in [FrameIds -> Frame]
  <2>1. CASE rest = <<>>
    BY <1>1, <2>1 DEF Popped
  <2>2. CASE rest # <<>>
    <3>1. Last(rest) \in FrameIds
      BY <2>2, CurType
    <3>2. [rel EXCEPT ![Last(rest)].regs[heap[Cur].retReg] = v] \in [FrameIds -> Frame]
      BY <1>1, <3>1, SetRegType
    <3>. QED
      BY <2>2, <3>2 DEF Popped
  <2>. QED
    BY <2>1, <2>2
<1>5. Resumed \in [FrameIds -> Regs \cup {NoReg}]
  BY CurType DEF Resumed, TInv, TypeOK
<1>. QED
  BY <1>1, <1>2, <1>5, ReleaseUpvalsType DEF DoReturn, TInv, TypeOK

-----------------------------------------------------------------------------
LEMMA TypeInit == Init => TInv
<1>. SUFFICES ASSUME Init PROVE TInv
  OBVIOUS
<1>1. PICK f \in FrameIds, v \in Val :
        /\ frames = <<f>>
        /\ heap = [g \in FrameIds |->
                     IF g = f THEN NewFrame(NoClosure, v, Param) ELSE Nilled]
  BY DEF Init
<1>2. heap \in [FrameIds -> Frame]
  BY <1>1, NilledType, NewFrameType, FramesAssumption
<1>. QED
  BY <1>1, <1>2, FramesAssumption, EmptySeq DEF Init, TInv, TypeOK, Shape

LEMMA TypeNext == TInv /\ [Next]_vars => TInv'
<1>. SUFFICES ASSUME TInv, [Next]_vars PROVE TInv'
  OBVIOUS
<1>. USE DEF TInv
<1>a. Fetched => pc = "exec" /\ ops' \in 0 .. MaxOps + 1
  BY FramesAssumption DEF Fetched, TypeOK
<1>b. ASSUME pc = "exec", Settled, UNCHANGED natives
      PROVE  Shape' /\ natives' \in Seq([fr : FrameIds, ret : Regs])
  BY <1>b, LenProperties DEF Settled, Shape, TypeOK
<1>1. CASE OpsExceeded
  <2>1. Settled
    BY <1>1, LeaveSettles DEF OpsExceeded, TypeOK
  <2>. QED
    BY <1>1, <1>b, <2>1, FramesAssumption DEF OpsExceeded, Settled, TypeOK
<1>2. CASE ImplicitReturn
  <2>1. Null \in Val /\ Popped(Null) \in [FrameIds -> Frame]
    BY <1>2, DoReturnType DEF ImplicitReturn, Val
  <2>2. Settled
    BY <1>2, <2>1, CurType, LeaveSettles DEF ImplicitReturn
  <2>. QED
    BY <1>2, <1>b, <2>1, <2>2, DoReturnType DEF ImplicitReturn, Settled, TypeOK
<1>3. CASE Halt
  <2>1. Settled
    BY <1>3, <1>a, LeaveSettles DEF Halt, TypeOK
  <2>. QED
    BY <1>3, <1>a, <1>b, <2>1 DEF Halt, Settled, TypeOK
<1>4. CASE DataOp
  <2>a. PICK r \in Regs, v \in Val : heap' = [heap EXCEPT ![Cur].regs[r] = v]
    BY <1>4 DEF DataOp
  <2>1. heap' \in [FrameIds -> Frame]
    BY <1>4, <1>a, <2>a, CurType, SetRegType DEF DataOp, TypeOK
  <2>. QED
    BY <1>4, <1>a, <2>1 DEF DataOp, TypeOK, Shape
<1>5. CASE OpFails
  <2>1. Settled /\ caught' \in [Stamps -> Nat]
        /\ awaits' \in [FrameIds -> Regs \cup {NoReg}]
    BY <1>5, <1>a, RaiseSettles DEF OpFails
  <2>. QED
    BY <1>5, <1>a, <1>b, <2>1 DEF OpFails, Settled, TypeOK
<1>6. CASE FatalError
  <2>1. Settled
    BY <1>6, <1>a, LeaveSettles DEF FatalError, TypeOK
  <2>. QED
    BY <1>6, <1>a, <1>b, <2>1 DEF FatalError, Settled, TypeOK
<1>7. CASE Call
  <2>1. PICK f \in FrameIds \ Referenced, c \in Allocated \cup {NoClosure},
             arg \in Regs, ret \in Regs :
          /\ frames' = Append(frames, f)
          /\ heap' = [heap EXCEPT ![f] = NewFrame(c, heap[Cur].regs[arg], ret)]
          /\ awaits' = [awaits EXCEPT ![Cur] = ret, ![f] = NoReg]
    BY <1>7 DEF Call
  <2>2. heap[Cur].regs[arg] \in Val /\ c \in ClosureIds \cup {NoClosure}
    BY <1>7, <1>a, CurType DEF Call, Frame, Allocated
  <2>3. heap' \in [FrameIds -> Frame]
    BY <2>1, <2>2, NewFrameType DEF TypeOK
  <2>4. frames' \in Seq(FrameIds) /\ frames' # <<>>
    BY <2>1, AppendProperties DEF TypeOK
  <2>5. awaits' \in [FrameIds -> Regs \cup {NoReg}]
    BY <2>1 DEF TypeOK
  <2>. QED
    BY <1>7, <1>a, <2>3, <2>4, <2>5 DEF Call, TypeOK, Shape
<1>8. CASE CallNative
  <2>1. PICK ret \in Regs :
          /\ natives' = Append(natives, [fr |-> Cur, ret |-> ret])
          /\ awaits' = [awaits EXCEPT ![Cur] = ret]
    BY <1>8 DEF CallNative
  <2>2. /\ natives' \in Seq([fr : FrameIds, ret : Regs])
        /\ Len(natives') = Len(natives) + 1
    BY <1>8, <1>a, <2>1, CurType, AppendProperties DEF CallNative, TypeOK
  <2>3. awaits' \in [FrameIds -> Regs \cup {NoReg}]
    BY <2>1 DEF TypeOK
  <2>. QED
    BY <1>8, <1>a, <2>2, <2>3, LenProperties DEF CallNative, TypeOK, Shape
<1>9. CASE Return
  <2>1. PICK v \in {heap[Cur].regs[r] : r \in Regs} \cup {Null} :
          /\ DoReturn
          /\ \/ /\ Len(frames) > 1
                /\ frames' = Front(frames)
                /\ heap' = Popped(v)
                /\ UNCHANGED <<saved, pc, outcome>>
             \/ /\ Len(frames) = 1
                /\ Leave(<<>>, Popped(v), "value")
    BY <1>9 DEF Return
  <2>2. v \in Val
    BY <1>9, <1>a, CurType DEF Return, Frame, Val
  <2>3. Popped(v) \in [FrameIds -> Frame]
        /\ upvals' \in [ClosureIds -> Seq(Val)] /\ returned' \subseteq ClosureIds
        /\ awaits' \in [FrameIds -> Regs \cup {NoReg}]
    BY <1>9, <1>a, <2>1, <2>2, DoReturnType DEF Return
  <2>4. CASE Leave(<<>>, Popped(v), "value")
    <3>1. Settled
      BY <2>3, <2>4, EmptySeq, LeaveSettles
    <3>. QED
      BY <1>9, <1>a, <1>b, <2>3, <3>1 DEF Return, Settled, TypeOK
  <2>5. CASE /\ Len(frames) > 1 /\ frames' = Front(frames)
             /\ heap' = Popped(v) /\ UNCHANGED <<saved, pc, outcome>>
    BY <1>9, <1>a, <2>3, <2>5, CurType DEF Return, TypeOK, Shape
  <2>. QED
    BY <2>1, <2>4, <2>5
<1>10. CASE MakeClosure
  <2>a. PICK c \in ClosureIds \ Allocated, n \in 1 .. MaxUps :
          \E src \in [1 .. n -> Regs] :
            LET values == [i \in 1 .. n |-> heap[Cur].regs[src[i]]]
            IN /\ upvals' = [upvals EXCEPT ![c] = values]
               /\ capture' = [capture EXCEPT ![c] = values]
    BY <1>10 DEF MakeClosure
  <2>1. PICK src \in [1 .. n -> Regs] :
          LET values == [i \in 1 .. n |-> heap[Cur].regs[src[i]]]
          IN /\ upvals' = [upvals EXCEPT ![c] = values]
             /\ capture' = [capture EXCEPT ![c] = values]
    BY <2>a
  <2>2. [i \in 1 .. n |-> heap[Cur].regs[src[i]]] \in [1 .. n -> Val] /\ n \in Nat
    BY <1>10, <1>a, CurType, FramesAssumption DEF MakeClosure, Frame
  <2>3. [i \in 1 .. n |-> heap[Cur].regs[src[i]]] \in Seq(Val)
    BY <2>2, SeqDef
  <2>4. upvals' \in [ClosureIds -> Seq(Val)] /\ capture' \in [ClosureIds -> Seq(Val)]
    BY <2>1, <2>3 DEF TypeOK
  <2>. QED
    BY <1>10, <1>a, <2>4 DEF MakeClosure, TypeOK, Shape
<1>11. CASE GetUpv
  <2>1. PICK r \in Regs, i \in DOMAIN upvals[heap[Cur].cl] :
          heap' = [heap EXCEPT ![Cur].regs[r] = upvals[heap[Cur].cl][i]]
    BY <1>11 DEF GetUpv
  <2>2. upvals[heap[Cur].cl] \in Seq(Val)
    BY <1>11, <1>a, CurType DEF GetUpv, Frame, TypeOK
  <2>3. upvals[heap[Cur].cl][i] \in Val
    BY <2>1, <2>2, ElementOfSeq, LenProperties
  <2>4. heap' \in [FrameIds -> Frame]
    BY <1>11, <1>a, <2>1, <2>3, CurType, SetRegType DEF GetUpv, TypeOK
  <2>. QED
    BY <1>11, <1>a, <2>4 DEF GetUpv, TypeOK, Shape
<1>12. CASE SetUpv
  <2>. DEFINE k == heap[Cur].cl
  <2>1. PICK r \in Regs, i \in DOMAIN upvals[k] :
          /\ upvals' = [upvals EXCEPT ![k][i] = heap[Cur].regs[r]]
          /\ capture' = [capture EXCEPT ![k][i] = heap[Cur].regs[r]]
    BY <1>12 DEF SetUpv
  <2>2. k \in ClosureIds /\ heap[Cur].regs[r] \in Val
    BY <1>12, <1>a, CurType DEF SetUpv, Frame
  <2>3. ASSUME NEW s \in Seq(Val)
        PROVE  [s EXCEPT ![i] = heap[Cur].regs[r]] \in Seq(Val)
    <3>1. s \in [1 .. Len(s) -> Val] /\ Len(s) \in Nat
      BY LenProperties
    <3>2. [s EXCEPT ![i] = heap[Cur].regs[r]] \in [1 .. Len(s) -> Val]
      BY <2>2, <3>1
    <3>. QED
      BY <3>1, <3>2, SeqDef
  <2>4. upvals' \in [ClosureIds -> Seq(Val)] /\ capture' \in [ClosureIds -> Seq(Val)]
    BY <2>1, <2>2, <2>3 DEF TypeOK
  <2>. QED
    BY <1>12, <1>a, <2>4 DEF SetUpv, TypeOK, Shape
<1>13. CASE Try
  <2>1. PICK r \in Regs :
          heap' = [heap EXCEPT ![Cur].trys =
                     Append(@, [stamp |-> tries + 1, errReg |-> r])]
    BY <1>13 DEF Try
  <2>2. tries' \in Stamps /\ tries' = tries + 1 /\ tries' \in 0 .. MaxTrys
    BY <1>13, FramesAssumption DEF Try, TypeOK, Stamps
  <2>3. heap[Cur].trys \in Seq(Handler) /\ [stamp |-> tries + 1, errReg |-> r] \in Handler
    BY <1>13, <1>a, <2>2, CurType DEF Try, Frame, Handler
  <2>4. heap' \in [FrameIds -> Frame]
    BY <1>13, <1>a, <2>1, <2>3, CurType, AppendProperties DEF Try, TypeOK, Frame
  <2>. QED
    BY <1>13, <1>a, <2>2, <2>4 DEF Try, TypeOK, Shape
<1>14. CASE EndTry
  <2>1. ASSUME heap[Cur].trys # <<>>
        PROVE  [heap EXCEPT ![Cur].trys = Front(@)] \in [FrameIds -> Frame]
    <3>1. heap[Cur].trys \in Seq(Handler)
      BY <1>14, <1>a, CurType DEF EndTry, Frame
    <3>2. Front(heap[Cur].trys) \in Seq(Handler)
      BY <2>1, <3>1, FrontLast
    <3>. QED
      BY <1>14, <1>a, <3>2, CurType DEF EndTry, TypeOK, Frame
  <2>2. heap' \in [FrameIds -> Frame]
    BY <1>14, <2>1 DEF EndTry, TypeOK
  <2>. QED
    BY <1>14, <1>a, <2>2 DEF EndTry, TypeOK, Shape
<1>b2. ASSUME pc = "native", natives' = Front(natives)
       PROVE  /\ natives' \in Seq([fr : FrameIds, ret : Regs])
              /\ Len(natives') = Len(saved) /\ Len(saved) \in Nat
              /\ Last(natives) \in [fr : FrameIds, ret : Regs]
  <2>1. /\ natives \in Seq([fr : FrameIds, ret : Regs])
        /\ saved \in Seq(Seq(FrameIds))
        /\ Len(natives) = Len(saved) + 1
    BY <1>b2 DEF TypeOK, Shape
  <2>2. Len(saved) \in Nat
    BY <2>1, LenProperties
  <2>3. natives # <<>>
    BY <2>1, <2>2, EmptySeq
  <2>4. /\ Front(natives) \in Seq([fr : FrameIds, ret : Regs])
        /\ Len(Front(natives)) = Len(natives) - 1
        /\ Last(natives) \in [fr : FrameIds, ret : Regs]
    BY <2>1, <2>3, FrontLast
  <2>. QED
    BY <1>b2, <2>1, <2>2, <2>4
<1>15. CASE NativeReturns
  <2>1. PICK v \in Val :
          /\ heap' = [heap EXCEPT ![Last(natives).fr].regs[Last(natives).ret] = v]
          /\ awaits' = [awaits EXCEPT ![Last(natives).fr] = NoReg]
    BY <1>15 DEF NativeReturns
  <2>2. Last(natives).fr \in FrameIds /\ Last(natives).ret \in Regs
    BY <1>15, <1>b2 DEF NativeReturns
  <2>3. heap' \in [FrameIds -> Frame]
    BY <2>1, <2>2, SetRegType DEF TypeOK
  <2>4. awaits' \in [FrameIds -> Regs \cup {NoReg}]
    BY <2>1, <2>2 DEF TypeOK
  <2>. QED
    BY <1>15, <1>b2, <2>3, <2>4 DEF NativeReturns, TypeOK, Shape
<1>16. CASE NativeFails
  <2>1. Settled /\ caught' \in [Stamps -> Nat]
        /\ awaits' \in [FrameIds -> Regs \cup {NoReg}]
    BY <1>16, RaiseSettles DEF NativeFails
  <2>. QED
    BY <1>16, <1>b2, <2>1 DEF NativeFails, Settled, TypeOK, Shape
<1>17. CASE CallClosure
  <2>1. PICK f \in FrameIds \ Referenced, c \in Allocated \cup {NoClosure}, v \in Val :
          /\ saved' = Append(saved, frames)
          /\ frames' = <<f>>
          /\ heap' = [heap EXCEPT ![f] = NewFrame(c, v, Param)]
          /\ awaits' = [awaits EXCEPT ![f] = NoReg]
    BY <1>17 DEF CallClosure
  <2>2. heap' \in [FrameIds -> Frame]
    BY <2>1, NewFrameType, FramesAssumption DEF TypeOK, Allocated
  <2>3. /\ saved' \in Seq(Seq(FrameIds)) /\ Len(saved') = Len(saved) + 1
        /\ \A i \in 1 .. Len(saved) : saved'[i] = saved[i]
        /\ saved'[Len(saved) + 1] = frames /\ Len(saved) \in Nat
    BY <2>1, AppendProperties, LenProperties DEF TypeOK
  <2>4. \A i \in 1 .. Len(saved') : saved'[i] # <<>>
    BY <1>17, <2>3 DEF CallClosure, Shape
  <2>5. frames' \in Seq(FrameIds) /\ frames' # <<>>
    BY <2>1
  <2>6. awaits' \in [FrameIds -> Regs \cup {NoReg}]
    BY <2>1 DEF TypeOK
  <2>. QED
    BY <1>17, <2>2, <2>3, <2>4, <2>5, <2>6 DEF CallClosure, TypeOK, Shape
<1>18. CASE Release
  <2>1. heap' \in [FrameIds -> Frame]
    BY <1>18, DropType DEF Release, TypeOK
  <2>2. upvals' \in [ClosureIds -> Seq(Val)]
    BY <1>18, ReleaseUpvalsType DEF Release
  <2>. QED
    BY <1>18, <2>1, <2>2, EmptySeq DEF Release, TypeOK, Shape
<1>19. CASE UNCHANGED vars
  BY <1>19 DEF vars, TypeOK, Shape
<1>. QED
  BY <1>1, <1>2, <1>3, <1>4, <1>5, <1>6, <1>7, <1>8, <1>9, <1>10, <1>11,
     <1>12, <1>13, <1>14, <1>15, <1>16, <1>17, <1>18, <1>19
  DEF Next, Execute, NativeEnds

\* Every variable keeps its type, and the Go stack its shape.
THEOREM TypeCorrect == Spec => []TypeOK
<1>1. TInv => TypeOK
  BY DEF TInv
<1>. QED
  BY <1>1, TypeInit, TypeNext, PTL DEF Spec

-----------------------------------------------------------------------------
(* A TRY catches at most one error.                                        *)

\* A handler that is still installed has not caught anything.
HandlersUnused ==
  \A f \in FrameIds : \A i \in 1 .. Len(heap[f].trys) :
    heap[f].trys[i].stamp <= tries /\ caught[heap[f].trys[i].stamp] = 0

\* A stamp names one handler.
StampsDistinct ==
  \A f, g \in FrameIds :
    \A i \in 1 .. Len(heap[f].trys), j \in 1 .. Len(heap[g].trys) :
      heap[f].trys[i].stamp = heap[g].trys[j].stamp => f = g /\ i = j

\* Stamps are handed out in order.
StampsInOrder ==
  \A s \in Stamps : caught[s] <= 1 /\ (s > tries => caught[s] = 0)

HandlersFresh == HandlersUnused /\ StampsDistinct /\ StampsInOrder

HInv == TInv /\ HandlersFresh

\* In h2 each frame has some of the handlers it has in h, from the bottom.
Shrinks(h, h2) ==
  \A f \in FrameIds :
    /\ Len(h2[f].trys) <= Len(h[f].trys)
    /\ \A i \in 1 .. Len(h2[f].trys) : h2[f].trys[i] = h[f].trys[i]

LEMMA TrysType ==
  ASSUME NEW h \in [FrameIds -> Frame], NEW f \in FrameIds
  PROVE  /\ h[f].trys \in Seq(Handler) /\ Len(h[f].trys) \in Nat
         /\ \A i \in 1 .. Len(h[f].trys) : h[f].trys[i].stamp \in Stamps
<1>1. h[f].trys \in Seq(Handler)
  BY DEF Frame
<1>2. Len(h[f].trys) \in Nat
  BY <1>1, LenProperties
<1>3. \A i \in 1 .. Len(h[f].trys) : h[f].trys[i] \in Handler
  BY <1>1, ElementOfSeq
<1>. QED
  BY <1>1, <1>2, <1>3 DEF Handler

LEMMA ShrinkReflexive ==
  ASSUME NEW h \in [FrameIds -> Frame]
  PROVE  Shrinks(h, h)
BY TrysType DEF Shrinks

\* Replacing anything but the handlers of a frame, or taking them all.
LEMMA ShrinkSame ==
  ASSUME NEW h \in [FrameIds -> Frame], NEW h2,
         \A f \in FrameIds : h2[f].trys = h[f].trys \/ h2[f].trys = <<>>
  PROVE  Shrinks(h, h2)
BY TrysType, EmptySeq DEF Shrinks

LEMMA DropShrinks ==
  ASSUME NEW h \in [FrameIds -> Frame], NEW S
  PROVE  \A f \in FrameIds :
           Drop(h, S)[f].trys = h[f].trys \/ Drop(h, S)[f].trys = <<>>
BY DEF Drop, Nilled

LEMMA LeaveShrinks ==
  ASSUME NEW h \in [FrameIds -> Frame], NEW fs, NEW o, Leave(fs, h, o)
  PROVE  \A f \in FrameIds : heap'[f].trys = h[f].trys \/ heap'[f].trys = <<>>
BY DropShrinks DEF Leave

LEMMA PoppedShrinks ==
  ASSUME TInv, pc \in {"exec", "native"}, NEW v
  PROVE  \A f \in FrameIds :
           Popped(v)[f].trys = heap[f].trys \/ Popped(v)[f].trys = <<>>
<1>. DEFINE rel == [heap EXCEPT ![Cur] = Nilled]
<1>1. rel \in [FrameIds -> Frame]
      /\ \A f \in FrameIds : rel[f].trys = heap[f].trys \/ rel[f].trys = <<>>
  BY CurType, NilledType DEF TInv, TypeOK, Nilled
<1>2. CASE Front(frames) = <<>>
  BY <1>1, <1>2 DEF Popped
<1>3. CASE Front(frames) # <<>>
  <2>1. \A f \in FrameIds :
          [rel EXCEPT ![Last(Front(frames))].regs[heap[Cur].retReg] = v][f].trys
            = rel[f].trys
    BY <1>1 DEF Frame
  <2>. QED
    BY <1>1, <1>3, <2>1 DEF Popped
<1>. QED
  BY <1>2, <1>3

\* Handlers may go, and stamps be used up, without harm.
LEMMA FreshAfterShrink ==
  ASSUME HInv, TInv', Shrinks(heap, heap'), tries' = tries, caught' = caught
  PROVE  HandlersFresh'
<1>1. ASSUME NEW f \in FrameIds, NEW i \in 1 .. Len(heap'[f].trys)
      PROVE  i \in 1 .. Len(heap[f].trys) /\ heap'[f].trys[i] = heap[f].trys[i]
  <2>1. Len(heap[f].trys) \in Nat /\ Len(heap'[f].trys) \in Nat
    BY TrysType DEF HInv, TInv, TypeOK
  <2>. QED
    BY <2>1 DEF Shrinks
<1>2. HandlersUnused'
  <2>1. ASSUME NEW f \in FrameIds, NEW i \in 1 .. Len(heap'[f].trys)
        PROVE  heap'[f].trys[i].stamp <= tries' /\ caught'[heap'[f].trys[i].stamp] = 0
    <3>1. i \in 1 .. Len(heap[f].trys) /\ heap'[f].trys[i] = heap[f].trys[i]
      BY <1>1
    <3>. QED
      BY <3>1 DEF HInv, HandlersFresh, HandlersUnused
  <2>. QED
    BY <2>1 DEF HandlersUnused
<1>3. StampsDistinct'
  <2>1. ASSUME NEW f \in FrameIds, NEW g \in FrameIds,
               NEW i \in 1 .. Len(heap'[f].trys), NEW j \in 1 .. Len(heap'[g].trys),
               heap'[f].trys[i].stamp = heap'[g].trys[j].stamp
        PROVE  f = g /\ i = j
    <3>1. /\ i \in 1 .. Len(heap[f].trys) /\ heap'[f].trys[i] = heap[f].trys[i]
          /\ j \in 1 .. Len(heap[g].trys) /\ heap'[g].trys[j] = heap[g].trys[j]
      BY <1>1
    <3>. QED
      BY <2>1, <3>1 DEF HInv, HandlersFresh, StampsDistinct
  <2>. QED
    BY <2>1 DEF StampsDistinct
<1>4. StampsInOrder'
  BY DEF HInv, HandlersFresh, StampsInOrder
<1>. QED
  BY <1>2, <1>3, <1>4 DEF HandlersFresh

\* The frame that catches loses its last handler, no frame gains one.
LEMMA CatchShrinks ==
  ASSUME TInv, TInv', NEW k \in Handling, Catch(k)
  PROVE  /\ Shrinks(heap, heap')
         /\ Len(heap'[frames[k]].trys) < Len(heap[frames[k]].trys)
<1>. DEFINE f == frames[k]
            t == heap[f].trys
            h == Last(t)
            caughtHeap == [heap EXCEPT ![f].trys = Front(@), ![f].regs[h.errReg] = Err]
<1>1. /\ f \in FrameIds /\ t # <<>>
      /\ heap \in [FrameIds -> Frame] /\ heap' \in [FrameIds -> Frame]
  BY ElementOfSeq DEF Handling, TInv, TypeOK
<1>2. /\ t \in Seq(Handler) /\ Front(t) \in Seq(Handler)
      /\ Len(Front(t)) = Len(t) - 1 /\ Len(t) \in Nat \ {0}
      /\ \A i \in 1 .. Len(t) - 1 : Front(t)[i] = t[i]
  BY <1>1, TrysType, FrontLast
<1>3. \A g \in FrameIds : caughtHeap[g].trys = IF g = f THEN Front(t) ELSE heap[g].trys
  <2>1. \A g \in FrameIds : [heap EXCEPT ![f].trys = Front(@)][g].trys
                              = IF g = f THEN Front(t) ELSE heap[g].trys
    BY <1>1 DEF Frame
  <2>2. \A a \in [FrameIds -> Frame] : \A g \in FrameIds :
          [a EXCEPT ![f].regs[h.errReg] = Err][g].trys = a[g].trys
    BY <1>1 DEF Frame
  <2>3. [heap EXCEPT ![f].trys = Front(@)] \in [FrameIds -> Frame]
    <3>. DEFINE ft == Front(t)
    <3>1. ft \in Seq(Handler)
      BY <1>2
    <3>. HIDE DEF ft
    <3>2. [heap EXCEPT ![f].trys = ft] \in [FrameIds -> Frame]
      BY <1>1, <3>1 DEF Frame
    <3>. QED
      BY <3>2 DEF ft
  <2>. QED
    BY <2>1, <2>2, <2>3
<1>4. \A g \in FrameIds : heap'[g].trys = caughtHeap[g].trys \/ heap'[g].trys = <<>>
  BY DEF Catch, Drop, Nilled
<1>. HIDE DEF caughtHeap
<1>5. ASSUME NEW g \in FrameIds
      PROVE  /\ Len(heap'[g].trys) <= Len(heap[g].trys)
             /\ \A i \in 1 .. Len(heap'[g].trys) : heap'[g].trys[i] = heap[g].trys[i]
             /\ g = f => Len(heap'[g].trys) < Len(heap[g].trys)
  <2>1. Len(heap[g].trys) \in Nat
    BY <1>1, TrysType
  <2>2. CASE heap'[g].trys = <<>>
    <3>1. Len(heap'[g].trys) = 0
      BY <2>2
    <3>. QED
      BY <1>2, <2>1, <3>1
  <2>3. CASE g = f /\ heap'[g].trys = Front(t)
    BY <1>2, <2>3
  <2>4. CASE g # f /\ heap'[g].trys = heap[g].trys
    BY <2>1, <2>4
  <2>. QED
    BY <1>3, <1>4, <2>2, <2>3, <2>4
<1>. QED
  BY <1>1, <1>5 DEF Shrinks

LEMMA RaiseShrinks ==
  ASSUME TInv, TInv', Raise
  PROVE  Shrinks(heap, heap')
<1>1. CASE Handling # {}
  BY <1>1, CatchShrinks DEF Raise
<1>2. CASE Handling = {}
  <2>1. Leave(frames, heap, "error")
    BY <1>2 DEF Raise
  <2>. QED
    BY <2>1, LeaveShrinks, ShrinkSame DEF TInv, TypeOK
<1>. QED
  BY <1>1, <1>2

LEMMA CatchFresh ==
  ASSUME HInv, TInv', NEW k \in Handling, Catch(k), tries' = tries
  PROVE  HandlersFresh'
<1>. DEFINE f == frames[k]
            t == heap[f].trys
            h == Last(t)
<1>1. /\ f \in FrameIds /\ t # <<>>
      /\ heap \in [FrameIds -> Frame] /\ heap' \in [FrameIds -> Frame]
      /\ caught \in [Stamps -> Nat] /\ tries \in Int
  BY ElementOfSeq DEF Handling, HInv, TInv, TypeOK
<1>2. Len(t) \in Nat \ {0} /\ Len(t) \in 1 .. Len(t) /\ h = t[Len(t)]
  BY <1>1, TrysType, FrontLast DEF Last
<1>3. h.stamp \in Stamps /\ caught[h.stamp] = 0 /\ h.stamp <= tries
  BY <1>1, <1>2, TrysType DEF HInv, HandlersFresh, HandlersUnused
<1>6. ASSUME NEW g \in FrameIds, NEW i \in 1 .. Len(heap'[g].trys)
      PROVE  /\ i \in 1 .. Len(heap[g].trys)
             /\ heap'[g].trys[i] = heap[g].trys[i]
             /\ g = f => i # Len(t)
             /\ heap'[g].trys[i].stamp \in Stamps
  <2>1. Shrinks(heap, heap') /\ Len(heap'[f].trys) < Len(t)
    BY CatchShrinks DEF HInv
  <2>2. heap'[g].trys[i].stamp \in Stamps /\ Len(heap[g].trys) \in Nat /\ Len(heap'[g].trys) \in Nat
    BY <1>1, TrysType
  <2>. QED
    BY <1>2, <2>1, <2>2 DEF Shrinks
<1>7. caught' = [caught EXCEPT ![h.stamp] = @ + 1]
  BY DEF Catch
<1>8. ASSUME NEW g \in FrameIds, NEW i \in 1 .. Len(heap'[g].trys)
      PROVE  heap'[g].trys[i].stamp # h.stamp
  <2>1. \A j \in 1 .. Len(heap[g].trys) :
          heap[g].trys[j].stamp = heap[f].trys[Len(t)].stamp => g = f /\ j = Len(t)
    BY <1>1, <1>2 DEF HInv, HandlersFresh, StampsDistinct
  <2>2. /\ i \in 1 .. Len(heap[g].trys) /\ heap'[g].trys[i] = heap[g].trys[i]
        /\ g = f => i # Len(t)
    BY <1>6
  <2>3. h.stamp = heap[f].trys[Len(t)].stamp
    BY <1>2
  <2>. QED
    BY <2>1, <2>2, <2>3
<1>10. \A s \in Stamps : caught'[s] = IF s = h.stamp THEN 1 ELSE caught[s]
  BY <1>1, <1>3, <1>7
<1>11. StampsInOrder'
  <2>1. ASSUME NEW s \in Stamps
        PROVE  caught'[s] <= 1 /\ (s > tries' => caught'[s] = 0)
    <3>1. s \in Int /\ caught[s] <= 1 /\ (s > tries => caught[s] = 0)
      BY FramesAssumption DEF Stamps, HInv, HandlersFresh, StampsInOrder
    <3>. QED
      BY <1>1, <1>3, <1>10, <3>1
  <2>. QED
    BY <2>1 DEF StampsInOrder
<1>12. HandlersUnused'
  <2>1. ASSUME NEW g \in FrameIds, NEW i \in 1 .. Len(heap'[g].trys)
        PROVE  heap'[g].trys[i].stamp <= tries' /\ caught'[heap'[g].trys[i].stamp] = 0
    <3>1. heap[g].trys[i].stamp <= tries /\ caught[heap[g].trys[i].stamp] = 0
      BY <1>6 DEF HInv, HandlersFresh, HandlersUnused
    <3>. QED
      BY <1>6, <1>8, <1>10, <3>1, SMTT(30)
  <2>. QED
    BY <2>1 DEF HandlersUnused
<1>13. StampsDistinct'
  <2>1. ASSUME NEW g1 \in FrameIds, NEW g2 \in FrameIds,
               NEW i \in 1 .. Len(heap'[g1].trys), NEW j \in 1 .. Len(heap'[g2].trys),
               heap'[g1].trys[i].stamp = heap'[g2].trys[j].stamp
        PROVE  g1 = g2 /\ i = j
    <3>1. /\ i \in 1 .. Len(heap[g1].trys) /\ heap'[g1].trys[i] = heap[g1].trys[i]
          /\ j \in 1 .. Len(heap[g2].trys) /\ heap'[g2].trys[j] = heap[g2].trys[j]
      BY <1>6
    <3>. QED
      BY <2>1, <3>1 DEF HInv, HandlersFresh, StampsDistinct
  <2>. QED
    BY <2>1 DEF StampsDistinct
<1>. QED
  BY <1>11, <1>12, <1>13 DEF HandlersFresh

LEMMA RaiseFresh ==
  ASSUME HInv, TInv', pc \in {"exec", "native"}, Raise, tries' = tries
  PROVE  HandlersFresh'
<1>1. CASE Handling # {}
  BY <1>1, CatchFresh DEF Raise
<1>2. CASE Handling = {}
  <2>1. Leave(frames, heap, "error") /\ caught' = caught
    BY <1>2 DEF Raise
  <2>. QED
    BY <2>1, LeaveShrinks, ShrinkSame, FreshAfterShrink DEF HInv, TInv, TypeOK
<1>. QED
  BY <1>1, <1>2

LEMMA FreshInit == Init => HandlersFresh
<1>. SUFFICES ASSUME Init PROVE HandlersFresh
  OBVIOUS
<1>1. \A f \in FrameIds : heap[f].trys = <<>>
  BY DEF Init, NewFrame, Nilled
<1>2. \A s \in Stamps : caught[s] = 0
  BY DEF Init
<1>. QED
  BY <1>1, <1>2, EmptySeq
  DEF HandlersFresh, HandlersUnused, StampsDistinct, StampsInOrder

\* Only TRY installs a handler.
LEMMA StepShrinks ==
  ASSUME TInv, TInv', [Next]_vars, ~Try
  PROVE  Shrinks(heap, heap')
<1>h. heap \in [FrameIds -> Frame] /\ heap' \in [FrameIds -> Frame]
  BY DEF TInv, TypeOK
<1>a. ASSUME \A f \in FrameIds : heap'[f].trys = heap[f].trys \/ heap'[f].trys = <<>>
      PROVE  Shrinks(heap, heap')
  BY <1>h, <1>a, ShrinkSame
<1>b. ASSUME NEW f, NEW c, NEW v, NEW r, heap' = [heap EXCEPT ![f] = NewFrame(c, v, r)]
      PROVE  \A g \in FrameIds : heap'[g].trys = heap[g].trys \/ heap'[g].trys = <<>>
  BY <1>h, <1>b DEF NewFrame
<1>c. ASSUME NEW f, NEW r, NEW v, heap' = [heap EXCEPT ![f].regs[r] = v]
      PROVE  \A g \in FrameIds : heap'[g].trys = heap[g].trys
  BY <1>h, <1>c DEF Frame
<1>1. CASE OpsExceeded \/ Halt \/ FatalError
  BY <1>1, <1>a, <1>h, LeaveShrinks DEF OpsExceeded, Halt, FatalError
<1>2. CASE ImplicitReturn
  <2>1. Popped(Null) \in [FrameIds -> Frame]
    BY <1>2, DoReturnType DEF ImplicitReturn, Val
  <2>2. \A f \in FrameIds : heap'[f].trys = Popped(Null)[f].trys \/ heap'[f].trys = <<>>
    BY <1>2, <2>1, LeaveShrinks DEF ImplicitReturn
  <2>3. \A f \in FrameIds : Popped(Null)[f].trys = heap[f].trys \/ Popped(Null)[f].trys = <<>>
    BY <1>2, PoppedShrinks DEF ImplicitReturn
  <2>. QED
    BY <1>a, <2>2, <2>3
<1>4. CASE DataOp \/ GetUpv
  BY <1>4, <1>a, <1>c DEF DataOp, GetUpv
<1>5. CASE OpFails \/ NativeFails
  BY <1>5, RaiseShrinks DEF OpFails, NativeFails
<1>6. CASE Call \/ CallClosure
  BY <1>6, <1>a, <1>b DEF Call, CallClosure
<1>7. CASE CallNative \/ MakeClosure \/ SetUpv
  BY <1>7, <1>a DEF CallNative, MakeClosure, SetUpv
<1>8. CASE Return
  <2>1. PICK v \in {heap[Cur].regs[r] : r \in Regs} \cup {Null} :
          \/ heap' = Popped(v)
          \/ Leave(<<>>, Popped(v), "value")
    BY <1>8 DEF Return
  <2>2. v \in Val
    BY <1>8, CurType DEF Return, Fetched, Frame, Val
  <2>3. Popped(v) \in [FrameIds -> Frame]
    BY <1>8, <2>2, DoReturnType DEF Return, Fetched
  <2>4. \A f \in FrameIds : heap'[f].trys = Popped(v)[f].trys \/ heap'[f].trys = <<>>
    BY <2>1, <2>3, LeaveShrinks
  <2>5. \A f \in FrameIds : Popped(v)[f].trys = heap[f].trys \/ Popped(v)[f].trys = <<>>
    BY <1>8, PoppedShrinks DEF Return, Fetched
  <2>. QED
    BY <1>a, <2>4, <2>5
<1>10. CASE EndTry
  <2>1. CASE heap' = heap
    BY <1>a, <2>1
  <2>2. CASE heap[Cur].trys # <<>> /\ heap' = [heap EXCEPT ![Cur].trys = Front(@)]
    <3>1. Cur \in FrameIds /\ heap[Cur].trys \in Seq(Handler)
      BY <1>10, <1>h, CurType, TrysType DEF EndTry, Fetched
    <3>2. \A g \in FrameIds :
            heap'[g].trys = IF g = Cur THEN Front(heap[g].trys) ELSE heap[g].trys
      BY <1>h, <2>2, <3>1 DEF Frame
    <3>3. /\ Len(Front(heap[Cur].trys)) = Len(heap[Cur].trys) - 1
          /\ Len(heap[Cur].trys) \in Nat
          /\ \A i \in 1 .. Len(heap[Cur].trys) - 1 :
               Front(heap[Cur].trys)[i] = heap[Cur].trys[i]
      BY <2>2, <3>1, FrontLast
    <3>4. ASSUME NEW g \in FrameIds
          PROVE  /\ Len(heap'[g].trys) <= Len(heap[g].trys)
                 /\ \A i \in 1 .. Len(heap'[g].trys) : heap'[g].trys[i] = heap[g].trys[i]
      <4>1. CASE g = Cur
        BY <3>2, <3>3, <4>1
      <4>2. CASE g # Cur
        BY <1>h, <3>2, <4>2, TrysType
      <4>. QED
        BY <4>1, <4>2
    <3>. QED
      BY <3>4 DEF Shrinks
  <2>. QED
    BY <1>10, <2>1, <2>2 DEF EndTry
<1>11. CASE NativeReturns
  BY <1>11, <1>a, <1>c DEF NativeReturns
<1>12. CASE Release
  BY <1>12, <1>a, <1>h, DropShrinks DEF Release
<1>13. CASE UNCHANGED vars
  BY <1>13, <1>a DEF vars
<1>. QED
  BY <1>1, <1>2, <1>4, <1>5, <1>6, <1>7, <1>8, <1>10, <1>11, <1>12, <1>13
  DEF Next, Execute, NativeEnds

LEMMA FreshNext == HInv /\ TInv' /\ [Next]_vars => HandlersFresh'
<1>. SUFFICES ASSUME HInv, TInv', [Next]_vars PROVE HandlersFresh'
  OBVIOUS
<1>. USE DEF HInv
<1>h. heap \in [FrameIds -> Frame] /\ heap' \in [FrameIds -> Frame]
  BY DEF TInv, TypeOK
<1>5. CASE OpFails \/ NativeFails
  BY <1>5, RaiseFresh DEF OpFails, NativeFails, Fetched
<1>9. CASE Try
  <2>. DEFINE t == heap[Cur].trys
  <2>1. PICK r \in Regs :
          heap' = [heap EXCEPT ![Cur].trys =
                     Append(@, [stamp |-> tries + 1, errReg |-> r])]
    BY <1>9 DEF Try
  <2>a. /\ tries \in Nat /\ tries' = tries + 1 /\ tries + 1 \in Stamps
        /\ caught' = caught
    BY <1>9, FramesAssumption DEF Try, TInv, TypeOK, Stamps
  <2>b. Cur \in FrameIds /\ t \in Seq(Handler) /\ Len(t) \in Nat
    BY <1>9, <1>h, CurType, TrysType DEF Try, Fetched
  <2>2. [stamp |-> tries + 1, errReg |-> r] \in Handler
    BY <2>a DEF Handler
  <2>3. \A g \in FrameIds : g # Cur => heap'[g].trys = heap[g].trys
    BY <1>h, <2>1
  <2>4. heap'[Cur].trys = Append(t, [stamp |-> tries + 1, errReg |-> r])
    BY <1>h, <2>1, <2>b DEF Frame
  <2>5. /\ Len(heap'[Cur].trys) = Len(t) + 1
        /\ \A i \in 1 .. Len(t) : heap'[Cur].trys[i] = t[i]
        /\ heap'[Cur].trys[Len(t) + 1].stamp = tries + 1
    BY <2>2, <2>b, <2>4, AppendProperties
  <2>. DEFINE Old(g, i) == /\ i \in 1 .. Len(heap[g].trys)
                           /\ heap'[g].trys[i] = heap[g].trys[i]
                           /\ heap'[g].trys[i].stamp \in Stamps
                           /\ heap'[g].trys[i].stamp <= tries
                           /\ caught[heap'[g].trys[i].stamp] = 0
              New(g, i) == g = Cur /\ i = Len(t) + 1 /\ heap'[g].trys[i].stamp = tries + 1
  <2>6. ASSUME NEW g \in FrameIds, NEW i \in 1 .. Len(heap'[g].trys)
        PROVE  Old(g, i) \/ New(g, i)
    <3>1. CASE g = Cur /\ i = Len(t) + 1
      BY <2>5, <3>1
    <3>2. CASE ~(g = Cur /\ i = Len(t) + 1)
      <4>1. i \in 1 .. Len(heap[g].trys) /\ heap'[g].trys[i] = heap[g].trys[i]
        <5>1. CASE g = Cur
          BY <2>5, <2>b, <3>2, <5>1
        <5>2. CASE g # Cur
          BY <2>3, <5>2
        <5>. QED
          BY <5>1, <5>2
      <4>. QED
        BY <1>h, <4>1, TrysType DEF HandlersFresh, HandlersUnused
    <3>. QED
      BY <3>1, <3>2
  <2>7. caught[tries + 1] = 0 /\ \A s \in Stamps : s \in Int
    BY <2>a, FramesAssumption DEF HandlersFresh, StampsInOrder, Stamps
  <2>8. HandlersUnused'
    <3>1. ASSUME NEW g \in FrameIds, NEW i \in 1 .. Len(heap'[g].trys)
          PROVE  heap'[g].trys[i].stamp <= tries' /\ caught'[heap'[g].trys[i].stamp] = 0
      <4>1. CASE Old(g, i)
        BY <2>a, <2>7, <4>1
      <4>2. CASE New(g, i)
        BY <2>a, <2>7, <4>2
      <4>. QED
        BY <2>6, <4>1, <4>2
    <3>. QED
      BY <3>1 DEF HandlersUnused
  <2>9. StampsDistinct'
    <3>1. ASSUME NEW f \in FrameIds, NEW g \in FrameIds,
                 NEW i \in 1 .. Len(heap'[f].trys), NEW j \in 1 .. Len(heap'[g].trys),
                 heap'[f].trys[i].stamp = heap'[g].trys[j].stamp
          PROVE  f = g /\ i = j
      <4>1. CASE Old(f, i)
        <5>1. CASE Old(g, j)
          BY <3>1, <4>1, <5>1 DEF HandlersFresh, StampsDistinct
        <5>2. CASE New(g, j)
          BY <2>a, <2>7, <3>1, <4>1, <5>2
        <5>. QED
          BY <2>6, <5>1, <5>2
      <4>2. CASE New(f, i)
        <5>1. CASE Old(g, j)
          BY <2>a, <2>7, <3>1, <4>2, <5>1
        <5>2. CASE New(g, j)
          BY <4>2, <5>2
        <5>. QED
          BY <2>6, <5>1, <5>2
      <4>. QED
        BY <2>6, <4>1, <4>2
    <3>. QED
      BY <3>1 DEF StampsDistinct
  <2>10. StampsInOrder'
    BY <2>a, <2>7 DEF HandlersFresh, StampsInOrder
  <2>. QED
    BY <2>8, <2>9, <2>10 DEF HandlersFresh
<1>10. CASE ~Try /\ ~OpFails /\ ~NativeFails
  <2>1. tries' = tries /\ caught' = caught
    BY <1>10 DEF Next, Execute, NativeEnds, vars, OpsExceeded, ImplicitReturn, Halt, DataOp, FatalError,
      Call, CallNative, Return, MakeClosure, GetUpv, SetUpv, EndTry, NativeReturns, CallClosure, Release
  <2>. QED
    BY <1>10, <2>1, StepShrinks, FreshAfterShrink
<1>. QED
  BY <1>5, <1>9, <1>10

\* However errors, callbacks and returns interleave, no TRY catches twice.
THEOREM HandlersCatchOnce == Spec => []CatchOnce
<1>1. Init => HInv
  BY TypeInit, FreshInit DEF HInv
<1>2. HInv /\ [Next]_vars => HInv'
  BY TypeNext, FreshNext DEF HInv
<1>3. HInv => CatchOnce
  BY DEF HInv, HandlersFresh, StampsInOrder, CatchOnce
<1>. QED
  BY <1>1, <1>2, <1>3, PTL DEF Spec
=============================================================================
