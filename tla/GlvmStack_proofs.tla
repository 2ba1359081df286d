--------------------------- MODULE GlvmStack_proofs ---------------------------
(***************************************************************************)
(* Proofs about the stacks of GlvmFrames: which frames are on them, what   *)
(* each of them waits for, and in which order their handlers were          *)
(* installed; and that together they are the one stack of CallStack.       *)
(***************************************************************************)
EXTENDS MCGlvmFrames, GlvmFrames_proofs, WellFoundedInduction

-----------------------------------------------------------------------------
(* The activations.                                                        *)

LEMMA ActivationsAre ==
  ASSUME NEW s \in Seq(Seq(FrameIds)), NEW fs \in Seq(FrameIds)
  PROVE  /\ Append(s, fs) \in Seq(Seq(FrameIds))
         /\ Len(s) \in Nat /\ Len(Append(s, fs)) = Len(s) + 1
         /\ \A a \in 1 .. Len(s) : Append(s, fs)[a] = s[a]
         /\ Append(s, fs)[Len(s) + 1] = fs
         /\ \A a \in 1 .. Len(s) + 1 :
              /\ Append(s, fs)[a] \in Seq(FrameIds) /\ Len(Append(s, fs)[a]) \in Nat
              /\ \A i \in 1 .. Len(Append(s, fs)[a]) : Append(s, fs)[a][i] \in FrameIds
<1>1. /\ Append(s, fs) \in Seq(Seq(FrameIds))
      /\ Len(s) \in Nat /\ Len(Append(s, fs)) = Len(s) + 1
      /\ \A a \in 1 .. Len(s) : Append(s, fs)[a] = s[a]
      /\ Append(s, fs)[Len(s) + 1] = fs
  BY AppendProperties, LenProperties
<1>2. \A a \in 1 .. Len(s) + 1 : Append(s, fs)[a] \in Seq(FrameIds)
  BY <1>1, ElementOfSeq
<1>3. ASSUME NEW t \in Seq(FrameIds)
      PROVE  Len(t) \in Nat /\ \A i \in 1 .. Len(t) : t[i] \in FrameIds
  BY LenProperties, ElementOfSeq
<1>. QED
  BY <1>1, <1>2, <1>3

\* What the invariants need to know of the activations of this state.
ActsKnown ==
  /\ Len(saved) \in Nat /\ Len(Activations) = Len(saved) + 1 /\ Len(frames) \in Nat
  /\ \A a \in 1 .. Len(saved) : Activations[a] = saved[a]
  /\ Activations[Len(saved) + 1] = frames
  /\ \A a \in 1 .. Len(Activations) :
       /\ Activations[a] \in Seq(FrameIds) /\ Len(Activations[a]) \in Nat
       /\ \A i \in 1 .. Len(Activations[a]) :
            Activations[a][i] \in FrameIds /\ Activations[a][i] \in Referenced
  /\ \A f \in Referenced :
       \E a \in 1 .. Len(Activations) : \E i \in 1 .. Len(Activations[a]) : Activations[a][i] = f
  /\ Referenced \subseteq FrameIds
  /\ \A f : f \in Suspended <=> \E a \in 1 .. Len(saved) : \E i \in 1 .. Len(saved[a]) : saved[a][i] = f
  /\ \A f : f \in Range(frames) <=> \E i \in 1 .. Len(frames) : frames[i] = f

LEMMA KnownActs == TInv => ActsKnown
<1>. SUFFICES ASSUME TInv PROVE ActsKnown
  OBVIOUS
<1>1. saved \in Seq(Seq(FrameIds)) /\ frames \in Seq(FrameIds)
  BY DEF TInv, TypeOK
<1>2. /\ Len(saved) \in Nat /\ Len(Activations) = Len(saved) + 1
      /\ \A a \in 1 .. Len(saved) : Activations[a] = saved[a]
      /\ Activations[Len(saved) + 1] = frames
      /\ \A a \in 1 .. Len(saved) + 1 :
           /\ Activations[a] \in Seq(FrameIds) /\ Len(Activations[a]) \in Nat
           /\ \A i \in 1 .. Len(Activations[a]) : Activations[a][i] \in FrameIds
  BY <1>1, ActivationsAre DEF Activations
<1>3. Len(frames) \in Nat /\ DOMAIN frames = 1 .. Len(frames)
  BY <1>1, LenProperties
<1>4. \A a \in 1 .. Len(saved) : saved[a] \in Seq(FrameIds)
  BY <1>2, <1>1, ElementOfSeq
<1>5. \A a \in 1 .. Len(saved) : DOMAIN saved[a] = 1 .. Len(saved[a])
  BY <1>4, LenProperties
<1>6. \A f : f \in Range(frames) <=> \E i \in 1 .. Len(frames) : frames[i] = f
  BY <1>3 DEF Range
<1>7. \A f : f \in Suspended <=> \E a \in 1 .. Len(saved) : \E i \in 1 .. Len(saved[a]) : saved[a][i] = f
  BY <1>5 DEF Suspended, Range
<1>8. \A a \in 1 .. Len(saved) + 1 : a \in 1 .. Len(saved) \/ a = Len(saved) + 1
  BY <1>2
<1>9. \A a \in 1 .. Len(Activations) : \A i \in 1 .. Len(Activations[a]) :
        Activations[a][i] \in Referenced
  BY <1>2, <1>6, <1>7, <1>8 DEF Referenced
<1>10. ASSUME NEW f \in Referenced
       PROVE  \E a \in 1 .. Len(Activations) : \E i \in 1 .. Len(Activations[a]) : Activations[a][i] = f
  <2>1. CASE f \in Suspended
    <3>1. PICK a \in 1 .. Len(saved) : \E i \in 1 .. Len(saved[a]) : saved[a][i] = f
      BY <1>7, <2>1
    <3>2. a \in 1 .. Len(Activations) /\ Activations[a] = saved[a]
      BY <1>2
    <3>. QED
      BY <3>1, <3>2
  <2>2. CASE f \in Range(frames)
    <3>1. Len(saved) + 1 \in 1 .. Len(Activations)
      BY <1>2
    <3>. QED
      BY <1>2, <1>6, <2>2, <3>1
  <2>. QED
    BY <2>1, <2>2 DEF Referenced
<1>11. Referenced \subseteq FrameIds
  BY <1>2, <1>10
<1>. QED
  BY <1>2, <1>3, <1>6, <1>7, <1>9, <1>10, <1>11 DEF ActsKnown

LEMMA KnownActsNext == TInv' => ActsKnown'
BY KnownActs, PTL
-----------------------------------------------------------------------------
(* No frame is taken apart or doubled.                                     *)

\* What is on the stacks next was on them, in the same place: activations
\* may be gone from the top, and frames from the top of the last of them.
Falls ==
  /\ Len(saved') <= Len(saved) /\ \A a \in 1 .. Len(saved') : saved'[a] = saved[a]
  /\ Len(frames') <= Len(Activations[Len(saved') + 1])
  /\ \A i \in 1 .. Len(frames') : frames'[i] = Activations[Len(saved') + 1][i]

\* A frame that stays is neither taken apart nor told another register.
Kept == \A f \in Referenced' :
          heap'[f].retReg = heap[f].retReg /\ heap'[f].nilled = heap[f].nilled

LEMMA FallsMeans ==
  ASSUME TInv, TInv', Falls
  PROVE  /\ \A a \in 1 .. Len(Activations') : \A i \in 1 .. Len(Activations'[a]) :
              /\ a \in 1 .. Len(Activations) /\ i \in 1 .. Len(Activations[a])
              /\ Activations'[a][i] = Activations[a][i]
         /\ Referenced' \subseteq Referenced
         /\ Len(Activations') <= Len(Activations)
<1>0. ActsKnown /\ ActsKnown'
  BY KnownActs, KnownActsNext
<1>1. ASSUME NEW a \in 1 .. Len(Activations'), NEW i \in 1 .. Len(Activations'[a])
      PROVE  /\ a \in 1 .. Len(Activations) /\ i \in 1 .. Len(Activations[a])
             /\ Activations'[a][i] = Activations[a][i]
  <2>1. a \in 1 .. Len(Activations)
    BY <1>0 DEF ActsKnown, Falls
  <2>2. CASE a \in 1 .. Len(saved')
    <3>1. Activations'[a] = Activations[a]
      BY <1>0, <2>2 DEF ActsKnown, Falls
    <3>. QED
      BY <2>1, <3>1
  <2>3. CASE a = Len(saved') + 1
    <3>1. Activations'[a] = frames' /\ i \in 1 .. Len(frames')
      BY <1>0, <2>3 DEF ActsKnown
    <3>2. Len(frames') \in Nat /\ Len(Activations[a]) \in Nat
      BY <1>0, <2>1 DEF ActsKnown
    <3>3. i \in 1 .. Len(Activations[a]) /\ frames'[i] = Activations[a][i]
      BY <2>3, <3>1, <3>2 DEF Falls
    <3>. QED
      BY <2>1, <3>1, <3>3
  <2>. QED
    BY <1>0, <2>2, <2>3 DEF ActsKnown
<1>2. ASSUME NEW f \in Referenced' PROVE f \in Referenced
  <2>1. PICK a \in 1 .. Len(Activations') : \E i \in 1 .. Len(Activations'[a]) : Activations'[a][i] = f
    BY <1>0 DEF ActsKnown
  <2>2. PICK i \in 1 .. Len(Activations'[a]) : Activations'[a][i] = f
    BY <2>1
  <2>3. /\ a \in 1 .. Len(Activations) /\ i \in 1 .. Len(Activations[a])
        /\ Activations[a][i] = f
    BY <1>1, <2>2
  <2>. QED
    BY <1>0, <2>3 DEF ActsKnown
<1>3. Len(Activations') <= Len(Activations)
  BY <1>0 DEF ActsKnown, Falls
<1>. QED
  BY <1>1, <1>2, <1>3

LEMMA ReuseFalls ==
  ASSUME TInv, TInv', NoFrameReuse, Falls, Kept
  PROVE  NoFrameReuse'
<1>1. \A f \in Referenced' : ~heap'[f].nilled
  BY FallsMeans DEF Kept, NoFrameReuse
<1>. QED
  BY <1>1, FallsMeans DEF NoFrameReuse

\* The frames of different activations differ.
LEMMA Apart ==
  ASSUME TInv, NoFrameReuse
  PROVE  /\ Suspended \cap Range(frames) = {}
         /\ \A i, j \in 1 .. Len(frames) : frames[i] = frames[j] => i = j
<1>0. ActsKnown
  BY KnownActs
<1>1. Len(saved) + 1 \in 1 .. Len(Activations) /\ \A a \in 1 .. Len(saved) : a \in 1 .. Len(Activations)
      /\ a # Len(saved) + 1
  BY <1>0 DEF ActsKnown
<1>2. ASSUME NEW f \in Suspended, f \in Range(frames) PROVE FALSE
  <2>1. PICK a \in 1 .. Len(saved) : \E i \in 1 .. Len(saved[a]) : saved[a][i] = f
    BY <1>0 DEF ActsKnown
  <2>2. PICK i \in 1 .. Len(saved[a]) : saved[a][i] = f
    BY <2>1
  <2>3. PICK j \in 1 .. Len(frames) : frames[j] = f
    BY <1>0, <1>2 DEF ActsKnown
  <2>4. Activations[a] = saved[a] /\ Activations[Len(saved) + 1] = frames
    BY <1>0 DEF ActsKnown
  <2>. QED
    BY <1>1, <2>2, <2>3, <2>4 DEF NoFrameReuse
<1>3. \A i, j \in 1 .. Len(frames) : frames[i] = frames[j] => i = j
  BY <1>0, <1>1 DEF ActsKnown, NoFrameReuse
<1>. QED
  BY <1>2, <1>3

\* A call of execute() ends: the frames in fs, the lower ones of the
\* activation, are left, and h is what it has made of them.
LEMMA LeaveFalls ==
  ASSUME TInv, TInv', NoFrameReuse,
         NEW fs \in Seq(FrameIds), NEW h \in [FrameIds -> Frame], NEW o, Leave(fs, h, o),
         Len(fs) <= Len(frames), \A i \in 1 .. Len(fs) : fs[i] = frames[i],
         \A f \in Suspended \cup Range(fs) :
           h[f].retReg = heap[f].retReg /\ h[f].nilled = heap[f].nilled
  PROVE  /\ Falls /\ Kept
         /\ saved # <<>> => /\ Referenced' \subseteq Suspended
                            /\ \A f \in Suspended : heap'[f] = h[f]
<1>0. ActsKnown /\ ActsKnown'
  BY KnownActs, KnownActsNext
<1>1. CASE saved = <<>>
  <2>1. frames' = fs /\ heap' = h /\ saved' = saved
    BY <1>1 DEF Leave
  <2>2. Falls
    BY <1>0, <2>1 DEF ActsKnown, Falls
  <2>3. Referenced' = Suspended \cup Range(fs)
    BY <2>1 DEF Referenced, Suspended
  <2>. QED
    BY <1>1, <2>1, <2>2, <2>3 DEF Kept
<1>2. CASE saved # <<>>
  <2>1. /\ frames' = Last(saved) /\ saved' = Front(saved) /\ heap' = Drop(h, Range(fs))
    BY <1>2 DEF Leave
  <2>2. saved \in Seq(Seq(FrameIds))
    BY DEF TInv, TypeOK
  <2>3. /\ Len(saved') = Len(saved) - 1 /\ \A a \in 1 .. Len(saved) - 1 : saved'[a] = saved[a]
        /\ Len(saved) \in Nat \ {0} /\ frames' = saved[Len(saved)]
    BY <1>2, <2>1, <2>2, FrontLast DEF Last
  <2>4. /\ Len(saved') \in Nat /\ Len(saved') <= Len(saved) /\ Len(saved') + 1 = Len(saved)
        /\ 1 .. Len(saved') = 1 .. Len(saved) - 1 /\ Len(saved) \in 1 .. Len(saved)
    BY <2>3
  <2>5. frames' = Activations[Len(saved') + 1] /\ Len(frames') \in Nat
    BY <1>0, <2>3, <2>4 DEF ActsKnown
  <2>6. Falls
    BY <2>3, <2>4, <2>5 DEF Falls
  <2>7. Referenced' \subseteq Suspended
    <3>1. \A f \in Range(frames') : f \in Suspended
      BY <1>0, <2>3, <2>4 DEF ActsKnown
    <3>2. ASSUME NEW f \in Suspended' PROVE f \in Suspended
      <4>1. PICK a \in 1 .. Len(saved') : \E i \in 1 .. Len(saved'[a]) : saved'[a][i] = f
        BY <1>0 DEF ActsKnown
      <4>2. a \in 1 .. Len(saved) - 1 /\ a \in 1 .. Len(saved) /\ saved'[a] = saved[a]
        BY <2>3, <2>4
      <4>. QED
        BY <1>0, <4>1, <4>2 DEF ActsKnown
    <3>. QED
      BY <3>1, <3>2 DEF Referenced
  <2>8. \A f \in Suspended : f \in FrameIds /\ f \notin Range(fs)
    <3>1. \A f \in Suspended : f \in Referenced /\ f \notin Range(frames)
      BY Apart DEF Referenced
    <3>2. \A f \in Range(fs) : f \in Range(frames)
      <4>1. DOMAIN fs = 1 .. Len(fs) /\ Len(fs) \in Nat /\ Len(frames) \in Nat
        BY <1>0, LenProperties DEF ActsKnown
      <4>. SUFFICES ASSUME NEW f \in Range(fs) PROVE f \in Range(frames)
        OBVIOUS
      <4>2. PICK i \in 1 .. Len(fs) : fs[i] = f
        BY <4>1 DEF Range
      <4>3. i \in 1 .. Len(frames) /\ frames[i] = f
        BY <4>1, <4>2
      <4>. QED
        BY <1>0, <4>3 DEF ActsKnown
    <3>3. \A f \in Referenced : f \in FrameIds
      BY <1>0 DEF ActsKnown
    <3>. QED
      BY <3>1, <3>2, <3>3
  <2>9. \A f \in Suspended : heap'[f] = h[f]
    BY <2>1, <2>8 DEF Drop
  <2>. QED
    BY <2>6, <2>7, <2>9 DEF Kept
<1>. QED
  BY <1>1, <1>2

\* While a callback runs, the frames below it stay as they are.
Untouched == \A f \in Suspended \cap Suspended' : heap'[f] = heap[f]

LEMMA CatchFalls ==
  ASSUME TInv, TInv', NoFrameReuse, NEW k \in Handling, Catch(k), saved' = saved
  PROVE  /\ Falls /\ Kept /\ Untouched /\ Len(frames') = k
         /\ k \in 1 .. Len(frames) /\ frames' # <<>> /\ Last(frames') = frames[k]
         /\ \A x \in Referenced' :
              heap'[x].trys = IF x = frames[k] THEN Front(heap[x].trys) ELSE heap[x].trys
<1>. DEFINE f == frames[k]
            h == Last(heap[f].trys)
            above == Range(SubSeq(frames, k + 1, Len(frames)))
            g == [heap EXCEPT ![f].trys = Front(@), ![f].regs[h.errReg] = Err]
<1>0. ActsKnown /\ ActsKnown'
  BY KnownActs, KnownActsNext
<1>1. /\ frames \in Seq(FrameIds) /\ k \in 1 .. Len(frames) /\ f \in FrameIds
      /\ heap \in [FrameIds -> Frame] /\ Len(frames) \in Nat
  BY <1>0, ElementOfSeq DEF Handling, TInv, TypeOK, ActsKnown
<1>2. frames' = SubSeq(frames, 1, k) /\ heap' = Drop(g, above)
  BY DEF Catch
<1>3. Len(frames') = k /\ \A i \in 1 .. k : frames'[i] = frames[i]
  <2>1. k \in 0 .. Len(frames)
    BY <1>1
  <2>. QED
    BY <1>1, <1>2, <2>1, PrefixType
<1>4. \A x \in FrameIds : g[x].retReg = heap[x].retReg /\ g[x].nilled = heap[x].nilled
                          /\ (x # f => g[x] = heap[x])
  BY <1>1 DEF Frame
<1>a. g[f].trys = Front(heap[f].trys)
  <2>. DEFINE ft == Front(heap[f].trys)
              r == h.errReg
  <2>1. \A x, y : [heap EXCEPT ![f].trys = x, ![f].regs[r] = y][f].trys = x
    BY <1>1 DEF Frame
  <2>2. [heap EXCEPT ![f].trys = ft, ![f].regs[r] = Err][f].trys = ft
    BY <2>1
  <2>. QED
    BY <2>2
<1>5. \A x \in above : \E i \in k + 1 .. Len(frames) : frames[i] = x
  <2>1. k + 1 \in Int /\ Len(frames) \in Int
    BY <1>1
  <2>2. \A i \in k + 1 .. Len(frames) : frames[i] \in FrameIds
    <3>1. \A i \in k + 1 .. Len(frames) : i \in 1 .. Len(frames)
      BY <1>1
    <3>. QED
      BY <1>1, <3>1, ElementOfSeq
  <2>3. /\ SubSeq(frames, k + 1, Len(frames)) \in Seq(FrameIds)
        /\ Len(SubSeq(frames, k + 1, Len(frames)))
             = IF k + 1 <= Len(frames) THEN Len(frames) - (k + 1) + 1 ELSE 0
        /\ \A i \in 1 .. Len(frames) - (k + 1) + 1 :
             SubSeq(frames, k + 1, Len(frames))[i] = frames[k + 1 + i - 1]
    BY <2>1, <2>2, SubSeqProperties
  <2>. DEFINE s == SubSeq(frames, k + 1, Len(frames))
  <2>4. DOMAIN s = 1 .. Len(s)
    BY <2>3, LenProperties
  <2>. SUFFICES ASSUME NEW x \in above PROVE \E i \in k + 1 .. Len(frames) : frames[i] = x
    OBVIOUS
  <2>5. PICK i \in 1 .. Len(s) : s[i] = x
    BY <2>4 DEF Range
  <2>6. i \in 1 .. Len(frames) - (k + 1) + 1 /\ k + 1 + i - 1 \in k + 1 .. Len(frames)
    BY <1>1, <2>3, <2>5
  <2>. QED
    BY <2>3, <2>5, <2>6
<1>6. \A i \in 1 .. k : frames[i] \notin above
  <2>1. \A i \in 1 .. k : \A j \in k + 1 .. Len(frames) :
          i \in 1 .. Len(frames) /\ j \in 1 .. Len(frames) /\ i # j
    BY <1>1
  <2>. QED
    BY <1>5, <2>1, Apart
<1>7. \A x \in above : x \in Range(frames)
  <2>1. \A j \in k + 1 .. Len(frames) : j \in 1 .. Len(frames)
    BY <1>1
  <2>. QED
    BY <1>0, <1>5, <2>1 DEF ActsKnown
<1>. HIDE DEF g, above
<1>8. \A x \in FrameIds : x \notin above => heap'[x] = g[x]
  BY <1>2 DEF Drop
<1>9. Falls
  BY <1>0, <1>1, <1>3 DEF ActsKnown, Falls
<1>10. \A x \in Referenced' : x \in FrameIds /\ x \notin above
  <2>. SUFFICES ASSUME NEW x \in Referenced' PROVE x \in FrameIds /\ x \notin above
    OBVIOUS
  <2>1. x \in FrameIds
    BY <1>0, FallsMeans, <1>9 DEF ActsKnown
  <2>2. CASE x \in Suspended'
    <3>1. x \in Suspended
      BY <2>2 DEF Suspended
    <3>. QED
      BY <1>7, <2>1, <3>1, Apart
  <2>3. CASE x \in Range(frames')
    <3>1. PICK i \in 1 .. Len(frames') : frames'[i] = x
      BY <1>0, <2>3 DEF ActsKnown
    <3>. QED
      BY <1>3, <1>6, <2>1, <3>1
  <2>. QED
    BY <2>2, <2>3 DEF Referenced
<1>11. Kept
  BY <1>4, <1>8, <1>10 DEF Kept
<1>12. Untouched
  <2>1. \A x \in Suspended : x # f /\ x \in Referenced
    BY <1>0, <1>1, Apart DEF ActsKnown, Referenced
  <2>2. \A x \in Suspended' : x \in Referenced'
    BY DEF Referenced
  <2>. QED
    BY <1>4, <1>8, <1>10, <2>1, <2>2 DEF Untouched
<1>13. frames' # <<>> /\ Last(frames') = frames[k]
  BY <1>1, <1>3 DEF Last
<1>14. \A x \in Referenced' :
         heap'[x].trys = IF x = f THEN Front(heap[x].trys) ELSE heap[x].trys
  BY <1>4, <1>8, <1>10, <1>a
<1>. QED
  BY <1>1, <1>3, <1>9, <1>11, <1>12, <1>13, <1>14

\* The running frame, and the one that it returns to.
LEMMA CurApart ==
  ASSUME TInv, NoFrameReuse, pc \in {"exec", "native"}
  PROVE  /\ Cur \in FrameIds /\ Cur = frames[Len(frames)] /\ Len(frames) \in Nat \ {0}
         /\ Cur \notin Suspended
         /\ Front(frames) \in Seq(FrameIds) /\ Len(Front(frames)) = Len(frames) - 1
         /\ \A i \in 1 .. Len(frames) - 1 : Front(frames)[i] = frames[i]
         /\ Cur \notin Range(Front(frames))
         /\ Front(frames) # <<>> =>
              /\ Last(Front(frames)) = frames[Len(frames) - 1] /\ Last(Front(frames)) # Cur
              /\ Last(Front(frames)) \in FrameIds \ Suspended /\ Len(frames) - 1 \in 1 .. Len(frames)
<1>0. ActsKnown
  BY KnownActs
<1>1. frames \in Seq(FrameIds) /\ frames # <<>>
  BY DEF TInv, TypeOK, Shape
<1>2. /\ Front(frames) \in Seq(FrameIds) /\ Len(Front(frames)) = Len(frames) - 1
      /\ \A i \in 1 .. Len(frames) - 1 : Front(frames)[i] = frames[i]
      /\ Cur \in FrameIds /\ Len(frames) \in Nat \ {0}
  BY <1>1, FrontLast DEF Cur
<1>3. Cur = frames[Len(frames)] /\ Len(frames) \in 1 .. Len(frames)
  BY <1>2 DEF Cur, Last
<1>4. \A i \in 1 .. Len(frames) : frames[i] \notin Suspended
  BY <1>0, Apart DEF ActsKnown
<1>5. \A i \in 1 .. Len(frames) - 1 : i \in 1 .. Len(frames) /\ i # Len(frames)
  BY <1>2
<1>6. \A i \in 1 .. Len(frames) - 1 : frames[i] # Cur
  BY <1>3, <1>5, Apart
<1>7. Cur \notin Range(Front(frames))
  <2>1. DOMAIN Front(frames) = 1 .. Len(frames) - 1
    BY <1>2, LenProperties
  <2>. QED
    BY <1>2, <1>6, <2>1 DEF Range
<1>8. ASSUME Front(frames) # <<>>
      PROVE  /\ Last(Front(frames)) = frames[Len(frames) - 1] /\ Last(Front(frames)) # Cur
             /\ Last(Front(frames)) \in FrameIds \ Suspended /\ Len(frames) - 1 \in 1 .. Len(frames)
  <2>1. Len(Front(frames)) \in Nat \ {0} /\ Last(Front(frames)) \in FrameIds
    BY <1>2, <1>8, FrontLast
  <2>2. Len(frames) - 1 \in 1 .. Len(frames) - 1 /\ Len(frames) - 1 \in 1 .. Len(frames)
    BY <1>2, <2>1
  <2>3. Last(Front(frames)) = frames[Len(frames) - 1]
    BY <1>2, <2>2 DEF Last
  <2>. QED
    BY <1>4, <1>6, <2>1, <2>2, <2>3
<1>. QED
  BY <1>2, <1>3, <1>4, <1>7, <1>8

LEMMA PoppedKeeps ==
  ASSUME TInv, NoFrameReuse, pc \in {"exec", "native"}, NEW v \in Val
  PROVE  \A f \in FrameIds \ {Cur} :
           /\ Popped(v)[f].retReg = heap[f].retReg /\ Popped(v)[f].nilled = heap[f].nilled
           /\ f \in Suspended => Popped(v)[f] = heap[f]
<1>. DEFINE rel == [heap EXCEPT ![Cur] = Nilled]
<1>1. rel \in [FrameIds -> Frame] /\ \A f \in FrameIds \ {Cur} : rel[f] = heap[f]
  BY CurApart, NilledType DEF TInv, TypeOK
<1>2. CASE Front(frames) = <<>>
  BY <1>1, <1>2 DEF Popped
<1>3. CASE Front(frames) # <<>>
  <2>. DEFINE l == Last(Front(frames))
              r == heap[Cur].retReg
  <2>1. Popped(v) = [rel EXCEPT ![l].regs[r] = v]
    BY <1>3 DEF Popped
  <2>2. l \in FrameIds \ Suspended
    BY <1>3, CurApart
  <2>. HIDE DEF l, r, rel
  <2>3. \A f \in FrameIds :
          /\ Popped(v)[f].retReg = rel[f].retReg /\ Popped(v)[f].nilled = rel[f].nilled
          /\ f # l => Popped(v)[f] = rel[f]
    BY <1>1, <2>1, <2>2 DEF Frame
  <2>. QED
    BY <1>1, <2>2, <2>3
<1>. QED
  BY <1>2, <1>3
-----------------------------------------------------------------------------
(* What the frames wait for.                                               *)

\* The frame that runs is at no other place of the stacks.
LastApart ==
  frames # <<>> =>
    \A a \in 1 .. Len(Activations) : \A i \in 1 .. Len(Activations[a]) :
      a # Len(saved) + 1 \/ i # Len(frames) => Activations[a][i] # Last(frames)

LEMMA LastsApart == TInv /\ NoFrameReuse => LastApart
<1>. SUFFICES ASSUME TInv, NoFrameReuse, frames # <<>>,
                     NEW a \in 1 .. Len(Activations), NEW i \in 1 .. Len(Activations[a]),
                     a # Len(saved) + 1 \/ i # Len(frames)
              PROVE  Activations[a][i] # Last(frames)
  BY DEF LastApart
<1>0. ActsKnown
  BY KnownActs
<1>1. /\ Len(saved) + 1 \in 1 .. Len(Activations) /\ Activations[Len(saved) + 1] = frames
      /\ Len(frames) \in 1 .. Len(frames) /\ Last(frames) = frames[Len(frames)]
  <2>1. Len(frames) \in Nat \ {0}
    BY FrontLast DEF TInv, TypeOK
  <2>. QED
    BY <1>0, <2>1 DEF ActsKnown, Last
<1>. QED
  BY <1>1 DEF NoFrameReuse

LEMMA LastsApartNext == TInv' /\ NoFrameReuse' => LastApart'
BY LastsApart, PTL

\* The native calls that go on are those that were pending; who runs waits
\* for nothing, and nobody else's wait has changed.
WaitsFall ==
  \/ pc' \in {"done", "released"}
  \/ /\ pc' = "native" /\ frames' = Activations[Len(saved') + 1]
     /\ \A f \in Referenced' : awaits'[f] = awaits[f]
  \/ /\ pc' = "exec" /\ awaits'[Last(frames')] = NoReg
     /\ \A f \in Referenced' : f # Last(frames') => awaits'[f] = awaits[f]

NativesFall ==
  Len(natives') <= Len(natives) /\ \A n \in 1 .. Len(natives') : natives'[n] = natives[n]

Awaits == NativesFall /\ WaitsFall

LEMMA ChainFalls ==
  ASSUME TInv, TInv', NoFrameReuse', CallChain, pc \in {"exec", "native"}, Falls, Kept, Awaits
  PROVE  CallChain'
<1>0. ActsKnown /\ ActsKnown'
  BY KnownActs, KnownActsNext
<1>1. /\ Len(natives') \in Nat /\ Len(natives) \in Nat
      /\ Len(natives') = Len(saved') + (IF pc' = "native" THEN 1 ELSE 0)
      /\ pc' \in {"done", "released"} => Len(saved') = 0
      /\ pc' \in {"exec", "native"} => frames' # <<>>
      /\ pc' \in {"exec", "native", "done", "released"}
      /\ \A a \in 1 .. Len(saved') : saved'[a] # <<>>
  <2>1. natives \in Seq([fr : FrameIds, ret : Regs]) /\ natives' \in Seq([fr : FrameIds, ret : Regs])
    BY DEF TInv, TypeOK
  <2>2. Len(natives') \in Nat /\ Len(natives) \in Nat
    BY <2>1, LenProperties
  <2>. QED
    BY <2>2, EmptySeq DEF TInv, TypeOK, Shape
<1>2. ASSUME NEW a \in 1 .. Len(Activations'), NEW i \in 1 .. Len(Activations'[a]) - 1,
             pc' \in {"exec", "native"}
      PROVE  awaits'[Activations'[a][i]] = heap'[Activations'[a][i + 1]].retReg
  <2>1. /\ i \in 1 .. Len(Activations'[a]) /\ i + 1 \in 1 .. Len(Activations'[a])
        /\ Len(Activations'[a]) \in Nat
    BY <1>0 DEF ActsKnown
  <2>2. /\ a \in 1 .. Len(Activations) /\ i + 1 \in 1 .. Len(Activations[a])
        /\ Activations'[a][i] = Activations[a][i] /\ Activations'[a][i + 1] = Activations[a][i + 1]
    BY <2>1, FallsMeans
  <2>3. i \in 1 .. Len(Activations[a]) - 1
    BY <1>0, <2>1, <2>2 DEF ActsKnown
  <2>4. awaits[Activations[a][i]] = heap[Activations[a][i + 1]].retReg
    BY <2>2, <2>3 DEF CallChain
  <2>5. Activations'[a][i] \in Referenced' /\ Activations'[a][i + 1] \in Referenced'
    BY <1>0, <2>1 DEF ActsKnown
  <2>6. heap'[Activations'[a][i + 1]].retReg = heap[Activations[a][i + 1]].retReg
    BY <2>2, <2>5 DEF Kept
  <2>7. awaits'[Activations'[a][i]] = awaits[Activations[a][i]]
    <3>1. CASE pc' = "native"
      BY <1>2, <2>2, <2>5, <3>1 DEF Awaits, WaitsFall, NativesFall
    <3>2. CASE pc' = "exec"
      <4>1. a # Len(saved') + 1 \/ i # Len(frames')
        BY <1>0, <2>1 DEF ActsKnown
      <4>2. Activations'[a][i] # Last(frames')
        BY <1>1, <2>1, <3>2, <4>1, LastsApartNext DEF LastApart
      <4>. QED
        BY <2>2, <2>5, <3>2, <4>2 DEF Awaits, WaitsFall, NativesFall
    <3>. QED
      BY <1>2, <3>1, <3>2
  <2>. QED
    BY <2>4, <2>6, <2>7
<1>3. ASSUME NEW n \in 1 .. Len(natives')
      PROVE  /\ natives'[n].fr = Last(Activations'[n])
             /\ awaits'[natives'[n].fr] = natives'[n].ret
  <2>1. n \in 1 .. Len(natives) /\ natives'[n] = natives[n]
    BY <1>1 DEF Awaits, WaitsFall, NativesFall
  <2>2. natives[n].fr = Last(Activations[n]) /\ awaits[natives[n].fr] = natives[n].ret
    BY <2>1 DEF CallChain
  <2>3. n \in 1 .. Len(Activations') /\ pc' \in {"exec", "native"}
    BY <1>0, <1>1 DEF ActsKnown
  <2>4. Activations'[n] = Activations[n]
    <3>1. CASE n \in 1 .. Len(saved')
      BY <1>0, <3>1 DEF ActsKnown, Falls
    <3>2. CASE n = Len(saved') + 1
      <4>1. pc' = "native"
        BY <1>0, <1>1, <3>2 DEF ActsKnown
      <4>. QED
        BY <1>0, <3>2, <4>1 DEF ActsKnown, Awaits, WaitsFall
    <3>3. n \in 1 .. Len(saved') \/ n = Len(saved') + 1
      BY <1>0, <2>3 DEF ActsKnown
    <3>. QED
      BY <3>1, <3>2, <3>3
  <2>5. Activations'[n] \in Seq(FrameIds) /\ Activations'[n] # <<>>
    <3>1. CASE n \in 1 .. Len(saved')
      BY <1>0, <1>1, <2>3, <3>1 DEF ActsKnown
    <3>2. CASE n = Len(saved') + 1
      BY <1>0, <1>1, <2>3, <3>2 DEF ActsKnown
    <3>3. n \in 1 .. Len(saved') \/ n = Len(saved') + 1
      BY <1>0, <2>3 DEF ActsKnown
    <3>. QED
      BY <3>1, <3>2, <3>3
  <2>6. /\ Len(Activations'[n]) \in 1 .. Len(Activations'[n])
        /\ natives'[n].fr = Activations'[n][Len(Activations'[n])]
    <3>1. Len(Activations'[n]) \in Nat \ {0}
      BY <2>5, FrontLast
    <3>. QED
      BY <2>1, <2>2, <2>4, <3>1 DEF Last
  <2>7. natives'[n].fr \in Referenced'
    BY <1>0, <2>3, <2>6 DEF ActsKnown
  <2>8. awaits'[natives'[n].fr] = awaits[natives'[n].fr]
    <3>1. CASE pc' = "native"
      BY <2>7, <3>1 DEF Awaits, WaitsFall, NativesFall
    <3>2. CASE pc' = "exec"
      <4>1. n # Len(saved') + 1
        BY <1>0, <1>1, <3>2 DEF ActsKnown
      <4>2. natives'[n].fr # Last(frames')
        BY <1>1, <2>3, <2>6, <3>2, <4>1, LastsApartNext DEF LastApart
      <4>. QED
        BY <2>7, <3>2, <4>2 DEF Awaits, WaitsFall, NativesFall
    <3>. QED
      BY <2>3, <3>1, <3>2
  <2>. QED
    BY <2>1, <2>2, <2>4, <2>8
<1>4. pc' = "exec" => awaits'[Last(frames')] = NoReg
  BY DEF Awaits, WaitsFall, NativesFall
<1>. QED
  BY <1>2, <1>3, <1>4 DEF CallChain, Cur
-----------------------------------------------------------------------------
(* A frame is pushed.                                                      *)

\* f is new and alone at the end, whatever was on the stacks is still there.
Grows(f) ==
  /\ f \in FrameIds \ Referenced
  /\ \A a \in 1 .. Len(Activations') : \A i \in 1 .. Len(Activations'[a]) :
       \/ /\ a \in 1 .. Len(Activations) /\ i \in 1 .. Len(Activations[a])
          /\ Activations'[a][i] = Activations[a][i]
       \/ Activations'[a][i] = f /\ a = Len(Activations') /\ i = Len(Activations'[a])
  /\ \A g \in FrameIds \ {f} : heap'[g] = heap[g]

LEMMA PushGrows ==
  ASSUME TInv, TInv', NEW f \in FrameIds \ Referenced,
         \A g \in FrameIds \ {f} : heap'[g] = heap[g],
         \/ saved' = saved /\ frames' = Append(frames, f)
         \/ saved' = Append(saved, frames) /\ frames' = <<f>>
  PROVE  Grows(f)
<1>0. ActsKnown /\ ActsKnown'
  BY KnownActs, KnownActsNext
<1>t. frames \in Seq(FrameIds) /\ saved \in Seq(Seq(FrameIds))
  BY DEF TInv, TypeOK
<1>. SUFFICES ASSUME NEW a \in 1 .. Len(Activations'), NEW i \in 1 .. Len(Activations'[a])
              PROVE  \/ /\ a \in 1 .. Len(Activations) /\ i \in 1 .. Len(Activations[a])
                        /\ Activations'[a][i] = Activations[a][i]
                     \/ Activations'[a][i] = f /\ a = Len(Activations') /\ i = Len(Activations'[a])
  BY DEF Grows
<1>1. CASE saved' = saved /\ frames' = Append(frames, f)
  <2>1. /\ Len(frames') = Len(frames) + 1 /\ frames'[Len(frames) + 1] = f
        /\ \A j \in 1 .. Len(frames) : frames'[j] = frames[j]
    BY <1>1, <1>t, AppendProperties
  <2>2. CASE a \in 1 .. Len(saved)
    BY <1>0, <1>1, <2>2 DEF ActsKnown
  <2>3. CASE a = Len(saved) + 1
    <3>1. Activations'[a] = frames' /\ Activations[a] = frames /\ a = Len(Activations')
          /\ a \in 1 .. Len(Activations) /\ i \in 1 .. Len(frames) + 1
      BY <1>0, <1>1, <2>1, <2>3 DEF ActsKnown
    <3>2. i \in 1 .. Len(frames) \/ i = Len(frames) + 1
      BY <1>0, <3>1 DEF ActsKnown
    <3>. QED
      BY <2>1, <3>1, <3>2
  <2>. QED
    BY <1>0, <1>1, <2>2, <2>3 DEF ActsKnown
<1>2. CASE saved' = Append(saved, frames) /\ frames' = <<f>>
  <2>1. /\ Len(saved') = Len(saved) + 1 /\ saved'[Len(saved) + 1] = frames
        /\ \A j \in 1 .. Len(saved) : saved'[j] = saved[j]
    BY <1>2, <1>t, AppendProperties
  <2>2. CASE a \in 1 .. Len(saved)
    <3>1. a \in 1 .. Len(saved')
      BY <1>0, <2>1, <2>2 DEF ActsKnown
    <3>. QED
      BY <1>0, <2>1, <2>2, <3>1 DEF ActsKnown
  <2>3. CASE a = Len(saved) + 1
    <3>1. a \in 1 .. Len(saved') /\ a \in 1 .. Len(Activations)
      BY <1>0, <2>1, <2>3 DEF ActsKnown
    <3>. QED
      BY <1>0, <2>1, <2>3, <3>1 DEF ActsKnown
  <2>4. CASE a = Len(saved) + 2
    <3>1. a = Len(saved') + 1 /\ a = Len(Activations') /\ Activations'[a] = <<f>>
      BY <1>0, <1>2, <2>1, <2>4 DEF ActsKnown
    <3>2. Len(<<f>>) = 1 /\ <<f>>[1] = f
      OBVIOUS
    <3>3. Len(Activations'[a]) = 1 /\ Activations'[a][1] = f
      BY <3>1, <3>2
    <3>4. i = 1
      <4>1. i \in 1 .. 1
        BY <3>3
      <4>. QED
        BY <4>1
    <3>. QED
      BY <3>1, <3>3, <3>4
  <2>. QED
    BY <1>0, <2>1, <2>2, <2>3, <2>4 DEF ActsKnown
<1>. QED
  BY <1>1, <1>2

LEMMA ReuseGrows ==
  ASSUME TInv, TInv', NoFrameReuse, NEW f, Grows(f), ~heap'[f].nilled
  PROVE  NoFrameReuse'
<1>0. ActsKnown /\ ActsKnown'
  BY KnownActs, KnownActsNext
<1>1. \A a \in 1 .. Len(Activations) : \A i \in 1 .. Len(Activations[a]) : Activations[a][i] # f
  BY <1>0 DEF ActsKnown, Grows
<1>2. ASSUME NEW g \in Referenced' PROVE ~heap'[g].nilled
  <2>1. PICK a \in 1 .. Len(Activations') : \E i \in 1 .. Len(Activations'[a]) : Activations'[a][i] = g
    BY <1>0 DEF ActsKnown
  <2>2. PICK i \in 1 .. Len(Activations'[a]) : Activations'[a][i] = g
    BY <2>1
  <2>3. g = f \/ (g \in Referenced /\ g \in FrameIds)
    <3>1. \/ /\ a \in 1 .. Len(Activations) /\ i \in 1 .. Len(Activations[a])
             /\ Activations'[a][i] = Activations[a][i]
          \/ Activations'[a][i] = f
      BY DEF Grows
    <3>. QED
      BY <1>0, <2>2, <3>1 DEF ActsKnown
  <2>. QED
    BY <2>3 DEF Grows, NoFrameReuse
<1>3. ASSUME NEW a \in 1 .. Len(Activations'), NEW b \in 1 .. Len(Activations'),
             NEW i \in 1 .. Len(Activations'[a]), NEW j \in 1 .. Len(Activations'[b]),
             Activations'[a][i] = Activations'[b][j]
      PROVE  a = b /\ i = j
  <2>a. /\ \/ /\ a \in 1 .. Len(Activations) /\ i \in 1 .. Len(Activations[a])
              /\ Activations'[a][i] = Activations[a][i]
           \/ Activations'[a][i] = f /\ a = Len(Activations') /\ i = Len(Activations'[a])
        /\ \/ /\ b \in 1 .. Len(Activations) /\ j \in 1 .. Len(Activations[b])
              /\ Activations'[b][j] = Activations[b][j]
           \/ Activations'[b][j] = f /\ b = Len(Activations') /\ j = Len(Activations'[b])
    BY DEF Grows
  <2>1. CASE Activations'[a][i] = f
    BY <1>1, <1>3, <2>1, <2>a
  <2>2. CASE Activations'[a][i] # f
    BY <1>3, <2>2, <2>a DEF NoFrameReuse
  <2>. QED
    BY <2>1, <2>2
<1>. QED
  BY <1>2, <1>3 DEF NoFrameReuse

\* Who calls waits for the register that its call named.
LEMMA ChainCalls ==
  ASSUME TInv, TInv', NoFrameReuse, CallChain, Call
  PROVE  CallChain' /\ NoFrameReuse' /\ Untouched
         /\ \E f : Grows(f) /\ heap'[f].trys = <<>> /\ saved' = saved /\ frames' = Append(frames, f)
<1>0. ActsKnown /\ ActsKnown'
  BY KnownActs, KnownActsNext
<1>p. pc = "exec" /\ pc' = "exec"
  BY DEF Call, Fetched
<1>1. PICK f \in FrameIds \ Referenced, c \in Allocated \cup {NoClosure},
           arg \in Regs, ret \in Regs :
        /\ frames' = Append(frames, f)
        /\ heap' = [heap EXCEPT ![f] = NewFrame(c, heap[Cur].regs[arg], ret)]
        /\ awaits' = [awaits EXCEPT ![Cur] = ret, ![f] = NoReg]
  BY DEF Call
<1>2. saved' = saved /\ natives' = natives
  BY DEF Call
<1>3. /\ heap'[f].retReg = ret /\ ~heap'[f].nilled /\ heap'[f].trys = <<>>
      /\ \A g \in FrameIds \ {f} : heap'[g] = heap[g]
  BY <1>1 DEF NewFrame, TInv, TypeOK
<1>4. Grows(f)
  BY <1>1, <1>2, <1>3, PushGrows
<1>5. NoFrameReuse'
  BY <1>3, <1>4, ReuseGrows
<1>6. Cur \in FrameIds /\ Cur \in Referenced /\ Cur # f /\ frames # <<>> /\ Cur = Last(frames)
      /\ Cur = frames[Len(frames)] /\ Len(frames) \in Nat \ {0} /\ Cur \notin Suspended
  <2>1. Cur \in FrameIds /\ frames # <<>> /\ Cur = frames[Len(frames)] /\ Len(frames) \in Nat \ {0}
        /\ Cur \notin Suspended
    BY <1>p, CurApart DEF TInv, Shape
  <2>2. Cur \in Referenced
    BY <1>0, <2>1 DEF ActsKnown, Referenced
  <2>. QED
    BY <2>1, <2>2 DEF Cur
<1>7. \A g \in FrameIds : awaits'[g] = IF g = f THEN NoReg ELSE IF g = Cur THEN ret ELSE awaits[g]
  BY <1>1, <1>6 DEF TInv, TypeOK
<1>8. frames' \in Seq(FrameIds) /\ frames' # <<>> /\ Last(frames') = f /\ Len(frames') = Len(frames) + 1
  <2>1. frames \in Seq(FrameIds) /\ frames' \in Seq(FrameIds)
    BY DEF TInv, TypeOK
  <2>2. Len(frames') = Len(frames) + 1 /\ frames'[Len(frames) + 1] = f
    BY <1>1, <2>1, AppendProperties
  <2>3. frames' # <<>>
    BY <1>6, <2>1, <2>2, EmptySeq
  <2>. QED
    BY <2>1, <2>2, <2>3 DEF Last
<1>9. ASSUME NEW a \in 1 .. Len(Activations'), NEW i \in 1 .. Len(Activations'[a]) - 1
      PROVE  awaits'[Activations'[a][i]] = heap'[Activations'[a][i + 1]].retReg
  <2>1. i \in 1 .. Len(Activations'[a]) /\ i + 1 \in 1 .. Len(Activations'[a]) /\ i # Len(Activations'[a])
    BY <1>0 DEF ActsKnown
  <2>2. /\ a \in 1 .. Len(Activations) /\ i \in 1 .. Len(Activations[a])
        /\ Activations'[a][i] = Activations[a][i]
    BY <1>4, <2>1 DEF Grows
  <2>3. Activations[a][i] \in FrameIds /\ Activations[a][i] # f
    BY <1>0, <2>2 DEF ActsKnown
  <2>4. CASE i + 1 \in 1 .. Len(Activations[a]) /\ Activations'[a][i + 1] = Activations[a][i + 1]
    <3>1. i \in 1 .. Len(Activations[a]) - 1 /\ (a # Len(saved) + 1 \/ i # Len(frames))
      BY <1>0, <2>2, <2>4 DEF ActsKnown
    <3>2. Activations[a][i] # Cur
      BY <1>6, <2>2, <3>1, LastsApart DEF LastApart
    <3>3. awaits[Activations[a][i]] = heap[Activations[a][i + 1]].retReg
      BY <1>p, <2>2, <3>1 DEF CallChain
    <3>4. Activations[a][i + 1] \in FrameIds \ {f}
      BY <1>0, <2>2, <2>4 DEF ActsKnown
    <3>. QED
      BY <1>3, <1>7, <2>2, <2>3, <2>4, <3>2, <3>3, <3>4
  <2>5. CASE Activations'[a][i + 1] = f /\ a = Len(Activations') /\ i + 1 = Len(Activations'[a])
    <3>1. a = Len(saved) + 1 /\ Activations[a] = frames /\ Activations'[a] = frames'
      BY <1>0, <1>2, <2>5 DEF ActsKnown
    <3>2. i = Len(frames)
      BY <1>0, <1>8, <2>5, <3>1 DEF ActsKnown
    <3>. QED
      BY <1>3, <1>6, <1>7, <2>2, <2>3, <2>5, <3>1, <3>2
  <2>. QED
    BY <1>4, <2>1, <2>4, <2>5 DEF Grows
<1>10. ASSUME NEW n \in 1 .. Len(natives')
       PROVE  /\ natives'[n].fr = Last(Activations'[n])
              /\ awaits'[natives'[n].fr] = natives'[n].ret
  <2>1. n \in 1 .. Len(natives) /\ natives'[n] = natives[n] /\ n \in 1 .. Len(saved)
    BY <1>2, <1>p DEF TInv, Shape
  <2>2. natives[n].fr = Last(Activations[n]) /\ awaits[natives[n].fr] = natives[n].ret
    BY <2>1 DEF CallChain
  <2>3. Activations'[n] = Activations[n] /\ Activations[n] = saved[n] /\ n \in 1 .. Len(Activations)
        /\ n # Len(saved) + 1
    BY <1>0, <1>2, <2>1 DEF ActsKnown
  <2>4. Len(saved[n]) \in 1 .. Len(saved[n])
    <3>1. saved[n] \in Seq(FrameIds) /\ saved[n] # <<>>
      BY <1>0, <2>1, <2>3 DEF ActsKnown, TInv, Shape
    <3>. QED
      BY <3>1, FrontLast
  <2>5. natives[n].fr = Activations[n][Len(saved[n])]
    BY <2>2, <2>3 DEF Last
  <2>6. natives[n].fr \in FrameIds /\ natives[n].fr # f /\ natives[n].fr # Cur
    BY <1>0, <1>6, <2>3, <2>4, <2>5, LastsApart DEF ActsKnown, LastApart
  <2>. QED
    BY <1>7, <2>1, <2>2, <2>3, <2>6
<1>11. awaits'[Last(frames')] = NoReg
  BY <1>7, <1>8
<1>12. CallChain'
  BY <1>9, <1>10, <1>11 DEF CallChain, Cur
<1>13. Untouched
  BY <1>0, <1>3 DEF Untouched, ActsKnown, Referenced
<1>. QED
  BY <1>1, <1>2, <1>3, <1>4, <1>5, <1>12, <1>13

\* A callback rests on the native call that made it.
LEMMA ChainCallsBack ==
  ASSUME TInv, TInv', NoFrameReuse, CallChain, CallClosure
  PROVE  CallChain' /\ NoFrameReuse' /\ Untouched
         /\ \E f : /\ Grows(f) /\ heap'[f].trys = <<>>
                   /\ saved' = Append(saved, frames) /\ frames' = <<f>>
<1>0. ActsKnown /\ ActsKnown'
  BY KnownActs, KnownActsNext
<1>p. pc = "native" /\ pc' = "exec"
  BY DEF CallClosure
<1>1. PICK f \in FrameIds \ Referenced, c \in Allocated \cup {NoClosure}, v \in Val :
        /\ saved' = Append(saved, frames)
        /\ frames' = <<f>>
        /\ heap' = [heap EXCEPT ![f] = NewFrame(c, v, Param)]
        /\ awaits' = [awaits EXCEPT ![f] = NoReg]
  BY DEF CallClosure
<1>2. natives' = natives
  BY DEF CallClosure
<1>3. /\ ~heap'[f].nilled /\ heap'[f].trys = <<>>
      /\ \A g \in FrameIds \ {f} : heap'[g] = heap[g]
  BY <1>1 DEF NewFrame, TInv, TypeOK
<1>4. Grows(f)
  BY <1>1, <1>3, PushGrows
<1>5. NoFrameReuse'
  BY <1>3, <1>4, ReuseGrows
<1>6. \A g \in FrameIds : awaits'[g] = IF g = f THEN NoReg ELSE awaits[g]
  BY <1>1 DEF TInv, TypeOK
<1>7. /\ Len(saved') = Len(saved) + 1 /\ saved'[Len(saved) + 1] = frames
      /\ \A j \in 1 .. Len(saved) : saved'[j] = saved[j]
  BY <1>1, AppendProperties DEF TInv, TypeOK
<1>8. /\ Len(Activations) = Len(saved') /\ Len(Activations') = Len(Activations) + 1
      /\ \A a \in 1 .. Len(Activations) : Activations'[a] = Activations[a]
  <2>1. Len(Activations) = Len(saved') /\ Len(Activations') = Len(Activations) + 1
    BY <1>0, <1>7 DEF ActsKnown
  <2>2. ASSUME NEW a \in 1 .. Len(Activations) PROVE Activations'[a] = Activations[a]
    <3>1. a \in 1 .. Len(saved') /\ (a \in 1 .. Len(saved) \/ a = Len(saved) + 1)
      BY <1>0, <2>1 DEF ActsKnown
    <3>. QED
      BY <1>0, <1>7, <3>1 DEF ActsKnown
  <2>. QED
    BY <2>1, <2>2
<1>9. ASSUME NEW a \in 1 .. Len(Activations'), NEW i \in 1 .. Len(Activations'[a]) - 1
      PROVE  awaits'[Activations'[a][i]] = heap'[Activations'[a][i + 1]].retReg
  <2>1. a \in 1 .. Len(Activations)
    <3>1. a # Len(Activations) + 1
      <4>. SUFFICES ASSUME a = Len(Activations) + 1 PROVE FALSE
        OBVIOUS
      <4>1. Activations'[a] = <<f>>
        BY <1>0, <1>1, <1>8 DEF ActsKnown
      <4>2. Len(<<f>>) - 1 = 0
        OBVIOUS
      <4>3. i \in 1 .. 0
        BY <4>1, <4>2
      <4>. QED
        BY <4>3
    <3>. QED
      BY <1>0, <1>8, <3>1 DEF ActsKnown
  <2>2. /\ Activations'[a] = Activations[a] /\ i \in 1 .. Len(Activations[a]) - 1
        /\ i \in 1 .. Len(Activations[a]) /\ i + 1 \in 1 .. Len(Activations[a])
    BY <1>0, <1>8, <2>1 DEF ActsKnown
  <2>3. awaits[Activations[a][i]] = heap[Activations[a][i + 1]].retReg
    BY <1>p, <2>1, <2>2 DEF CallChain
  <2>4. Activations[a][i] \in FrameIds \ {f} /\ Activations[a][i + 1] \in FrameIds \ {f}
    <3>1. /\ Activations[a][i] \in FrameIds /\ Activations[a][i] \in Referenced
          /\ Activations[a][i + 1] \in FrameIds /\ Activations[a][i + 1] \in Referenced
      BY <1>0, <2>1, <2>2 DEF ActsKnown
    <3>2. f \notin Referenced
      BY <1>4 DEF Grows
    <3>. QED
      BY <3>1, <3>2
  <2>. QED
    BY <1>3, <1>6, <2>2, <2>3, <2>4
<1>10. ASSUME NEW n \in 1 .. Len(natives')
       PROVE  /\ natives'[n].fr = Last(Activations'[n])
              /\ awaits'[natives'[n].fr] = natives'[n].ret
  <2>1. n \in 1 .. Len(natives) /\ natives'[n] = natives[n] /\ n \in 1 .. Len(Activations)
    BY <1>0, <1>2, <1>p DEF TInv, Shape, ActsKnown
  <2>2. natives[n].fr = Last(Activations[n]) /\ awaits[natives[n].fr] = natives[n].ret
    BY <2>1 DEF CallChain
  <2>3. Activations[n] \in Seq(FrameIds) /\ Activations[n] # <<>>
    <3>1. n \in 1 .. Len(saved) \/ n = Len(saved) + 1
      BY <1>0, <2>1 DEF ActsKnown
    <3>2. frames # <<>> /\ \A a \in 1 .. Len(saved) : saved[a] # <<>>
      BY <1>p DEF TInv, Shape
    <3>. QED
      BY <1>0, <2>1, <3>1, <3>2 DEF ActsKnown
  <2>4. Len(Activations[n]) \in 1 .. Len(Activations[n])
    BY <2>3, FrontLast
  <2>a. natives[n].fr = Activations[n][Len(Activations[n])]
    BY <2>2 DEF Last
  <2>5. natives[n].fr \in FrameIds \ {f}
    <3>1. natives[n].fr \in FrameIds /\ natives[n].fr \in Referenced
      BY <1>0, <2>1, <2>a, <2>4 DEF ActsKnown
    <3>2. f \notin Referenced
      BY <1>4 DEF Grows
    <3>. QED
      BY <3>1, <3>2
  <2>. QED
    BY <1>6, <1>8, <2>1, <2>2, <2>5
<1>11. awaits'[Last(frames')] = NoReg
  <2>1. Last(frames') = f
    BY <1>1 DEF Last
  <2>. QED
    BY <1>6, <2>1
<1>12. CallChain'
  BY <1>9, <1>10, <1>11 DEF CallChain, Cur
<1>13. Untouched
  BY <1>0, <1>3 DEF Untouched, ActsKnown, Referenced
<1>. QED
  BY <1>1, <1>3, <1>4, <1>5, <1>12, <1>13

LEMMA ChainNative ==
  ASSUME TInv, TInv', NoFrameReuse, CallChain, CallNative
  PROVE  CallChain'
<1>0. ActsKnown
  BY KnownActs
<1>1. PICK ret \in Regs :
        /\ natives' = Append(natives, [fr |-> Cur, ret |-> ret])
        /\ awaits' = [awaits EXCEPT ![Cur] = ret]
  BY DEF CallNative
<1>2. /\ pc = "exec" /\ pc' = "native" /\ Activations' = Activations /\ heap' = heap
  BY DEF CallNative, Fetched, Activations
<1>3. /\ Cur \in FrameIds /\ frames # <<>> /\ Cur = Last(frames) /\ Len(natives) = Len(saved)
      /\ Len(natives) \in Nat /\ Len(natives') = Len(natives) + 1
      /\ natives'[Len(natives) + 1] = [fr |-> Cur, ret |-> ret]
      /\ \A n \in 1 .. Len(natives) : natives'[n] = natives[n]
  <2>1. natives \in Seq([fr : FrameIds, ret : Regs]) /\ Cur \in FrameIds /\ frames # <<>>
    BY <1>2, CurType DEF TInv, TypeOK, Shape
  <2>2. [fr |-> Cur, ret |-> ret] \in [fr : FrameIds, ret : Regs]
    BY <2>1
  <2>3. Len(natives) = Len(saved)
    BY <1>0, <1>2 DEF TInv, Shape, ActsKnown
  <2>. QED
    BY <1>1, <2>1, <2>2, <2>3, AppendProperties, LenProperties DEF Cur
<1>4. \A g \in FrameIds : awaits'[g] = IF g = Cur THEN ret ELSE awaits[g]
  BY <1>1 DEF TInv, TypeOK
<1>5. ASSUME NEW a \in 1 .. Len(Activations), NEW i \in 1 .. Len(Activations[a]) - 1
      PROVE  awaits'[Activations[a][i]] = heap[Activations[a][i + 1]].retReg
  <2>1. i \in 1 .. Len(Activations[a]) /\ (a # Len(saved) + 1 \/ i # Len(frames))
    BY <1>0 DEF ActsKnown
  <2>2. Activations[a][i] # Cur /\ Activations[a][i] \in FrameIds
    BY <1>0, <1>3, <2>1, LastsApart DEF LastApart, ActsKnown
  <2>. QED
    BY <1>2, <1>4, <2>2 DEF CallChain
<1>6. ASSUME NEW n \in 1 .. Len(natives')
      PROVE  /\ natives'[n].fr = Last(Activations[n])
             /\ awaits'[natives'[n].fr] = natives'[n].ret
  <2>1. CASE n = Len(natives) + 1
    <3>1. Activations[n] = frames
      BY <1>0, <1>3, <2>1 DEF ActsKnown
    <3>. QED
      BY <1>3, <1>4, <2>1, <3>1
  <2>2. CASE n \in 1 .. Len(natives)
    <3>1. natives[n].fr = Last(Activations[n]) /\ awaits[natives[n].fr] = natives[n].ret
      BY <2>2 DEF CallChain
    <3>2. /\ n \in 1 .. Len(saved) /\ n \in 1 .. Len(Activations) /\ n # Len(saved) + 1
          /\ Activations[n] = saved[n]
      BY <1>0, <1>3, <2>2 DEF ActsKnown
    <3>3. Len(Activations[n]) \in 1 .. Len(Activations[n])
      <4>1. saved[n] \in Seq(FrameIds) /\ saved[n] # <<>>
        BY <1>0, <3>2 DEF ActsKnown, TInv, Shape
      <4>. QED
        BY <3>2, <4>1, FrontLast
    <3>a. natives[n].fr = Activations[n][Len(Activations[n])]
      BY <3>1 DEF Last
    <3>4. natives[n].fr \in FrameIds /\ natives[n].fr # Cur
      BY <1>0, <1>3, <3>a, <3>2, <3>3, LastsApart DEF LastApart, ActsKnown
    <3>. QED
      BY <1>3, <1>4, <2>2, <3>1, <3>4
  <2>. QED
    BY <1>3, <2>1, <2>2
<1>. QED
  BY <1>2, <1>5, <1>6 DEF CallChain
-----------------------------------------------------------------------------
(* The steps that push no frame.                                           *)

Quiet == Falls /\ Kept /\ Untouched

LEMMA StaysQuiet ==
  ASSUME TInv, TInv', frames' = frames, saved' = saved,
         \A f \in Range(frames) : heap'[f].retReg = heap[f].retReg /\ heap'[f].nilled = heap[f].nilled,
         \A f \in Suspended : heap'[f] = heap[f]
  PROVE  Quiet
<1>0. ActsKnown
  BY KnownActs
<1>1. Suspended' = Suspended /\ Referenced' = Referenced
  BY DEF Suspended, Referenced
<1>2. Falls
  BY <1>0 DEF ActsKnown, Falls
<1>. QED
  BY <1>1, <1>2 DEF Quiet, Kept, Untouched, Referenced

\* Something in the running frame changes, but not where its result goes.
LEMMA CurQuiet ==
  ASSUME TInv, TInv', NoFrameReuse, pc \in {"exec", "native"}, frames' = frames, saved' = saved,
         \A f \in FrameIds \ {Cur} : heap'[f] = heap[f],
         heap'[Cur].retReg = heap[Cur].retReg, heap'[Cur].nilled = heap[Cur].nilled
  PROVE  Quiet
<1>0. ActsKnown
  BY KnownActs
<1>1. \A f \in Suspended : f \in FrameIds \ {Cur}
  BY <1>0, CurApart DEF ActsKnown, Referenced
<1>2. \A f \in Range(frames) : f \in FrameIds
  BY <1>0 DEF ActsKnown, Referenced
<1>. QED
  BY <1>1, <1>2, StaysQuiet

LEMMA LeaveQuiet ==
  ASSUME TInv, TInv', NoFrameReuse, pc \in {"exec", "native"},
         NEW fs \in Seq(FrameIds), NEW h \in [FrameIds -> Frame], NEW o, Leave(fs, h, o),
         Len(fs) <= Len(frames), \A i \in 1 .. Len(fs) : fs[i] = frames[i],
         \A f \in Suspended \cup Range(fs) :
           h[f].retReg = heap[f].retReg /\ h[f].nilled = heap[f].nilled,
         \A f \in Suspended : h[f] = heap[f],
         \A f \in Suspended : awaits'[f] = awaits[f]
  PROVE  Quiet /\ WaitsFall
<1>0. ActsKnown
  BY KnownActs
<1>1. Falls /\ Kept
  BY LeaveFalls
<1>2. CASE saved = <<>>
  <2>1. Suspended = {}
    <3>1. Len(saved) = 0
      BY <1>2
    <3>. QED
      BY <1>0, <3>1 DEF ActsKnown
  <2>2. pc' = "done"
    BY <1>2 DEF Leave
  <2>. QED
    BY <1>1, <2>1, <2>2 DEF Quiet, Untouched, WaitsFall
<1>3. CASE saved # <<>>
  <2>1. Referenced' \subseteq Suspended /\ \A f \in Suspended : heap'[f] = h[f]
    BY <1>3, LeaveFalls
  <2>2. pc' = "native" /\ frames' = Last(saved) /\ saved' = Front(saved)
    BY <1>3 DEF Leave
  <2>3. Len(saved') + 1 = Len(saved) /\ Len(saved) \in 1 .. Len(saved) /\ frames' = saved[Len(saved)]
    <3>1. Len(saved') = Len(saved) - 1 /\ Len(saved) \in Nat \ {0}
      BY <1>3, <2>2, FrontLast DEF TInv, TypeOK
    <3>. QED
      BY <2>2, <3>1 DEF Last
  <2>4. frames' = Activations[Len(saved') + 1]
    BY <1>0, <2>3 DEF ActsKnown
  <2>. QED
    BY <1>1, <2>1, <2>2, <2>4 DEF Quiet, Untouched, WaitsFall
<1>. QED
  BY <1>2, <1>3

\* HALT, an error that no handler is offered.
LEMMA AbandonQuiet ==
  ASSUME TInv, TInv', NoFrameReuse, pc \in {"exec", "native"}, NEW o, Leave(frames, heap, o),
         awaits' = awaits
  PROVE  Quiet /\ WaitsFall
<1>0. ActsKnown
  BY KnownActs
<1>1. Len(frames) <= Len(frames) /\ frames \in Seq(FrameIds) /\ heap \in [FrameIds -> Frame]
  BY <1>0 DEF ActsKnown, TInv, TypeOK
<1>. QED
  BY <1>1, LeaveQuiet

LEMMA RaiseQuiet ==
  ASSUME TInv, TInv', NoFrameReuse, pc \in {"exec", "native"}, Raise
  PROVE  Quiet /\ WaitsFall
<1>1. CASE Handling # {}
  <2>1. PICK k \in Handling : Catch(k)
    BY <1>1 DEF Raise
  <2>2. saved' = saved /\ pc' = "exec"
    BY <1>1 DEF Raise
  <2>3. Falls /\ Kept /\ Untouched /\ Last(frames') = frames[k] /\ k \in 1 .. Len(frames)
    BY <2>1, <2>2, CatchFalls
  <2>4. awaits' = [awaits EXCEPT ![frames[k]] = NoReg] /\ frames[k] \in FrameIds
    BY <2>1, <2>3, ElementOfSeq DEF Catch, TInv, TypeOK
  <2>5. WaitsFall
    <3>1. Referenced' \subseteq FrameIds
      BY KnownActsNext DEF ActsKnown
    <3>. QED
      BY <2>2, <2>3, <2>4, <3>1 DEF WaitsFall, TInv, TypeOK
  <2>. QED
    BY <2>3, <2>5 DEF Quiet
<1>2. CASE Handling = {}
  <2>1. Leave(frames, heap, "error") /\ awaits' = awaits
    BY <1>2 DEF Raise
  <2>. QED
    BY <2>1, AbandonQuiet
<1>. QED
  BY <1>1, <1>2

\* A call returns within its activation or out of it.
LEMMA ReturnQuiet ==
  ASSUME TInv, TInv', NoFrameReuse, pc \in {"exec", "native"}, NEW v \in Val, awaits' = Resumed,
         \/ /\ Len(frames) > 1 /\ frames' = Front(frames) /\ heap' = Popped(v)
            /\ saved' = saved /\ pc' = "exec"
         \/ Len(frames) = 1 /\ Leave(<<>>, Popped(v), "value")
         \/ Leave(Front(frames), Popped(v), "value")
  PROVE  Quiet /\ WaitsFall
<1>0. ActsKnown /\ ActsKnown'
  BY KnownActs, KnownActsNext
<1>1. /\ Popped(v) \in [FrameIds -> Frame] /\ heap \in [FrameIds -> Frame]
      /\ \A f \in FrameIds \ {Cur} :
           /\ Popped(v)[f].retReg = heap[f].retReg /\ Popped(v)[f].nilled = heap[f].nilled
           /\ f \in Suspended => Popped(v)[f] = heap[f]
  BY DoReturnType, PoppedKeeps DEF TInv, TypeOK
<1>2. \A f \in Suspended : f \in FrameIds \ {Cur}
  BY <1>0, CurApart DEF ActsKnown, Referenced
<1>3. \A f \in Range(Front(frames)) : f \in FrameIds \ {Cur}
  <2>1. DOMAIN Front(frames) = 1 .. Len(Front(frames)) /\ Front(frames) \in Seq(FrameIds)
    BY CurApart, LenProperties
  <2>2. \A i \in 1 .. Len(Front(frames)) : Front(frames)[i] \in FrameIds
    BY <2>1, ElementOfSeq
  <2>. QED
    BY <2>1, <2>2, CurApart DEF Range
<1>4. \A f \in Suspended : awaits'[f] = awaits[f]
  <2>1. CASE Front(frames) = <<>>
    BY <2>1 DEF Resumed
  <2>2. CASE Front(frames) # <<>>
    <3>1. awaits' = [awaits EXCEPT ![Last(Front(frames))] = NoReg]
      BY <2>2 DEF Resumed
    <3>2. Last(Front(frames)) \in FrameIds \ Suspended
      BY <2>2, CurApart
    <3>. QED
      BY <1>2, <3>1, <3>2 DEF TInv, TypeOK
  <2>. QED
    BY <2>1, <2>2
<1>5. /\ Front(frames) \in Seq(FrameIds) /\ Len(Front(frames)) = Len(frames) - 1
      /\ \A i \in 1 .. Len(frames) - 1 : Front(frames)[i] = frames[i]
      /\ Len(Front(frames)) <= Len(frames) /\ Len(frames) \in Nat \ {0}
  BY CurApart
<1>6. CASE Leave(Front(frames), Popped(v), "value")
  <2>1. \A f \in Suspended \cup Range(Front(frames)) :
          Popped(v)[f].retReg = heap[f].retReg /\ Popped(v)[f].nilled = heap[f].nilled
    BY <1>1, <1>2, <1>3
  <2>2. \A f \in Suspended : Popped(v)[f] = heap[f]
    BY <1>1, <1>2
  <2>3. \A i \in 1 .. Len(Front(frames)) : Front(frames)[i] = frames[i]
    BY <1>5
  <2>. QED
    BY <1>1, <1>4, <1>5, <1>6, <2>1, <2>2, <2>3, LeaveQuiet
<1>7. CASE Len(frames) = 1 /\ Leave(<<>>, Popped(v), "value")
  <2>1. Front(frames) = <<>>
    BY <1>5, <1>7
  <2>. QED
    BY <1>6, <1>7, <2>1
<1>8. CASE /\ Len(frames) > 1 /\ frames' = Front(frames) /\ heap' = Popped(v)
           /\ saved' = saved /\ pc' = "exec"
  <2>1. Falls
    <3>1. Len(frames') <= Len(frames) /\ \A i \in 1 .. Len(frames') : frames'[i] = frames[i]
      BY <1>5, <1>8
    <3>2. Activations[Len(saved') + 1] = frames /\ Len(saved') <= Len(saved)
      BY <1>0, <1>8 DEF ActsKnown
    <3>. QED
      BY <1>8, <3>1, <3>2 DEF Falls
  <2>2. Suspended' = Suspended /\ Referenced' \subseteq FrameIds \ {Cur}
    BY <1>2, <1>3, <1>8 DEF Suspended, Referenced
  <2>3. Kept /\ Untouched
    BY <1>1, <1>2, <1>8, <2>2 DEF Kept, Untouched
  <2>4. Front(frames) # <<>>
    BY <1>5, <1>8
  <2>5. awaits' = [awaits EXCEPT ![Last(frames')] = NoReg] /\ Last(frames') \in FrameIds
    BY <1>8, <2>4, CurApart DEF Resumed
  <2>6. WaitsFall
    BY <1>8, <2>2, <2>5 DEF WaitsFall, TInv, TypeOK
  <2>. QED
    BY <2>1, <2>3, <2>6 DEF Quiet
<1>. QED
  BY <1>6, <1>7, <1>8

\* The native call that runs was made by the frame that runs.
LEMMA NativeRuns ==
  ASSUME TInv, CallChain, pc = "native"
  PROVE  /\ Last(natives).fr = Cur /\ Last(natives).ret \in Regs /\ natives # <<>>
         /\ Front(natives) \in Seq([fr : FrameIds, ret : Regs])
         /\ Len(Front(natives)) <= Len(natives)
         /\ \A n \in 1 .. Len(Front(natives)) : Front(natives)[n] = natives[n]
<1>0. ActsKnown
  BY KnownActs
<1>1. natives \in Seq([fr : FrameIds, ret : Regs]) /\ Len(natives) = Len(saved) + 1
  BY DEF TInv, TypeOK, Shape
<1>2. natives # <<>>
  BY <1>0, <1>1 DEF ActsKnown
<1>3. /\ Front(natives) \in Seq([fr : FrameIds, ret : Regs]) /\ Len(natives) \in Nat \ {0}
      /\ Len(Front(natives)) = Len(natives) - 1
      /\ \A n \in 1 .. Len(natives) - 1 : Front(natives)[n] = natives[n]
      /\ Last(natives) \in [fr : FrameIds, ret : Regs]
  BY <1>1, <1>2, FrontLast
<1>4. Len(natives) \in 1 .. Len(natives) /\ Last(natives) = natives[Len(natives)]
  BY <1>3 DEF Last
<1>5. Last(natives).fr = Last(Activations[Len(saved) + 1])
  BY <1>1, <1>4 DEF CallChain
<1>. QED
  BY <1>0, <1>2, <1>3, <1>5 DEF ActsKnown, Cur

\* Every step but a push and the start of a native call.
LEMMA QuietSteps ==
  ASSUME TInv, TInv', NoFrameReuse, CallChain, pc \in {"exec", "native"},
         Next, ~Call, ~CallNative, ~CallClosure
  PROVE  Quiet /\ Awaits
<1>0. ActsKnown /\ ActsKnown'
  BY KnownActs, KnownActsNext
<1>1. Fetched => pc = "exec"
  BY DEF Fetched
<1>h. heap \in [FrameIds -> Frame] /\ Cur \in FrameIds /\ awaits \in [FrameIds -> Regs \cup {NoReg}]
  BY CurApart DEF TInv, TypeOK
<1>n. natives' = natives => NativesFall
  <2>1. natives \in Seq([fr : FrameIds, ret : Regs])
    BY DEF TInv, TypeOK
  <2>2. Len(natives) \in Nat
    BY <2>1, LenProperties
  <2>. QED
    BY <2>2 DEF NativesFall
<1>w. ASSUME pc' = "exec", frames' = frames, pc = "exec", awaits' = awaits PROVE WaitsFall
  BY <1>w DEF WaitsFall, CallChain, Cur
<1>2. CASE OpsExceeded
  BY <1>2, <1>n, AbandonQuiet DEF OpsExceeded, Awaits
<1>3. CASE ImplicitReturn
  <2>1. Null \in Val
    BY DEF Val
  <2>. QED
    BY <1>3, <1>n, <2>1, ReturnQuiet DEF ImplicitReturn, DoReturn, Awaits
<1>4. CASE Halt
  BY <1>4, <1>n, AbandonQuiet DEF Halt, Awaits
<1>5. CASE FatalError
  BY <1>5, <1>n, AbandonQuiet DEF FatalError, Awaits
<1>6. CASE OpFails
  BY <1>6, <1>n, RaiseQuiet DEF OpFails, Awaits
<1>7. CASE DataOp \/ GetUpv
  <2>1. PICK r, v : heap' = [heap EXCEPT ![Cur].regs[r] = v]
    BY <1>7 DEF DataOp, GetUpv
  <2>2. /\ \A f \in FrameIds \ {Cur} : heap'[f] = heap[f]
        /\ heap'[Cur].retReg = heap[Cur].retReg /\ heap'[Cur].nilled = heap[Cur].nilled
    BY <1>h, <2>1 DEF Frame
  <2>3. frames' = frames /\ saved' = saved /\ natives' = natives /\ pc = "exec" /\ pc' = "exec"
        /\ awaits' = awaits
    BY <1>7 DEF DataOp, GetUpv, Fetched
  <2>. QED
    BY <1>n, <1>w, <2>2, <2>3, CurQuiet DEF Awaits
<1>8. CASE Return
  <2>1. PICK v \in {heap[Cur].regs[r] : r \in Regs} \cup {Null} :
          /\ DoReturn
          /\ \/ /\ Len(frames) > 1
                /\ frames' = Front(frames)
                /\ heap' = Popped(v)
                /\ UNCHANGED <<saved, pc, outcome>>
             \/ /\ Len(frames) = 1
                /\ Leave(<<>>, Popped(v), "value")
    BY <1>8 DEF Return
  <2>2. v \in Val /\ awaits' = Resumed /\ natives' = natives /\ pc = "exec"
    BY <1>8, <1>h, <2>1 DEF Return, Fetched, DoReturn, Frame, Val
  <2>. QED
    BY <1>n, <2>1, <2>2, ReturnQuiet DEF Awaits
<1>9. CASE MakeClosure \/ SetUpv
  <2>1. frames' = frames /\ saved' = saved /\ natives' = natives /\ pc = "exec" /\ pc' = "exec"
        /\ awaits' = awaits /\ heap' = heap
    BY <1>9 DEF MakeClosure, SetUpv, Fetched
  <2>. QED
    BY <1>n, <1>w, <2>1, StaysQuiet DEF Awaits
<1>10. CASE Try \/ EndTry
  <2>1. heap' = heap \/ \E t : heap' = [heap EXCEPT ![Cur].trys = t]
    BY <1>10 DEF Try, EndTry
  <2>2. /\ \A f \in FrameIds \ {Cur} : heap'[f] = heap[f]
        /\ heap'[Cur].retReg = heap[Cur].retReg /\ heap'[Cur].nilled = heap[Cur].nilled
    BY <1>h, <2>1 DEF Frame
  <2>3. frames' = frames /\ saved' = saved /\ natives' = natives /\ pc = "exec" /\ pc' = "exec"
        /\ awaits' = awaits
    BY <1>10 DEF Try, EndTry, Fetched
  <2>. QED
    BY <1>n, <1>w, <2>2, <2>3, CurQuiet DEF Awaits
<1>11. CASE NativeReturns
  <2>1. pc = "native" /\ pc' = "exec" /\ natives' = Front(natives) /\ frames' = frames /\ saved' = saved
    BY <1>11 DEF NativeReturns
  <2>2. PICK v \in Val :
          /\ heap' = [heap EXCEPT ![Last(natives).fr].regs[Last(natives).ret] = v]
          /\ awaits' = [awaits EXCEPT ![Last(natives).fr] = NoReg]
    BY <1>11 DEF NativeReturns
  <2>3. Last(natives).fr = Cur /\ NativesFall
    BY <2>1, NativeRuns DEF NativesFall
  <2>. DEFINE r == Last(natives).ret
  <2>4. heap' = [heap EXCEPT ![Cur].regs[r] = v]
    BY <2>2, <2>3
  <2>. HIDE DEF r
  <2>5. /\ \A f \in FrameIds \ {Cur} : heap'[f] = heap[f]
        /\ heap'[Cur].retReg = heap[Cur].retReg /\ heap'[Cur].nilled = heap[Cur].nilled
    BY <1>h, <2>4 DEF Frame
  <2>6. awaits' = [awaits EXCEPT ![Cur] = NoReg] /\ Referenced' \subseteq FrameIds /\ Last(frames') = Cur
    BY <1>0, <2>1, <2>2, <2>3 DEF ActsKnown, Cur
  <2>7. WaitsFall
    BY <1>h, <2>1, <2>6 DEF WaitsFall
  <2>. QED
    BY <2>1, <2>3, <2>5, <2>7, CurQuiet DEF Awaits
<1>12. CASE NativeFails
  <2>1. pc = "native" /\ natives' = Front(natives) /\ Raise
    BY <1>12 DEF NativeFails
  <2>. QED
    BY <2>1, NativeRuns, RaiseQuiet DEF Awaits, NativesFall
<1>13. CASE Release
  BY <1>13 DEF Release
<1>. QED
  BY <1>2, <1>3, <1>4, <1>5, <1>6, <1>7, <1>8, <1>9, <1>10, <1>11, <1>12, <1>13
  DEF Next, Execute, NativeEnds
-----------------------------------------------------------------------------
(* Frames and waits, together.                                             *)

SInv == TInv /\ NoFrameReuse /\ CallChain

LEMMA StackInit == Init => NoFrameReuse /\ CallChain
<1>. SUFFICES ASSUME Init PROVE NoFrameReuse /\ CallChain
  OBVIOUS
<1>1. PICK f \in FrameIds, v \in Val :
        /\ frames = <<f>>
        /\ heap = [g \in FrameIds |-> IF g = f THEN NewFrame(NoClosure, v, Param) ELSE Nilled]
  BY DEF Init
<1>2. /\ saved = <<>> /\ natives = <<>> /\ pc = "exec" /\ awaits = [g \in FrameIds |-> NoReg]
  BY DEF Init
<1>3. Activations = <<<<f>>>>
  BY <1>1, <1>2 DEF Activations
<1>4. Referenced = {f}
  BY <1>1, <1>2 DEF Referenced, Suspended, Range
<1>5. ~heap[f].nilled
  BY <1>1 DEF NewFrame
<1>6. NoFrameReuse
  BY <1>3, <1>4, <1>5 DEF NoFrameReuse
<1>7. CallChain
  BY <1>1, <1>2, <1>3 DEF CallChain, Cur, Last
<1>. QED
  BY <1>6, <1>7

\* What happens to the stacks once the run is over.
LEMMA OverQuiet ==
  ASSUME TInv, TInv', NoFrameReuse, CallChain, pc \in {"done", "released"}, Next
  PROVE  NoFrameReuse' /\ CallChain' /\ Quiet
<1>0. ActsKnown /\ ActsKnown'
  BY KnownActs, KnownActsNext
<1>1. Release
  BY DEF Next, Execute, NativeEnds, OpsExceeded, ImplicitReturn, Halt, DataOp, OpFails, FatalError,
         Call, CallNative, Return, MakeClosure, GetUpv, SetUpv, Try, EndTry, Fetched,
         NativeReturns, NativeFails, CallClosure
<1>2. frames' = <<>> /\ saved' = saved /\ saved = <<>> /\ natives' = natives /\ pc' = "released"
  BY <1>1 DEF Release, TInv, Shape
<1>3. Len(saved) = 0 /\ Len(frames') = 0
  BY <1>2
<1>4. Suspended = {} /\ Suspended' = {}
  BY <1>0, <1>2, <1>3 DEF ActsKnown
<1>5. Referenced' = {}
  BY <1>0, <1>3, <1>4 DEF ActsKnown, Referenced
<1>6. Falls
  BY <1>0, <1>2, <1>3 DEF Falls, ActsKnown
<1>7. Quiet
  BY <1>4, <1>5, <1>6 DEF Quiet, Kept, Untouched
<1>8. NoFrameReuse'
  BY <1>7, ReuseFalls DEF Quiet
<1>9. Len(natives') = 0
  BY <1>2, <1>3 DEF TInv, Shape
<1>10. CallChain'
  BY <1>2, <1>9 DEF CallChain
<1>. QED
  BY <1>7, <1>8, <1>10

LEMMA StackNext == SInv /\ TInv' /\ [Next]_vars => NoFrameReuse' /\ CallChain' /\ Untouched
<1>. SUFFICES ASSUME SInv, TInv', [Next]_vars PROVE NoFrameReuse' /\ CallChain' /\ Untouched
  OBVIOUS
<1>. TInv /\ NoFrameReuse /\ CallChain
  BY DEF SInv
<1>1. CASE UNCHANGED vars
  <2>1. frames' = frames /\ heap' = heap /\ saved' = saved /\ natives' = natives /\ pc' = pc
        /\ awaits' = awaits
    BY <1>1 DEF vars
  <2>2. Activations' = Activations /\ Suspended' = Suspended /\ Cur' = Cur
    BY <2>1 DEF Activations, Suspended, Cur
  <2>3. Referenced' = Referenced
    BY <2>1, <2>2 DEF Referenced
  <2>4. NoFrameReuse'
    BY <2>1, <2>2, <2>3 DEF NoFrameReuse
  <2>5. CallChain'
    BY <2>1, <2>2 DEF CallChain
  <2>6. Untouched
    BY <2>1 DEF Untouched
  <2>. QED
    BY <2>4, <2>5, <2>6
<1>2. CASE pc \in {"done", "released"} /\ Next
  BY <1>2, OverQuiet DEF Quiet
<1>3. CASE Call
  BY <1>3, ChainCalls
<1>4. CASE CallClosure
  BY <1>4, ChainCallsBack
<1>5. CASE CallNative
  <2>1. frames' = frames /\ saved' = saved /\ heap' = heap
    BY <1>5 DEF CallNative
  <2>2. Quiet
    BY <2>1, StaysQuiet
  <2>. QED
    BY <1>5, <2>2, ReuseFalls, ChainNative DEF Quiet
<1>6. CASE pc \in {"exec", "native"} /\ Next /\ ~Call /\ ~CallNative /\ ~CallClosure
  <2>1. Quiet /\ Awaits
    BY <1>6, QuietSteps
  <2>2. NoFrameReuse'
    BY <2>1, ReuseFalls DEF Quiet
  <2>3. CallChain'
    BY <1>6, <2>1, <2>2, ChainFalls DEF Quiet
  <2>. QED
    BY <2>1, <2>2, <2>3 DEF Quiet
<1>7. pc \in {"exec", "native", "done", "released"}
  BY DEF TInv, TypeOK
<1>. QED
  BY <1>1, <1>2, <1>3, <1>4, <1>5, <1>6, <1>7

LEMMA StackInvariant == Spec => []SInv
<1>1. Init => SInv
  BY TypeInit, StackInit DEF SInv
<1>2. SInv /\ [Next]_vars => SInv'
  <2>1. SInv /\ [Next]_vars => TInv'
    BY TypeNext DEF SInv
  <2>. QED
    BY <2>1, StackNext DEF SInv
<1>. QED
  BY <1>1, <1>2, PTL DEF Spec

\* The interpreter never runs a frame that was released, nor has it one frame
\* on its stacks twice, whatever calls, callbacks, errors and returns do.
THEOREM FramesRunOnce == Spec => []NoFrameReuse
<1>1. SInv => NoFrameReuse
  BY DEF SInv
<1>. QED
  BY <1>1, StackInvariant, PTL

\* A frame that is not running waits for exactly the call above it, within an
\* activation and across CallClosure: a result goes to the register that its
\* own CALL named.
THEOREM ResultsGoHome == Spec => []CallChain
<1>1. SInv => CallChain
  BY DEF SInv
<1>. QED
  BY <1>1, StackInvariant, PTL

\* While a callback runs, no step changes a frame below the native call that
\* it came from.
THEOREM CallbacksTouchNothing == Spec => SuspendedUntouched
<1>1. SInv /\ SInv' /\ [Next]_vars => [\A f \in Suspended \cap Suspended' : heap'[f] = heap[f]]_vars
  <2>1. SInv /\ SInv' /\ [Next]_vars => Untouched
    BY StackNext DEF SInv
  <2>. QED
    BY <2>1 DEF Untouched
<1>. QED
  BY <1>1, StackInvariant, PTL DEF Spec, SuspendedUntouched

-----------------------------------------------------------------------------
(* Which handler catches.                                                  *)

\* Handler k of the frame at place i of activation a, and its stamp.
Installed(a, i, k) ==
  /\ a \in 1 .. Len(Activations) /\ i \in 1 .. Len(Activations[a])
  /\ k \in 1 .. Len(heap[Activations[a][i]].trys)
StampAt(a, i, k) == heap[Activations[a][i]].trys[k].stamp

Below(a, i, k, b, j, l) == a < b \/ (a = b /\ (i < j \/ (i = j /\ k < l)))

\* Up the stacks, handlers are ever newer.
Sorted ==
  \A a, i, k, b, j, l :
    Installed(a, i, k) /\ Installed(b, j, l) /\ Below(a, i, k, b, j, l)
      => StampAt(a, i, k) < StampAt(b, j, l)

LEMMA InstalledType ==
  ASSUME TInv, NEW a, NEW i, NEW k, Installed(a, i, k)
  PROVE  /\ a \in Nat /\ i \in Nat /\ k \in Nat /\ StampAt(a, i, k) \in Stamps
         /\ Activations[a][i] \in FrameIds /\ Activations[a][i] \in Referenced
<1>1. ActsKnown
  BY KnownActs
<1>2. Activations[a][i] \in FrameIds /\ Activations[a][i] \in Referenced
  BY <1>1 DEF ActsKnown, Installed
<1>3. StampAt(a, i, k) \in Stamps
  BY <1>2, TrysType DEF Installed, StampAt, TInv, TypeOK
<1>. QED
  BY <1>1, <1>2, <1>3 DEF Installed

\* What is left of the stacks and their handlers was there.
LEMMA SortedFalls ==
  ASSUME TInv, TInv', Sorted, Falls, Shrinks(heap, heap')
  PROVE  Sorted'
<1>1. ASSUME NEW a, NEW i, NEW k, Installed(a, i, k)'
      PROVE  Installed(a, i, k) /\ StampAt(a, i, k)' = StampAt(a, i, k)
  <2>0. ActsKnown /\ ActsKnown'
    BY KnownActs, KnownActsNext
  <2>1. /\ a \in 1 .. Len(Activations) /\ i \in 1 .. Len(Activations[a])
        /\ Activations'[a][i] = Activations[a][i]
    BY <1>1, FallsMeans DEF Installed
  <2>. DEFINE f == Activations[a][i]
  <2>2. f \in FrameIds
    BY <2>0, <2>1 DEF ActsKnown
  <2>3. Len(heap[f].trys) \in Nat /\ Len(heap'[f].trys) \in Nat
    BY <2>2, TrysType DEF TInv, TypeOK
  <2>4. k \in 1 .. Len(heap'[f].trys)
    BY <1>1, <2>1 DEF Installed
  <2>5. k \in 1 .. Len(heap[f].trys) /\ heap'[f].trys[k] = heap[f].trys[k]
    BY <2>2, <2>3, <2>4 DEF Shrinks
  <2>. QED
    BY <2>1, <2>5 DEF Installed, StampAt
<1>. SUFFICES ASSUME NEW a, NEW i, NEW k, NEW b, NEW j, NEW l,
                     Installed(a, i, k)', Installed(b, j, l)', Below(a, i, k, b, j, l)
              PROVE  StampAt(a, i, k)' < StampAt(b, j, l)'
  BY DEF Sorted, Below
<1>2. StampAt(a, i, k) < StampAt(b, j, l)
  BY <1>1 DEF Sorted
<1>. QED
  BY <1>1, <1>2

\* A frame that is pushed has no handler.
LEMMA SortedGrows ==
  ASSUME TInv, TInv', Sorted, NEW f, Grows(f), heap'[f].trys = <<>>
  PROVE  Sorted'
<1>1. ASSUME NEW a, NEW i, NEW k, Installed(a, i, k)'
      PROVE  Installed(a, i, k) /\ StampAt(a, i, k)' = StampAt(a, i, k)
  <2>0. ActsKnown
    BY KnownActs
  <2>1. Len(heap'[f].trys) = 0
    OBVIOUS
  <2>2. Activations'[a][i] # f
    BY <1>1, <2>1 DEF Installed
  <2>3. /\ a \in 1 .. Len(Activations) /\ i \in 1 .. Len(Activations[a])
        /\ Activations'[a][i] = Activations[a][i]
    BY <1>1, <2>2 DEF Installed, Grows
  <2>4. Activations[a][i] \in FrameIds \ {f}
    BY <2>0, <2>2, <2>3 DEF ActsKnown
  <2>5. heap'[Activations[a][i]] = heap[Activations[a][i]]
    BY <2>4 DEF Grows
  <2>. QED
    BY <1>1, <2>3, <2>5 DEF Installed, StampAt
<1>. SUFFICES ASSUME NEW a, NEW i, NEW k, NEW b, NEW j, NEW l,
                     Installed(a, i, k)', Installed(b, j, l)', Below(a, i, k, b, j, l)
              PROVE  StampAt(a, i, k)' < StampAt(b, j, l)'
  BY DEF Sorted, Below
<1>2. StampAt(a, i, k) < StampAt(b, j, l)
  BY <1>1 DEF Sorted
<1>. QED
  BY <1>1, <1>2

\* TRY installs its handler above all the others.
LEMMA SortedTry ==
  ASSUME TInv, TInv', NoFrameReuse, HandlersUnused, Sorted, Try
  PROVE  Sorted'
<1>. DEFINE t == heap[Cur].trys
            top == Len(saved) + 1
<1>0. ActsKnown
  BY KnownActs
<1>h. heap \in [FrameIds -> Frame] /\ pc = "exec"
  BY DEF TInv, TypeOK, Try, Fetched
<1>1. Activations' = Activations
  BY DEF Try, Activations
<1>2. PICK r \in Regs :
        heap' = [heap EXCEPT ![Cur].trys = Append(@, [stamp |-> tries + 1, errReg |-> r])]
  BY DEF Try
<1>3. /\ tries \in Nat /\ tries + 1 \in Stamps /\ \A s \in Stamps : s \in Int
  BY FramesAssumption DEF Try, TInv, TypeOK, Stamps
<1>4. Cur \in FrameIds /\ t \in Seq(Handler) /\ Len(t) \in Nat
  BY <1>h, CurType, TrysType
<1>5. [stamp |-> tries + 1, errReg |-> r] \in Handler
  BY <1>3 DEF Handler
<1>6. \A g \in FrameIds : g # Cur => heap'[g].trys = heap[g].trys
  BY <1>h, <1>2
<1>7. heap'[Cur].trys = Append(t, [stamp |-> tries + 1, errReg |-> r])
  BY <1>h, <1>2, <1>4 DEF Frame
<1>8. /\ Len(heap'[Cur].trys) = Len(t) + 1
      /\ \A i \in 1 .. Len(t) : heap'[Cur].trys[i] = t[i]
      /\ heap'[Cur].trys[Len(t) + 1].stamp = tries + 1
  BY <1>4, <1>5, <1>7, AppendProperties
<1>9. frames # <<>> /\ Last(frames) = Cur /\ LastApart
  BY <1>h, LastsApart DEF TInv, Shape, Cur
<1>10. ASSUME NEW a, NEW i, NEW k, Installed(a, i, k)'
       PROVE  \/ /\ Installed(a, i, k) /\ StampAt(a, i, k)' = StampAt(a, i, k)
                 /\ StampAt(a, i, k) \in Int /\ StampAt(a, i, k) <= tries
              \/ /\ a = top /\ i = Len(frames) /\ k = Len(t) + 1
                 /\ StampAt(a, i, k)' = tries + 1
  <2>. DEFINE f == Activations[a][i]
  <2>1. /\ a \in 1 .. Len(Activations) /\ i \in 1 .. Len(Activations[a])
        /\ k \in 1 .. Len(heap'[f].trys)
    BY <1>1, <1>10 DEF Installed
  <2>2. f \in FrameIds
    BY <1>0, <2>1 DEF ActsKnown
  <2>3. CASE k \in 1 .. Len(heap[f].trys) /\ heap'[f].trys[k] = heap[f].trys[k]
    <3>1. Installed(a, i, k) /\ StampAt(a, i, k)' = StampAt(a, i, k)
      BY <1>1, <2>1, <2>3 DEF Installed, StampAt
    <3>2. StampAt(a, i, k) \in Int /\ StampAt(a, i, k) <= tries
      BY <1>3, <2>2, <2>3, <3>1, InstalledType DEF HandlersUnused, StampAt
    <3>. QED
      BY <3>1, <3>2
  <2>4. CASE f = Cur /\ k = Len(t) + 1
    <3>1. a = top /\ i = Len(frames)
      BY <1>9, <2>1, <2>4 DEF LastApart
    <3>2. StampAt(a, i, k)' = tries + 1
      BY <1>1, <1>8, <2>4 DEF StampAt
    <3>. QED
      BY <2>4, <3>1, <3>2
  <2>5. CASE f = Cur /\ k # Len(t) + 1
    <3>1. k \in 1 .. Len(t)
      BY <1>4, <1>8, <2>1, <2>5
    <3>. QED
      BY <1>8, <2>3, <2>5, <3>1
  <2>6. CASE f # Cur
    BY <1>6, <2>1, <2>2, <2>3, <2>6
  <2>. QED
    BY <2>4, <2>5, <2>6
<1>. SUFFICES ASSUME NEW a, NEW i, NEW k, NEW b, NEW j, NEW l,
                     Installed(a, i, k)', Installed(b, j, l)', Below(a, i, k, b, j, l)
              PROVE  StampAt(a, i, k)' < StampAt(b, j, l)'
  BY DEF Sorted, Below
<1>11. CASE b = top /\ j = Len(frames) /\ l = Len(t) + 1 /\ StampAt(b, j, l)' = tries + 1
  <2>1. ~(a = top /\ i = Len(frames) /\ k = Len(t) + 1)
    BY <1>0, <1>4, <1>11 DEF Below, ActsKnown
  <2>2. StampAt(a, i, k)' = StampAt(a, i, k) /\ StampAt(a, i, k) \in Int /\ StampAt(a, i, k) <= tries
    BY <1>10, <2>1
  <2>. QED
    BY <1>3, <1>11, <2>2
<1>12. CASE Installed(b, j, l) /\ StampAt(b, j, l)' = StampAt(b, j, l)
  <2>1. /\ b \in 1 .. top /\ top \in Nat /\ Len(frames) \in Nat
        /\ b = top => j \in 1 .. Len(frames)
    BY <1>0, <1>12 DEF Installed, ActsKnown
  <2>5. ASSUME b = top, j = Len(frames) PROVE l \in 1 .. Len(t)
    <3>1. Activations[b][j] = Cur
      BY <1>0, <1>9, <2>5 DEF ActsKnown, Last
    <3>. QED
      BY <1>12, <3>1 DEF Installed
  <2>2. ~(a = top /\ i = Len(frames) /\ k = Len(t) + 1)
    BY <1>4, <2>1, <2>5 DEF Below
  <2>3. Installed(a, i, k) /\ StampAt(a, i, k)' = StampAt(a, i, k)
    BY <1>10, <2>2
  <2>4. StampAt(a, i, k) < StampAt(b, j, l)
    BY <1>12, <2>3 DEF Sorted
  <2>. QED
    BY <1>12, <2>3, <2>4
<1>. QED
  BY <1>10, <1>11, <1>12

\* The frames, their waits and their handlers.
OInv == HInv /\ SInv /\ Sorted

LEMMA SortedInit == Init => Sorted
<1>. SUFFICES ASSUME Init, NEW a, NEW i, NEW k, Installed(a, i, k) PROVE FALSE
  BY DEF Sorted
<1>1. TInv
  BY TypeInit
<1>2. Activations[a][i] \in FrameIds
  BY <1>1, InstalledType
<1>3. heap[Activations[a][i]].trys = <<>>
  BY <1>2 DEF Init, NewFrame, Nilled
<1>4. Len(heap[Activations[a][i]].trys) = 0
  BY <1>3
<1>. QED
  BY <1>4 DEF Installed

LEMMA SortedNext == OInv /\ TInv' /\ [Next]_vars => Sorted'
<1>. SUFFICES ASSUME OInv, TInv', [Next]_vars PROVE Sorted'
  OBVIOUS
<1>. TInv /\ NoFrameReuse /\ CallChain /\ Sorted /\ HandlersUnused
  BY DEF OInv, SInv, HInv, HandlersFresh
<1>1. CASE Try
  BY <1>1, SortedTry
<1>2. CASE Call
  BY <1>2, ChainCalls, SortedGrows
<1>3. CASE CallClosure
  BY <1>3, ChainCallsBack, SortedGrows
<1>4. CASE UNCHANGED vars \/ CallNative
  <2>1. frames' = frames /\ saved' = saved /\ heap' = heap
    BY <1>4 DEF vars, CallNative
  <2>2. Falls
    BY <2>1, StaysQuiet DEF Quiet
  <2>3. Shrinks(heap, heap')
    BY <2>1, ShrinkReflexive DEF TInv, TypeOK
  <2>. QED
    BY <2>2, <2>3, SortedFalls
<1>5. CASE Next /\ ~Try /\ ~Call /\ ~CallClosure /\ ~CallNative
  <2>1. Falls
    <3>1. CASE pc \in {"done", "released"}
      BY <1>5, <3>1, OverQuiet, StackNext DEF Quiet, OInv
    <3>2. CASE pc \in {"exec", "native"}
      BY <1>5, <3>2, QuietSteps DEF Quiet
    <3>. QED
      BY <3>1, <3>2 DEF TInv, TypeOK
  <2>2. Shrinks(heap, heap')
    BY <1>5, StepShrinks
  <2>. QED
    BY <2>1, <2>2, SortedFalls
<1>. QED
  BY <1>1, <1>2, <1>3, <1>4, <1>5

LEMMA OrderInvariant == Spec => []OInv
<1>1. Init => OInv
  BY TypeInit, FreshInit, StackInit, SortedInit DEF OInv, HInv, SInv
<1>2. OInv /\ [Next]_vars => OInv'
  BY TypeNext, FreshNext, StackNext, SortedNext DEF OInv, HInv, SInv
<1>. QED
  BY <1>1, <1>2, PTL DEF Spec

\* The handler that catches is the last one of the top frame that has any,
\* and by the order of the stacks no installed handler is newer.
LEMMA CatchNewest ==
  ASSUME OInv, NEW m \in Handling, \A j \in Handling : j <= m, Catch(m),
         NEW s \in Stamps, caught'[s] # caught[s]
  PROVE  s \in LiveStamps /\ \A t \in LiveStamps : t <= s
<1>. DEFINE f == frames[m]
            ts == heap[f].trys
            top == Len(saved) + 1
<1>t. TInv /\ Sorted
  BY DEF OInv, SInv
<1>0. ActsKnown
  BY <1>t, KnownActs
<1>1. m \in 1 .. Len(frames) /\ ts # <<>> /\ Len(frames) \in Nat
  BY <1>0 DEF Handling, ActsKnown
<1>2. f \in FrameIds /\ f \in Referenced /\ Activations[top] = frames /\ top \in 1 .. Len(Activations)
      /\ Len(Activations) = top /\ top \in Nat
  BY <1>0, <1>1 DEF ActsKnown
<1>3. ts \in Seq(Handler) /\ Len(ts) \in Nat \ {0} /\ Last(ts) = ts[Len(ts)]
  BY <1>1, <1>2, <1>t, TrysType, FrontLast DEF TInv, TypeOK, Last
<1>4. caught' = [caught EXCEPT ![Last(ts).stamp] = @ + 1]
  BY DEF Catch
<1>5. s = ts[Len(ts)].stamp
  BY <1>3, <1>4, <1>t DEF TInv, TypeOK
<1>6. Installed(top, m, Len(ts)) /\ StampAt(top, m, Len(ts)) = s
  BY <1>1, <1>2, <1>3, <1>5 DEF Installed, StampAt
<1>7. s \in LiveStamps
  <2>1. Len(ts) \in 1 .. Len(ts)
    BY <1>3
  <2>2. s \in {heap[f].trys[i].stamp : i \in 1 .. Len(heap[f].trys)}
    BY <1>5, <2>1
  <2>. QED
    BY <1>2, <2>2 DEF LiveStamps
<1>8. ASSUME NEW t \in LiveStamps PROVE t <= s
  <2>1. PICK g \in Referenced : \E k \in 1 .. Len(heap[g].trys) : t = heap[g].trys[k].stamp
    BY <1>8 DEF LiveStamps
  <2>2. PICK k \in 1 .. Len(heap[g].trys) : t = heap[g].trys[k].stamp
    BY <2>1
  <2>3. PICK a \in 1 .. Len(Activations) : \E i \in 1 .. Len(Activations[a]) : Activations[a][i] = g
    BY <1>0 DEF ActsKnown
  <2>4. PICK i \in 1 .. Len(Activations[a]) : Activations[a][i] = g
    BY <2>3
  <2>5. Installed(a, i, k) /\ StampAt(a, i, k) = t /\ i \in Nat /\ k \in Nat /\ a \in Nat
    BY <2>2, <2>4 DEF Installed, StampAt
  <2>6. t \in Stamps /\ \A u \in Stamps : u \in Int
    BY <1>t, <2>5, InstalledType, FramesAssumption DEF Stamps
  <2>7. CASE Below(a, i, k, top, m, Len(ts))
    <3>1. t < s
      BY <1>6, <1>t, <2>5, <2>7 DEF Sorted
    <3>. QED
      BY <2>6, <3>1
  <2>8. CASE ~Below(a, i, k, top, m, Len(ts))
    <3>1. a = top /\ i >= m
      BY <1>1, <1>2, <2>5, <2>8 DEF Below
    <3>2. i = m
      <4>1. i \in 1 .. Len(frames) /\ frames[i] = g
        BY <1>2, <2>4, <3>1
      <4>2. heap[g].trys # <<>>
        <5>1. Len(heap[g].trys) # 0
          OBVIOUS
        <5>. QED
          BY <5>1
      <4>3. i \in Handling
        BY <4>1, <4>2 DEF Handling
      <4>. QED
        BY <1>1, <2>5, <3>1, <4>3
    <3>3. g = f
      BY <1>2, <2>4, <3>1, <3>2
    <3>4. k = Len(ts)
      BY <1>3, <2>5, <2>8, <3>1, <3>2, <3>3 DEF Below
    <3>5. t = s
      BY <1>5, <2>2, <3>3, <3>4
    <3>. QED
      BY <2>6, <3>5
  <2>. QED
    BY <2>7, <2>8
<1>. QED
  BY <1>7, <1>8

\* An error goes to the handler that was installed last of all that are still
\* installed anywhere in the VM, those below native calls included.
THEOREM NewestCatches == Spec => NewestHandlerCatches
<1>1. ASSUME OInv, [Next]_vars
      PROVE  [\A s \in Stamps :
                caught'[s] # caught[s] => s \in LiveStamps /\ \A t \in LiveStamps : t <= s]_vars
  <2>. SUFFICES ASSUME NEW s \in Stamps, caught'[s] # caught[s]
                PROVE  s \in LiveStamps /\ \A t \in LiveStamps : t <= s
    OBVIOUS
  <2>1. caught' # caught
    OBVIOUS
  <2>2. Raise
    BY <1>1, <2>1 DEF Next, Execute, NativeEnds, vars, OpsExceeded, ImplicitReturn, Halt, DataOp,
      OpFails, FatalError, Call, CallNative, Return, MakeClosure, GetUpv, SetUpv, Try, EndTry,
      NativeReturns, NativeFails, CallClosure, Release
  <2>3. PICK m \in Handling : (\A j \in Handling : j <= m) /\ Catch(m)
    BY <2>1, <2>2 DEF Raise
  <2>. QED
    BY <1>1, <2>3, CatchNewest
<1>. QED
  BY <1>1, OrderInvariant, PTL DEF Spec, NewestHandlerCatches

-----------------------------------------------------------------------------
(* What closures capture.                                                  *)

KInv == TInv /\ CapturesUntilReturn

\* Only a return takes captures apart, and those of a closure that it lists.
LEMMA CapturesNext == KInv /\ TInv' /\ [Next]_vars => CapturesUntilReturn'
<1>. SUFFICES ASSUME KInv, TInv', [Next]_vars PROVE CapturesUntilReturn'
  OBVIOUS
<1>. TInv /\ CapturesUntilReturn
  BY DEF KInv
<1>t. /\ upvals \in [ClosureIds -> Seq(Val)] /\ capture \in [ClosureIds -> Seq(Val)]
      /\ returned \subseteq ClosureIds
  BY DEF TInv, TypeOK
<1>1. CASE Release
  BY <1>1 DEF Release, CapturesUntilReturn
<1>2. CASE ImplicitReturn \/ Return
  <2>1. pc = "exec" /\ DoReturn /\ capture' = capture
    BY <1>2 DEF ImplicitReturn, Return, Fetched
  <2>2. ASSUME NEW c \in ClosureIds, c \notin returned' PROVE upvals'[c] = capture'[c]
    <3>1. c \notin returned /\ heap[Cur].cl # c
      BY <2>1, <2>2, FramesAssumption DEF DoReturn
    <3>2. upvals'[c] = upvals[c]
      BY <2>1, <3>1 DEF DoReturn, ReleaseUpvals
    <3>. QED
      BY <2>1, <3>1, <3>2 DEF CapturesUntilReturn
  <2>. QED
    BY <2>2 DEF CapturesUntilReturn
<1>3. CASE MakeClosure
  <2>1. pc = "exec" /\ returned' = returned
    BY <1>3 DEF MakeClosure, Fetched
  <2>2. \E d, w : upvals' = [upvals EXCEPT ![d] = w] /\ capture' = [capture EXCEPT ![d] = w]
    BY <1>3 DEF MakeClosure
  <2>. QED
    BY <1>t, <2>1, <2>2 DEF CapturesUntilReturn
<1>4. CASE SetUpv
  <2>. DEFINE d == heap[Cur].cl
  <2>1. pc = "exec" /\ returned' = returned
    BY <1>4 DEF SetUpv, Fetched
  <2>2. \E i, w : upvals' = [upvals EXCEPT ![d][i] = w] /\ capture' = [capture EXCEPT ![d][i] = w]
    BY <1>4 DEF SetUpv
  <2>. HIDE DEF d
  <2>3. ASSUME NEW c \in ClosureIds, c \notin returned PROVE upvals'[c] = capture'[c]
    <3>1. upvals[c] = capture[c]
      BY <2>1, <2>3 DEF CapturesUntilReturn
    <3>. QED
      BY <1>t, <2>2, <3>1
  <2>. QED
    BY <2>1, <2>3 DEF CapturesUntilReturn
<1>5. CASE ~Release /\ ~ImplicitReturn /\ ~Return /\ ~MakeClosure /\ ~SetUpv
  <2>1. /\ upvals' = upvals /\ capture' = capture /\ returned' = returned
        /\ pc = "released" => pc' = "released"
    BY <1>5 DEF Next, Execute, NativeEnds, vars, OpsExceeded, Halt, DataOp, OpFails, FatalError,
         Call, CallNative, GetUpv, Try, EndTry, Fetched, NativeReturns, NativeFails, CallClosure
  <2>. QED
    BY <2>1 DEF CapturesUntilReturn
<1>. QED
  BY <1>1, <1>2, <1>3, <1>4, <1>5

\* A closure none of whose calls has returned reads what it captured, however
\* its calls were abandoned: by an error, by HALT or by the watchdog.
THEOREM CapturesLast == Spec => []CapturesUntilReturn
<1>1. Init => KInv
  BY TypeInit DEF KInv, Init, CapturesUntilReturn
<1>2. KInv /\ [Next]_vars => KInv'
  BY TypeNext, CapturesNext DEF KInv
<1>3. KInv => CapturesUntilReturn
  BY DEF KInv
<1>. QED
  BY <1>1, <1>2, <1>3, PTL DEF Spec

-----------------------------------------------------------------------------
(* FlattenSeq, which is defined by a recursive function.                   *)

Flattening(f, ss) ==
  f = [i \in 1 .. Len(ss) |-> IF i = 1 THEN ss[i] ELSE f[i - 1] \o ss[i]]

LEMMA FlattenIs ==
  ASSUME NEW ss, Len(ss) # 0
  PROVE  FlattenSeq(ss) = (CHOOSE f : Flattening(f, ss))[Len(ss)]
BY DEF FlattenSeq, Flattening

LEMMA FlatteningAt ==
  ASSUME NEW ss, NEW f, Flattening(f, ss), NEW i \in 1 .. Len(ss)
  PROVE  f[i] = IF i = 1 THEN ss[i] ELSE f[i - 1] \o ss[i]
BY DEF Flattening

\* One more sequence at the end.
LEMMA FlatteningGrows ==
  ASSUME NEW S, NEW ss \in Seq(Seq(S)), NEW x \in Seq(S), NEW f, Flattening(f, ss)
  PROVE  Flattening([i \in 1 .. Len(ss) + 1 |->
                       IF i <= Len(ss) THEN f[i]
                       ELSE IF i = 1 THEN x ELSE f[i - 1] \o x], Append(ss, x))
<1>. DEFINE n == Len(ss)
            g == [i \in 1 .. n + 1 |->
                    IF i <= n THEN f[i] ELSE IF i = 1 THEN x ELSE f[i - 1] \o x]
            tt == Append(ss, x)
<1>1. /\ n \in Nat /\ Len(tt) = n + 1 /\ tt[n + 1] = x
      /\ \A i \in 1 .. n : tt[i] = ss[i]
  BY AppendProperties, LenProperties
<1>2. \A i \in 1 .. n : f[i] = IF i = 1 THEN ss[i] ELSE f[i - 1] \o ss[i]
  BY DEF Flattening
<1>. HIDE DEF n, tt
<1>3. \A i \in 1 .. n : g[i] = f[i]
  BY <1>1
<1>4. ASSUME NEW i \in 1 .. n + 1
      PROVE  g[i] = IF i = 1 THEN tt[i] ELSE g[i - 1] \o tt[i]
  <2>1. CASE i \in 1 .. n /\ i = 1
    BY <1>1, <1>2, <1>3, <2>1
  <2>2. CASE i \in 1 .. n /\ i # 1
    <3>1. i - 1 \in 1 .. n
      BY <1>1, <2>2
    <3>. QED
      BY <1>1, <1>2, <1>3, <2>2, <3>1
  <2>3. CASE i = n + 1 /\ i = 1
    BY <1>1, <2>3
  <2>4. CASE i = n + 1 /\ i # 1
    <3>1. i - 1 \in 1 .. n /\ ~(i <= n)
      BY <1>1, <2>4
    <3>2. g[i] = f[i - 1] \o x /\ g[i - 1] = f[i - 1]
      BY <1>3, <2>4, <3>1
    <3>. QED
      BY <1>1, <2>4, <3>2
  <2>. QED
    BY <1>1, <2>1, <2>2, <2>3, <2>4
<1>5. g = [i \in 1 .. n + 1 |-> IF i = 1 THEN tt[i] ELSE g[i - 1] \o tt[i]]
  <2>. DEFINE e(i) == IF i = 1 THEN tt[i] ELSE g[i - 1] \o tt[i]
  <2>1. \A i \in 1 .. n + 1 : g[i] = e(i)
    BY <1>4
  <2>2. DOMAIN g = 1 .. n + 1 /\ g = [i \in DOMAIN g |-> g[i]]
    OBVIOUS
  <2>. HIDE DEF e, g
  <2>3. g = [i \in 1 .. n + 1 |-> e(i)]
    BY <2>1, <2>2
  <2>. QED
    BY <2>3 DEF e
<1>. QED
  BY <1>1, <1>5 DEF Flattening, n, tt

LEMMA LeastNat ==
  ASSUME NEW T \in SUBSET Nat, T # {}
  PROVE  \E x \in T : \A y \in T : x <= y
<1>1. PICK x \in T : \A y \in T : ~ (<<y, x>> \in OpToRel(<, Nat))
  BY WFMin, NatLessThanWellFounded
<1>2. \A y \in T : ~ (y < x)
  BY <1>1 DEF OpToRel
<1>. QED
  BY <1>2

LEMMA FrontAppend ==
  ASSUME NEW S, NEW s \in Seq(S), s # <<>>
  PROVE  Front(s) \in Seq(S) /\ Last(s) \in S /\ s = Append(Front(s), Last(s))
         /\ Len(Front(s)) = Len(s) - 1 /\ Len(s) - 1 \in Nat /\ Len(s) \in Nat
<1>1. /\ Front(s) \in Seq(S) /\ Len(Front(s)) = Len(s) - 1
      /\ \A i \in 1 .. Len(s) - 1 : Front(s)[i] = s[i]
      /\ Last(s) \in S /\ Len(s) \in Nat \ {0} /\ Last(s) = s[Len(s)]
  BY FrontLast DEF Last
<1>. DEFINE t == Append(Front(s), Last(s))
<1>2. /\ t \in Seq(S) /\ Len(t) = Len(Front(s)) + 1
      /\ \A i \in 1 .. Len(Front(s)) : t[i] = Front(s)[i]
      /\ t[Len(Front(s)) + 1] = Last(s)
  BY <1>1, AppendProperties
<1>. HIDE DEF t
<1>3. Len(t) = Len(s) /\ \A i \in 1 .. Len(s) : t[i] = s[i]
  BY <1>1, <1>2
<1>4. s = t
  BY <1>2, <1>3, SeqEqual
<1>. QED
  BY <1>1, <1>4 DEF t

LEMMA FlatteningExists ==
  ASSUME NEW S
  PROVE  \A ss \in Seq(Seq(S)) : \E f : Flattening(f, ss)
<1>. DEFINE T == {n \in Nat : \E ss \in Seq(Seq(S)) : Len(ss) = n /\ ~ \E f : Flattening(f, ss)}
<1>1. CASE T # {}
  <2>1. PICK n \in T : \A y \in T : n <= y
    BY <1>1, LeastNat
  <2>2. PICK ss \in Seq(Seq(S)) : Len(ss) = n /\ ~ \E f : Flattening(f, ss)
    BY <2>1
  <2>3. ss # <<>>
    <3>1. Flattening([i \in 1 .. Len(<<>>) |-> <<>>], <<>>)
      BY DEF Flattening
    <3>. QED
      BY <2>2, <3>1
  <2>4. /\ Front(ss) \in Seq(Seq(S)) /\ Last(ss) \in Seq(S) /\ ss = Append(Front(ss), Last(ss))
        /\ Len(Front(ss)) = n - 1 /\ n \in Nat /\ n - 1 \in Nat
    <3>1. /\ Front(ss) \in Seq(Seq(S)) /\ Last(ss) \in Seq(S) /\ ss = Append(Front(ss), Last(ss))
          /\ Len(Front(ss)) = Len(ss) - 1 /\ Len(ss) - 1 \in Nat /\ Len(ss) \in Nat
      BY <2>3, FrontAppend
    <3>. QED
      BY <2>2, <3>1
  <2>5. n - 1 \notin T
    BY <2>1, <2>4
  <2>6. PICK f : Flattening(f, Front(ss))
    BY <2>4, <2>5
  <2>7. \E g : Flattening(g, ss)
    BY <2>4, <2>6, FlatteningGrows
  <2>. QED
    BY <2>2, <2>7
<1>2. CASE T = {}
  <2>. SUFFICES ASSUME NEW ss \in Seq(Seq(S)), ~ \E f : Flattening(f, ss) PROVE FALSE
    OBVIOUS
  <2>1. Len(ss) \in T
    BY LenProperties
  <2>. QED
    BY <1>2, <2>1
<1>. QED
  BY <1>1, <1>2

\* Two such functions agree as far as their sequences do.
LEMMA FlatteningSame ==
  ASSUME NEW ss, NEW tt, NEW n \in Nat, Len(ss) = n, Len(tt) = n + 1,
         \A i \in 1 .. n : tt[i] = ss[i],
         NEW f, NEW g, Flattening(f, ss), Flattening(g, tt)
  PROVE  \A i \in 1 .. n : f[i] = g[i]
<1>. DEFINE T == {i \in 1 .. n : f[i] # g[i]}
<1>1. ASSUME T # {} PROVE FALSE
  <2>0. T \in SUBSET Nat
    OBVIOUS
  <2>1. PICK i \in T : \A y \in T : i <= y
    BY <1>1, <2>0, LeastNat
  <2>2. i \in 1 .. n /\ i \in 1 .. Len(ss) /\ i \in 1 .. Len(tt) /\ ss[i] = tt[i]
    OBVIOUS
  <2>3. /\ f[i] = IF i = 1 THEN ss[i] ELSE f[i - 1] \o ss[i]
        /\ g[i] = IF i = 1 THEN tt[i] ELSE g[i - 1] \o tt[i]
    BY <2>2 DEF Flattening
  <2>4. i # 1 => f[i - 1] = g[i - 1]
    BY <2>1, <2>2
  <2>. QED
    BY <2>2, <2>3, <2>4
<1>2. T = {}
  BY <1>1
<1>. HIDE DEF T
<1>. SUFFICES ASSUME NEW i \in 1 .. n PROVE f[i] = g[i]
  OBVIOUS
<1>. QED
  BY <1>2 DEF T

\* What FlattenSeq returns.
LEMMA FlattenEmpty == FlattenSeq(<<>>) = <<>>
BY DEF FlattenSeq

OneMore(ss, tt, x) ==
  /\ Len(ss) \in Nat /\ Len(tt) = Len(ss) + 1 /\ tt[Len(ss) + 1] = x
  /\ \A i \in 1 .. Len(ss) : tt[i] = ss[i]

LEMMA FlatteningLast ==
  ASSUME NEW ss, NEW tt, NEW x, NEW f, NEW g,
         OneMore(ss, tt, x), Flattening(f, ss), Flattening(g, tt)
  PROVE  g[Len(ss) + 1] = IF Len(ss) = 0 THEN x ELSE f[Len(ss)] \o x
<1>a. PICK n \in Nat : n = Len(ss)
  BY DEF OneMore
<1>b. /\ Len(ss) = n /\ Len(tt) = n + 1 /\ tt[n + 1] = x
      /\ \A i \in 1 .. n : tt[i] = ss[i]
  BY <1>a DEF OneMore
<1>1. n + 1 \in 1 .. Len(tt) /\ n + 1 - 1 = n /\ (n + 1 = 1 <=> n = 0)
  BY <1>b
<1>2. g[n + 1] = IF n + 1 = 1 THEN tt[n + 1] ELSE g[n + 1 - 1] \o tt[n + 1]
  BY <1>1, FlatteningAt
<1>3. \A i \in 1 .. n : f[i] = g[i]
  BY <1>b, FlatteningSame
<1>4. n # 0 => f[n] = g[n]
  BY <1>3
<1>. QED
  BY <1>b, <1>1, <1>2, <1>4

LEMMA FlattenBy ==
  ASSUME NEW S, NEW ss \in Seq(Seq(S))
  PROVE  \E f : Flattening(f, ss) /\ (Len(ss) # 0 => FlattenSeq(ss) = f[Len(ss)])
<1>. DEFINE f == CHOOSE h : Flattening(h, ss)
<1>1. Flattening(f, ss)
  <2>1. \E h : Flattening(h, ss)
    BY FlatteningExists
  <2>. QED
    BY <2>1
<1>2. Len(ss) # 0 => FlattenSeq(ss) = f[Len(ss)]
  BY FlattenIs
<1>. HIDE DEF f
<1>. QED
  BY <1>1, <1>2

LEMMA FlattenAppend ==
  ASSUME NEW S, NEW ss \in Seq(Seq(S)), NEW x \in Seq(S)
  PROVE  FlattenSeq(Append(ss, x)) = FlattenSeq(ss) \o x
<1>. DEFINE n == Len(ss)
<1>a. PICK tt : tt = Append(ss, x)
  OBVIOUS
<1>1. /\ n \in Nat /\ Len(tt) = n + 1 /\ tt[n + 1] = x /\ tt \in Seq(Seq(S))
      /\ \A i \in 1 .. n : tt[i] = ss[i]
  BY <1>a, AppendProperties, LenProperties
<1>2. PICK f : Flattening(f, ss) /\ (n # 0 => FlattenSeq(ss) = f[n])
  BY FlattenBy
<1>3. PICK g : Flattening(g, tt) /\ (Len(tt) # 0 => FlattenSeq(tt) = g[Len(tt)])
  BY <1>1, FlattenBy
<1>4. g[n + 1] = IF n = 0 THEN x ELSE f[n] \o x
  <2>1. OneMore(ss, tt, x)
    BY <1>1 DEF OneMore
  <2>. QED
    BY <1>2, <1>3, <2>1, FlatteningLast
<1>5. FlattenSeq(tt) = g[n + 1]
  BY <1>1, <1>3
<1>6. CASE n = 0
  <2>1. ss = <<>>
    BY <1>6, EmptySeq
  <2>2. FlattenSeq(ss) \o x = x
    BY <2>1, FlattenEmpty, ConcatEmptySeq
  <2>. QED
    BY <1>a, <1>4, <1>5, <1>6, <2>2
<1>7. CASE n # 0
  BY <1>a, <1>2, <1>4, <1>5, <1>7
<1>. QED
  BY <1>6, <1>7

LEMMA FlattenType ==
  ASSUME NEW S
  PROVE  \A ss \in Seq(Seq(S)) : FlattenSeq(ss) \in Seq(S)
<1>. DEFINE T == {n \in Nat : \E ss \in Seq(Seq(S)) : Len(ss) = n /\ FlattenSeq(ss) \notin Seq(S)}
<1>1. ASSUME T # {} PROVE FALSE
  <2>1. PICK n \in T : \A y \in T : n <= y
    BY <1>1, LeastNat
  <2>2. PICK ss \in Seq(Seq(S)) : Len(ss) = n /\ FlattenSeq(ss) \notin Seq(S)
    BY <2>1
  <2>3. ss # <<>>
    BY <2>2, FlattenEmpty, EmptySeq
  <2>4. /\ Front(ss) \in Seq(Seq(S)) /\ Last(ss) \in Seq(S) /\ ss = Append(Front(ss), Last(ss))
        /\ Len(Front(ss)) = n - 1 /\ n \in Nat /\ n - 1 \in Nat
    <3>1. /\ Front(ss) \in Seq(Seq(S)) /\ Last(ss) \in Seq(S) /\ ss = Append(Front(ss), Last(ss))
          /\ Len(Front(ss)) = Len(ss) - 1 /\ Len(ss) - 1 \in Nat /\ Len(ss) \in Nat
      BY <2>3, FrontAppend
    <3>. QED
      BY <2>2, <3>1
  <2>5. n - 1 \notin T
    BY <2>1, <2>4
  <2>6. FlattenSeq(Front(ss)) \in Seq(S)
    BY <2>4, <2>5
  <2>7. FlattenSeq(ss) = FlattenSeq(Front(ss)) \o Last(ss)
    BY <2>4, FlattenAppend
  <2>. QED
    BY <2>2, <2>4, <2>6, <2>7, ConcatProperties
<1>. SUFFICES ASSUME NEW ss \in Seq(Seq(S)) PROVE FlattenSeq(ss) \in Seq(S)
  OBVIOUS
<1>2. Len(ss) \in Nat
  BY LenProperties
<1>. QED
  BY <1>1, <1>2

-----------------------------------------------------------------------------
(* The one stack.                                                          *)

Entry == [kind : {"fn", "native"}, handlers : Nat]

\* The entries of the frames fs, and those of the activations s with the
\* native calls that they rest on, when h is what the frames point to.
EntriesIn(h, fs) ==
  [i \in 1 .. Len(fs) |-> [kind |-> "fn", handlers |-> Len(h[fs[i]].trys)]]
Piles(h, s) == [a \in 1 .. Len(s) |-> Append(EntriesIn(h, s[a]), NativeEntry)]
Waiting(h, s) == FlattenSeq(Piles(h, s))

LEMMA SeqLength ==
  ASSUME NEW S, NEW s \in Seq(S), NEW n \in Nat, DOMAIN s = 1 .. n
  PROVE  Len(s) = n
<1>1. Len(s) \in Nat /\ 1 .. Len(s) = 1 .. n
  BY LenProperties
<1>2. (Len(s) \in 1 .. Len(s) \/ Len(s) = 0) /\ (n \in 1 .. n \/ n = 0)
  BY <1>1
<1>. QED
  BY <1>1, <1>2

LEMMA FunctionIsSeq ==
  ASSUME NEW S, NEW n \in Nat, NEW f \in [1 .. n -> S]
  PROVE  f \in Seq(S) /\ Len(f) = n
<1>1. f \in Seq(S) /\ DOMAIN f = 1 .. n
  BY SeqDef
<1>. QED
  BY <1>1, SeqLength

LEMMA EntriesType ==
  ASSUME NEW h \in [FrameIds -> Frame], NEW fs \in Seq(FrameIds)
  PROVE  /\ EntriesIn(h, fs) \in Seq(Entry) /\ Len(EntriesIn(h, fs)) = Len(fs) /\ Len(fs) \in Nat
         /\ \A i \in 1 .. Len(fs) :
              EntriesIn(h, fs)[i] = [kind |-> "fn", handlers |-> Len(h[fs[i]].trys)]
<1>1. Len(fs) \in Nat /\ \A i \in 1 .. Len(fs) : fs[i] \in FrameIds
  BY LenProperties, ElementOfSeq
<1>2. \A i \in 1 .. Len(fs) : [kind |-> "fn", handlers |-> Len(h[fs[i]].trys)] \in Entry
  BY <1>1, TrysType DEF Entry
<1>3. EntriesIn(h, fs) \in [1 .. Len(fs) -> Entry]
  BY <1>2 DEF EntriesIn
<1>4. EntriesIn(h, fs) \in Seq(Entry) /\ Len(EntriesIn(h, fs)) = Len(fs)
  BY <1>1, <1>3, FunctionIsSeq
<1>. QED
  BY <1>1, <1>4 DEF EntriesIn

LEMMA NativeEntryType == NativeEntry \in Entry
BY DEF NativeEntry, Entry

LEMMA PilesType ==
  ASSUME NEW h \in [FrameIds -> Frame], NEW s \in Seq(Seq(FrameIds))
  PROVE  /\ Piles(h, s) \in Seq(Seq(Entry)) /\ Len(Piles(h, s)) = Len(s) /\ Len(s) \in Nat
         /\ \A a \in 1 .. Len(s) : Piles(h, s)[a] = Append(EntriesIn(h, s[a]), NativeEntry)
<1>1. Len(s) \in Nat /\ \A a \in 1 .. Len(s) : s[a] \in Seq(FrameIds)
  BY LenProperties, ElementOfSeq
<1>2. \A a \in 1 .. Len(s) : Append(EntriesIn(h, s[a]), NativeEntry) \in Seq(Entry)
  BY <1>1, EntriesType, NativeEntryType, AppendProperties
<1>3. Piles(h, s) \in [1 .. Len(s) -> Seq(Entry)]
  BY <1>2 DEF Piles
<1>4. Piles(h, s) \in Seq(Seq(Entry)) /\ Len(Piles(h, s)) = Len(s)
  BY <1>1, <1>3, FunctionIsSeq
<1>. QED
  BY <1>1, <1>4 DEF Piles

LEMMA WaitingType ==
  ASSUME NEW h \in [FrameIds -> Frame], NEW s \in Seq(Seq(FrameIds))
  PROVE  Waiting(h, s) \in Seq(Entry)
BY PilesType, FlattenType DEF Waiting

LEMMA WaitingEmpty ==
  ASSUME NEW h \in [FrameIds -> Frame]
  PROVE  Waiting(h, <<>>) = <<>>
<1>1. <<>> \in Seq(Seq(FrameIds)) /\ Len(<<>>) = 0
  BY EmptySeq
<1>2. Piles(h, <<>>) \in Seq(Seq(Entry)) /\ Len(Piles(h, <<>>)) = 0
  BY <1>1, PilesType
<1>3. Piles(h, <<>>) = <<>>
  BY <1>2, EmptySeq
<1>. QED
  BY <1>3, FlattenEmpty DEF Waiting

\* CallClosure puts the running activation aside.
LEMMA WaitingPush ==
  ASSUME NEW h \in [FrameIds -> Frame], NEW s \in Seq(Seq(FrameIds)), NEW fs \in Seq(FrameIds)
  PROVE  Waiting(h, Append(s, fs)) = Waiting(h, s) \o Append(EntriesIn(h, fs), NativeEntry)
<1>. DEFINE x == Append(EntriesIn(h, fs), NativeEntry)
<1>1. /\ Append(s, fs) \in Seq(Seq(FrameIds)) /\ Len(Append(s, fs)) = Len(s) + 1 /\ Len(s) \in Nat
      /\ \A a \in 1 .. Len(s) : Append(s, fs)[a] = s[a]
      /\ Append(s, fs)[Len(s) + 1] = fs
  BY AppendProperties, LenProperties
<1>2. x \in Seq(Entry)
  BY EntriesType, NativeEntryType, AppendProperties
<1>3. /\ Piles(h, s) \in Seq(Seq(Entry)) /\ Len(Piles(h, s)) = Len(s)
      /\ \A a \in 1 .. Len(s) : Piles(h, s)[a] = Append(EntriesIn(h, s[a]), NativeEntry)
  BY PilesType
<1>4. /\ Piles(h, Append(s, fs)) \in Seq(Seq(Entry)) /\ Len(Piles(h, Append(s, fs))) = Len(s) + 1
      /\ \A a \in 1 .. Len(s) + 1 :
           Piles(h, Append(s, fs))[a] = Append(EntriesIn(h, Append(s, fs)[a]), NativeEntry)
  BY <1>1, PilesType
<1>a. \A a \in 1 .. Len(s) : Piles(h, Append(s, fs))[a] = Piles(h, s)[a]
  <2>. SUFFICES ASSUME NEW a \in 1 .. Len(s) PROVE Piles(h, Append(s, fs))[a] = Piles(h, s)[a]
    OBVIOUS
  <2>1. a \in 1 .. Len(s) + 1 /\ Append(s, fs)[a] = s[a]
    BY <1>1
  <2>2. Piles(h, Append(s, fs))[a] = Append(EntriesIn(h, Append(s, fs)[a]), NativeEntry)
    BY <1>4, <2>1
  <2>. QED
    BY <1>3, <2>1, <2>2
<1>b. Piles(h, Append(s, fs))[Len(s) + 1] = x
  <2>1. Len(s) + 1 \in 1 .. Len(s) + 1
    BY <1>1
  <2>2. Piles(h, Append(s, fs))[Len(s) + 1]
          = Append(EntriesIn(h, Append(s, fs)[Len(s) + 1]), NativeEntry)
    BY <1>4, <2>1
  <2>. QED
    BY <1>1, <2>2
<1>5. Piles(h, Append(s, fs)) = Append(Piles(h, s), x)
  <2>. DEFINE p == Piles(h, s)
              q == Piles(h, Append(s, fs))
  <2>. HIDE DEF x, p, q
  <2>1. /\ Append(p, x) \in Seq(Seq(Entry)) /\ Len(Append(p, x)) = Len(s) + 1
        /\ \A a \in 1 .. Len(s) : Append(p, x)[a] = p[a]
        /\ Append(p, x)[Len(s) + 1] = x
    BY <1>2, <1>3, AppendProperties DEF p
  <2>2. \A a \in 1 .. Len(s) : q[a] = p[a]
    BY <1>a DEF p, q
  <2>3. q[Len(s) + 1] = x
    BY <1>b DEF q
  <2>4. \A a \in 1 .. Len(s) + 1 : q[a] = Append(p, x)[a]
    BY <1>1, <2>1, <2>2, <2>3
  <2>5. q \in Seq(Seq(Entry)) /\ Len(q) = Len(s) + 1
    BY <1>4 DEF q
  <2>6. q = Append(p, x)
    BY <2>1, <2>4, <2>5, SeqEqual
  <2>. QED
    BY <2>6 DEF p, q
<1>. HIDE DEF x
<1>6. FlattenSeq(Append(Piles(h, s), x)) = FlattenSeq(Piles(h, s)) \o x
  BY <1>2, <1>3, FlattenAppend
<1>. QED
  BY <1>5, <1>6 DEF Waiting, x

\* Only the numbers of handlers matter.
LEMMA EntriesSame ==
  ASSUME NEW h \in [FrameIds -> Frame], NEW g \in [FrameIds -> Frame], NEW fs \in Seq(FrameIds),
         \A i \in 1 .. Len(fs) : Len(g[fs[i]].trys) = Len(h[fs[i]].trys)
  PROVE  EntriesIn(g, fs) = EntriesIn(h, fs)
BY DEF EntriesIn

LEMMA WaitingSame ==
  ASSUME NEW h \in [FrameIds -> Frame], NEW g \in [FrameIds -> Frame], NEW s \in Seq(Seq(FrameIds)),
         \A a \in 1 .. Len(s) : \A i \in 1 .. Len(s[a]) : Len(g[s[a][i]].trys) = Len(h[s[a][i]].trys)
  PROVE  Waiting(g, s) = Waiting(h, s)
<1>1. \A a \in 1 .. Len(s) : s[a] \in Seq(FrameIds)
  BY LenProperties, ElementOfSeq
<1>2. \A a \in 1 .. Len(s) : EntriesIn(g, s[a]) = EntriesIn(h, s[a])
  BY <1>1, EntriesSame
<1>3. Piles(g, s) = Piles(h, s)
  BY <1>2 DEF Piles
<1>. QED
  BY <1>3 DEF Waiting

\* The stack, by who runs.
StackIs ==
  /\ pc = "exec" => OneStack = Waiting(heap, saved) \o EntriesIn(heap, frames)
  /\ pc = "native" => OneStack = Append(Waiting(heap, saved) \o EntriesIn(heap, frames), NativeEntry)
  /\ pc \in {"done", "released"} => OneStack = <<>>

LEMMA StackKnown == TInv => StackIs
<1>. SUFFICES ASSUME TInv PROVE StackIs
  OBVIOUS
<1>1. /\ Waiting(heap, saved) \in Seq(Entry) /\ EntriesIn(heap, frames) \in Seq(Entry)
      /\ Waiting(heap, saved) \o EntriesIn(heap, frames) \in Seq(Entry)
  BY WaitingType, EntriesType, ConcatProperties DEF TInv, TypeOK
<1>2. /\ Waiting(heap, saved)
           = FlattenSeq([a \in 1 .. Len(saved) |-> Append(Entries(saved[a]), NativeEntry)])
      /\ EntriesIn(heap, frames) = Entries(frames)
  BY DEF Waiting, Piles, EntriesIn, Entries
<1>3. pc \in {"done", "released"} => OneStack = <<>>
  BY DEF OneStack
<1>4. pc \notin {"done", "released"} =>
        OneStack = (Waiting(heap, saved) \o EntriesIn(heap, frames))
                     \o (IF pc = "native" THEN <<NativeEntry>> ELSE <<>>)
  BY <1>2 DEF OneStack
<1>5. /\ (Waiting(heap, saved) \o EntriesIn(heap, frames)) \o <<>>
           = Waiting(heap, saved) \o EntriesIn(heap, frames)
      /\ (Waiting(heap, saved) \o EntriesIn(heap, frames)) \o <<NativeEntry>>
           = Append(Waiting(heap, saved) \o EntriesIn(heap, frames), NativeEntry)
  BY <1>1, ConcatEmptySeq, AppendIsConcat, NativeEntryType
<1>. QED
  BY <1>3, <1>4, <1>5 DEF StackIs

LEMMA StackKnownNext == TInv' => StackIs'
BY StackKnown, PTL

-----------------------------------------------------------------------------
(* CallStack, on a stack that is seen as the calls b that wait for a native *)
(* call to end and the script calls e above it.                            *)

Seen(b, e) ==
  /\ b \in Seq(Entry) /\ e \in Seq(Entry)
  /\ b = <<>> \/ b[Len(b)].kind = "native"
  /\ \A i \in 1 .. Len(e) : e[i].kind = "fn"

LEMMA SeenWhole ==
  ASSUME NEW b, NEW e, Seen(b, e)
  PROVE  /\ b \o e \in Seq(Entry) /\ Len(b \o e) = Len(b) + Len(e)
         /\ Len(b) \in Nat /\ Len(e) \in Nat /\ (b = <<>> <=> Len(b) = 0)
         /\ \A i \in 1 .. Len(b) : (b \o e)[i] = b[i]
         /\ \A i \in 1 .. Len(e) : (b \o e)[Len(b) + i] = e[i]
<1>1. b \in Seq(Entry) /\ e \in Seq(Entry)
  BY DEF Seen
<1>2. /\ b \o e \in Seq(Entry) /\ Len(b \o e) = Len(b) + Len(e)
      /\ \A i \in 1 .. Len(b) + Len(e) :
           (b \o e)[i] = IF i <= Len(b) THEN b[i] ELSE e[i - Len(b)]
  BY <1>1, ConcatProperties
<1>3. Len(b) \in Nat /\ Len(e) \in Nat
  BY <1>1, LenProperties
<1>4. b = <<>> <=> Len(b) = 0
  BY <1>1, EmptySeq
<1>5. \A i \in 1 .. Len(b) : i \in 1 .. Len(b) + Len(e) /\ i <= Len(b)
  BY <1>3
<1>6. \A i \in 1 .. Len(e) :
        /\ Len(b) + i \in 1 .. Len(b) + Len(e) /\ ~(Len(b) + i <= Len(b)) /\ Len(b) + i - Len(b) = i
  BY <1>3
<1>. QED
  BY <1>2, <1>3, <1>4, <1>5, <1>6

LEMMA MaxIs ==
  ASSUME NEW S \in SUBSET Nat, NEW m \in S, \A x \in S : x <= m
  PROVE  Calls!Max(S) = m
<1>1. \A y \in S : m >= y
  OBVIOUS
<1>2. \A x \in S : (\A y \in S : x >= y) => x = m
  OBVIOUS
<1>. QED
  BY <1>1, <1>2 DEF Calls!Max

\* Native calls confine an error to the script calls above the last of them.
LEMMA BarrierIs ==
  ASSUME NEW b, NEW e, Seen(b, e)
  PROVE  Calls!Barrier(b \o e) = Len(b) /\ SubSeq(b \o e, 1, Len(b)) = b
<1>. DEFINE s == b \o e
            S == {0} \cup {i \in 1 .. Len(s) : s[i].kind = "native"}
<1>1. /\ s \in Seq(Entry) /\ Len(s) = Len(b) + Len(e)
      /\ Len(b) \in Nat /\ Len(e) \in Nat /\ (b = <<>> <=> Len(b) = 0)
      /\ \A i \in 1 .. Len(b) : s[i] = b[i]
      /\ \A i \in 1 .. Len(e) : s[Len(b) + i] = e[i]
  BY SeenWhole
<1>2. Len(b) \in S
  <2>1. CASE Len(b) # 0
    <3>1. Len(b) \in 1 .. Len(b) /\ Len(b) \in 1 .. Len(s)
      BY <1>1, <2>1
    <3>2. s[Len(b)].kind = "native"
      BY <1>1, <2>1, <3>1 DEF Seen
    <3>. QED
      BY <3>1, <3>2
  <2>. QED
    BY <1>1, <2>1
<1>3. ASSUME NEW x \in S PROVE x <= Len(b)
  <2>1. CASE x \in 1 .. Len(s) /\ s[x].kind = "native" /\ x > Len(b)
    <3>1. x - Len(b) \in 1 .. Len(e) /\ Len(b) + (x - Len(b)) = x
      BY <1>1, <2>1
    <3>2. s[Len(b) + (x - Len(b))] = e[x - Len(b)]
      BY <1>1, <3>1
    <3>3. e[x - Len(b)].kind = "fn"
      BY <3>1 DEF Seen
    <3>4. s[x] = e[x - Len(b)]
      BY <3>1, <3>2
    <3>. QED
      BY <2>1, <3>3, <3>4
  <2>. QED
    BY <1>1, <2>1
<1>4. S \in SUBSET Nat
  BY <1>1
<1>5. Calls!Max(S) = Len(b)
  BY <1>2, <1>3, <1>4, MaxIs
<1>6. SubSeq(s, 1, Len(b)) = b
  <2>1. Len(b) \in 0 .. Len(s) /\ b \in Seq(Entry)
    BY <1>1 DEF Seen
  <2>2. /\ SubSeq(s, 1, Len(b)) \in Seq(Entry) /\ Len(SubSeq(s, 1, Len(b))) = Len(b)
        /\ \A i \in 1 .. Len(b) : SubSeq(s, 1, Len(b))[i] = s[i]
    BY <1>1, <2>1, PrefixType
  <2>. QED
    BY <1>1, <2>1, <2>2, SeqEqual
<1>. QED
  BY <1>5, <1>6 DEF Calls!Barrier

LEMMA LastSeen ==
  ASSUME NEW b, NEW e, Seen(b, e), e # <<>>
  PROVE  /\ b \o e # <<>> /\ Calls!Last(b \o e) = e[Len(e)] /\ Calls!Last(b \o e).kind = "fn"
         /\ Calls!Front(b \o e) = b \o Front(e)
<1>1. /\ b \o e \in Seq(Entry) /\ Len(b \o e) = Len(b) + Len(e)
      /\ Len(b) \in Nat /\ Len(e) \in Nat \ {0} /\ e \in Seq(Entry) /\ b \in Seq(Entry)
      /\ \A i \in 1 .. Len(b) : (b \o e)[i] = b[i]
      /\ \A i \in 1 .. Len(e) : (b \o e)[Len(b) + i] = e[i]
  BY SeenWhole, EmptySeq DEF Seen
<1>2. b \o e # <<>>
  BY <1>1, EmptySeq
<1>3. Calls!Last(b \o e) = e[Len(e)] /\ e[Len(e)].kind = "fn"
  BY <1>1 DEF Calls!Last, Seen
<1>4. Calls!Front(b \o e) = b \o Front(e)
  <2>. DEFINE s == b \o e
              t == b \o Front(e)
  <2>1. /\ Front(e) \in Seq(Entry) /\ Len(Front(e)) = Len(e) - 1
        /\ \A i \in 1 .. Len(e) - 1 : Front(e)[i] = e[i]
    BY <1>1, EmptySeq, FrontLast
  <2>2. /\ t \in Seq(Entry) /\ Len(t) = Len(b) + Len(e) - 1
        /\ \A i \in 1 .. Len(b) + Len(e) - 1 :
             t[i] = IF i <= Len(b) THEN b[i] ELSE Front(e)[i - Len(b)]
    <3>1. /\ t \in Seq(Entry) /\ Len(t) = Len(b) + Len(Front(e))
          /\ \A i \in 1 .. Len(b) + Len(Front(e)) :
               t[i] = IF i <= Len(b) THEN b[i] ELSE Front(e)[i - Len(b)]
      <4>1. b \in Seq(Entry) /\ Front(e) \in Seq(Entry)
        BY <1>1, <2>1
      <4>. QED
        BY <4>1, ConcatProperties
    <3>2. Len(b) + Len(Front(e)) = Len(b) + Len(e) - 1
      BY <1>1, <2>1
    <3>. QED
      BY <3>1, <3>2
  <2>3. Len(b) + Len(e) - 1 \in 0 .. Len(s)
    BY <1>1
  <2>4. /\ SubSeq(s, 1, Len(b) + Len(e) - 1) \in Seq(Entry)
        /\ Len(SubSeq(s, 1, Len(b) + Len(e) - 1)) = Len(b) + Len(e) - 1
        /\ \A i \in 1 .. Len(b) + Len(e) - 1 : SubSeq(s, 1, Len(b) + Len(e) - 1)[i] = s[i]
    BY <1>1, <2>3, PrefixType
  <2>. HIDE DEF s, t
  <2>5. ASSUME NEW i \in 1 .. Len(b) + Len(e) - 1 PROVE s[i] = t[i]
    <3>1. CASE i <= Len(b)
      BY <1>1, <2>2, <3>1 DEF s
    <3>2. CASE i > Len(b)
      <4>1. i - Len(b) \in 1 .. Len(e) - 1 /\ i - Len(b) \in 1 .. Len(e) /\ Len(b) + (i - Len(b)) = i
        BY <1>1, <3>2
      <4>2. s[Len(b) + (i - Len(b))] = e[i - Len(b)]
        BY <1>1, <4>1 DEF s
      <4>3. s[i] = e[i - Len(b)]
        BY <4>1, <4>2
      <4>4. t[i] = Front(e)[i - Len(b)]
        BY <1>1, <2>2, <3>2
      <4>. QED
        BY <2>1, <4>1, <4>3, <4>4
    <3>. QED
      BY <1>1, <3>1, <3>2
  <2>6. SubSeq(s, 1, Len(b) + Len(e) - 1) = t
    BY <2>2, <2>4, <2>5, SeqEqual
  <2>7. Calls!Front(b \o e) = SubSeq(s, 1, Len(s) - 1)
    BY DEF Calls!Front, s
  <2>8. Len(s) - 1 = Len(b) + Len(e) - 1
    BY <1>1 DEF s
  <2>. QED
    BY <2>6, <2>7, <2>8 DEF t
<1>. QED
  BY <1>2, <1>3, <1>4

\* Everything above the barrier is over.
LEMMA Unwinds ==
  ASSUME NEW b, NEW e, Seen(b, e), NEW o, OneStack' = b,
         outcome' = IF b = <<>> THEN o ELSE outcome
  PROVE  Calls!Unwind(b \o e, o)
<1>1. Calls!Barrier(b \o e) = Len(b) /\ SubSeq(b \o e, 1, Len(b)) = b
  BY BarrierIs
<1>2. b = <<>> <=> Len(b) = 0
  BY SeenWhole
<1>. QED
  BY <1>1, <1>2 DEF Calls!Unwind

\* No script call above the barrier has a handler.
LEMMA FailsUncaught ==
  ASSUME NEW b, NEW e, Seen(b, e), \A i \in 1 .. Len(e) : e[i].handlers = 0,
         Calls!Unwind(b \o e, "error")
  PROVE  Calls!Fail(b \o e)
<1>. DEFINE s == b \o e
<1>1. /\ Len(s) = Len(b) + Len(e) /\ Len(b) \in Nat /\ Len(e) \in Nat
      /\ \A i \in 1 .. Len(e) : s[Len(b) + i] = e[i]
  BY SeenWhole
<1>2. Calls!Barrier(s) = Len(b)
  BY BarrierIs
<1>. HIDE DEF s
<1>3. ASSUME NEW i \in Len(b) + 1 .. Len(s), s[i].handlers > 0 PROVE FALSE
  <2>1. i - Len(b) \in 1 .. Len(e) /\ Len(b) + (i - Len(b)) = i
    BY <1>1
  <2>2. s[Len(b) + (i - Len(b))] = e[i - Len(b)]
    BY <1>1, <2>1
  <2>3. s[i] = e[i - Len(b)] /\ e[i - Len(b)].handlers = 0
    BY <2>1, <2>2
  <2>. QED
    BY <1>3, <2>3
<1>4. Calls!Catchers(s) = {}
  BY <1>2, <1>3 DEF Calls!Catchers
<1>. QED
  BY <1>4 DEF Calls!Fail, s

\* The topmost script call with a handler is the m-th; it takes the error.
LEMMA FailsCaught ==
  ASSUME NEW b, NEW e, Seen(b, e), NEW m \in 1 .. Len(e), e[m].handlers > 0,
         \A i \in 1 .. Len(e) : e[i].handlers > 0 => i <= m,
         NEW d \in Seq(Entry), Len(d) = m, \A i \in 1 .. m - 1 : d[i] = e[i],
         d[m] = [kind |-> "fn", handlers |-> e[m].handlers - 1],
         OneStack' = b \o d, outcome' = outcome
  PROVE  Calls!Fail(b \o e)
<1>. DEFINE s == b \o e
            C == Calls!Catchers(s)
            k == Len(b) + m
<1>1. /\ s \in Seq(Entry) /\ Len(s) = Len(b) + Len(e) /\ Len(b) \in Nat /\ Len(e) \in Nat
      /\ \A i \in 1 .. Len(b) : s[i] = b[i]
      /\ \A i \in 1 .. Len(e) : s[Len(b) + i] = e[i]
  BY SeenWhole
<1>2. Calls!Barrier(s) = Len(b)
  BY BarrierIs
<1>3. s[k] = e[m] /\ k \in Len(b) + 1 .. Len(s) /\ k \in Nat
  BY <1>1
<1>4. b \in Seq(Entry)
  BY DEF Seen
<1>. HIDE DEF s
<1>5. C = {i \in Len(b) + 1 .. Len(s) : s[i].handlers > 0}
  BY <1>2 DEF Calls!Catchers
<1>6. k \in C
  BY <1>3, <1>5
<1>7. ASSUME NEW x \in C PROVE x <= k
  <2>0. x \in Len(b) + 1 .. Len(s) /\ s[x].handlers > 0
    BY <1>5
  <2>1. x - Len(b) \in 1 .. Len(e) /\ Len(b) + (x - Len(b)) = x
    BY <1>1, <2>0
  <2>2. s[Len(b) + (x - Len(b))] = e[x - Len(b)]
    BY <1>1, <2>1
  <2>3. e[x - Len(b)].handlers > 0
    BY <2>0, <2>1, <2>2
  <2>4. x - Len(b) <= m
    BY <2>1, <2>3
  <2>. QED
    BY <1>1, <2>1, <2>4
<1>8. C \in SUBSET Nat
  BY <1>1, <1>5
<1>9. Calls!Max(C) = k
  BY <1>6, <1>7, <1>8, MaxIs
<1>. DEFINE p == SubSeq(s, 1, k - 1)
            x == [kind |-> "fn", handlers |-> e[m].handlers - 1]
            t == b \o d
<1>10. p \in Seq(Entry) /\ Len(p) = k - 1 /\ \A i \in 1 .. k - 1 : p[i] = s[i]
  <2>1. k - 1 \in 0 .. Len(s)
    BY <1>1, <1>3
  <2>. QED
    BY <1>1, <2>1, PrefixType
<1>11. x \in Entry
  <2>1. d[m] \in Entry
    BY ElementOfSeq
  <2>. QED
    BY <2>1
<1>12. /\ t \in Seq(Entry) /\ Len(t) = k
       /\ \A i \in 1 .. k : t[i] = IF i <= Len(b) THEN b[i] ELSE d[i - Len(b)]
  BY <1>4, ConcatProperties
<1>. HIDE DEF p, x, t, k
<1>13. /\ Append(p, x) \in Seq(Entry) /\ Len(Append(p, x)) = Len(p) + 1
       /\ \A i \in 1 .. Len(p) : Append(p, x)[i] = p[i]
       /\ Append(p, x)[Len(p) + 1] = x
  BY <1>10, <1>11, AppendProperties
<1>14. ASSUME NEW i \in 1 .. k PROVE Append(p, x)[i] = t[i]
  <2>0. k = Len(b) + m /\ k \in Nat /\ m \in Nat
    BY <1>1, <1>3 DEF k
  <2>1. CASE i = k
    <3>1. Append(p, x)[i] = x
      BY <1>10, <1>13, <2>0, <2>1
    <3>2. ~(i <= Len(b)) /\ i - Len(b) = m
      BY <1>1, <2>0, <2>1
    <3>3. t[i] = d[m]
      BY <1>12, <3>2
    <3>. QED
      BY <3>1, <3>3 DEF x
  <2>2. CASE i <= Len(b)
    <3>1. i \in 1 .. k - 1 /\ i \in 1 .. Len(b)
      BY <1>1, <2>0, <2>2
    <3>2. Append(p, x)[i] = s[i]
      BY <1>10, <1>13, <3>1
    <3>3. t[i] = b[i]
      BY <1>12, <2>2
    <3>. QED
      BY <1>1, <3>1, <3>2, <3>3
  <2>3. CASE i > Len(b) /\ i # k
    <3>1. /\ i \in 1 .. k - 1 /\ i - Len(b) \in 1 .. m - 1 /\ i - Len(b) \in 1 .. Len(e)
          /\ Len(b) + (i - Len(b)) = i /\ ~(i <= Len(b))
      BY <1>1, <2>0, <2>3
    <3>2. Append(p, x)[i] = s[i]
      BY <1>10, <1>13, <3>1
    <3>3. s[Len(b) + (i - Len(b))] = e[i - Len(b)]
      BY <1>1, <3>1
    <3>4. t[i] = d[i - Len(b)] /\ d[i - Len(b)] = e[i - Len(b)]
      BY <1>12, <3>1
    <3>5. s[i] = e[i - Len(b)]
      BY <3>1, <3>3
    <3>. QED
      BY <3>2, <3>4, <3>5
  <2>4. i <= Len(b) \/ i > Len(b)
    BY <1>1, <2>0
  <2>. QED
    BY <2>1, <2>2, <2>3, <2>4
<1>15. Append(p, x) = t
  <2>1. k \in Nat
    BY <1>3
  <2>2. Len(Append(p, x)) = k
    BY <1>10, <1>13, <2>1
  <2>. QED
    BY <1>12, <1>13, <1>14, <2>2, SeqEqual
<1>16. s[k] = e[m]
  BY <1>3
<1>17. OneStack' = Append(SubSeq(s, 1, k - 1), [kind |-> "fn", handlers |-> s[k].handlers - 1])
  BY <1>15, <1>16 DEF t, p, x
<1>18. C # {}
  BY <1>6
<1>. QED
  BY <1>9, <1>17, <1>18 DEF Calls!Fail, Calls!Fn, s

-----------------------------------------------------------------------------
(* Each step of the interpreter is a step of the one stack.                *)

Below0 == Waiting(heap, saved)
Above0 == EntriesIn(heap, frames)

\* A native call, if any, separates those that wait from those that run.
Parts ==
  pc \in {"exec", "native"} =>
    /\ Seen(Below0, Above0) /\ Above0 # <<>> /\ (Below0 = <<>> <=> saved = <<>>)
    /\ Len(Above0) = Len(frames) /\ Len(frames) \in Nat \ {0}
    /\ \A i \in 1 .. Len(frames) : Above0[i] = [kind |-> "fn", handlers |-> Len(heap[frames[i]].trys)]

LEMMA PartsKnown == TInv => Parts
<1>. SUFFICES ASSUME TInv, pc \in {"exec", "native"}
              PROVE  /\ Seen(Below0, Above0) /\ Above0 # <<>> /\ (Below0 = <<>> <=> saved = <<>>)
                     /\ Len(Above0) = Len(frames) /\ Len(frames) \in Nat \ {0}
                     /\ \A i \in 1 .. Len(frames) :
                          Above0[i] = [kind |-> "fn", handlers |-> Len(heap[frames[i]].trys)]
  BY DEF Parts
<1>1. /\ heap \in [FrameIds -> Frame] /\ saved \in Seq(Seq(FrameIds)) /\ frames \in Seq(FrameIds)
      /\ frames # <<>>
  BY DEF TInv, TypeOK, Shape
<1>2. /\ Below0 \in Seq(Entry) /\ Above0 \in Seq(Entry) /\ Len(Above0) = Len(frames)
      /\ Len(frames) \in Nat \ {0}
      /\ \A i \in 1 .. Len(frames) :
           Above0[i] = [kind |-> "fn", handlers |-> Len(heap[frames[i]].trys)]
  BY <1>1, WaitingType, EntriesType, EmptySeq DEF Below0, Above0
<1>3. Above0 # <<>>
  BY <1>2, EmptySeq
<1>4. saved = <<>> => Below0 = <<>>
  BY <1>1, WaitingEmpty DEF Below0
<1>5. saved # <<>> => Below0 # <<>> /\ Below0[Len(Below0)].kind = "native"
  <2>. SUFFICES ASSUME saved # <<>>
                PROVE  Below0 # <<>> /\ Below0[Len(Below0)].kind = "native"
    OBVIOUS
  <2>1. /\ Front(saved) \in Seq(Seq(FrameIds)) /\ Last(saved) \in Seq(FrameIds)
        /\ saved = Append(Front(saved), Last(saved))
    BY <1>1, FrontAppend
  <2>. DEFINE u == Waiting(heap, Front(saved))
              t == EntriesIn(heap, Last(saved))
              v == Append(t, NativeEntry)
  <2>2. Waiting(heap, Append(Front(saved), Last(saved))) = u \o v
    BY <1>1, <2>1, WaitingPush
  <2>3. Below0 = u \o v
    BY <2>1, <2>2 DEF Below0
  <2>4. u \in Seq(Entry) /\ t \in Seq(Entry)
    BY <1>1, <2>1, WaitingType, EntriesType
  <2>. HIDE DEF u, t
  <2>5. v \in Seq(Entry) /\ Len(v) = Len(t) + 1 /\ v[Len(t) + 1] = NativeEntry
        /\ Len(u) \in Nat /\ Len(t) \in Nat
    BY <2>4, NativeEntryType, AppendProperties, LenProperties
  <2>. HIDE DEF v
  <2>6. /\ Len(u \o v) = Len(u) + Len(v)
        /\ \A i \in 1 .. Len(u) + Len(v) : (u \o v)[i] = IF i <= Len(u) THEN u[i] ELSE v[i - Len(u)]
    BY <2>4, <2>5, ConcatProperties
  <2>7. Len(u) + Len(v) \in 1 .. Len(u) + Len(v) /\ ~(Len(u) + Len(v) <= Len(u))
        /\ Len(u) + Len(v) - Len(u) = Len(t) + 1 /\ Len(u) + Len(v) # 0
    BY <2>5
  <2>8. (u \o v)[Len(u \o v)] = NativeEntry /\ Len(u \o v) # 0
    BY <2>5, <2>6, <2>7
  <2>9. u \o v # <<>>
    BY <2>8, EmptySeq
  <2>. QED
    BY <2>3, <2>8, <2>9 DEF NativeEntry
<1>6. Seen(Below0, Above0)
  <2>1. \A i \in 1 .. Len(Above0) : Above0[i].kind = "fn"
    <3>. SUFFICES ASSUME NEW i \in 1 .. Len(Above0) PROVE Above0[i].kind = "fn"
      OBVIOUS
    <3>1. i \in 1 .. Len(frames)
      BY <1>2
    <3>2. Above0[i] = [kind |-> "fn", handlers |-> Len(heap[frames[i]].trys)]
      BY <1>2, <3>1
    <3>. QED
      BY <3>2
  <2>2. Below0 = <<>> \/ Below0[Len(Below0)].kind = "native"
    BY <1>4, <1>5
  <2>. QED
    BY <1>2, <2>1, <2>2 DEF Seen
<1>. QED
  BY <1>2, <1>3, <1>4, <1>5, <1>6

LEMMA ConcatAppend ==
  ASSUME NEW S, NEW s \in Seq(S), NEW t \in Seq(S), NEW x \in S
  PROVE  s \o Append(t, x) = Append(s \o t, x)
<1>1. <<x>> \in Seq(S) /\ s \o t \in Seq(S)
  BY ConcatProperties
<1>2. s \o (t \o <<x>>) = (s \o t) \o <<x>>
  BY <1>1, ConcatAssociative
<1>3. Append(t, x) = t \o <<x>> /\ Append(s \o t, x) = (s \o t) \o <<x>>
  BY <1>1, AppendIsConcat
<1>. QED
  BY <1>2, <1>3

\* What Front and Last see of a sequence after Append.
LEMMA AppendEnds ==
  ASSUME NEW S, NEW s \in Seq(S), NEW x \in S
  PROVE  /\ Calls!Last(Append(s, x)) = x /\ Calls!Front(Append(s, x)) = s /\ Append(s, x) # <<>>
<1>. DEFINE t == Append(s, x)
<1>1. /\ t \in Seq(S) /\ t # <<>> /\ Len(t) = Len(s) + 1 /\ Len(s) \in Nat
      /\ \A i \in 1 .. Len(s) : t[i] = s[i]
      /\ t[Len(s) + 1] = x
  BY AppendProperties, LenProperties
<1>. HIDE DEF t
<1>2. Len(s) \in 0 .. Len(t) /\ Len(t) - 1 = Len(s)
  BY <1>1
<1>3. /\ SubSeq(t, 1, Len(s)) \in Seq(S) /\ Len(SubSeq(t, 1, Len(s))) = Len(s)
      /\ \A i \in 1 .. Len(s) : SubSeq(t, 1, Len(s))[i] = t[i]
  BY <1>1, <1>2, PrefixType
<1>4. SubSeq(t, 1, Len(s)) = s
  BY <1>1, <1>3, SeqEqual
<1>. QED
  BY <1>1, <1>2, <1>4 DEF t, Calls!Last, Calls!Front

\* The waiting calls do not change with what happens above them.
LEMMA BelowKeeps ==
  ASSUME TInv, TInv', saved' = saved, \A f \in Suspended : Len(heap'[f].trys) = Len(heap[f].trys)
  PROVE  Waiting(heap', saved') = Below0
<1>0. ActsKnown
  BY KnownActs
<1>1. /\ heap \in [FrameIds -> Frame] /\ heap' \in [FrameIds -> Frame]
      /\ saved \in Seq(Seq(FrameIds))
  BY DEF TInv, TypeOK
<1>2. \A a \in 1 .. Len(saved) : \A i \in 1 .. Len(saved[a]) : saved[a][i] \in Suspended
  BY <1>0 DEF ActsKnown
<1>3. \A a \in 1 .. Len(saved) : \A i \in 1 .. Len(saved[a]) :
        Len(heap'[saved[a][i]].trys) = Len(heap[saved[a][i]].trys)
  BY <1>2
<1>4. Waiting(heap', saved) = Waiting(heap, saved)
  BY <1>1, <1>3, WaitingSame
<1>. QED
  BY <1>4 DEF Below0

LEMMA AboveKeeps ==
  ASSUME TInv, TInv', frames' = frames,
         \A f \in Range(frames) : Len(heap'[f].trys) = Len(heap[f].trys)
  PROVE  EntriesIn(heap', frames') = Above0
<1>0. ActsKnown
  BY KnownActs
<1>1. /\ heap \in [FrameIds -> Frame] /\ heap' \in [FrameIds -> Frame] /\ frames \in Seq(FrameIds)
  BY DEF TInv, TypeOK
<1>2. \A i \in 1 .. Len(frames) : frames[i] \in Range(frames)
  BY <1>0 DEF ActsKnown
<1>3. \A i \in 1 .. Len(frames) : Len(heap'[frames[i]].trys) = Len(heap[frames[i]].trys)
  BY <1>2
<1>4. EntriesIn(heap', frames) = EntriesIn(heap, frames)
  BY <1>1, <1>3, EntriesSame
<1>. QED
  BY <1>4 DEF Above0

\* What execute() leaves: the calls below the native call, or none.
LEMMA Leaves ==
  ASSUME TInv, TInv', NoFrameReuse, pc \in {"exec", "native"},
         NEW fs \in Seq(FrameIds), NEW h \in [FrameIds -> Frame], NEW o, Leave(fs, h, o),
         Len(fs) <= Len(frames), \A i \in 1 .. Len(fs) : fs[i] = frames[i],
         \A f \in Suspended \cup Range(fs) :
           h[f].retReg = heap[f].retReg /\ h[f].nilled = heap[f].nilled,
         \A f \in Suspended : h[f] = heap[f]
  PROVE  OneStack' = Below0 /\ outcome' = IF Below0 = <<>> THEN o ELSE outcome
<1>0. ActsKnown /\ StackIs' /\ Parts
  BY KnownActs, StackKnownNext, PartsKnown
<1>1. /\ heap \in [FrameIds -> Frame] /\ heap' \in [FrameIds -> Frame]
      /\ saved \in Seq(Seq(FrameIds)) /\ frames \in Seq(FrameIds)
  BY DEF TInv, TypeOK
<1>2. CASE saved = <<>>
  <2>1. pc' = "done" /\ outcome' = o /\ Below0 = <<>>
    BY <1>0, <1>2 DEF Leave, Parts
  <2>. QED
    BY <1>0, <2>1 DEF StackIs
<1>3. CASE saved # <<>>
  <2>1. /\ pc' = "native" /\ outcome' = outcome /\ Below0 # <<>>
        /\ frames' = Last(saved) /\ saved' = Front(saved)
    BY <1>0, <1>3 DEF Leave, Parts
  <2>2. /\ Front(saved) \in Seq(Seq(FrameIds)) /\ Last(saved) \in Seq(FrameIds)
        /\ saved = Append(Front(saved), Last(saved))
    BY <1>1, <1>3, FrontAppend
  <2>3. \A f \in Suspended : heap'[f] = heap[f]
    BY <1>3, LeaveFalls
  <2>4. /\ Len(saved) \in Nat \ {0} /\ Len(Front(saved)) = Len(saved) - 1
        /\ \A a \in 1 .. Len(saved) - 1 : Front(saved)[a] = saved[a]
        /\ Last(saved) = saved[Len(saved)] /\ Len(saved) \in 1 .. Len(saved)
    BY <1>1, <1>3, FrontLast DEF Last
  <2>5. \A i \in 1 .. Len(Last(saved)) : Last(saved)[i] \in Suspended
    BY <1>0, <2>4 DEF ActsKnown
  <2>6. EntriesIn(heap', Last(saved)) = EntriesIn(heap, Last(saved))
    <3>1. \A i \in 1 .. Len(Last(saved)) : Len(heap'[Last(saved)[i]].trys) = Len(heap[Last(saved)[i]].trys)
      BY <2>3, <2>5
    <3>. QED
      BY <1>1, <2>2, <3>1, EntriesSame
  <2>7. Waiting(heap', Front(saved)) = Waiting(heap, Front(saved))
    <3>1. ASSUME NEW a \in 1 .. Len(Front(saved)), NEW i \in 1 .. Len(Front(saved)[a])
          PROVE  Len(heap'[Front(saved)[a][i]].trys) = Len(heap[Front(saved)[a][i]].trys)
      <4>1. a \in 1 .. Len(saved) /\ Front(saved)[a] = saved[a]
        BY <2>4
      <4>2. Front(saved)[a][i] \in Suspended
        BY <1>0, <4>1 DEF ActsKnown
      <4>. QED
        BY <2>3, <4>2
    <3>. QED
      BY <1>1, <2>2, <3>1, WaitingSame
  <2>8. /\ Waiting(heap, Front(saved)) \in Seq(Entry) /\ EntriesIn(heap, Last(saved)) \in Seq(Entry)
    BY <1>1, <2>2, WaitingType, EntriesType
  <2>9. Waiting(heap, Append(Front(saved), Last(saved)))
          = Waiting(heap, Front(saved)) \o Append(EntriesIn(heap, Last(saved)), NativeEntry)
    BY <1>1, <2>2, WaitingPush
  <2>10. Below0 = Append(Waiting(heap, Front(saved)) \o EntriesIn(heap, Last(saved)), NativeEntry)
    <3>1. Waiting(heap, Front(saved)) \o Append(EntriesIn(heap, Last(saved)), NativeEntry)
            = Append(Waiting(heap, Front(saved)) \o EntriesIn(heap, Last(saved)), NativeEntry)
      BY <2>8, ConcatAppend, NativeEntryType
    <3>. QED
      BY <2>2, <2>9, <3>1 DEF Below0
  <2>11. OneStack' = Append(Waiting(heap', saved') \o EntriesIn(heap', frames'), NativeEntry)
    BY <1>0, <2>1 DEF StackIs
  <2>. QED
    BY <2>1, <2>6, <2>7, <2>10, <2>11
<1>. QED
  BY <1>2, <1>3

LEMMA LeaveUnwinds ==
  ASSUME TInv, TInv', NoFrameReuse, pc \in {"exec", "native"},
         NEW fs \in Seq(FrameIds), NEW h \in [FrameIds -> Frame], NEW o, Leave(fs, h, o),
         Len(fs) <= Len(frames), \A i \in 1 .. Len(fs) : fs[i] = frames[i],
         \A f \in Suspended \cup Range(fs) :
           h[f].retReg = heap[f].retReg /\ h[f].nilled = heap[f].nilled,
         \A f \in Suspended : h[f] = heap[f]
  PROVE  Calls!Unwind(Below0 \o Above0, o)
<1>1. OneStack' = Below0 /\ outcome' = IF Below0 = <<>> THEN o ELSE outcome
  BY Leaves
<1>2. Seen(Below0, Above0)
  BY PartsKnown DEF Parts
<1>. HIDE DEF Below0, Above0
<1>. QED
  BY <1>1, <1>2, Unwinds

LEMMA AbandonUnwinds ==
  ASSUME TInv, TInv', NoFrameReuse, pc \in {"exec", "native"}, NEW o, Leave(frames, heap, o)
  PROVE  Calls!Unwind(Below0 \o Above0, o)
<1>1. /\ frames \in Seq(FrameIds) /\ heap \in [FrameIds -> Frame] /\ Len(frames) \in Nat
  BY LenProperties DEF TInv, TypeOK
<1>2. Len(frames) <= Len(frames)
  BY <1>1
<1>. QED
  BY <1>1, <1>2, LeaveUnwinds

\* What the abstract step reads of the stack.
LEMMA Running ==
  ASSUME TInv, pc \in {"exec", "native"}
  PROVE  /\ pc = "exec" => /\ OneStack = Below0 \o Above0 /\ Calls!Running("fn")
                           /\ Calls!Last(OneStack).handlers = Len(heap[Cur].trys)
                           /\ Calls!Front(OneStack) = Below0 \o Front(Above0)
         /\ pc = "native" => /\ OneStack = Append(Below0 \o Above0, NativeEntry)
                             /\ Calls!Running("native")
                             /\ Calls!Front(OneStack) = Below0 \o Above0
         /\ Below0 \in Seq(Entry) /\ Above0 \in Seq(Entry) /\ Below0 \o Above0 \in Seq(Entry)
         /\ Len(OneStack) = Len(Below0) + Len(frames) + (IF pc = "native" THEN 1 ELSE 0)
<1>1. StackIs /\ Parts
  BY StackKnown, PartsKnown
<1>2. /\ Seen(Below0, Above0) /\ Above0 # <<>> /\ Len(Above0) = Len(frames) /\ Len(frames) \in Nat \ {0}
      /\ \A i \in 1 .. Len(frames) :
           Above0[i] = [kind |-> "fn", handlers |-> Len(heap[frames[i]].trys)]
  BY <1>1 DEF Parts
<1>3. /\ pc = "exec" => OneStack = Below0 \o Above0
      /\ pc = "native" => OneStack = Append(Below0 \o Above0, NativeEntry)
  BY <1>1 DEF StackIs, Below0, Above0
<1>. HIDE DEF Below0, Above0
<1>4. /\ Below0 \o Above0 # <<>> /\ Calls!Last(Below0 \o Above0) = Above0[Len(Above0)]
      /\ Calls!Last(Below0 \o Above0).kind = "fn"
      /\ Calls!Front(Below0 \o Above0) = Below0 \o Front(Above0)
  BY <1>2, LastSeen
<1>5. Above0[Len(Above0)].handlers = Len(heap[Cur].trys)
  <2>1. Len(frames) \in 1 .. Len(frames) /\ Cur = frames[Len(frames)]
    BY <1>2 DEF Cur, Last
  <2>2. Above0[Len(frames)] = [kind |-> "fn", handlers |-> Len(heap[frames[Len(frames)]].trys)]
    BY <1>2, <2>1
  <2>. QED
    BY <1>2, <2>1, <2>2
<1>6. /\ Below0 \in Seq(Entry) /\ Above0 \in Seq(Entry) /\ Below0 \o Above0 \in Seq(Entry)
      /\ Len(Below0 \o Above0) = Len(Below0) + Len(frames) /\ Len(Below0) \in Nat
  <2>1. Below0 \in Seq(Entry) /\ Above0 \in Seq(Entry)
    BY <1>2 DEF Seen
  <2>2. /\ Below0 \o Above0 \in Seq(Entry) /\ Len(Below0 \o Above0) = Len(Below0) + Len(Above0)
        /\ Len(Below0) \in Nat
    BY <1>2, SeenWhole
  <2>. QED
    BY <1>2, <2>1, <2>2
<1>7. /\ Calls!Last(Append(Below0 \o Above0, NativeEntry)) = NativeEntry
      /\ Calls!Front(Append(Below0 \o Above0, NativeEntry)) = Below0 \o Above0
      /\ Append(Below0 \o Above0, NativeEntry) # <<>>
      /\ Len(Append(Below0 \o Above0, NativeEntry)) = Len(Below0 \o Above0) + 1
  <2>. DEFINE s == Below0 \o Above0
  <2>1. s \in Seq(Entry)
    BY <1>6
  <2>. HIDE DEF s
  <2>2. /\ Calls!Last(Append(s, NativeEntry)) = NativeEntry
        /\ Calls!Front(Append(s, NativeEntry)) = s
        /\ Append(s, NativeEntry) # <<>>
    BY <2>1, AppendEnds, NativeEntryType
  <2>3. Len(Append(s, NativeEntry)) = Len(s) + 1
    BY <2>1, AppendProperties, NativeEntryType
  <2>. QED
    BY <2>2, <2>3 DEF s
<1>8. pc = "exec" => Calls!Running("fn")
  BY <1>3, <1>4 DEF Calls!Running
<1>9. pc = "native" => Calls!Running("native")
  <2>. SUFFICES ASSUME pc = "native" PROVE Calls!Running("native")
    OBVIOUS
  <2>1. OneStack # <<>> /\ Calls!Last(OneStack) = NativeEntry
    BY <1>3, <1>7
  <2>2. NativeEntry.kind = "native"
    BY DEF NativeEntry
  <2>. QED
    BY <2>1, <2>2 DEF Calls!Running
<1>10. Len(OneStack) = Len(Below0) + Len(frames) + (IF pc = "native" THEN 1 ELSE 0)
  BY <1>2, <1>3, <1>6, <1>7
<1>. QED
  BY <1>3, <1>4, <1>5, <1>6, <1>7, <1>8, <1>9, <1>10

\* Steps inside a frame that leave the handlers alone.
LEMMA Stutters ==
  ASSUME TInv, TInv', pc' = pc, saved' = saved, frames' = frames,
         \A f \in Referenced : Len(heap'[f].trys) = Len(heap[f].trys)
  PROVE  OneStack' = OneStack
<1>1. StackIs /\ StackIs'
  BY StackKnown, StackKnownNext
<1>2. Waiting(heap', saved') = Waiting(heap, saved) /\ EntriesIn(heap', frames') = EntriesIn(heap, frames)
  BY BelowKeeps, AboveKeeps DEF Referenced, Below0, Above0
<1>3. pc \in {"exec", "native", "done", "released"}
  BY DEF TInv, TypeOK
<1>. QED
  BY <1>1, <1>2, <1>3 DEF StackIs

LEMMA RaiseFails ==
  ASSUME TInv, TInv', NoFrameReuse, pc \in {"exec", "native"}, Raise
  PROVE  Calls!Fail(Below0 \o Above0)
<1>0. Parts /\ ActsKnown /\ StackIs'
  BY PartsKnown, KnownActs, StackKnownNext
<1>1. /\ Seen(Below0, Above0) /\ Above0 # <<>> /\ Len(Above0) = Len(frames) /\ Len(frames) \in Nat \ {0}
      /\ \A i \in 1 .. Len(frames) :
           Above0[i] = [kind |-> "fn", handlers |-> Len(heap[frames[i]].trys)]
  BY <1>0 DEF Parts
<1>2. /\ heap \in [FrameIds -> Frame] /\ heap' \in [FrameIds -> Frame]
      /\ frames \in Seq(FrameIds) /\ frames' \in Seq(FrameIds)
  BY DEF TInv, TypeOK
<1>3. \A i \in 1 .. Len(frames) :
        /\ frames[i] \in FrameIds /\ frames[i] \in Referenced /\ Above0[i].handlers = Len(heap[frames[i]].trys)
        /\ Len(heap[frames[i]].trys) \in Nat
        /\ (heap[frames[i]].trys # <<>> <=> Len(heap[frames[i]].trys) > 0)
  <2>. SUFFICES ASSUME NEW i \in 1 .. Len(frames)
                PROVE  /\ frames[i] \in FrameIds /\ frames[i] \in Referenced
                       /\ Above0[i].handlers = Len(heap[frames[i]].trys)
                       /\ Len(heap[frames[i]].trys) \in Nat
                       /\ (heap[frames[i]].trys # <<>> <=> Len(heap[frames[i]].trys) > 0)
    OBVIOUS
  <2>1. frames[i] \in FrameIds /\ frames[i] \in Referenced
    BY <1>0, <1>2, ElementOfSeq DEF ActsKnown, Referenced
  <2>2. heap[frames[i]].trys \in Seq(Handler) /\ Len(heap[frames[i]].trys) \in Nat
    BY <1>2, <2>1, TrysType
  <2>3. heap[frames[i]].trys # <<>> <=> Len(heap[frames[i]].trys) > 0
    BY <2>2, EmptySeq
  <2>4. Above0[i].handlers = Len(heap[frames[i]].trys)
    <3>1. Above0[i] = [kind |-> "fn", handlers |-> Len(heap[frames[i]].trys)]
      BY <1>1
    <3>. QED
      BY <3>1
  <2>. QED
    BY <2>1, <2>2, <2>3, <2>4
<1>4. CASE Handling = {}
  <2>1. Calls!Unwind(Below0 \o Above0, "error")
    BY <1>4, AbandonUnwinds DEF Raise
  <2>2. \A i \in 1 .. Len(Above0) : Above0[i].handlers = 0
    BY <1>1, <1>3, <1>4 DEF Handling
  <2>. HIDE DEF Below0, Above0
  <2>. QED
    BY <1>1, <2>1, <2>2, FailsUncaught
<1>5. CASE Handling # {}
  <2>1. PICK m \in Handling : (\A j \in Handling : j <= m) /\ Catch(m)
    BY <1>5 DEF Raise
  <2>2. pc' = "exec" /\ saved' = saved /\ outcome' = outcome
    BY <1>5 DEF Raise
  <2>3. /\ Falls /\ Untouched /\ Len(frames') = m /\ m \in 1 .. Len(frames)
        /\ \A x \in Referenced' :
             heap'[x].trys = IF x = frames[m] THEN Front(heap[x].trys) ELSE heap[x].trys
    BY <2>1, <2>2, CatchFalls
  <2>4. Suspended' = Suspended
    BY <2>2 DEF Suspended
  <2>5. Waiting(heap', saved') = Below0
    BY <2>2, <2>3, <2>4, BelowKeeps DEF Untouched
  <2>. DEFINE d == EntriesIn(heap', frames')
  <2>6. /\ d \in Seq(Entry) /\ Len(d) = m
        /\ \A i \in 1 .. m : d[i] = [kind |-> "fn", handlers |-> Len(heap'[frames'[i]].trys)]
    BY <1>2, <2>3, EntriesType
  <2>7. OneStack' = Below0 \o d
    BY <1>0, <2>2, <2>5 DEF StackIs
  <2>8. \A i \in 1 .. m : i \in 1 .. Len(frames) /\ frames'[i] = frames[i] /\ frames[i] \in Referenced'
    <3>1. \A i \in 1 .. m : i \in 1 .. Len(frames)
      BY <1>1, <2>3
    <3>2. \A i \in 1 .. m : frames'[i] = frames[i]
      BY <1>0, <2>2, <2>3 DEF ActsKnown, Falls
    <3>3. ActsKnown'
      BY KnownActsNext
    <3>4. \A i \in 1 .. m : frames'[i] \in Range(frames')
      BY <2>3, <3>3 DEF ActsKnown
    <3>. QED
      BY <3>1, <3>2, <3>4 DEF Referenced
  <2>9. ASSUME NEW i \in 1 .. m - 1 PROVE d[i] = Above0[i]
    <3>1. i \in 1 .. m /\ i # m /\ m \in 1 .. Len(frames)
      BY <1>1, <2>3
    <3>2. i \in 1 .. Len(frames) /\ frames'[i] = frames[i] /\ frames[i] \in Referenced'
      BY <2>8, <3>1
    <3>3. frames[i] # frames[m]
      BY <3>1, <3>2, Apart
    <3>4. heap'[frames[i]].trys = heap[frames[i]].trys
      BY <2>3, <3>2, <3>3
    <3>5. d[i] = [kind |-> "fn", handlers |-> Len(heap'[frames'[i]].trys)]
      BY <2>6, <3>1
    <3>. QED
      BY <1>1, <3>2, <3>4, <3>5
  <2>10. heap[frames[m]].trys # <<>>
    BY DEF Handling
  <2>11. d[m] = [kind |-> "fn", handlers |-> Above0[m].handlers - 1]
    <3>1. m \in 1 .. m
      BY <1>1, <2>3
    <3>2. frames'[m] = frames[m] /\ frames[m] \in Referenced'
      BY <2>8, <3>1
    <3>3. heap'[frames[m]].trys = Front(heap[frames[m]].trys)
      BY <2>3, <3>2
    <3>4. heap[frames[m]].trys \in Seq(Handler)
      BY <1>2, <1>3, <2>3, TrysType
    <3>5. Len(Front(heap[frames[m]].trys)) = Len(heap[frames[m]].trys) - 1
      BY <2>10, <3>4, FrontLast
    <3>6. Len(heap'[frames'[m]].trys) = Above0[m].handlers - 1
      BY <1>3, <2>3, <3>2, <3>3, <3>5
    <3>. QED
      BY <2>6, <3>1, <3>6
  <2>12. m \in 1 .. Len(Above0) /\ Above0[m].handlers > 0
    BY <1>1, <1>3, <2>3, <2>10
  <2>13. \A i \in 1 .. Len(Above0) : Above0[i].handlers > 0 => i <= m
    <3>. SUFFICES ASSUME NEW i \in 1 .. Len(Above0), Above0[i].handlers > 0 PROVE i <= m
      OBVIOUS
    <3>1. i \in 1 .. Len(frames) /\ heap[frames[i]].trys # <<>>
      BY <1>1, <1>3
    <3>2. i \in Handling
      BY <3>1 DEF Handling
    <3>. QED
      BY <2>1, <3>2
  <2>. HIDE DEF Below0, Above0, d
  <2>. QED
    BY <1>1, <2>2, <2>6, <2>7, <2>9, <2>11, <2>12, <2>13, FailsCaught
<1>. QED
  BY <1>4, <1>5

LEMMA EntriesPush ==
  ASSUME NEW h \in [FrameIds -> Frame], NEW g \in [FrameIds -> Frame],
         NEW fs \in Seq(FrameIds), NEW f \in FrameIds,
         \A i \in 1 .. Len(fs) : Len(g[fs[i]].trys) = Len(h[fs[i]].trys)
  PROVE  EntriesIn(g, Append(fs, f)) = Append(EntriesIn(h, fs), Calls!Fn(Len(g[f].trys)))
<1>. DEFINE d == EntriesIn(g, Append(fs, f))
            e == EntriesIn(h, fs)
            x == Calls!Fn(Len(g[f].trys))
            y == [kind |-> "fn", handlers |-> Len(g[f].trys)]
            t == Append(e, x)
<1>1. /\ Append(fs, f) \in Seq(FrameIds) /\ Len(Append(fs, f)) = Len(fs) + 1 /\ Len(fs) \in Nat
      /\ \A i \in 1 .. Len(fs) : Append(fs, f)[i] = fs[i]
      /\ Append(fs, f)[Len(fs) + 1] = f
  BY AppendProperties, LenProperties
<1>2. /\ d \in Seq(Entry) /\ Len(d) = Len(fs) + 1
      /\ \A i \in 1 .. Len(fs) + 1 :
           d[i] = [kind |-> "fn", handlers |-> Len(g[Append(fs, f)[i]].trys)]
  <2>1. Append(fs, f) \in Seq(FrameIds)
    BY <1>1
  <2>2. /\ d \in Seq(Entry) /\ Len(d) = Len(Append(fs, f))
        /\ \A i \in 1 .. Len(Append(fs, f)) :
             d[i] = [kind |-> "fn", handlers |-> Len(g[Append(fs, f)[i]].trys)]
    BY <2>1, EntriesType
  <2>. QED
    BY <1>1, <2>2
<1>3. /\ e \in Seq(Entry) /\ Len(e) = Len(fs)
      /\ \A i \in 1 .. Len(fs) : e[i] = [kind |-> "fn", handlers |-> Len(h[fs[i]].trys)]
  BY EntriesType
<1>4. x = y /\ x \in Entry
  BY TrysType DEF Calls!Fn, Entry
<1>5. /\ t \in Seq(Entry) /\ Len(t) = Len(fs) + 1
      /\ \A i \in 1 .. Len(fs) : t[i] = e[i]
      /\ t[Len(fs) + 1] = x
  <2>. HIDE DEF e, x
  <2>1. /\ Append(e, x) \in Seq(Entry) /\ Len(Append(e, x)) = Len(e) + 1
        /\ \A i \in 1 .. Len(e) : Append(e, x)[i] = e[i]
        /\ Append(e, x)[Len(e) + 1] = x
    BY <1>3, <1>4, AppendProperties
  <2>. QED
    BY <1>3, <2>1
<1>. HIDE DEF d, e, x, t
<1>6. ASSUME NEW i \in 1 .. Len(fs) + 1 PROVE d[i] = t[i]
  <2>1. CASE i \in 1 .. Len(fs)
    <3>1. d[i] = [kind |-> "fn", handlers |-> Len(g[fs[i]].trys)]
      BY <1>1, <1>2, <2>1
    <3>2. e[i] = [kind |-> "fn", handlers |-> Len(h[fs[i]].trys)]
      BY <1>3, <2>1
    <3>3. Len(g[fs[i]].trys) = Len(h[fs[i]].trys)
      BY <2>1
    <3>. QED
      BY <1>5, <2>1, <3>1, <3>2, <3>3
  <2>2. CASE i = Len(fs) + 1
    <3>1. d[i] = [kind |-> "fn", handlers |-> Len(g[f].trys)]
      BY <1>1, <1>2, <2>2
    <3>. QED
      BY <1>4, <1>5, <2>2, <3>1 DEF y
  <2>. QED
    BY <1>1, <2>1, <2>2
<1>7. d = t
  BY <1>2, <1>5, <1>6, SeqEqual
<1>. QED
  BY <1>7 DEF d, e, x, t

\* The script calls below the running one.
LEMMA AboveFront ==
  ASSUME TInv, pc = "exec"
  PROVE  /\ Front(frames) \in Seq(FrameIds) /\ Cur \in FrameIds /\ frames = Append(Front(frames), Cur)
         /\ Front(Above0) = EntriesIn(heap, Front(frames)) /\ Front(Above0) \in Seq(Entry)
         /\ Len(Front(Above0)) = Len(frames) - 1
<1>1. frames \in Seq(FrameIds) /\ frames # <<>> /\ heap \in [FrameIds -> Frame]
  BY DEF TInv, TypeOK, Shape
<1>2. /\ Front(frames) \in Seq(FrameIds) /\ Cur \in FrameIds /\ frames = Append(Front(frames), Cur)
      /\ Len(Front(frames)) = Len(frames) - 1
  BY <1>1, FrontAppend DEF Cur
<1>3. /\ Above0 \in Seq(Entry) /\ Len(Above0) = Len(frames) /\ Len(frames) \in Nat
      /\ \A i \in 1 .. Len(frames) :
           Above0[i] = [kind |-> "fn", handlers |-> Len(heap[frames[i]].trys)]
  BY <1>1, EntriesType DEF Above0
<1>. DEFINE e == EntriesIn(heap, Front(frames))
<1>4. /\ e \in Seq(Entry) /\ Len(e) = Len(frames) - 1
      /\ \A i \in 1 .. Len(frames) - 1 :
           e[i] = [kind |-> "fn", handlers |-> Len(heap[Front(frames)[i]].trys)]
  <2>1. /\ e \in Seq(Entry) /\ Len(e) = Len(Front(frames))
        /\ \A i \in 1 .. Len(Front(frames)) :
             e[i] = [kind |-> "fn", handlers |-> Len(heap[Front(frames)[i]].trys)]
    BY <1>1, <1>2, EntriesType
  <2>. QED
    BY <1>2, <2>1
<1>5. /\ Front(Above0) \in Seq(Entry) /\ Len(Front(Above0)) = Len(frames) - 1
      /\ \A i \in 1 .. Len(frames) - 1 : Front(Above0)[i] = Above0[i]
  <2>1. Above0 # <<>>
    BY <1>1, <1>3, EmptySeq
  <2>2. /\ Front(Above0) \in Seq(Entry) /\ Len(Front(Above0)) = Len(Above0) - 1
        /\ \A i \in 1 .. Len(Above0) - 1 : Front(Above0)[i] = Above0[i]
    BY <1>3, <2>1, FrontLast
  <2>. QED
    BY <1>3, <2>2
<1>6. ASSUME NEW i \in 1 .. Len(frames) - 1 PROVE Front(Above0)[i] = e[i]
  <2>1. i \in 1 .. Len(frames)
    BY <1>3
  <2>2. Front(frames)[i] = frames[i]
    BY <1>1, FrontLast
  <2>. QED
    BY <1>3, <1>4, <1>5, <2>1, <2>2
<1>. HIDE DEF e
<1>7. Front(Above0) = e
  BY <1>4, <1>5, <1>6, SeqEqual
<1>. QED
  BY <1>2, <1>5, <1>7 DEF e

\* Something in the running frame changes: its handlers, perhaps.
LEMMA TopChanges ==
  ASSUME TInv, TInv', NoFrameReuse, pc = "exec", pc' = "exec", saved' = saved, frames' = frames,
         \A f \in FrameIds \ {Cur} : heap'[f] = heap[f]
  PROVE  OneStack' = Append(Calls!Front(OneStack), Calls!Fn(Len(heap'[Cur].trys)))
<1>0. ActsKnown /\ StackIs' /\ Below0 \in Seq(Entry) /\ Calls!Front(OneStack) = Below0 \o Front(Above0)
  BY KnownActs, StackKnownNext, Running
<1>1. heap \in [FrameIds -> Frame] /\ heap' \in [FrameIds -> Frame]
  BY DEF TInv, TypeOK
<1>2. Cur \notin Suspended /\ Cur \notin Range(Front(frames)) /\ Suspended \subseteq FrameIds
  BY <1>0, CurApart DEF ActsKnown, Referenced
<1>3. Waiting(heap', saved') = Below0
  BY <1>2, BelowKeeps
<1>4. ASSUME NEW i \in 1 .. Len(Front(frames))
      PROVE  Len(heap'[Front(frames)[i]].trys) = Len(heap[Front(frames)[i]].trys)
  <2>1. Front(frames) \in Seq(FrameIds) /\ Front(frames)[i] \in FrameIds
    BY AboveFront, ElementOfSeq
  <2>2. Front(frames)[i] \in Range(Front(frames))
    BY <2>1, LenProperties DEF Range
  <2>. QED
    BY <1>2, <2>1, <2>2
<1>. DEFINE x == Calls!Fn(Len(heap'[Cur].trys))
<1>5. EntriesIn(heap', Append(Front(frames), Cur)) = Append(EntriesIn(heap, Front(frames)), x)
  BY <1>1, <1>4, AboveFront, EntriesPush
<1>6. EntriesIn(heap', frames') = Append(Front(Above0), x)
  BY <1>5, AboveFront
<1>7. x \in Entry
  BY <1>1, AboveFront, TrysType DEF Calls!Fn, Entry
<1>8. OneStack' = Below0 \o Append(Front(Above0), x)
  BY <1>0, <1>3, <1>6 DEF StackIs
<1>. HIDE DEF x
<1>9. Below0 \o Append(Front(Above0), x) = Append(Below0 \o Front(Above0), x)
  BY <1>0, <1>7, AboveFront, ConcatAppend
<1>. QED
  BY <1>0, <1>8, <1>9 DEF x

LEMMA FnEntry == Calls!Fn(0) \in Entry /\ NativeEntry = Calls!Native
BY DEF Calls!Fn, Calls!Native, NativeEntry, Entry

\* CALL of a script function and of a Go function.
LEMMA CallSteps ==
  ASSUME TInv, TInv', NoFrameReuse, CallChain, Call
  PROVE  Calls!Call
<1>0. ActsKnown /\ StackIs'
  BY KnownActs, StackKnownNext
<1>1. PICK f : Grows(f) /\ heap'[f].trys = <<>> /\ saved' = saved /\ frames' = Append(frames, f)
  BY ChainCalls
<1>2. pc = "exec" /\ pc' = "exec" /\ outcome' = outcome
  BY DEF Call, Fetched
<1>3. f \in FrameIds \ Referenced /\ \A g \in FrameIds \ {f} : heap'[g] = heap[g]
  BY <1>1 DEF Grows
<1>4. \A g \in Referenced : heap'[g] = heap[g]
  BY <1>0, <1>3 DEF ActsKnown
<1>5. Waiting(heap', saved') = Below0
  <2>1. \A g \in Suspended : Len(heap'[g].trys) = Len(heap[g].trys)
    BY <1>4 DEF Referenced
  <2>. QED
    BY <1>1, <2>1, BelowKeeps
<1>6. EntriesIn(heap', frames') = Append(Above0, Calls!Fn(0))
  <2>1. \A i \in 1 .. Len(frames) : frames[i] \in Range(frames)
    BY <1>0 DEF ActsKnown
  <2>2. \A i \in 1 .. Len(frames) : Len(heap'[frames[i]].trys) = Len(heap[frames[i]].trys)
    BY <1>4, <2>1 DEF Referenced
  <2>3. /\ heap \in [FrameIds -> Frame] /\ heap' \in [FrameIds -> Frame] /\ frames \in Seq(FrameIds)
    BY DEF TInv, TypeOK
  <2>4. EntriesIn(heap', Append(frames, f))
          = Append(EntriesIn(heap, frames), Calls!Fn(Len(heap'[f].trys)))
    BY <1>3, <2>2, <2>3, EntriesPush
  <2>5. Len(heap'[f].trys) = 0
    BY <1>1, EmptySeq
  <2>. QED
    BY <1>1, <2>4, <2>5 DEF Above0
<1>7. OneStack' = Below0 \o Append(Above0, Calls!Fn(0))
  BY <1>0, <1>2, <1>5, <1>6 DEF StackIs
<1>8. /\ OneStack = Below0 \o Above0 /\ Calls!Running("fn")
      /\ Below0 \in Seq(Entry) /\ Above0 \in Seq(Entry)
  BY <1>2, Running
<1>. HIDE DEF Below0, Above0
<1>9. Below0 \o Append(Above0, Calls!Fn(0)) = Append(Below0 \o Above0, Calls!Fn(0))
  BY <1>8, FnEntry, ConcatAppend
<1>. QED
  BY <1>2, <1>7, <1>8, <1>9 DEF Calls!Call

LEMMA NativeSteps ==
  ASSUME TInv, TInv', NoFrameReuse, CallChain, CallNative
  PROVE  Calls!CallNative
<1>1. /\ pc = "exec" /\ pc' = "native" /\ outcome' = outcome
      /\ frames' = frames /\ heap' = heap /\ saved' = saved
  BY DEF CallNative, Fetched
<1>2. StackIs'
  BY StackKnownNext
<1>3. OneStack' = Append(Below0 \o Above0, NativeEntry)
  BY <1>1, <1>2 DEF StackIs, Below0, Above0
<1>4. OneStack = Below0 \o Above0 /\ Calls!Running("fn")
  BY <1>1, Running
<1>. QED
  BY <1>1, <1>3, <1>4, FnEntry DEF Calls!CallNative

\* A callback, which runs above the native call that made it.
LEMMA CallBackSteps ==
  ASSUME TInv, TInv', NoFrameReuse, CallChain, CallClosure
  PROVE  Calls!CallBack
<1>0. ActsKnown /\ StackIs'
  BY KnownActs, StackKnownNext
<1>1. PICK f : /\ Grows(f) /\ heap'[f].trys = <<>>
               /\ saved' = Append(saved, frames) /\ frames' = <<f>>
  BY ChainCallsBack
<1>2. pc = "native" /\ pc' = "exec" /\ outcome' = outcome
  BY DEF CallClosure
<1>3. f \in FrameIds \ Referenced /\ \A g \in FrameIds \ {f} : heap'[g] = heap[g]
  BY <1>1 DEF Grows
<1>4. \A g \in Referenced : heap'[g] = heap[g]
  BY <1>0, <1>3 DEF ActsKnown
<1>5. /\ heap \in [FrameIds -> Frame] /\ heap' \in [FrameIds -> Frame]
      /\ frames \in Seq(FrameIds) /\ saved \in Seq(Seq(FrameIds))
  BY DEF TInv, TypeOK
<1>6. Waiting(heap', saved) = Below0
  <2>1. \A a \in 1 .. Len(saved) : \A i \in 1 .. Len(saved[a]) : saved[a][i] \in Suspended
    BY <1>0 DEF ActsKnown
  <2>2. \A a \in 1 .. Len(saved) : \A i \in 1 .. Len(saved[a]) :
          Len(heap'[saved[a][i]].trys) = Len(heap[saved[a][i]].trys)
    BY <1>4, <2>1 DEF Referenced
  <2>. QED
    BY <1>5, <2>2, WaitingSame DEF Below0
<1>7. EntriesIn(heap', frames) = Above0
  <2>1. \A i \in 1 .. Len(frames) : frames[i] \in Range(frames)
    BY <1>0 DEF ActsKnown
  <2>2. \A i \in 1 .. Len(frames) : Len(heap'[frames[i]].trys) = Len(heap[frames[i]].trys)
    BY <1>4, <2>1 DEF Referenced
  <2>. QED
    BY <1>5, <2>2, EntriesSame DEF Above0
<1>8. Waiting(heap', saved') = Below0 \o Append(Above0, NativeEntry)
  <2>1. Waiting(heap', Append(saved, frames))
          = Waiting(heap', saved) \o Append(EntriesIn(heap', frames), NativeEntry)
    BY <1>5, WaitingPush
  <2>. QED
    BY <1>1, <1>6, <1>7, <2>1
<1>9. EntriesIn(heap', frames') = <<Calls!Fn(0)>>
  <2>1. Len(heap'[f].trys) = 0 /\ Len(frames') = 1 /\ frames'[1] = f
    BY <1>1, EmptySeq
  <2>2. EntriesIn(heap', frames')
          = [i \in 1 .. Len(frames') |-> [kind |-> "fn", handlers |-> Len(heap'[frames'[i]].trys)]]
    BY DEF EntriesIn
  <2>3. EntriesIn(heap', frames') = [i \in 1 .. 1 |-> Calls!Fn(0)]
    BY <2>1, <2>2 DEF Calls!Fn
  <2>4. [i \in 1 .. 1 |-> Calls!Fn(0)] = <<Calls!Fn(0)>>
    OBVIOUS
  <2>. QED
    BY <2>3, <2>4
<1>10. OneStack' = (Below0 \o Append(Above0, NativeEntry)) \o <<Calls!Fn(0)>>
  BY <1>0, <1>2, <1>8, <1>9 DEF StackIs
<1>11. /\ OneStack = Append(Below0 \o Above0, NativeEntry) /\ Calls!Running("native")
       /\ Below0 \in Seq(Entry) /\ Above0 \in Seq(Entry) /\ Below0 \o Above0 \in Seq(Entry)
  BY <1>2, Running
<1>. HIDE DEF Below0, Above0
<1>12. Below0 \o Append(Above0, NativeEntry) = OneStack /\ OneStack \in Seq(Entry)
  BY <1>11, NativeEntryType, ConcatAppend, AppendProperties
<1>13. OneStack \o <<Calls!Fn(0)>> = Append(OneStack, Calls!Fn(0))
  BY <1>12, FnEntry, AppendIsConcat
<1>. QED
  BY <1>2, <1>10, <1>11, <1>12, <1>13 DEF Calls!CallBack

\* A value goes to the call below.
LEMMA PoppedTrys ==
  ASSUME TInv, pc \in {"exec", "native"}, NEW v
  PROVE  \A f \in FrameIds \ {Cur} : Popped(v)[f].trys = heap[f].trys
<1>. DEFINE rel == [heap EXCEPT ![Cur] = Nilled]
<1>1. rel \in [FrameIds -> Frame] /\ \A f \in FrameIds \ {Cur} : rel[f] = heap[f]
  BY CurType, NilledType DEF TInv, TypeOK
<1>2. CASE Front(frames) = <<>>
  BY <1>1, <1>2 DEF Popped
<1>3. CASE Front(frames) # <<>>
  <2>1. \A f \in FrameIds :
          [rel EXCEPT ![Last(Front(frames))].regs[heap[Cur].retReg] = v][f].trys = rel[f].trys
    BY <1>1 DEF Frame
  <2>. QED
    BY <1>1, <1>3, <2>1 DEF Popped
<1>. QED
  BY <1>2, <1>3

LEMMA ReturnSteps ==
  ASSUME TInv, TInv', NoFrameReuse, CallChain, Return
  PROVE  Calls!Return
<1>0. ActsKnown /\ StackIs' /\ Parts
  BY KnownActs, StackKnownNext, PartsKnown
<1>1. pc = "exec"
  BY DEF Return, Fetched
<1>2. PICK v \in {heap[Cur].regs[r] : r \in Regs} \cup {Null} :
        \/ /\ Len(frames) > 1
           /\ frames' = Front(frames)
           /\ heap' = Popped(v)
           /\ UNCHANGED <<saved, pc, outcome>>
        \/ /\ Len(frames) = 1
           /\ Leave(<<>>, Popped(v), "value")
  BY DEF Return
<1>3. heap \in [FrameIds -> Frame] /\ heap' \in [FrameIds -> Frame] /\ Cur \in FrameIds /\ v \in Val
  <2>1. heap \in [FrameIds -> Frame] /\ heap' \in [FrameIds -> Frame] /\ Cur \in FrameIds
    BY <1>1, AboveFront DEF TInv, TypeOK
  <2>2. heap[Cur].regs \in [Regs -> Val] /\ Null \in Val
    BY <2>1 DEF Frame, Val
  <2>. QED
    BY <1>2, <2>1, <2>2
<1>4. /\ OneStack = Below0 \o Above0 /\ Calls!Running("fn")
      /\ Calls!Front(OneStack) = Below0 \o Front(Above0)
      /\ Below0 \in Seq(Entry) /\ Above0 \in Seq(Entry)
      /\ Len(OneStack) = Len(Below0) + Len(frames)
      /\ Len(Below0) \in Nat /\ (Below0 = <<>> <=> Len(Below0) = 0)
  BY <1>1, Running, LenProperties, EmptySeq
<1>5. Suspended \subseteq FrameIds \ {Cur}
  BY <1>0, <1>1, CurApart DEF ActsKnown, Referenced
<1>6. CASE /\ Len(frames) > 1 /\ frames' = Front(frames) /\ heap' = Popped(v)
           /\ UNCHANGED <<saved, pc, outcome>>
  <2>1. \A f \in FrameIds \ {Cur} : heap'[f].trys = heap[f].trys
    BY <1>1, <1>6, PoppedTrys
  <2>2. Waiting(heap', saved') = Below0
    <3>1. \A f \in Suspended : Len(heap'[f].trys) = Len(heap[f].trys)
      BY <1>5, <2>1
    <3>. QED
      BY <1>6, <3>1, BelowKeeps
  <2>3. EntriesIn(heap', Front(frames)) = EntriesIn(heap, Front(frames))
    <3>1. Front(frames) \in Seq(FrameIds) /\ Cur \notin Range(Front(frames))
      BY <1>1, CurApart
    <3>2. ASSUME NEW i \in 1 .. Len(Front(frames))
          PROVE  Len(heap'[Front(frames)[i]].trys) = Len(heap[Front(frames)[i]].trys)
      <4>1. Front(frames)[i] \in FrameIds
        BY <3>1, ElementOfSeq
      <4>2. Front(frames)[i] \in Range(Front(frames))
        BY <3>1, LenProperties DEF Range
      <4>. QED
        BY <2>1, <3>1, <4>1, <4>2
    <3>. QED
      BY <1>3, <3>1, <3>2, EntriesSame
  <2>4. OneStack' = Below0 \o Front(Above0)
    BY <1>0, <1>1, <1>6, <2>2, <2>3, AboveFront DEF StackIs
  <2>5. Len(OneStack) # 1
    <3>1. Len(frames) \in Nat
      BY <1>0, <1>1 DEF Parts
    <3>. HIDE DEF Below0, Above0
    <3>. QED
      BY <1>4, <1>6, <3>1
  <2>. QED
    BY <1>4, <1>6, <2>4, <2>5 DEF Calls!Return
<1>7. CASE Len(frames) = 1 /\ Leave(<<>>, Popped(v), "value")
  <2>1. /\ Popped(v) \in [FrameIds -> Frame]
        /\ \A f \in Suspended :
             /\ Popped(v)[f].retReg = heap[f].retReg /\ Popped(v)[f].nilled = heap[f].nilled
             /\ Popped(v)[f] = heap[f]
    BY <1>1, <1>3, <1>5, DoReturnType, PoppedKeeps
  <2>. DEFINE none == <<>>
  <2>2. /\ none \in Seq(FrameIds) /\ Len(none) = 0 /\ Range(none) = {} /\ Len(none) <= Len(frames)
        /\ \A i \in 1 .. Len(none) : none[i] = frames[i]
    BY <1>7, EmptySeq, LenProperties DEF Range
  <2>. HIDE DEF none
  <2>3. Leave(none, Popped(v), "value")
    BY <1>7 DEF none
  <2>4. OneStack' = Below0 /\ outcome' = IF Below0 = <<>> THEN "value" ELSE outcome
    BY <1>1, <2>1, <2>2, <2>3, Leaves
  <2>5. Front(Above0) = <<>>
    <3>1. Front(Above0) \in Seq(Entry) /\ Len(Front(Above0)) = 0
      BY <1>1, <1>7, AboveFront
    <3>. QED
      BY <3>1, EmptySeq
  <2>6. Calls!Front(OneStack) = Below0
    <3>1. Below0 \o <<>> = Below0
      BY <1>4, ConcatEmptySeq
    <3>. QED
      BY <1>4, <2>5, <3>1
  <2>7. Len(OneStack) = 1 <=> Below0 = <<>>
    <3>. HIDE DEF Below0, Above0
    <3>. QED
      BY <1>4, <1>7
  <2>. QED
    BY <1>4, <2>4, <2>6, <2>7 DEF Calls!Return
<1>. QED
  BY <1>2, <1>6, <1>7

LEMMA NativeReturnSteps ==
  ASSUME TInv, TInv', NoFrameReuse, CallChain, NativeReturns
  PROVE  Calls!NativeReturns
<1>1. /\ pc = "native" /\ pc' = "exec" /\ outcome' = outcome
      /\ frames' = frames /\ saved' = saved
  BY DEF NativeReturns
<1>2. PICK v : heap' = [heap EXCEPT ![Last(natives).fr].regs[Last(natives).ret] = v]
  BY DEF NativeReturns
<1>3. Last(natives).fr = Cur /\ heap \in [FrameIds -> Frame]
  BY <1>1, NativeRuns DEF TInv, TypeOK
<1>4. \A f \in FrameIds : heap'[f].trys = heap[f].trys
  <2>. DEFINE r == Last(natives).ret
  <2>1. heap' = [heap EXCEPT ![Cur].regs[r] = v]
    BY <1>2, <1>3
  <2>. HIDE DEF r
  <2>. QED
    BY <1>3, <2>1 DEF Frame
<1>5. Range(frames) \subseteq FrameIds /\ Suspended \subseteq FrameIds
  BY KnownActs DEF ActsKnown, Referenced
<1>6. Waiting(heap', saved') = Below0 /\ EntriesIn(heap', frames') = Above0
  <2>1. \A f \in Suspended : Len(heap'[f].trys) = Len(heap[f].trys)
    BY <1>4, <1>5
  <2>2. \A f \in Range(frames) : Len(heap'[f].trys) = Len(heap[f].trys)
    BY <1>4, <1>5
  <2>. QED
    BY <1>1, <2>1, <2>2, BelowKeeps, AboveKeeps
<1>7. OneStack' = Below0 \o Above0
  BY <1>1, <1>6, StackKnownNext DEF StackIs
<1>8. Calls!Running("native") /\ Calls!Front(OneStack) = Below0 \o Above0
  BY <1>1, Running
<1>. QED
  BY <1>1, <1>7, <1>8 DEF Calls!NativeReturns

LEMMA TrySteps ==
  ASSUME TInv, TInv', NoFrameReuse, CallChain, Try
  PROVE  Calls!EnterTry
<1>1. /\ pc = "exec" /\ pc' = "exec" /\ outcome' = outcome
      /\ frames' = frames /\ saved' = saved
  BY DEF Try, Fetched
<1>2. PICK r \in Regs : heap' = [heap EXCEPT ![Cur].trys =
                                   Append(@, [stamp |-> tries + 1, errReg |-> r])]
  BY DEF Try
<1>3. heap \in [FrameIds -> Frame] /\ heap' \in [FrameIds -> Frame] /\ Cur \in FrameIds
  BY <1>1, AboveFront DEF TInv, TypeOK
<1>. DEFINE t == heap[Cur].trys
            x == [stamp |-> tries + 1, errReg |-> r]
<1>4. heap' = [heap EXCEPT ![Cur].trys = Append(t, x)]
  BY <1>2
<1>5. heap'[Cur].trys = Append(t, x) /\ \A f \in FrameIds \ {Cur} : heap'[f] = heap[f]
  <2>. HIDE DEF t, x
  <2>. QED
    BY <1>3, <1>4 DEF Frame
<1>6. Len(heap'[Cur].trys) = Len(heap[Cur].trys) + 1
  <2>0. tries + 1 \in Stamps
    BY FramesAssumption DEF Stamps, Try, TInv, TypeOK
  <2>1. t \in Seq(Handler) /\ x \in Handler
    <3>1. t \in Seq(Handler)
      BY <1>3, TrysType
    <3>. QED
      BY <2>0, <3>1 DEF Handler
  <2>. HIDE DEF t, x
  <2>2. Len(Append(t, x)) = Len(t) + 1
    BY <2>1, AppendProperties
  <2>. QED
    BY <1>5, <2>2 DEF t
<1>7. OneStack' = Append(Calls!Front(OneStack), Calls!Fn(Len(heap'[Cur].trys)))
  BY <1>1, <1>5, TopChanges
<1>8. Calls!Running("fn") /\ Calls!Last(OneStack).handlers = Len(heap[Cur].trys)
  BY <1>1, Running
<1>. QED
  BY <1>1, <1>6, <1>7, <1>8 DEF Calls!EnterTry

\* ENDTRY in a frame without a handler does nothing.
LEMMA EndTrySteps ==
  ASSUME TInv, TInv', NoFrameReuse, CallChain, EndTry
  PROVE  Calls!LeaveTry \/ (OneStack' = OneStack /\ outcome' = outcome)
<1>1. /\ pc = "exec" /\ pc' = "exec" /\ outcome' = outcome
      /\ frames' = frames /\ saved' = saved
  BY DEF EndTry, Fetched
<1>2. heap \in [FrameIds -> Frame] /\ heap' \in [FrameIds -> Frame] /\ Cur \in FrameIds
  BY <1>1, AboveFront DEF TInv, TypeOK
<1>3. CASE heap[Cur].trys = <<>>
  <2>1. heap' = heap
    BY <1>3 DEF EndTry
  <2>. QED
    BY <1>1, <2>1, Stutters
<1>4. CASE heap[Cur].trys # <<>>
  <2>. DEFINE t == heap[Cur].trys
              u == Front(heap[Cur].trys)
  <2>1. heap' = [heap EXCEPT ![Cur].trys = u]
    BY <1>4 DEF EndTry
  <2>2. heap'[Cur].trys = u /\ \A f \in FrameIds \ {Cur} : heap'[f] = heap[f]
    <3>. HIDE DEF t, u
    <3>. QED
      BY <1>2, <2>1 DEF Frame
  <2>3. Len(u) = Len(t) - 1 /\ Len(t) \in Nat \ {0}
    <3>1. t \in Seq(Handler)
      BY <1>2, TrysType
    <3>. QED
      BY <1>4, <3>1, FrontLast
  <2>4. OneStack' = Append(Calls!Front(OneStack), Calls!Fn(Len(heap'[Cur].trys)))
    BY <1>1, <2>2, TopChanges
  <2>5. Calls!Running("fn") /\ Calls!Last(OneStack).handlers = Len(t)
    BY <1>1, Running
  <2>. HIDE DEF t, u
  <2>. QED
    BY <1>1, <2>2, <2>3, <2>4, <2>5 DEF Calls!LeaveTry
<1>. QED
  BY <1>3, <1>4

\* HALT, errors that no handler is offered, code that runs off its end.
LEMMA StopSteps ==
  ASSUME TInv, TInv', NoFrameReuse, CallChain,
         OpsExceeded \/ ImplicitReturn \/ Halt \/ FatalError
  PROVE  Calls!Stop
<1>1. pc = "exec"
  BY DEF OpsExceeded, ImplicitReturn, Halt, FatalError, Fetched
<1>2. OneStack = Below0 \o Above0 /\ Calls!Running("fn")
  BY <1>1, Running
<1>3. CASE OpsExceeded \/ Halt \/ FatalError
  <2>1. PICK o \in {"value", "error"} : Leave(frames, heap, o)
    BY <1>3 DEF OpsExceeded, Halt, FatalError
  <2>2. Calls!Unwind(Below0 \o Above0, o)
    BY <1>1, <2>1, AbandonUnwinds
  <2>. QED
    BY <1>2, <2>2 DEF Calls!Stop
<1>4. CASE ImplicitReturn
  <2>1. Leave(Front(frames), Popped(Null), "value") /\ Null \in Val
    BY <1>4 DEF ImplicitReturn, Val
  <2>2. /\ Front(frames) \in Seq(FrameIds) /\ Len(Front(frames)) = Len(frames) - 1
        /\ \A i \in 1 .. Len(frames) - 1 : Front(frames)[i] = frames[i]
        /\ Len(frames) \in Nat \ {0} /\ Cur \notin Suspended /\ Cur \notin Range(Front(frames))
    BY <1>1, CurApart
  <2>3. /\ Popped(Null) \in [FrameIds -> Frame]
        /\ \A f \in FrameIds \ {Cur} :
             /\ Popped(Null)[f].retReg = heap[f].retReg /\ Popped(Null)[f].nilled = heap[f].nilled
             /\ f \in Suspended => Popped(Null)[f] = heap[f]
    BY <1>1, <2>1, DoReturnType, PoppedKeeps
  <2>4. Suspended \subseteq FrameIds \ {Cur}
    BY <2>2, KnownActs DEF ActsKnown, Referenced
  <2>5. Range(Front(frames)) \subseteq FrameIds \ {Cur}
    <3>1. \A i \in 1 .. Len(Front(frames)) : Front(frames)[i] \in FrameIds
      BY <2>2, ElementOfSeq
    <3>2. DOMAIN Front(frames) = 1 .. Len(Front(frames))
      BY <2>2, LenProperties
    <3>. QED
      BY <2>2, <3>1, <3>2 DEF Range
  <2>6. /\ Len(Front(frames)) <= Len(frames)
        /\ \A i \in 1 .. Len(Front(frames)) : Front(frames)[i] = frames[i]
    BY <2>2
  <2>7. \A f \in Suspended \cup Range(Front(frames)) :
          Popped(Null)[f].retReg = heap[f].retReg /\ Popped(Null)[f].nilled = heap[f].nilled
    BY <2>3, <2>4, <2>5
  <2>8. \A f \in Suspended : Popped(Null)[f] = heap[f]
    BY <2>3, <2>4
  <2>9. Calls!Unwind(Below0 \o Above0, "value")
    BY <1>1, <2>1, <2>2, <2>3, <2>6, <2>7, <2>8, LeaveUnwinds
  <2>. QED
    BY <1>2, <2>9 DEF Calls!Stop
<1>. QED
  BY <1>3, <1>4

LEMMA ErrorSteps ==
  ASSUME TInv, TInv', NoFrameReuse, CallChain
  PROVE  (OpFails => Calls!Raise) /\ (NativeFails => Calls!NativeFails)
<1>1. ASSUME OpFails PROVE Calls!Raise
  <2>1. pc = "exec" /\ Raise
    BY <1>1 DEF OpFails, Fetched
  <2>2. OneStack = Below0 \o Above0 /\ Calls!Running("fn")
    BY <2>1, Running
  <2>3. Calls!Fail(Below0 \o Above0)
    BY <2>1, RaiseFails
  <2>. QED
    BY <2>2, <2>3 DEF Calls!Raise
<1>2. ASSUME NativeFails PROVE Calls!NativeFails
  <2>1. pc = "native" /\ Raise
    BY <1>2 DEF NativeFails
  <2>2. Calls!Front(OneStack) = Below0 \o Above0 /\ Calls!Running("native")
    BY <2>1, Running
  <2>3. Calls!Fail(Below0 \o Above0)
    BY <2>1, RaiseFails
  <2>. QED
    BY <2>2, <2>3 DEF Calls!NativeFails
<1>. QED
  BY <1>1, <1>2

\* Instructions that only move data, and the end of the VM.
LEMMA OtherSteps ==
  ASSUME TInv, TInv',
         DataOp \/ GetUpv \/ SetUpv \/ MakeClosure \/ Release \/ UNCHANGED vars
  PROVE  OneStack' = OneStack /\ outcome' = outcome
<1>1. CASE DataOp \/ GetUpv
  <2>1. PICK r, v : heap' = [heap EXCEPT ![Cur].regs[r] = v]
    BY <1>1 DEF DataOp, GetUpv
  <2>2. /\ frames' = frames /\ saved' = saved /\ pc = "exec" /\ pc' = pc /\ outcome' = outcome
    BY <1>1 DEF DataOp, GetUpv, Fetched
  <2>3. heap \in [FrameIds -> Frame] /\ Referenced \subseteq FrameIds
    BY KnownActs DEF ActsKnown, TInv, TypeOK
  <2>4. \A f \in FrameIds : heap'[f].trys = heap[f].trys
    BY <2>1, <2>3 DEF Frame
  <2>5. \A f \in Referenced : Len(heap'[f].trys) = Len(heap[f].trys)
    BY <2>3, <2>4
  <2>. QED
    BY <2>2, <2>5, Stutters
<1>2. CASE SetUpv \/ MakeClosure \/ UNCHANGED vars
  <2>1. /\ frames' = frames /\ saved' = saved /\ pc' = pc /\ outcome' = outcome /\ heap' = heap
    BY <1>2 DEF SetUpv, MakeClosure, Fetched, vars
  <2>. QED
    BY <2>1, Stutters
<1>3. CASE Release
  <2>1. pc = "done" /\ pc' = "released" /\ outcome' = outcome
    BY <1>3 DEF Release
  <2>. QED
    BY <2>1, StackKnown, StackKnownNext DEF StackIs
<1>. QED
  BY <1>1, <1>2, <1>3

LEMMA StackStarts == Init /\ TInv => Calls!Init
<1>. SUFFICES ASSUME Init, TInv PROVE Calls!Init
  OBVIOUS
<1>1. PICK f \in FrameIds, v \in Val :
        /\ frames = <<f>>
        /\ heap = [g \in FrameIds |-> IF g = f THEN NewFrame(NoClosure, v, Param) ELSE Nilled]
  BY DEF Init
<1>2. saved = <<>> /\ pc = "exec" /\ outcome = "none"
  BY DEF Init
<1>3. heap \in [FrameIds -> Frame]
  BY DEF TInv, TypeOK
<1>4. Waiting(heap, saved) = <<>>
  BY <1>2, <1>3, WaitingEmpty
<1>5. EntriesIn(heap, frames) = <<Calls!Fn(0)>>
  <2>1. Len(heap[f].trys) = 0 /\ Len(frames) = 1 /\ frames[1] = f
    BY <1>1, EmptySeq DEF NewFrame
  <2>2. EntriesIn(heap, frames) = [i \in 1 .. 1 |-> Calls!Fn(0)]
    BY <2>1 DEF EntriesIn, Calls!Fn
  <2>3. [i \in 1 .. 1 |-> Calls!Fn(0)] = <<Calls!Fn(0)>>
    OBVIOUS
  <2>. QED
    BY <2>2, <2>3
<1>6. OneStack = <<>> \o <<Calls!Fn(0)>>
  BY <1>2, <1>4, <1>5, StackKnown DEF StackIs
<1>7. <<>> \o <<Calls!Fn(0)>> = <<Calls!Fn(0)>>
  <2>1. <<Calls!Fn(0)>> \in Seq(Entry)
    BY FnEntry
  <2>. QED
    BY <2>1, ConcatEmptySeq
<1>. QED
  BY <1>2, <1>6, <1>7 DEF Calls!Init

LEMMA StackStep ==
  SInv /\ TInv' /\ [Next]_vars => [Calls!Next]_<<OneStack, outcome>>
<1>. SUFFICES ASSUME TInv, TInv', NoFrameReuse, CallChain, [Next]_vars
              PROVE  Calls!Next \/ (OneStack' = OneStack /\ outcome' = outcome)
  BY DEF SInv
<1>1. CASE Call \/ CallNative \/ CallClosure
  BY <1>1, CallSteps, NativeSteps, CallBackSteps DEF Calls!Next
<1>2. CASE Return \/ NativeReturns
  BY <1>2, ReturnSteps, NativeReturnSteps DEF Calls!Next
<1>3. CASE OpFails \/ NativeFails
  BY <1>3, ErrorSteps DEF Calls!Next
<1>4. CASE OpsExceeded \/ ImplicitReturn \/ Halt \/ FatalError
  BY <1>4, StopSteps DEF Calls!Next
<1>5. CASE Try \/ EndTry
  BY <1>5, TrySteps, EndTrySteps DEF Calls!Next
<1>6. CASE DataOp \/ GetUpv \/ SetUpv \/ MakeClosure \/ Release \/ UNCHANGED vars
  BY <1>6, OtherSteps
<1>. QED
  BY <1>1, <1>2, <1>3, <1>4, <1>5, <1>6 DEF Next, Execute, NativeEnds

\* The frames, try handlers and activations of execute(), doCall, doReturn,
\* handleTry and CallClosure implement the one stack of CallStack: calls nest,
\* callbacks run above the native call that made them, and an error goes to
\* the nearest handler but never past a native call.
THEOREM FramesAreOneStack == Spec => ImplementsCallStack
<1>1. Init => Calls!Init
  BY TypeInit, StackStarts
<1>2. SInv /\ SInv' /\ [Next]_vars => [Calls!Next]_<<OneStack, outcome>>
  BY StackStep DEF SInv
<1>. QED
  BY <1>1, <1>2, StackInvariant, PTL DEF Spec, ImplementsCallStack, Calls!Spec
=============================================================================
