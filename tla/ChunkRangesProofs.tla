-------------------------- MODULE ChunkRangesProofs --------------------------
(***************************************************************************)
(* What the chunker promises whatever the recording, the window, the frame *)
(* and the threshold: the ranges tile what has been split, a range that is *)
(* not the last ends in the look-back of its window, and in a silence.     *)
(***************************************************************************)
EXTENDS ChunkRanges, ChunkCutProofs

(* What one turn of the loop keeps. *)
RInv == TypeOK /\ Tiling /\ NeverFarShort

LEMMA InitRInv == Init => RInv
BY RecordingsAssumption DEF Init, RInv, TypeOK, Tiling, NeverFarShort

LEMMA StepRInv == RInv /\ [Next]_vars => RInv'
<1> SUFFICES ASSUME RInv, [Next]_vars PROVE RInv'
  OBVIOUS
<1>1. CASE PushRange
  <2> DEFINE cut == FirstCut(pcm, start, MaxChunk)
  <2>1. pcm \in Seq(Sample) /\ start \in Nat /\ start < Len(pcm) /\ pcm' = pcm
        /\ ranges \in Seq(Nat \X Nat)
    BY <1>1, RecordingsAssumption DEF PushRange, RInv, TypeOK
  <2>2. cut \in Nat /\ start < cut /\ cut <= Len(pcm) /\ cut - start <= Window(MaxChunk)
        /\ (cut < Len(pcm) => cut - start >= Window(MaxChunk) - SearchBack(MaxChunk))
    BY <2>1, CutBounds, MaxChunkAssumption
  <2>3. ranges' = Append(ranges, <<start, cut>>) /\ start' = cut
    BY <1>1 DEF PushRange
  <2> HIDE DEF cut
  <2>4. TypeOK'
    BY <2>1, <2>2, <2>3 DEF RInv, TypeOK
  <2>5. Tiling'
    <3> DEFINE n == Len(ranges)
    <3>1. /\ n \in Nat /\ DOMAIN ranges = 1..n /\ (ranges = <<>> <=> n = 0)
          /\ \A i \in 1..n : ranges[i] \in Nat \X Nat
      BY <2>1
    <3>2. /\ Len(ranges') = n + 1 /\ DOMAIN ranges' = 1..(n + 1) /\ ranges' # <<>>
          /\ ranges'[n + 1] = <<start, cut>> /\ \A i \in 1..n : ranges'[i] = ranges[i]
      <4>1. <<start, cut>> \in Nat \X Nat
        BY <2>1, <2>2
      <4> QED BY <2>1, <2>3, <4>1, AppendElement, SMTT(30)
    <3>3. start = IF n = 0 THEN 0 ELSE ranges[n][2]
      BY <3>1 DEF RInv, Tiling
    <3> HIDE DEF n
    <3>4. ASSUME NEW i \in 1..(n + 1)
          PROVE  /\ ranges'[i][1] = IF i = 1 THEN 0 ELSE ranges'[i - 1][2]
                 /\ ranges'[i][1] < ranges'[i][2] /\ ranges'[i][2] - ranges'[i][1] <= Window(MaxChunk)
      <4>1. CASE i \in 1..n
        <5>1. i - 1 \in 1..n \/ i = 1
          BY <3>1, <4>1
        <5>2. /\ ranges[i][1] = IF i = 1 THEN 0 ELSE ranges[i - 1][2]
              /\ ranges[i][1] < ranges[i][2] /\ ranges[i][2] - ranges[i][1] <= Window(MaxChunk)
          BY <3>1, <4>1 DEF RInv, Tiling
        <5> QED BY <3>2, <4>1, <5>1, <5>2
      <4>2. CASE i = n + 1
        <5>1. n \in 1..n \/ n = 0
          BY <3>1
        <5>2. i - 1 = n /\ (i = 1 <=> n = 0)
          BY <3>1, <4>2
        <5> QED BY <2>1, <2>2, <3>2, <3>3, <4>2, <5>1, <5>2, SMTT(30)
      <4> QED BY <3>1, <4>1, <4>2
    <3>5. start' = IF ranges' = <<>> THEN 0 ELSE ranges'[Len(ranges')][2]
      BY <2>3, <3>2
    <3> QED BY <3>2, <3>4, <3>5 DEF Tiling
  <2>6. NeverFarShort'
    BY <2>1, <2>2, <2>3 DEF RInv, NeverFarShort
  <2> QED BY <2>4, <2>5, <2>6 DEF RInv
<1>2. CASE UNCHANGED vars
  BY <1>2 DEF vars, RInv, TypeOK, Tiling, NeverFarShort
<1> QED BY <1>1, <1>2 DEF Next

LEMMA RangesInvariant == Spec => []RInv
<1> QED BY InitRInv, StepRInv, PTL DEF Spec

(* The variables keep their types.                                         *)
THEOREM RangesTyped == Spec => []TypeOK
<1>1. RInv => TypeOK
  BY DEF RInv
<1> QED BY <1>1, RangesInvariant, PTL

(* The ranges tile what has been split; none is empty or past the window.  *)
THEOREM RangesTile == Spec => []Tiling
<1>1. RInv => Tiling
  BY DEF RInv
<1> QED BY <1>1, RangesInvariant, PTL

(* A range that is not the last ends in the look-back of its window.       *)
THEOREM RangesNearlyFull == Spec => []NeverFarShort
<1>1. RInv => NeverFarShort
  BY DEF RInv
<1> QED BY <1>1, RangesInvariant, PTL

(* With frames of more than one sample (30 ms are 480) every range but the *)
(* last is cut inside a silent frame, or had none to be cut at.            *)
THEOREM RangesCutInSilence ==
  ASSUME Frame > 1
  PROVE  Spec => []CutsInSilence
<1> DEFINE Silent == \A i \in DOMAIN ranges : SilentCut(pcm, ranges[i][1], MaxChunk, ranges[i][2])
<1>1. Init => Silent
  BY DEF Init
<1>2. RInv /\ Silent /\ [Next]_vars => Silent'
  <2> SUFFICES ASSUME RInv, Silent, [Next]_vars PROVE Silent'
    OBVIOUS
  <2>1. CASE PushRange
    <3> DEFINE cut == FirstCut(pcm, start, MaxChunk)
    <3>1. /\ pcm \in Seq(Sample) /\ start \in Nat /\ start < Len(pcm) /\ pcm' = pcm
          /\ ranges \in Seq(Nat \X Nat) /\ ranges' = Append(ranges, <<start, cut>>)
      BY <2>1, RecordingsAssumption DEF PushRange, RInv, TypeOK
    <3>2. cut \in Nat
      BY <3>1, CutBounds, MaxChunkAssumption
    <3>3. SilentCut(pcm, start, MaxChunk, cut)
      BY <3>1, CutSilent, MaxChunkAssumption
    <3> HIDE DEF cut
    <3>4. /\ DOMAIN ranges' = 1..(Len(ranges) + 1) /\ Len(ranges) \in Nat
          /\ ranges'[Len(ranges) + 1] = <<start, cut>>
          /\ \A i \in 1..Len(ranges) : ranges'[i] = ranges[i]
      <4>1. <<start, cut>> \in Nat \X Nat
        BY <3>1, <3>2
      <4> QED BY <3>1, <4>1, AppendElement
    <3>5. ASSUME NEW i \in 1..(Len(ranges) + 1)
          PROVE  SilentCut(pcm, ranges'[i][1], MaxChunk, ranges'[i][2])
      <4>1. CASE i \in 1..Len(ranges)
        BY <3>1, <3>4, <4>1
      <4>2. CASE i = Len(ranges) + 1
        BY <3>3, <3>4, <4>2
      <4> QED BY <3>4, <4>1, <4>2
    <3> QED BY <3>1, <3>4, <3>5
  <2>2. CASE UNCHANGED vars
    BY <2>2 DEF vars
  <2> QED BY <2>1, <2>2 DEF Next
<1>3. Silent => CutsInSilence
  BY DEF CutsInSilence, SilentCut
<1> QED BY <1>1, <1>2, <1>3, RangesInvariant, PTL DEF Spec
----------------------------------------------------------------------------
(* The scan.                                                               *)

(* The frames the scan has visited after k of its turns. *)
Visited(from, k) == {ScanStart(from, j) : j \in 0..(k - 1)}

SilentVisited(audio, from, k) == {p \in Visited(from, k) : Energy(audio, p) < Threshold}

(* p is the first of the quietest of the frames S. *)
FirstQuietest(audio, S, p) ==
  /\ p \in S
  /\ \A q \in S : Energy(audio, p) <= Energy(audio, q) /\ (q < p => Energy(audio, p) < Energy(audio, q))

(* B is the frame the scan should have kept of S, if S has any. *)
Kept(audio, S, B) == (S # {} => B # {}) /\ \A p : p \in B <=> FirstQuietest(audio, S, p)

LEMMA ScanStartType ==
  ASSUME NEW from \in Nat, NEW k \in Int
  PROVE  /\ ScanStart(from, k) \in Int /\ ScanStart(from, k + 1) = ScanStart(from, k) + Frame
         /\ \A j \in Int : j < k => ScanStart(from, j) < ScanStart(from, k)
<1>1. SearchStart(MaxChunk) \in Nat
  BY MaxChunkAssumption, SearchStartBounds
<1>2. k * Frame \in Int /\ (k + 1) * Frame = k * Frame + Frame
  BY FrameAssumption
<1>3. \A j \in Int : j < k => j * Frame < k * Frame /\ j * Frame \in Int
  BY FrameAssumption
<1> QED BY <1>1, <1>2, <1>3, FrameAssumption DEF ScanStart

(* A later silent frame replaces the best so far just when it is quieter.  *)
LEMMA KeptStep ==
  ASSUME NEW audio, NEW S \in SUBSET Int, NEW B, NEW p \in Int, Kept(audio, S, B),
         \A q \in S : q < p
  PROVE  Kept(audio, S \cup {p}, IF \A b \in B : Energy(audio, p) < Energy(audio, b) THEN {p} ELSE B)
<1> DEFINE e(q) == Energy(audio, q)
           T == S \cup {p}
<1>1. e(p) \in Nat /\ \A q \in S : e(q) \in Nat /\ q \in Int /\ q < p
  BY EnergyType
<1>2. /\ S # {} => B # {}
      /\ \A b : b \in B <=> b \in S /\ \A q \in S : e(b) <= e(q) /\ (q < b => e(b) < e(q))
  BY DEF Kept, FirstQuietest
<1> HIDE DEF e
<1>3. CASE \A b \in B : e(p) < e(b)
  <2>1. ASSUME NEW q \in S PROVE e(p) < e(q)
    <3>1. PICK b \in B : b \in S /\ e(b) <= e(q)
      BY <1>2
    <3>2. e(p) < e(b)
      BY <1>3
    <3> QED BY <1>1, <3>1, <3>2
  <2>2. \A q \in T : e(p) <= e(q) /\ (q < p => e(p) < e(q))
    BY <1>1, <2>1
  <2>3. ASSUME NEW b \in T, \A q \in T : e(b) <= e(q)
        PROVE  b = p
    <3>1. e(b) <= e(p)
      BY <2>3
    <3> QED BY <1>1, <2>1, <3>1
  <2>4. Kept(audio, T, {p})
    BY <2>2, <2>3 DEF Kept, FirstQuietest, e
  <2> QED BY <1>3, <2>4 DEF e
<1>4. CASE ~ \A b \in B : e(p) < e(b)
  <2>1. PICK b0 \in B : e(b0) <= e(p)
    <3>1. PICK b0 \in B : ~(e(p) < e(b0))
      BY <1>4
    <3>2. b0 \in S
      BY <1>2
    <3> QED BY <1>1, <3>1, <3>2
  <2>2. b0 \in S /\ e(b0) \in Nat /\ b0 < p
    BY <1>1, <1>2
  <2>3. ASSUME NEW b \in B
        PROVE  b \in T /\ \A q \in T : e(b) <= e(q) /\ (q < b => e(b) < e(q))
    <3>1. b \in S /\ \A q \in S : e(b) <= e(q) /\ (q < b => e(b) < e(q))
      BY <1>2
    <3>2. e(b) <= e(p) /\ ~(p < b)
      BY <1>1, <2>1, <2>2, <3>1
    <3> QED BY <3>1, <3>2
  <2>4. ASSUME NEW b \in T, \A q \in T : e(b) <= e(q) /\ (q < b => e(b) < e(q))
        PROVE  b \in B
    <3>1. b # p
      <4>1. b = p => e(p) < e(b0)
        BY <2>2, <2>4
      <4> QED BY <1>1, <2>1, <2>2, <4>1
    <3> QED BY <1>2, <2>4, <3>1
  <2>5. Kept(audio, T, B)
    BY <2>1, <2>3, <2>4 DEF Kept, FirstQuietest, e
  <2> QED BY <1>4, <2>5 DEF e
<1> QED BY <1>3, <1>4

(* The frames visited in the end are those the cut is chosen among. *)
LEMMA VisitedAll ==
  ASSUME NEW audio, NEW from \in Nat
  PROVE  ScanFrames \in Nat /\ SilentVisited(audio, from, ScanFrames) = SilentFrames(audio, from, MaxChunk)
<1> DEFINE s == SearchStart(MaxChunk)
           w == Window(MaxChunk)
           n == ScanFrames
<1>1. s \in Nat /\ w \in Nat /\ w - s \in Nat /\ Frame \in Nat \ {0}
  <2>1. SearchStart(MaxChunk) <= Window(MaxChunk)
    BY WindowType, MaxChunkAssumption DEF SearchStart
  <2> QED BY <2>1, WindowType, SearchStartBounds, MaxChunkAssumption, FrameAssumption
<1>2. n = (w - s) \div Frame
  BY DEF ScanFrames
<1> HIDE DEF s, w, n
<1>3. n \in Nat
  BY <1>1, <1>2
<1>4. ASSUME NEW j \in 0..(n - 1)
      PROVE  from + s + j * Frame \in FrameStarts(from, MaxChunk)
  <2>1. j \in Nat /\ j < (w - s) \div Frame
    BY <1>2, <1>3
  <2>2. j * Frame \in Nat /\ j * Frame + Frame <= w - s /\ (j * Frame) % Frame = 0
    BY <1>1, <2>1
  <2>3. (from + s + j * Frame) - from - s = j * Frame
    BY <1>1, <2>2
  <2>4. from + s + j * Frame \in (from + s)..(from + w - Frame)
    BY <1>1, <2>2
  <2> QED BY <2>2, <2>3, <2>4 DEF FrameStarts, s, w
<1>5. ASSUME NEW p \in FrameStarts(from, MaxChunk)
      PROVE  \E j \in 0..(n - 1) : p = from + s + j * Frame
  <2> DEFINE a == p - from - s
             j == a \div Frame
  <2>1. a \in Nat /\ a % Frame = 0 /\ a + Frame <= w - s /\ p = from + s + a
    BY <1>1 DEF FrameStarts, s, w
  <2> HIDE DEF a
  <2>2. j \in Nat /\ a = j * Frame
    BY <1>1, <2>1
  <2> HIDE DEF j
  <2>3. j < (w - s) \div Frame
    BY <1>1, <2>1, <2>2
  <2>4. j \in 0..(n - 1)
    BY <1>2, <1>3, <2>2, <2>3
  <2> QED BY <2>1, <2>2, <2>4
<1>6. Visited(from, n) = FrameStarts(from, MaxChunk)
  BY <1>4, <1>5 DEF Visited, ScanStart, s
<1> QED BY <1>3, <1>6 DEF SilentVisited, SilentFrames, n

(* The scan comes to the frame the cut is made in. *)
LEMMA ScanKeeps ==
  ASSUME NEW audio, NEW from \in Nat
  PROVE  Kept(audio, SilentFrames(audio, from, MaxChunk), ScanBest(audio, from))
<1> DEFINE n == ScanFrames
           at(k) == ScanStart(from, k - 1)
           after(k, B) == IF Energy(audio, at(k)) < Threshold /\ \A p \in B : Energy(audio, at(k)) < Energy(audio, p)
                          THEN {at(k)} ELSE B
           next == [q \in Nat \X SUBSET Int |-> after(q[1], q[2])]
           best == CHOOSE best : best = [k \in 0..n |-> IF k = 0 THEN {} ELSE after(k, best[k - 1])]
<1>1. n \in Nat /\ SilentVisited(audio, from, n) = SilentFrames(audio, from, MaxChunk)
  BY VisitedAll
<1>2. ScanBest(audio, from) = best[n]
  BY Zenon DEF ScanBest
<1>3. best = [k \in 0..n |-> IF k = 0 THEN {} ELSE after(k, best[k - 1])]
  <2>1. next \in [Nat \X SUBSET Int -> SUBSET Int]
    <3>1. ASSUME NEW k \in Nat, NEW B \in SUBSET Int
          PROVE  after(k, B) \in SUBSET Int
      <4>1. at(k) \in Int
        BY ScanStartType
      <4> QED BY <4>1
    <3> HIDE DEF after
    <3>2. \A q \in Nat \X SUBSET Int : after(q[1], q[2]) \in SUBSET Int
      BY <3>1
    <3> QED BY <3>2
  <2>2. PICK f \in [0..n -> SUBSET Int] : Iterates(f, {}, next, n)
    <3>1. {} \in SUBSET Int
      OBVIOUS
    <3> HIDE DEF next, n
    <3> QED BY <1>1, <2>1, <3>1, IterationExists, Zenon
  <2>3. ASSUME NEW k \in 0..n
        PROVE  f[k] = IF k = 0 THEN {} ELSE after(k, f[k - 1])
    <3>1. CASE k = 0
      BY <2>2, <3>1 DEF Iterates
    <3>2. CASE k # 0
      <4>1. k \in 1..n /\ k - 1 \in 0..n /\ k \in Nat
        BY <1>1, <3>2
      <4>2. f[k] = next[<<k, f[k - 1]>>] /\ f[k - 1] \in SUBSET Int
        BY <2>2, <4>1 DEF Iterates
      <4> HIDE DEF after
      <4>3. next[<<k, f[k - 1]>>] = after(k, f[k - 1])
        BY <4>1, <4>2
      <4> QED BY <3>2, <4>2, <4>3
    <3> QED BY <3>1, <3>2
  <2>4. f = [k \in 0..n |-> IF k = 0 THEN {} ELSE after(k, f[k - 1])]
    <3> HIDE DEF after, n
    <3> QED BY <2>3, Zenon
  <2> HIDE DEF after, n
  <2> QED BY <2>4, Zenon
<1> HIDE DEF best
<1>4. best[0] = {} /\ \A k \in 1..n : best[k] = after(k, best[k - 1])
  <2> HIDE DEF after
  <2>1. [k \in 0..n |-> IF k = 0 THEN {} ELSE after(k, best[k - 1])][0] = {}
    BY <1>1
  <2>2. \A i \in 1..n : [k \in 0..n |-> IF k = 0 THEN {} ELSE after(k, best[k - 1])][i] = after(i, best[i - 1])
    BY <1>1
  <2> QED BY <1>3, <2>1, <2>2, Zenon
<1> DEFINE S(k) == SilentVisited(audio, from, k)
           right == {k \in Nat : k <= n => Kept(audio, S(k), best[k])}
<1>5. 0 \in right
  <2>1. S(0) = {}
    BY DEF SilentVisited, Visited
  <2>2. Kept(audio, {}, {})
    BY DEF Kept, FirstQuietest
  <2> QED BY <1>4, <2>1, <2>2
<1>6. ASSUME NEW k \in Nat, k \in right, k + 1 <= n
      PROVE  Kept(audio, S(k + 1), best[k + 1])
  <2> DEFINE p == ScanStart(from, k)
  <2>1. Kept(audio, S(k), best[k])
    BY <1>1, <1>6
  <2>2. best[k + 1] = after(k + 1, best[k]) /\ (k + 1) - 1 = k
    <3>1. k + 1 \in 1..n /\ (k + 1) - 1 = k
      BY <1>1, <1>6
    <3> HIDE DEF after
    <3> QED BY <1>4, <3>1
  <2>3. p \in Int /\ \A q \in S(k) : q \in Int /\ q < p
    <3>1. \A j \in 0..(k - 1) : ScanStart(from, j) \in Int /\ ScanStart(from, j) < ScanStart(from, k)
      BY ScanStartType
    <3> QED BY <3>1, ScanStartType DEF SilentVisited, Visited
  <2>4. S(k + 1) = IF Energy(audio, p) < Threshold THEN S(k) \cup {p} ELSE S(k)
    <3>1. Visited(from, k + 1) = Visited(from, k) \cup {p}
      <4>1. 0..((k + 1) - 1) = (0..(k - 1)) \cup {k}
        OBVIOUS
      <4> QED BY <4>1 DEF Visited
    <3> HIDE DEF p
    <3> QED BY <3>1 DEF SilentVisited
  <2>5. best[k + 1] = IF Energy(audio, p) < Threshold /\ \A b \in best[k] : Energy(audio, p) < Energy(audio, b)
                      THEN {p} ELSE best[k]
    BY <2>2
  <2> HIDE DEF p, S
  <2>6. CASE Energy(audio, p) < Threshold
    <3>1. Kept(audio, S(k) \cup {p}, IF \A b \in best[k] : Energy(audio, p) < Energy(audio, b) THEN {p} ELSE best[k])
      BY <2>1, <2>3, KeptStep
    <3> QED BY <2>4, <2>5, <2>6, <3>1
  <2>7. CASE ~(Energy(audio, p) < Threshold)
    BY <2>1, <2>4, <2>5, <2>7
  <2> QED BY <2>6, <2>7
<1>7. \A k \in Nat : k \in right
  <2>1. \A k \in Nat : k \in right => k + 1 \in right
    <3> HIDE DEF S, n
    <3>1. \A k \in Nat : k + 1 \in Nat
      OBVIOUS
    <3> QED BY <1>6, <3>1, Zenon
  <2> HIDE DEF right
  <2> QED BY <1>5, <2>1, Induction
<1>8. Kept(audio, S(n), best[n])
  BY <1>1, <1>7
<1> QED BY <1>1, <1>2, <1>8

LEMMA CutIsScanCut ==
  ASSUME NEW audio \in Seq(Sample), NEW from \in Nat
  PROVE  IsScanCut(audio, from, FirstCut(audio, from, MaxChunk))
<1> DEFINE silent == SilentFrames(audio, from, MaxChunk)
           kept == ScanBest(audio, from)
           best == BestFrame(audio, from, MaxChunk)
<1>1. Kept(audio, silent, kept)
  BY ScanKeeps
<1>2. CASE Len(audio) - from <= Window(MaxChunk)
  BY <1>2 DEF IsScanCut, FirstCut
<1>3. CASE Len(audio) - from > Window(MaxChunk) /\ silent = {}
  <2>1. kept = {}
    BY <1>1, <1>3 DEF Kept, FirstQuietest
  <2>2. Window(MaxChunk) \in Nat
    BY WindowType, MaxChunkAssumption
  <2> QED BY <1>3, <2>1, <2>2 DEF IsScanCut, FirstCut
<1>4. CASE Len(audio) - from > Window(MaxChunk) /\ silent # {}
  <2>1. IsBest(audio, from, MaxChunk, best)
    BY <1>4, BestExists, MaxChunkAssumption, Zenon DEF BestFrame
  <2>2. best \in kept
    BY <1>1, <2>1 DEF IsBest, Kept, FirstQuietest
  <2>3. ASSUME NEW p \in kept PROVE p = best
    <3>1. p \in silent /\ best \in silent /\ p \in Nat /\ best \in Nat
      BY <1>1, <2>2, FrameBounds, MaxChunkAssumption DEF Kept, FirstQuietest
    <3>2. Energy(audio, p) \in Nat /\ Energy(audio, best) \in Nat
      BY <3>1, EnergyType
    <3>3. p < best => Energy(audio, best) < Energy(audio, p)
      BY <2>1, <3>1 DEF IsBest
    <3>4. Energy(audio, p) <= Energy(audio, best) /\ (best < p => Energy(audio, p) < Energy(audio, best))
      BY <1>1, <3>1 DEF Kept, FirstQuietest
    <3>5. Energy(audio, best) <= Energy(audio, p)
      BY <2>1, <3>1 DEF IsBest
    <3> HIDE DEF best
    <3> QED BY <3>1, <3>2, <3>3, <3>4, <3>5
  <2>4. best \in Nat /\ from <= best /\ Frame \div 2 \in Nat /\ Window(MaxChunk) \in Nat
    <3>1. best \in silent
      BY <1>4, BestBounds, MaxChunkAssumption
    <3>2. best \in Nat /\ from + SearchStart(MaxChunk) <= best
      BY <3>1, FrameBounds, MaxChunkAssumption
    <3>3. SearchStart(MaxChunk) \in Nat /\ Window(MaxChunk) \in Nat
      BY SearchStartBounds, WindowType, MaxChunkAssumption
    <3>4. Frame \div 2 \in Nat
      BY FrameAssumption
    <3> HIDE DEF best
    <3> QED BY <3>2, <3>3, <3>4
  <2>5. FirstCut(audio, from, MaxChunk) = IF best + Frame \div 2 > from THEN best + Frame \div 2 ELSE from + Window(MaxChunk)
    BY <1>4, <2>4 DEF FirstCut
  <2> HIDE DEF best, kept
  <2>6. kept = {best}
    BY <2>2, <2>3
  <2> QED BY <1>4, <2>4, <2>5, <2>6 DEF IsScanCut, kept
<1> QED
  <2>1. Window(MaxChunk) \in Nat
    BY WindowType, MaxChunkAssumption
  <2> QED BY <1>2, <1>3, <1>4, <2>1

(* Every cut is where the scan of the code, frame by frame, comes to.      *)
THEOREM RangesCutWhereScanDoes == Spec => []CutsWhereScanDoes
<1>1. Init => CutsWhereScanDoes
  BY DEF Init, CutsWhereScanDoes
<1>2. RInv /\ CutsWhereScanDoes /\ [Next]_vars => CutsWhereScanDoes'
  <2> SUFFICES ASSUME RInv, CutsWhereScanDoes, [Next]_vars PROVE CutsWhereScanDoes'
    OBVIOUS
  <2>1. CASE PushRange
    <3> DEFINE cut == FirstCut(pcm, start, MaxChunk)
    <3>1. /\ pcm \in Seq(Sample) /\ start \in Nat /\ start < Len(pcm) /\ pcm' = pcm
          /\ ranges \in Seq(Nat \X Nat) /\ ranges' = Append(ranges, <<start, cut>>)
      BY <2>1, RecordingsAssumption DEF PushRange, RInv, TypeOK
    <3>2. cut \in Nat
      BY <3>1, CutBounds, MaxChunkAssumption
    <3>3. IsScanCut(pcm, start, cut)
      BY <3>1, CutIsScanCut
    <3> HIDE DEF cut
    <3>4. /\ DOMAIN ranges' = 1..(Len(ranges) + 1) /\ Len(ranges) \in Nat
          /\ ranges'[Len(ranges) + 1] = <<start, cut>>
          /\ \A i \in 1..Len(ranges) : ranges'[i] = ranges[i]
      <4>1. <<start, cut>> \in Nat \X Nat
        BY <3>1, <3>2
      <4> QED BY <3>1, <4>1, AppendElement
    <3>5. ASSUME NEW i \in 1..(Len(ranges) + 1)
          PROVE  IsScanCut(pcm, ranges'[i][1], ranges'[i][2])
      <4>1. CASE i \in 1..Len(ranges)
        BY <3>1, <3>4, <4>1 DEF CutsWhereScanDoes
      <4>2. CASE i = Len(ranges) + 1
        BY <3>3, <3>4, <4>2
      <4> QED BY <3>4, <4>1, <4>2
    <3> QED BY <3>1, <3>4, <3>5 DEF CutsWhereScanDoes
  <2>2. CASE UNCHANGED vars
    BY <2>2 DEF vars, CutsWhereScanDoes
  <2> QED BY <2>1, <2>2 DEF Next
<1> QED BY <1>1, <1>2, RangesInvariant, PTL DEF Spec
=============================================================================
