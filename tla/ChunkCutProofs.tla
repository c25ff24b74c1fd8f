---------------------------- MODULE ChunkCutProofs ----------------------------
(***************************************************************************)
(* What first_cut promises whatever the audio, the window, the frame and   *)
(* the threshold: a cut makes progress, stays inside the window, and falls *)
(* in a silence of the look-back if there is one.                          *)
(* With it, what the proofs about uploads and decoding need as well: least *)
(* counterexamples, recursive functions, and sequences that grow.          *)
(***************************************************************************)
EXTENDS ChunkCut, SequencesExt, FiniteSetTheorems, SequenceTheorems, WellFoundedInduction, TLAPS

(* Where the elements are after one more has been appended. *)
LEMMA AppendElement ==
  ASSUME NEW S, NEW rs \in Seq(S), NEW r \in S
  PROVE  /\ Len(Append(rs, r)) = Len(rs) + 1
         /\ DOMAIN Append(rs, r) = 1..(Len(rs) + 1)
         /\ Append(rs, r)[Len(rs) + 1] = r
         /\ \A i \in 1..Len(rs) : Append(rs, r)[i] = rs[i]
         /\ Append(rs, r) # <<>>
<1>1. Append(rs, r) \in Seq(S) /\ Len(Append(rs, r)) = Len(rs) + 1 /\ Append(rs, r) # <<>>
  BY AppendProperties
<1>2. \A i \in 1..Len(rs) : Append(rs, r)[i] = rs[i]
  BY AppendProperties
<1>3. Append(rs, r)[Len(rs) + 1] = r
  BY AppendProperties
<1> QED BY <1>1, <1>2, <1>3

LEMMA IsAppend ==
  ASSUME NEW S, NEW rs \in Seq(S), NEW r \in S, NEW more,
         more = [i \in 1..(Len(rs) + 1) |-> more[i]],
         more[Len(rs) + 1] = r, \A i \in 1..Len(rs) : more[i] = rs[i]
  PROVE  more = Append(rs, r)
<1> DEFINE n == Len(rs)
           longer == Append(rs, r)
<1>1. n \in Nat /\ longer \in Seq(S) /\ Len(longer) = n + 1
  BY AppendProperties
<1>2. longer[n + 1] = r /\ \A i \in 1..n : longer[i] = rs[i]
  BY AppendElement
<1> HIDE DEF n, longer
<1>3. longer = [i \in 1..(n + 1) |-> longer[i]]
  BY <1>1
<1>4. ASSUME NEW i \in 1..(n + 1)
      PROVE  more[i] = longer[i]
  <2>1. i = n + 1 \/ i \in 1..n
    BY <1>1
  <2> QED BY <1>2, <2>1 DEF n
<1>5. more = [i \in 1..(n + 1) |-> more[i]]
  BY DEF n
<1> QED BY <1>3, <1>4, <1>5 DEF longer

(* The energy of a frame is a number: a frame is finite. *)
LEMMA EnergyType ==
  ASSUME NEW audio, NEW p \in Int
  PROVE  Energy(audio, p) \in Nat
<1> DEFINE loud == {i \in (p + 1)..(p + Frame) : audio[i] = "loud"}
<1>1. IsFiniteSet((p + 1)..(p + Frame))
  BY FS_Interval, FrameAssumption
<1>2. IsFiniteSet(loud)
  BY <1>1, FS_Subset
<1> QED BY <1>2, FS_CardinalityType DEF Energy

(* A window holds a frame, and the look-back is a length. *)
LEMMA WindowType ==
  ASSUME NEW max \in Nat
  PROVE  /\ Window(max) \in Nat /\ Window(max) >= Frame /\ Window(max) >= max
         /\ Window(max) = Frame \/ Window(max) = max
         /\ SearchBack(max) \in Nat
<1>1. Window(max) \in Nat /\ Window(max) >= Frame /\ Window(max) >= max
      /\ (Window(max) = Frame \/ Window(max) = max)
  BY FrameAssumption DEF Window
<1>2. SearchBack(max) \in Nat
  <2>1. max * SearchBackPercent \in Nat
    BY SearchBackAssumption
  <2>2. \A n \in Nat : n \div 100 \in Nat
    OBVIOUS
  <2> QED BY <2>1, <2>2, SearchBackAssumption DEF SearchBack
<1> QED BY <1>1, <1>2

LEMMA SearchStartBounds ==
  ASSUME NEW max \in Nat
  PROVE  SearchStart(max) \in Nat /\ SearchStart(max) >= Window(max) - SearchBack(max)
BY WindowType DEF SearchStart

LEMMA FrameBounds ==
  ASSUME NEW audio, NEW from \in Nat, NEW max \in Nat, NEW p \in SilentFrames(audio, from, max)
  PROVE  p \in Nat /\ from + SearchStart(max) <= p /\ p <= from + Window(max) - Frame
BY SearchStartBounds, WindowType, FrameAssumption DEF SilentFrames, FrameStarts

(* A set of numbers has a least one. *)
LEMMA LeastExists ==
  ASSUME NEW S, S \subseteq Nat, S # {}
  PROVE  \E least \in S : \A n \in S : least <= n
<1> DEFINE R == OpToRel(<, Nat)
<1>1. IsWellFoundedOn(R, Nat)
  BY NatLessThanWellFounded
<1>2. \A n, m \in Nat : n < m => <<n, m>> \in R
  BY Zenon DEF OpToRel
<1> HIDE DEF R
<1>3. PICK least \in S : \A n \in S : ~(<<n, least>> \in R)
  BY <1>1, WFMin
<1>4. \A n \in S : ~(n < least)
  BY <1>2, <1>3, Zenon
<1> QED BY <1>3, <1>4

(* A set of numbers with 0 and with the number after each has them all.    *)
LEMMA Induction ==
  ASSUME NEW T, 0 \in T, \A n \in Nat : n \in T => n + 1 \in T
  PROVE  \A n \in Nat : n \in T
<1> DEFINE missed == Nat \ T
<1>1. CASE missed = {}
  BY <1>1
<1>2. CASE missed # {}
  <2> missed \subseteq Nat
    OBVIOUS
  <2>1. PICK m \in missed : \A k \in missed : m <= k
    <3> HIDE DEF missed
    <3> QED BY <1>2, LeastExists
  <2>2. m # 0 /\ m - 1 \in Nat
    BY <2>1
  <2>3. m - 1 \in T
    BY <2>1, <2>2
  <2>4. (m - 1) + 1 \in T
    BY <2>2, <2>3
  <2> QED BY <2>1, <2>4
<1> QED BY <1>1, <1>2

(* Among the silent frames there is a quietest, and a first of those. *)
LEMMA BestExists ==
  ASSUME NEW audio, NEW from \in Nat, NEW max \in Nat, SilentFrames(audio, from, max) # {}
  PROVE  \E p \in SilentFrames(audio, from, max) : IsBest(audio, from, max, p)
<1> DEFINE silent == SilentFrames(audio, from, max)
           energies == {Energy(audio, p) : p \in silent}
<1>1. \A p \in silent : p \in Nat
  BY FrameBounds
<1>2. energies \subseteq Nat /\ energies # {}
  BY <1>1, EnergyType
<1>3. PICK least \in energies : \A e \in energies : least <= e
  BY <1>2, LeastExists
<1> DEFINE quietest == {p \in silent : Energy(audio, p) = least}
<1>5. quietest \subseteq Nat /\ quietest # {}
  BY <1>1, <1>3
<1>6. PICK first \in quietest : \A p \in quietest : first <= p
  BY <1>5, LeastExists
<1>8. ASSUME NEW q \in silent
      PROVE  Energy(audio, first) <= Energy(audio, q) /\ (q < first => Energy(audio, first) < Energy(audio, q))
  <2>1. Energy(audio, q) \in Nat /\ Energy(audio, first) = least /\ least \in Nat /\ least <= Energy(audio, q)
    BY <1>1, <1>2, <1>3, <1>6, <1>8, EnergyType
  <2>2. q < first => Energy(audio, q) # least
    BY <1>1, <1>5, <1>6, <1>8
  <2> QED BY <2>1, <2>2
<1> QED BY <1>6, <1>8 DEF IsBest

LEMMA BestBounds ==
  ASSUME NEW audio, NEW from \in Nat, NEW max \in Nat, SilentFrames(audio, from, max) # {}
  PROVE  BestFrame(audio, from, max) \in SilentFrames(audio, from, max)
BY BestExists DEF BestFrame

(* A cut makes progress, and leaves a chunk no longer than the window.     *)
LEMMA CutBounds ==
  ASSUME NEW audio \in Seq(Sample), NEW from \in Nat, NEW max \in Nat, from < Len(audio)
  PROVE  /\ FirstCut(audio, from, max) \in Nat
         /\ from < FirstCut(audio, from, max) /\ FirstCut(audio, from, max) <= Len(audio)
         /\ FirstCut(audio, from, max) - from <= Window(max)
         /\ FirstCut(audio, from, max) < Len(audio) =>
              FirstCut(audio, from, max) - from >= Window(max) - SearchBack(max)
<1>0. Window(max) \in Nat /\ Window(max) >= Frame /\ SearchBack(max) \in Nat
  BY WindowType
<1>1. Len(audio) \in Nat
  OBVIOUS
<1>2. CASE Len(audio) - from <= Window(max)
  BY <1>1, <1>2 DEF FirstCut
<1>3. CASE /\ Len(audio) - from > Window(max)
           /\ SilentFrames(audio, from, max) # {}
           /\ BestFrame(audio, from, max) + Frame \div 2 > from
  <2> DEFINE best == BestFrame(audio, from, max)
  <2>1. best \in Nat /\ from + SearchStart(max) <= best /\ best <= from + Window(max) - Frame
    BY <1>3, BestBounds, FrameBounds
  <2>2. Frame \div 2 \in Nat /\ Frame \div 2 <= Frame
    BY FrameAssumption
  <2>3. FirstCut(audio, from, max) = best + Frame \div 2
    BY <1>1, <1>3, <1>0 DEF FirstCut
  <2>4. SearchStart(max) \in Nat /\ SearchStart(max) >= Window(max) - SearchBack(max)
    BY SearchStartBounds
  <2>5. from < best + Frame \div 2 /\ Len(audio) - from > Window(max)
    BY <1>3
  <2> HIDE DEF best
  <2> QED BY <1>0, <1>1, <2>1, <2>2, <2>3, <2>4, <2>5, FrameAssumption
<1>4. CASE /\ Len(audio) - from > Window(max)
           /\ ~(SilentFrames(audio, from, max) # {} /\ BestFrame(audio, from, max) + Frame \div 2 > from)
  <2>1. FirstCut(audio, from, max) = from + Window(max)
    BY <1>1, <1>4, <1>0 DEF FirstCut
  <2> QED BY <1>1, <1>4, <2>1, <1>0, FrameAssumption
<1> QED BY <1>1, <1>2, <1>3, <1>4, <1>0

(* CutsInSilence, of one range. *)
SilentCut(audio, from, max, to) ==
  \/ to = Len(audio)
  \/ \E p \in SilentFrames(audio, from, max) : p <= to /\ to < p + Frame
  \/ SilentFrames(audio, from, max) = {} /\ to - from = Window(max)

(* Where a cut falls.  A frame of one sample has its middle where it       *)
(* begins, and a cut there may make no progress.                           *)
LEMMA CutSilent ==
  ASSUME NEW audio \in Seq(Sample), NEW from \in Nat, NEW max \in Nat, Frame > 1
  PROVE  SilentCut(audio, from, max, FirstCut(audio, from, max))
<1>0. Window(max) \in Nat /\ Window(max) >= Frame /\ SearchBack(max) \in Nat
  BY WindowType
<1>1. CASE Len(audio) - from <= Window(max)
  BY <1>1 DEF FirstCut, SilentCut
<1>2. CASE Len(audio) - from > Window(max) /\ SilentFrames(audio, from, max) = {}
  <2>1. FirstCut(audio, from, max) = from + Window(max)
    BY <1>2, <1>0 DEF FirstCut
  <2> QED BY <1>2, <2>1, <1>0 DEF SilentCut
<1>3. CASE Len(audio) - from > Window(max) /\ SilentFrames(audio, from, max) # {}
  <2> DEFINE best == BestFrame(audio, from, max)
  <2>1. best \in SilentFrames(audio, from, max)
    BY <1>3, BestBounds
  <2>2. best \in Nat /\ from <= best
    BY <2>1, FrameBounds, SearchStartBounds
  <2>3. Frame \div 2 \in Nat /\ Frame \div 2 > 0 /\ Frame \div 2 < Frame
    BY FrameAssumption
  <2> HIDE DEF best
  <2>4. best + Frame \div 2 > from
    BY <2>2, <2>3
  <2>5. FirstCut(audio, from, max) = best + Frame \div 2
    BY <1>3, <2>4, <1>0 DEF FirstCut, best
  <2>6. best <= FirstCut(audio, from, max) /\ FirstCut(audio, from, max) < best + Frame
    BY <2>2, <2>3, <2>5, FrameAssumption
  <2> QED BY <2>1, <2>6 DEF SilentCut
<1> QED BY <1>1, <1>2, <1>3, <1>0

----------------------------------------------------------------------------
(* Recursion and FlattenSeq.                                               *)

(* f runs through the values x, next[1, x], and so on, n steps far. *)
Iterates(f, x, next, n) == f[0] = x /\ \A k \in 1..n : f[k] = next[<<k, f[k - 1]>>]

(* A function can be defined by recursion over the steps. *)
LEMMA IterationExists ==
  ASSUME NEW X, NEW x \in X, NEW next \in [Nat \X X -> X], NEW n \in Nat
  PROVE  \E f \in [0..n -> X] : Iterates(f, x, next, n)
<1> DEFINE Reached(m) == \E f \in [0..m -> X] : Iterates(f, x, next, m)
           missed == {m \in Nat : ~Reached(m)}
<1>1. CASE missed = {}
  BY <1>1
<1>2. CASE missed # {}
  <2>1. PICK m \in missed : \A k \in missed : m <= k
    BY <1>2, LeastExists
  <2>2. m \in Nat
    OBVIOUS
  <2>3. CASE m = 0
    <3>1. [k \in 0..0 |-> x] \in [0..0 -> X] /\ Iterates([k \in 0..0 |-> x], x, next, 0)
      BY DEF Iterates
    <3>2. Reached(0)
      BY <3>1
    <3> QED BY <2>3, <3>2
  <2>4. CASE m # 0
    <3>1. m - 1 \in Nat /\ m - 1 \notin missed
      BY <2>1, <2>2, <2>4
    <3>2. PICK f \in [0..(m - 1) -> X] : Iterates(f, x, next, m - 1)
      BY <3>1
    <3> DEFINE g == [k \in 0..m |-> IF k = m THEN next[<<m, f[m - 1]>>] ELSE f[k]]
    <3>3. f[m - 1] \in X /\ next[<<m, f[m - 1]>>] \in X
      BY <2>2, <3>1
    <3>4. g \in [0..m -> X]
      BY <2>2, <3>3
    <3>5. ASSUME NEW k \in 1..m
          PROVE  g[k] = next[<<k, g[k - 1]>>]
      <4>1. k - 1 \in 0..m /\ k - 1 # m /\ k \in 0..m
        BY <2>2
      <4>2. g[k - 1] = f[k - 1]
        BY <4>1
      <4>3. CASE k = m
        BY <4>1, <4>2, <4>3
      <4>4. CASE k # m
        <5>1. k \in 1..(m - 1)
          BY <2>2, <4>4
        <5>2. f[k] = next[<<k, f[k - 1]>>]
          BY <3>2, <5>1 DEF Iterates
        <5>3. g[k] = f[k]
          BY <4>1, <4>4
        <5> QED BY <4>2, <5>2, <5>3
      <4> QED BY <4>3, <4>4
    <3>6. g[0] = x
      BY <2>2, <2>4, <3>2 DEF Iterates
    <3>7. Iterates(g, x, next, m)
      <4> HIDE DEF g
      <4> QED BY <3>5, <3>6 DEF Iterates
    <3>8. Reached(m)
      <4> HIDE DEF g
      <4> QED BY <3>4, <3>7
    <3> QED BY <2>2, <3>8
  <2> QED BY <2>3, <2>4
<1> QED BY <1>1, <1>2

(* f collects the first n parts of ss, one after the other. *)
Collects(f, ss, n) == f[0] = <<>> /\ \A k \in 1..n : f[k] = f[k - 1] \o ss[k]

LEMMA CollectsUnique ==
  ASSUME NEW ss, NEW f, NEW g, NEW n \in Nat, Collects(f, ss, n), Collects(g, ss, n)
  PROVE  f[n] = g[n]
<1> DEFINE differ == {k \in 0..n : f[k] # g[k]}
<1>1. CASE differ = {}
  BY <1>1
<1>2. CASE differ # {}
  <2> differ \subseteq Nat
    OBVIOUS
  <2>1. PICK k \in differ : \A l \in differ : k <= l
    <3> HIDE DEF differ
    <3> QED BY <1>2, LeastExists
  <2>2. k \in 1..n /\ k - 1 \in 0..n /\ k - 1 \notin differ
    BY <2>1 DEF Collects
  <2> QED BY <2>2 DEF Collects
<1> QED BY <1>1, <1>2

LEMMA FlattenCollects ==
  ASSUME NEW S, NEW ss \in Seq(Seq(S))
  PROVE  \E f \in [0..Len(ss) -> Seq(S)] : Collects(f, ss, Len(ss)) /\ FlattenSeq(ss) = f[Len(ss)]
<1> DEFINE n == Len(ss)
           next == [p \in Nat \X Seq(S) |-> p[2] \o (IF p[1] \in 1..n THEN ss[p[1]] ELSE <<>>)]
           flatten == CHOOSE flatten : flatten = [i \in 1..n |-> IF i = 1 THEN ss[i] ELSE flatten[i - 1] \o ss[i]]
<1>1. n \in Nat /\ \A k \in 1..n : ss[k] \in Seq(S)
  OBVIOUS
<1>2. next \in [Nat \X Seq(S) -> Seq(S)]
  <2>1. \A p \in Nat \X Seq(S) : p[2] \in Seq(S) /\ (IF p[1] \in 1..n THEN ss[p[1]] ELSE <<>>) \in Seq(S)
    BY <1>1
  <2>2. \A s, t \in Seq(S) : s \o t \in Seq(S)
    OBVIOUS
  <2> HIDE DEF n
  <2> QED BY <2>1, <2>2
<1>3. PICK f \in [0..n -> Seq(S)] : Iterates(f, <<>>, next, n)
  <2>1. <<>> \in Seq(S)
    OBVIOUS
  <2> HIDE DEF next, n
  <2>2. n \in Nat
    BY <1>1
  <2> QED BY <2>1, <2>2, <1>2, IterationExists, Zenon
<1>4. Collects(f, ss, n)
  <2>1. f[0] = <<>> /\ \A k \in 1..n : f[k] = next[<<k, f[k - 1]>>]
    BY <1>3 DEF Iterates
  <2>2. ASSUME NEW k \in 1..n
        PROVE  next[<<k, f[k - 1]>>] = f[k - 1] \o ss[k]
    <3>1. k - 1 \in 0..n /\ k \in Nat
      BY <1>1
    <3>2. <<k, f[k - 1]>> \in Nat \X Seq(S)
      BY <3>1
    <3> QED BY <3>2
  <2> QED BY <2>1, <2>2 DEF Collects
<1>5. CASE n = 0
  <2>1. FlattenSeq(ss) = ss /\ ss = <<>>
    BY <1>5 DEF FlattenSeq
  <2> QED BY <1>1, <1>4, <1>5, <2>1 DEF Collects
<1>6. CASE n # 0
  <2> DEFINE h == [i \in 1..n |-> f[i]]
  <2>1. h = [i \in 1..n |-> IF i = 1 THEN ss[i] ELSE h[i - 1] \o ss[i]]
    <3>1. ASSUME NEW i \in 1..n
          PROVE  h[i] = IF i = 1 THEN ss[i] ELSE h[i - 1] \o ss[i]
      <4>1. CASE i = 1
        <5>0. 1 \in 1..n /\ 1 - 1 = 0
          BY <4>1
        <5>1. ss[1] \in Seq(S) /\ f[1] = f[0] \o ss[1] /\ f[0] = <<>>
          BY <1>1, <1>4, <5>0 DEF Collects
        <5>2. <<>> \o ss[1] = ss[1]
          BY <5>1, ConcatEmptySeq
        <5> QED BY <4>1, <5>1, <5>2
      <4>2. CASE i # 1
        <5>1. i - 1 \in 1..n
          BY <1>1, <4>2
        <5> QED BY <1>4, <4>2, <5>1 DEF Collects
      <4> QED BY <4>1, <4>2
    <3> QED BY <3>1, Zenon
  <2>2. flatten = [i \in 1..n |-> IF i = 1 THEN ss[i] ELSE flatten[i - 1] \o ss[i]]
    <3> HIDE DEF h
    <3> QED BY <2>1, Zenon
  <2>3. FlattenSeq(ss) = flatten[n]
    BY <1>6, Zenon DEF FlattenSeq
  <2> HIDE DEF flatten, h
  <2> DEFINE g == [i \in 0..n |-> IF i = 0 THEN <<>> ELSE flatten[i]]
  <2>4. g[0] = <<>> /\ g[n] = flatten[n]
    BY <1>1, <1>6
  <2>5. ASSUME NEW k \in 1..n
        PROVE  g[k] = g[k - 1] \o ss[k]
    <3>1. g[k] = flatten[k] /\ k - 1 \in 0..n
      BY <1>1
    <3>2. flatten[k] = IF k = 1 THEN ss[k] ELSE flatten[k - 1] \o ss[k]
      <4>1. [i \in 1..n |-> IF i = 1 THEN ss[i] ELSE flatten[i - 1] \o ss[i]][k] = IF k = 1 THEN ss[k] ELSE flatten[k - 1] \o ss[k]
        OBVIOUS
      <4> QED BY <2>2, <4>1, Zenon
    <3>3. CASE k = 1
      <4>1. ss[1] \in Seq(S) /\ <<>> \o ss[1] = ss[1]
        BY <1>1, <3>3, ConcatEmptySeq
      <4> QED BY <2>4, <3>1, <3>2, <3>3, <4>1
    <3>4. CASE k # 1
      <4>1. g[k - 1] = flatten[k - 1]
        BY <1>1, <3>1, <3>4
      <4> QED BY <3>1, <3>2, <3>4, <4>1
    <3> QED BY <3>3, <3>4
  <2> HIDE DEF g
  <2>6. Collects(g, ss, n)
    BY <2>4, <2>5 DEF Collects
  <2>7. g[n] = f[n]
    BY <1>1, <1>4, <2>6, CollectsUnique
  <2> QED BY <1>4, <2>3, <2>4, <2>7
<1> QED BY <1>5, <1>6

(* FlattenSeq of one more part. *)
LEMMA FlattenAppend ==
  ASSUME NEW S, NEW ss \in Seq(Seq(S)), NEW s \in Seq(S)
  PROVE  FlattenSeq(ss) \in Seq(S) /\ FlattenSeq(Append(ss, s)) = FlattenSeq(ss) \o s
<1> DEFINE n == Len(ss)
           more == Append(ss, s)
<1>1. n \in Nat /\ more \in Seq(Seq(S)) /\ Len(more) = n + 1 /\ more[n + 1] = s /\ \A k \in 1..n : more[k] = ss[k]
  BY AppendProperties
<1>2. PICK f \in [0..n -> Seq(S)] : Collects(f, ss, n) /\ FlattenSeq(ss) = f[n]
  BY FlattenCollects
<1>3. PICK g \in [0..(n + 1) -> Seq(S)] : Collects(g, more, n + 1) /\ FlattenSeq(more) = g[n + 1]
  <2> HIDE DEF more, n
  <2> QED BY <1>1, FlattenCollects
<1> HIDE DEF n, more
<1>4. Collects(g, ss, n) /\ g[n + 1] = g[n] \o s
  <2>1. g[0] = <<>> /\ \A k \in 1..(n + 1) : g[k] = g[k - 1] \o more[k]
    BY <1>3 DEF Collects
  <2>2. ASSUME NEW k \in 1..n
        PROVE  g[k] = g[k - 1] \o ss[k]
    <3>1. k \in 1..(n + 1) /\ more[k] = ss[k]
      BY <1>1
    <3> QED BY <2>1, <3>1
  <2>3. n + 1 \in 1..(n + 1) /\ (n + 1) - 1 = n
    BY <1>1
  <2>4. g[n + 1] = g[n] \o s
    BY <1>1, <2>1, <2>3
  <2> QED BY <2>1, <2>2, <2>4 DEF Collects
<1>5. f[n] = g[n]
  BY <1>1, <1>2, <1>4, CollectsUnique, ZenonT(60)
<1>6. FlattenSeq(more) = FlattenSeq(ss) \o s
  BY <1>2, <1>3, <1>4, <1>5
<1>7. FlattenSeq(ss) \in Seq(S)
  BY <1>1, <1>2
<1> QED BY <1>6, <1>7 DEF more

(* The elements of FlattenSeq(ss) are those of its parts, and any two of   *)
(* them are related as "before" relates those of one part, and those of a  *)
(* part to those of a later one.                                           *)
InOrder(s, before) == \A i, j \in DOMAIN s : i < j => <<s[i], s[j]>> \in before

PartsInOrder(ss, n, before) ==
  /\ \A i \in 1..n : InOrder(ss[i], before)
  /\ \A i, j \in 1..n : i < j =>
       \A k \in DOMAIN ss[i], l \in DOMAIN ss[j] : <<ss[i][k], ss[j][l]>> \in before

Flattened(s, ss, n, before) ==
  /\ \A p \in DOMAIN s : \E i \in 1..n : \E k \in DOMAIN ss[i] : s[p] = ss[i][k]
  /\ \A i \in 1..n : \A k \in DOMAIN ss[i] : \E p \in DOMAIN s : s[p] = ss[i][k]
  /\ InOrder(s, before)

LEMMA FlattenedStep ==
  ASSUME NEW S, NEW ss \in Seq(Seq(S)), NEW n \in Nat, n < Len(ss), NEW s \in Seq(S), NEW before,
         PartsInOrder(ss, Len(ss), before), Flattened(s, ss, n, before)
  PROVE  Flattened(s \o ss[n + 1], ss, n + 1, before)
<1> DEFINE t == ss[n + 1]
           st == s \o t
<1>1. n + 1 \in 1..Len(ss) /\ t \in Seq(S)
  OBVIOUS
<1> HIDE DEF t
<1>2. /\ st \in Seq(S) /\ Len(st) = Len(s) + Len(t)
      /\ \A p \in 1..Len(s) : st[p] = s[p]
      /\ \A p \in 1..Len(t) : st[Len(s) + p] = t[p]
  BY <1>1
<1> HIDE DEF st
<1>3. Len(s) \in Nat /\ Len(t) \in Nat /\ DOMAIN s = 1..Len(s) /\ DOMAIN t = 1..Len(t) /\ DOMAIN st = 1..(Len(s) + Len(t))
  BY <1>1, <1>2
<1>4. ASSUME NEW p \in DOMAIN st
      PROVE  \/ p \in DOMAIN s /\ st[p] = s[p]
             \/ p - Len(s) \in DOMAIN t /\ p > Len(s) /\ st[p] = t[p - Len(s)]
  <2>1. CASE p <= Len(s)
    BY <1>2, <1>3, <2>1
  <2>2. CASE p > Len(s)
    <3>1. p - Len(s) \in 1..Len(t) /\ Len(s) + (p - Len(s)) = p
      BY <1>3, <2>2
    <3> QED BY <1>2, <1>3, <2>2, <3>1
  <2> QED BY <1>3, <2>1, <2>2
<1>5. \A p \in DOMAIN s : \E i \in 1..n : \E k \in DOMAIN ss[i] : s[p] = ss[i][k]
  BY DEF Flattened
<1>6. ASSUME NEW p \in DOMAIN st
      PROVE  \E i \in 1..(n + 1) : \E k \in DOMAIN ss[i] : st[p] = ss[i][k]
  <2>1. CASE p \in DOMAIN s /\ st[p] = s[p]
    <3>1. PICK i \in 1..n : \E k \in DOMAIN ss[i] : s[p] = ss[i][k]
      BY <1>5, <2>1
    <3>2. i \in 1..(n + 1)
      OBVIOUS
    <3> QED BY <2>1, <3>1, <3>2
  <2>2. CASE p - Len(s) \in DOMAIN t /\ st[p] = t[p - Len(s)]
    <3>1. n + 1 \in 1..(n + 1)
      OBVIOUS
    <3> QED BY <2>2, <3>1 DEF t
  <2> QED BY <1>4, <2>1, <2>2
<1>7. ASSUME NEW i \in 1..(n + 1), NEW k \in DOMAIN ss[i]
      PROVE  \E p \in DOMAIN st : st[p] = ss[i][k]
  <2>1. CASE i = n + 1
    <3>1. k \in 1..Len(t)
      BY <1>3, <2>1 DEF t
    <3>2. Len(s) + k \in DOMAIN st /\ st[Len(s) + k] = t[k]
      BY <1>2, <1>3, <3>1
    <3> QED BY <2>1, <3>2 DEF t
  <2>2. CASE i # n + 1
    <3>1. i \in 1..n
      BY <2>2
    <3>2. PICK p \in DOMAIN s : s[p] = ss[i][k]
      BY <3>1 DEF Flattened
    <3>3. p \in DOMAIN st /\ st[p] = s[p]
      BY <1>2, <1>3
    <3> QED BY <3>2, <3>3
  <2> QED BY <2>1, <2>2
<1>8. ASSUME NEW p \in DOMAIN st, NEW q \in DOMAIN st, p < q
      PROVE  <<st[p], st[q]>> \in before
  <2>1. CASE q \in DOMAIN s /\ st[q] = s[q]
    <3>1. p \in DOMAIN s /\ st[p] = s[p]
      BY <1>2, <1>3, <1>8, <2>1
    <3> QED BY <1>8, <2>1, <3>1 DEF Flattened, InOrder
  <2>2. CASE q - Len(s) \in DOMAIN t /\ st[q] = t[q - Len(s)]
    <3>1. CASE p \in DOMAIN s /\ st[p] = s[p]
      <4>1. PICK i \in 1..n : \E k \in DOMAIN ss[i] : s[p] = ss[i][k]
        BY <1>5, <3>1
      <4>2. PICK k \in DOMAIN ss[i] : s[p] = ss[i][k]
        BY <4>1
      <4>3. i \in 1..Len(ss) /\ n + 1 \in 1..Len(ss) /\ i < n + 1
        BY <1>1
      <4>4. <<ss[i][k], ss[n + 1][q - Len(s)]>> \in before
        BY <2>2, <4>3 DEF PartsInOrder, t
      <4> QED BY <2>2, <3>1, <4>2, <4>4 DEF t
    <3>2. CASE p - Len(s) \in DOMAIN t /\ st[p] = t[p - Len(s)]
      <4>1. InOrder(t, before)
        BY <1>1 DEF PartsInOrder, t
      <4>2. p - Len(s) < q - Len(s)
        BY <1>3, <1>8
      <4> QED BY <2>2, <3>2, <4>1, <4>2 DEF InOrder
    <3> QED BY <1>4, <3>1, <3>2
  <2> QED BY <1>4, <2>1, <2>2
<1> QED BY <1>6, <1>7, <1>8 DEF Flattened, InOrder, st, t

LEMMA FlattenOrdered ==
  ASSUME NEW S, NEW ss \in Seq(Seq(S)), NEW before, PartsInOrder(ss, Len(ss), before)
  PROVE  FlattenSeq(ss) \in Seq(S) /\ Flattened(FlattenSeq(ss), ss, Len(ss), before)
<1>1. PICK f \in [0..Len(ss) -> Seq(S)] : Collects(f, ss, Len(ss)) /\ FlattenSeq(ss) = f[Len(ss)]
  BY FlattenCollects
<1> DEFINE T == {n \in Nat : n <= Len(ss) => Flattened(f[n], ss, n, before)}
<1>2. 0 \in T
  <2>1. f[0] = <<>>
    BY <1>1 DEF Collects
  <2>2. DOMAIN f[0] = {}
    BY <2>1
  <2> QED BY <2>2 DEF Flattened, InOrder
<1>3. ASSUME NEW n \in Nat, n \in T
      PROVE  n + 1 \in T
  <2> SUFFICES ASSUME n + 1 <= Len(ss)
               PROVE  Flattened(f[n + 1], ss, n + 1, before)
    OBVIOUS
  <2>1. n < Len(ss) /\ n \in 0..Len(ss) /\ n + 1 \in 1..Len(ss) /\ (n + 1) - 1 = n
    OBVIOUS
  <2>2. f[n + 1] = f[n] \o ss[n + 1]
    BY <1>1, <2>1 DEF Collects
  <2>3. f[n] \in Seq(S)
    BY <1>1, <2>1
  <2>5. Flattened(f[n], ss, n, before)
    <3>1. n <= Len(ss) => Flattened(f[n], ss, n, before)
      BY <1>3, Zenon
    <3>2. n <= Len(ss)
      OBVIOUS
    <3> QED BY <3>1, <3>2
  <2>4. Flattened(f[n] \o ss[n + 1], ss, n + 1, before)
    BY <2>1, <2>3, <2>5, FlattenedStep
  <2> QED BY <2>2, <2>4
<1>4. \A n \in Nat : n \in T
  <2> HIDE DEF T
  <2> QED BY <1>2, <1>3, Induction
<1>5. Len(ss) \in T /\ Len(ss) \in Nat
  BY <1>4
<1> QED BY <1>1, <1>5
=============================================================================
