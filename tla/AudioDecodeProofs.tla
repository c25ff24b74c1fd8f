-------------------------- MODULE AudioDecodeProofs --------------------------
(* Who may use libav, and what a decode gives, for any number of threads   *)
(* and whatever they decode.  The lemmas on FlattenSeq and on recursion    *)
(* are those of ChunkCutProofs, whose constants play no part here.         *)
EXTENDS AudioDecode, ChunkCutProofs

LEMMA InitReady == Init => Placed /\ LibavReady
  BY DEF Init, Placed, Points, LibavReady, UsesLibav

LEMMA StepReady == Placed /\ LibavReady /\ [Next]_vars => Placed' /\ LibavReady'
  <1> SUFFICES ASSUME Placed, LibavReady, [Next]_vars PROVE Placed' /\ LibavReady'
    OBVIOUS
  <1> USE DEF Placed, Points, LibavReady, UsesLibav, Goto
  <1>1. CASE UNCHANGED vars
    BY <1>1 DEF vars
  <1>2. ASSUME NEW d \in Decoders, Runs(d) \/ Fails(d) PROVE Placed' /\ LibavReady'
    <2>1. CASE WavFastpath(d) \/ NotNative(d)
      BY <2>1 DEF WavFastpath, NotNative
    <2>2. CASE EnterInit(d)
      BY <2>2 DEF EnterInit
    <2>3. CASE InitSucceeds(d)
      BY <2>3 DEF InitSucceeds
    <2>4. CASE InitPanics(d)
      BY <2>4 DEF InitPanics
    <2>5. CASE PassInit(d)
      BY <2>5 DEF PassInit
    <2>6. ASSUME once' = once, pc[d] \in UsesLibav, NEW p \in {"error", "failed", "decoded"} \cup UsesLibav,
                 pc' = [pc EXCEPT ![d] = p]
          PROVE  Placed' /\ LibavReady'
      BY <2>6
    <2>7. CASE Open(d) \/ Fails(d)
      BY <2>6, <2>7 DEF Open, Fails, OpenFails, FlushFails, Flushing, LibavFails
    <2>8. CASE SkipPacket(d)
      BY <2>8 DEF SkipPacket
    <2>9. CASE DecodePacket(d)
      <3>1. \E p \in {"error", "failed", "packets"} : pc' = [pc EXCEPT ![d] = p]
        BY <2>9, Zenon DEF DecodePacket, Drain
      <3> QED BY <2>6, <2>9, <3>1 DEF DecodePacket
    <2>10. CASE EndPackets(d)
      <3>1. \E p \in {"error", "failed", "flushing"} : pc' = [pc EXCEPT ![d] = p]
        BY <2>10, Zenon DEF EndPackets, Drain
      <3> QED BY <2>6, <2>10, <3>1 DEF EndPackets
    <2>11. CASE Flush(d)
      <3>1. \/ pc' = pc
            \/ \E p \in {"error", "decoded"} : pc' = [pc EXCEPT ![d] = p]
        BY <2>11 DEF Flush, FlushTurn, Finish
      <3> QED BY <2>6, <2>11, <3>1 DEF Flush, FlushTurn, Flushing
    <2>12. CASE NothingDecoded(d)
      BY <2>6, <2>12 DEF NothingDecoded, Finish
    <2> QED BY <1>2, <2>1, <2>2, <2>3, <2>4, <2>5, <2>7, <2>8, <2>9, <2>10, <2>11, <2>12 DEF Runs
  <1> QED BY <1>1, <1>2 DEF Next

(* No thread uses libav before it is initialised, however many race for    *)
(* it, and none at all when the initialisation panicked.                   *)
THEOREM LibavInitialised == Spec => []LibavReady
  BY InitReady, StepReady, PTL DEF Spec
----------------------------------------------------------------------------
(* Sequences.                                                              *)

LEMMA SplitAt ==
  ASSUME NEW S, NEW s \in Seq(S), NEW n \in 0..Len(s)
  PROVE  /\ SubSeq(s, 1, n) \in Seq(S) /\ SubSeq(s, n + 1, Len(s)) \in Seq(S)
         /\ Len(SubSeq(s, 1, n)) = n /\ Len(SubSeq(s, n + 1, Len(s))) = Len(s) - n
         /\ \A i \in 1..n : SubSeq(s, 1, n)[i] = s[i]
         /\ \A i \in 1..(Len(s) - n) : SubSeq(s, n + 1, Len(s))[i] = s[n + i]
         /\ SubSeq(s, 1, n) \o SubSeq(s, n + 1, Len(s)) = s
  <1>1. Len(s) \in Nat /\ n \in Int /\ n + 1 \in Int /\ Len(s) \in Int
    OBVIOUS
  <1>2. (\A i \in 1..n : s[i] \in S) /\ (\A i \in (n + 1)..Len(s) : s[i] \in S)
    OBVIOUS
  <1>3. /\ SubSeq(s, 1, n) \in Seq(S) /\ Len(SubSeq(s, 1, n)) = (IF 1 <= n THEN n - 1 + 1 ELSE 0)
        /\ \A i \in 1..(n - 1 + 1) : SubSeq(s, 1, n)[i] = s[1 + i - 1]
    BY <1>1, <1>2, SubSeqProperties
  <1>4. /\ SubSeq(s, n + 1, Len(s)) \in Seq(S)
        /\ Len(SubSeq(s, n + 1, Len(s))) = (IF n + 1 <= Len(s) THEN Len(s) - (n + 1) + 1 ELSE 0)
        /\ \A i \in 1..(Len(s) - (n + 1) + 1) : SubSeq(s, n + 1, Len(s))[i] = s[n + 1 + i - 1]
    BY <1>1, <1>2, SubSeqProperties
  <1>5. SubSeq(s, 1, n) \o SubSeq(s, n + 1, Len(s)) = SubSeq(s, 1, Len(s))
    <2>1. 1 \in 1..(Len(s) + 1) /\ n \in (1 - 1)..Len(s) /\ Len(s) \in n..Len(s)
      BY <1>1
    <2> QED BY <2>1, ConcatAdjacentSubSeq
  <1>6. SubSeq(s, 1, Len(s)) = s
    BY SubSeqFull
  <1>7. \A i \in 1..n : SubSeq(s, 1, n)[i] = s[i]
    BY <1>1, <1>3
  <1>8. \A i \in 1..(Len(s) - n) : SubSeq(s, n + 1, Len(s))[i] = s[n + i]
    BY <1>1, <1>4
  <1>9. Len(SubSeq(s, 1, n)) = n /\ Len(SubSeq(s, n + 1, Len(s))) = Len(s) - n
    BY <1>1, <1>3, <1>4
  <1> QED BY <1>3, <1>4, <1>5, <1>6, <1>7, <1>8, <1>9

LEMMA OneLonger ==
  ASSUME NEW S, NEW s \in Seq(S), NEW n \in 0..(Len(s) - 1)
  PROVE  SubSeq(s, 1, n + 1) = Append(SubSeq(s, 1, n), s[n + 1])
  <1>1. 1 \in 1..Len(s) /\ n + 1 \in 1..Len(s) /\ (n + 1) - 1 = n /\ s[n + 1] \in S /\ n \in 0..Len(s)
    OBVIOUS
  <1>2. SubSeq(s, 1, n + 1) = SubSeq(s, 1, (n + 1) - 1) \o <<s[n + 1]>>
    BY <1>1, SubSeqRecursiveSecond
  <1>3. SubSeq(s, 1, n) \in Seq(S)
    BY <1>1, SplitAt
  <1>4. Append(SubSeq(s, 1, n), s[n + 1]) = SubSeq(s, 1, n) \o <<s[n + 1]>>
    BY <1>1, <1>3, AppendIsConcat
  <1> QED BY <1>1, <1>2, <1>4

LEMMA CancelLeft ==
  ASSUME NEW S, NEW s \in Seq(S), NEW t \in Seq(S), NEW u \in Seq(S), s \o t = s \o u
  PROVE  t = u
  <1>1. \A R : \A x, y, z \in Seq(R) : x \o y = x \o z => y = z
    BY ConcatSimplifications, Zenon
  <1> QED BY <1>1, Zenon

(* What is read is split at the same place when more is read. *)
LEMMA SplitMore ==
  ASSUME NEW S, NEW s \in Seq(S), NEW t \in Seq(S), NEW n \in 0..Len(s)
  PROVE  /\ s \o t \in Seq(S) /\ Len(s \o t) = Len(s) + Len(t) /\ n \in 0..Len(s \o t)
         /\ SubSeq(s \o t, 1, n) = SubSeq(s, 1, n)
         /\ SubSeq(s \o t, n + 1, Len(s \o t)) = SubSeq(s, n + 1, Len(s)) \o t
  <1> DEFINE st == s \o t
             head == SubSeq(s, 1, n)
             tail == SubSeq(s, n + 1, Len(s))
  <1>1. /\ st \in Seq(S) /\ Len(st) = Len(s) + Len(t) /\ Len(s) \in Nat /\ Len(t) \in Nat
        /\ \A i \in 1..(Len(s) + Len(t)) : st[i] = IF i <= Len(s) THEN s[i] ELSE t[i - Len(s)]
    BY ConcatProperties
  <1>2. head \in Seq(S) /\ tail \in Seq(S) /\ head \o tail = s
    BY SplitAt
  <1>3. n \in 0..Len(st)
    BY <1>1
  <1>4. SubSeq(st, 1, n) = head
    <2>1. SubSeq(st, 1, n) \in Seq(S) /\ Len(SubSeq(st, 1, n)) = n /\ \A i \in 1..n : SubSeq(st, 1, n)[i] = st[i]
      BY <1>1, <1>3, SplitAt
    <2>2. Len(head) = n /\ \A i \in 1..n : head[i] = s[i]
      BY SplitAt
    <2>3. \A i \in 1..n : st[i] = s[i]
      BY <1>1
    <2> HIDE DEF st, head
    <2> QED BY <1>2, <2>1, <2>2, <2>3
  <1>5. SubSeq(st, n + 1, Len(st)) \in Seq(S) /\ SubSeq(st, 1, n) \o SubSeq(st, n + 1, Len(st)) = st
    BY <1>1, <1>3, SplitAt
  <1>6. head \o (tail \o t) = st /\ tail \o t \in Seq(S)
    <2> HIDE DEF head, tail
    <2>1. (head \o tail) \o t = head \o (tail \o t)
      <3>1. \A x, y, z \in Seq(S) : (x \o y) \o z = x \o (y \o z)
        BY ConcatAssociative, SMTT(30)
      <3> QED BY <1>2, <3>1, ZenonT(60)
    <2>2. tail \o t \in Seq(S)
      BY <1>2
    <2> QED BY <1>2, <2>1, <2>2
  <1>7. SubSeq(st, n + 1, Len(st)) = tail \o t
    <2> HIDE DEF st, head, tail
    <2>1. head \o SubSeq(st, n + 1, Len(st)) = head \o (tail \o t)
      BY <1>4, <1>5, <1>6
    <2> QED BY <1>2, <1>5, <1>6, <2>1, CancelLeft
  <1> QED BY <1>1, <1>3, <1>4, <1>7

----------------------------------------------------------------------------
(* Frames and samples.                                                     *)

LEMMA NoSamples == SamplesOf(<<>>) = <<>>
  <1>1. [i \in DOMAIN <<>> |-> <<>>[i].ids] = <<>>
    OBVIOUS
  <1>2. FlattenSeq(<<>>) = <<>>
    BY DEF FlattenSeq
  <1> QED BY <1>1, <1>2 DEF SamplesOf

LEMMA SamplesAppend ==
  ASSUME NEW frames \in Seq(AudioFrame), NEW frame \in AudioFrame
  PROVE  SamplesOf(frames) \in Seq(Nat) /\ SamplesOf(Append(frames, frame)) = SamplesOf(frames) \o frame.ids
  <1> DEFINE ids == [i \in DOMAIN frames |-> frames[i].ids]
             longer == Append(frames, frame)
             more == [i \in DOMAIN longer |-> longer[i].ids]
             n == Len(frames)
  <1>1. /\ n \in Nat /\ DOMAIN frames = 1..n /\ DOMAIN longer = 1..(n + 1)
        /\ longer[n + 1] = frame /\ \A i \in 1..n : longer[i] = frames[i]
    BY AppendElement
  <1>2. frame.ids \in Seq(Nat) /\ \A i \in 1..n : frames[i].ids \in Seq(Nat)
    <2>1. \A x \in AudioFrame : x.ids \in Seq(Nat)
      BY DEF AudioFrame
    <2>2. \A i \in 1..n : frames[i] \in AudioFrame
      OBVIOUS
    <2> QED BY <2>1, <2>2
  <1>3. ids \in Seq(Seq(Nat)) /\ Len(ids) = n
    BY <1>1, <1>2
  <1>4. more = Append(ids, frame.ids)
    <2>1. more = [i \in 1..(n + 1) |-> more[i]] /\ more[n + 1] = frame.ids /\ \A i \in 1..n : more[i] = ids[i]
      BY <1>1
    <2> HIDE DEF more, ids, longer
    <2>2. /\ more = [i \in 1..(Len(ids) + 1) |-> more[i]] /\ more[Len(ids) + 1] = frame.ids
          /\ \A i \in 1..Len(ids) : more[i] = ids[i]
      BY <1>3, <2>1
    <2> QED BY <1>2, <1>3, <2>2, IsAppend, ZenonT(60)
  <1>5. FlattenSeq(ids) \in Seq(Nat) /\ FlattenSeq(Append(ids, frame.ids)) = FlattenSeq(ids) \o frame.ids
    BY <1>2, <1>3, FlattenAppend
  <1> QED BY <1>4, <1>5 DEF SamplesOf

Part(f, i) == IF Mine(f.packets[i]) THEN f.packets[i].frames ELSE <<>>

LEMMA PartsTyped ==
  ASSUME NEW f \in Files, NEW n \in 0..Len(f.packets)
  PROVE  /\ Len(f.packets) \in Nat
         /\ [i \in 1..n |-> Part(f, i)] \in Seq(Seq(AudioFrame))
         /\ \A i \in 1..Len(f.packets) : Part(f, i) \in Seq(AudioFrame)
  <1>1. f.packets \in Seq([best : BOOLEAN, decodable : BOOLEAN, frames : Seq(AudioFrame)])
    BY FilesAssumption
  <1>2. Len(f.packets) \in Nat /\ \A i \in 1..Len(f.packets) : f.packets[i].frames \in Seq(AudioFrame)
    <2>1. \A R : \A x \in Seq(R) : Len(x) \in Nat /\ \A i \in 1..Len(x) : x[i] \in R
      OBVIOUS
    <2>2. \A x \in [best : BOOLEAN, decodable : BOOLEAN, frames : Seq(AudioFrame)] : x.frames \in Seq(AudioFrame)
      OBVIOUS
    <2> QED BY <1>1, <2>1, <2>2, Zenon
  <1>3. \A i \in 1..Len(f.packets) : Part(f, i) \in Seq(AudioFrame)
    BY <1>2 DEF Part
  <1> QED BY <1>2, <1>3

(* The frames of the first packets, and of one more. *)
LEMMA FramesStep ==
  ASSUME NEW f \in Files, NEW n \in 0..Len(f.packets)
  PROVE  /\ FramesOf(f, n) \in Seq(AudioFrame) /\ FramesOf(f, 0) = <<>>
         /\ n < Len(f.packets) => FramesOf(f, n + 1) = FramesOf(f, n) \o Part(f, n + 1)
  <1> DEFINE parts(k) == [i \in 1..k |-> Part(f, i)]
  <1>1. \A k : FramesOf(f, k) = FlattenSeq(parts(k))
    BY DEF FramesOf, Part
  <1>2. parts(n) \in Seq(Seq(AudioFrame)) /\ Len(parts(n)) = n
    BY PartsTyped
  <1>3. FlattenSeq(parts(n)) \in Seq(AudioFrame)
    <2> <<>> \in Seq(AudioFrame)
      OBVIOUS
    <2> HIDE DEF parts
    <2> QED BY <1>2, FlattenAppend
  <1>4. FramesOf(f, 0) = <<>>
    <2>1. parts(0) = <<>>
      OBVIOUS
    <2>2. FlattenSeq(<<>>) = <<>>
      BY DEF FlattenSeq
    <2> QED BY <1>1, <2>1, <2>2
  <1>5. ASSUME n < Len(f.packets)
        PROVE  FlattenSeq(parts(n + 1)) = FlattenSeq(parts(n)) \o Part(f, n + 1)
    <2>1. n \in Nat /\ n + 1 \in 1..Len(f.packets)
      BY <1>5, PartsTyped
    <2>2. Part(f, n + 1) \in Seq(AudioFrame)
      BY <2>1, PartsTyped
    <2>3. /\ parts(n + 1) = [i \in 1..(n + 1) |-> parts(n + 1)[i]] /\ parts(n + 1)[n + 1] = Part(f, n + 1)
          /\ \A i \in 1..n : parts(n + 1)[i] = parts(n)[i]
      BY <2>1
    <2> HIDE DEF parts
    <2>4. parts(n + 1) = Append(parts(n), Part(f, n + 1))
      <3>1. /\ parts(n + 1) = [i \in 1..(Len(parts(n)) + 1) |-> parts(n + 1)[i]]
            /\ parts(n + 1)[Len(parts(n)) + 1] = Part(f, n + 1)
            /\ \A i \in 1..Len(parts(n)) : parts(n + 1)[i] = parts(n)[i]
        BY <1>2, <2>3
      <3> QED BY <1>2, <2>2, <3>1, IsAppend
    <2> QED BY <1>2, <2>2, <2>4, FlattenAppend
  <1> HIDE DEF parts
  <1> QED BY <1>1, <1>3, <1>4, <1>5

(* Every frame read is a frame of the recording. *)
LEMMA FramesMember ==
  ASSUME NEW f \in Files, NEW n \in 0..Len(f.packets), NEW p \in DOMAIN FramesOf(f, n)
  PROVE  \E q \in DOMAIN Frames(f) : Frames(f)[q] = FramesOf(f, n)[p]
  <1> DEFINE before == AudioFrame \X AudioFrame
             parts(k) == [i \in 1..k |-> Part(f, i)]
             all == Len(f.packets)
  <1>1. all \in Nat /\ n <= all /\ \A i \in 1..all : Part(f, i) \in Seq(AudioFrame)
    BY PartsTyped
  <1>2. ASSUME NEW k \in 0..all
        PROVE  Flattened(FramesOf(f, k), parts(k), k, before)
    <2>1. parts(k) \in Seq(Seq(AudioFrame)) /\ Len(parts(k)) = k /\ \A i \in 1..k : parts(k)[i] \in Seq(AudioFrame)
      BY <1>1, PartsTyped
    <2>2. FramesOf(f, k) = FlattenSeq(parts(k))
      BY DEF FramesOf, Part
    <2>3. PartsInOrder(parts(k), k, before)
      <3> HIDE DEF parts
      <3>1. \A i \in 1..k : \A m \in DOMAIN parts(k)[i] : parts(k)[i][m] \in AudioFrame
        BY <2>1
      <3> QED BY <3>1 DEF PartsInOrder, InOrder
    <2> HIDE DEF parts, before
    <2>4. PartsInOrder(parts(k), Len(parts(k)), before)
      BY <2>1, <2>3
    <2>5. Flattened(FlattenSeq(parts(k)), parts(k), Len(parts(k)), before)
      BY <2>1, <2>4, FlattenOrdered
    <2> QED BY <2>1, <2>2, <2>5
  <1>3. n \in 0..all /\ all \in 0..all
    BY <1>1
  <1>4. PICK i \in 1..n : \E m \in DOMAIN parts(n)[i] : FramesOf(f, n)[p] = parts(n)[i][m]
    <2>1. Flattened(FramesOf(f, n), parts(n), n, before)
      BY <1>2, <1>3
    <2> HIDE DEF parts, before
    <2> QED BY <2>1 DEF Flattened
  <1>5. i \in 1..all /\ parts(n)[i] = Part(f, i) /\ parts(all)[i] = Part(f, i)
    BY <1>1
  <1>6. PICK m \in DOMAIN parts(all)[i] : FramesOf(f, n)[p] = parts(all)[i][m]
    BY <1>4, <1>5
  <1>7. \E q \in DOMAIN FramesOf(f, all) : FramesOf(f, all)[q] = parts(all)[i][m]
    <2>1. Flattened(FramesOf(f, all), parts(all), all, before)
      BY <1>2, <1>3
    <2> HIDE DEF parts, before, all
    <2> QED BY <1>5, <1>6, <2>1 DEF Flattened
  <1> QED BY <1>6, <1>7 DEF Frames
----------------------------------------------------------------------------
(* One run of the codec and the resampler.                                 *)

State == [failed : BOOLEAN, input : InputType \cup {None}, pcm : Seq(Nat), held : Held]

(* Two of the frames cannot go through one resampler, or one through none. *)
Conflict(frames, f) == \E i, j \in DOMAIN frames :
  LayoutOf(frames[i], f) = 0 \/ InputOf(frames[i], f) # InputOf(frames[j], f)

LEMMA InputTyped ==
  ASSUME NEW f \in Files, NEW frame \in AudioFrame
  PROVE  InputOf(frame, f) \in InputType /\ InputOf(frame, f) # None /\ InputOf(frame, f).layout = LayoutOf(frame, f)
  <1>1. frame.format \in STRING /\ LayoutOf(frame, f) \in Nat /\ frame.rate \in Nat
    BY FilesAssumption DEF AudioFrame, LayoutOf
  <1>2. InputOf(frame, f) \in InputType
    BY <1>1 DEF InputOf, InputType
  <1> QED BY <1>2, NoneAssumption DEF InputOf

(* The resampler keeps what it does not give out. *)
LEMMA ResampleTyped ==
  ASSUME NEW f \in Files, NEW state \in State, NEW frame \in AudioFrame
  PROVE  LET new == Resample(state, frame, f)
         IN  /\ new \in State
             /\ state.failed => new.failed
             /\ ~state.failed => (~new.failed <=> Takes(state.input, frame, f))
             /\ ~new.failed => new.input = InputOf(frame, f) /\ new.pcm \o new.held = (state.pcm \o state.held) \o frame.ids
  <1> DEFINE all == state.held \o frame.ids
             out == IF Len(all) > Hold THEN Len(all) - Hold ELSE 0
             gone == SubSeq(all, 1, out)
             kept == SubSeq(all, out + 1, Len(all))
             new == Resample(state, frame, f)
  <1>1. /\ state.failed \in BOOLEAN /\ state.input \in InputType \cup {None}
        /\ state.pcm \in Seq(Nat) /\ state.held \in Seq(Nat)
    BY DEF State, Held
  <1>2. frame.ids \in Seq(Nat)
    BY DEF AudioFrame
  <1>3. all \in Seq(Nat) /\ Len(all) \in Nat
    <2>1. \A x, y \in Seq(Nat) : x \o y \in Seq(Nat) /\ Len(x \o y) \in Nat
      OBVIOUS
    <2> QED BY <1>1, <1>2, <2>1
  <1> HIDE DEF all
  <1>4. out \in 0..Len(all) /\ Len(all) - out <= Hold
    BY <1>3, DelayAssumption
  <1> HIDE DEF out
  <1>5. gone \in Seq(Nat) /\ kept \in Held /\ kept \in Seq(Nat) /\ gone \o kept = all
    <2>1. gone \in Seq(Nat) /\ kept \in Seq(Nat) /\ gone \o kept = all /\ Len(kept) = Len(all) - out
      BY <1>3, <1>4, SplitAt
    <2> HIDE DEF gone, kept
    <2> QED BY <1>4, <2>1 DEF Held
  <1> HIDE DEF gone, kept
  <1>6. (state.pcm \o gone) \o kept = (state.pcm \o state.held) \o frame.ids /\ state.pcm \o gone \in Seq(Nat)
    <2>1. \A x, y, z \in Seq(Nat) : (x \o y) \o z = x \o (y \o z)
      BY ConcatAssociative, SMTT(30)
    <2>2. (state.pcm \o gone) \o kept = state.pcm \o (gone \o kept)
      BY <1>1, <1>5, <2>1
    <2>3. (state.pcm \o state.held) \o frame.ids = state.pcm \o (state.held \o frame.ids)
      BY <1>1, <1>2, <2>1
    <2>4. state.pcm \o gone \in Seq(Nat)
      BY <1>1, <1>5
    <2> QED BY <1>5, <2>2, <2>3, <2>4 DEF all
  <1>7. CASE state.failed \/ ~Takes(state.input, frame, f)
    <2>1. new = [state EXCEPT !.failed = TRUE]
      BY <1>7 DEF Resample
    <2>2. new \in State /\ new.failed
      BY <2>1 DEF State
    <2> HIDE DEF new
    <2> QED BY <1>7, <2>2 DEF new
  <1>8. CASE ~(state.failed \/ ~Takes(state.input, frame, f))
    <2>1. new = [failed |-> FALSE, input |-> InputOf(frame, f), pcm |-> state.pcm \o gone, held |-> kept]
      BY <1>8 DEF Resample, all, out, gone, kept
    <2>2. new \in State /\ ~new.failed /\ new.input = InputOf(frame, f) /\ new.pcm = state.pcm \o gone /\ new.held = kept
      BY <1>5, <1>6, <2>1, InputTyped DEF State
    <2> HIDE DEF new
    <2> QED BY <1>6, <1>8, <2>2 DEF new
  <1> QED BY <1>7, <1>8

(* What the resampler has been through after n of the frames. *)
Through(f, read, n, state) ==
  IF state.failed THEN Conflict(read, f)
  ELSE SamplesOf(SubSeq(read, 1, n)) = state.pcm \o state.held /\ Taken(SubSeq(read, 1, n), state.input, f)

LEMMA ThroughStep ==
  ASSUME NEW f \in Files, NEW read \in Seq(AudioFrame), NEW n \in 0..(Len(read) - 1), NEW state \in State,
         Through(f, read, n, state)
  PROVE  Through(f, read, n + 1, Resample(state, read[n + 1], f))
  <1> DEFINE frame == read[n + 1]
             done == SubSeq(read, 1, n)
             new == Resample(state, frame, f)
  <1>1. frame \in AudioFrame /\ n + 1 \in DOMAIN read /\ n \in 0..Len(read) /\ n \in Nat
    OBVIOUS
  <1>2. /\ new \in State /\ (state.failed => new.failed)
        /\ ~state.failed => (~new.failed <=> Takes(state.input, frame, f))
        /\ ~new.failed => new.input = InputOf(frame, f) /\ new.pcm \o new.held = (state.pcm \o state.held) \o frame.ids
    BY <1>1, ResampleTyped
  <1>3. done \in Seq(AudioFrame) /\ Len(done) = n /\ \A i \in 1..n : i \in DOMAIN read /\ done[i] = read[i]
    BY <1>1, SplitAt
  <1>4. SubSeq(read, 1, n + 1) = Append(done, frame)
    BY <1>1, OneLonger
  <1>5. InputOf(frame, f) \in InputType /\ InputOf(frame, f) # None /\ InputOf(frame, f).layout = LayoutOf(frame, f)
    BY <1>1, InputTyped
  <1>6. \A i \in 1..n : InputOf(done[i], f) # None /\ InputOf(done[i], f).layout = LayoutOf(done[i], f)
    BY <1>3, InputTyped
  <1> HIDE DEF new
  <1>7. CASE state.failed
    BY <1>2, <1>7 DEF Through, new
  <1>8. CASE ~state.failed
    <2>1. SamplesOf(done) = state.pcm \o state.held /\ Taken(done, state.input, f)
      BY <1>8 DEF Through
    <2>2. (state.input = None <=> n = 0) /\ \A i \in 1..n : LayoutOf(done[i], f) # 0 /\ InputOf(done[i], f) = state.input
      <3>1. done = <<>> <=> n = 0
        BY <1>3
      <3>2. DOMAIN done = 1..n
        BY <1>3
      <3> HIDE DEF done
      <3>3. n # 0 => 1 \in 1..n
        BY <1>1
      <3> QED BY <1>6, <2>1, <3>1, <3>2, <3>3 DEF Taken
    <2> HIDE DEF done, frame
    <2>3. CASE Takes(state.input, frame, f)
      <3>1. ~new.failed /\ new.input = InputOf(frame, f) /\ new.pcm \o new.held = (state.pcm \o state.held) \o frame.ids
        BY <1>2, <1>8, <2>3
      <3>2. SamplesOf(Append(done, frame)) = SamplesOf(done) \o frame.ids
        BY <1>1, <1>3, SamplesAppend
      <3>3. LayoutOf(frame, f) # 0 /\ \A i \in 1..n : LayoutOf(done[i], f) # 0 /\ InputOf(done[i], f) = InputOf(frame, f)
        <4>1. CASE n = 0
          BY <2>2, <2>3, <4>1 DEF Takes
        <4>2. CASE n # 0
          <5>1. 1 \in 1..n /\ InputOf(frame, f) = state.input
            BY <1>1, <2>2, <2>3, <4>2 DEF Takes
          <5>2. LayoutOf(done[1], f) # 0 /\ InputOf(done[1], f) = InputOf(frame, f)
            BY <2>2, <5>1
          <5>3. LayoutOf(frame, f) = LayoutOf(done[1], f)
            BY <1>5, <1>6, <5>1, <5>2
          <5> QED BY <2>2, <5>1, <5>2, <5>3
        <4> QED BY <4>1, <4>2
      <3>4. /\ DOMAIN Append(done, frame) = 1..(n + 1) /\ Append(done, frame) # <<>>
            /\ Append(done, frame)[n + 1] = frame /\ \A i \in 1..n : Append(done, frame)[i] = done[i]
        BY <1>1, <1>3, AppendElement
      <3>5. Taken(Append(done, frame), new.input, f)
        <4>1. \A i \in 1..(n + 1) : i \in 1..n \/ i = n + 1
          BY <1>1
        <4> QED BY <3>1, <3>3, <3>4, <4>1 DEF Taken
      <3> QED BY <1>4, <2>1, <3>1, <3>2, <3>5 DEF Through, new, frame
    <2>4. CASE ~Takes(state.input, frame, f)
      <3>1. new.failed
        BY <1>2, <1>8, <2>4
      <3>2. Conflict(read, f)
        <4>1. CASE n = 0
          BY <1>1, <2>2, <2>4, <4>1 DEF Takes, Conflict, frame
        <4>2. CASE n # 0
          <5>1. 1 \in 1..n /\ InputOf(frame, f) # state.input
            BY <1>1, <2>2, <2>4, <4>2 DEF Takes
          <5>2. InputOf(read[n + 1], f) # InputOf(read[1], f) /\ 1 \in DOMAIN read
            BY <1>3, <2>2, <5>1 DEF frame
          <5> QED BY <1>1, <5>2 DEF Conflict
        <4> QED BY <4>1, <4>2
      <3> QED BY <3>1, <3>2 DEF Through, new, frame
    <2> QED BY <2>3, <2>4
  <1> QED BY <1>7, <1>8

(* The loop of drain, over the first frames. *)
After(begin, frames, f, out) ==
  LET after[k \in 0..out] == IF k = 0 THEN begin ELSE Resample(after[k - 1], frames[k], f)
  IN  after[out]

(* drain, of the frames that follow the first m. *)
LEMMA Drained ==
  ASSUME NEW f \in Files, NEW read \in Seq(AudioFrame), NEW m \in 0..Len(read), NEW out \in Nat,
         m + out <= Len(read), NEW begin \in State, Through(f, read, m, begin),
         NEW frames, \A k \in 1..out : frames[k] = read[m + k]
  PROVE  After(begin, frames, f, out) \in State /\ Through(f, read, m + out, After(begin, frames, f, out))
  <1> DEFINE step(k, state) == Resample(state, frames[k], f)
             turn == [q \in Nat \X State |-> IF q[1] \in 1..out THEN step(q[1], q[2]) ELSE begin]
             after == CHOOSE after : after = [k \in 0..out |-> IF k = 0 THEN begin ELSE step(k, after[k - 1])]
  <1>1. ASSUME NEW k \in 1..out
        PROVE  frames[k] \in AudioFrame /\ frames[k] = read[m + k]
    BY <1>1
  <1>2. ASSUME NEW k \in 1..out, NEW state \in State
        PROVE  step(k, state) \in State
    BY <1>1, ResampleTyped
  <1>3. after = [k \in 0..out |-> IF k = 0 THEN begin ELSE step(k, after[k - 1])]
    <2>1. turn \in [Nat \X State -> State]
      <3> HIDE DEF step
      <3>1. \A q \in Nat \X State : (IF q[1] \in 1..out THEN step(q[1], q[2]) ELSE begin) \in State
        BY <1>2
      <3> QED BY <3>1
    <2>2. PICK g \in [0..out -> State] : Iterates(g, begin, turn, out)
      <3> HIDE DEF turn
      <3> QED BY <2>1, IterationExists, Zenon
    <2>3. ASSUME NEW k \in 0..out
          PROVE  g[k] = IF k = 0 THEN begin ELSE step(k, g[k - 1])
      <3>1. CASE k = 0
        BY <2>2, <3>1 DEF Iterates
      <3>2. CASE k # 0
        <4>1. k \in 1..out /\ k - 1 \in 0..out /\ k \in Nat
          BY <3>2
        <4>2. g[k] = turn[<<k, g[k - 1]>>] /\ g[k - 1] \in State
          <5> HIDE DEF turn
          <5> QED BY <2>2, <4>1 DEF Iterates
        <4> HIDE DEF step
        <4>3. turn[<<k, g[k - 1]>>] = step(k, g[k - 1])
          BY <4>1, <4>2
        <4> QED BY <3>2, <4>2, <4>3
      <3> QED BY <3>1, <3>2
    <2>4. g = [k \in 0..out |-> IF k = 0 THEN begin ELSE step(k, g[k - 1])]
      <3> HIDE DEF step
      <3> QED BY <2>3, Zenon
    <2> HIDE DEF step
    <2> QED BY <2>4, Zenon
  <1> HIDE DEF after
  <1>4. after[0] = begin /\ \A k \in 1..out : after[k] = step(k, after[k - 1])
    <2> HIDE DEF step
    <2>1. [k \in 0..out |-> IF k = 0 THEN begin ELSE step(k, after[k - 1])][0] = begin
      OBVIOUS
    <2>2. \A i \in 1..out : [k \in 0..out |-> IF k = 0 THEN begin ELSE step(k, after[k - 1])][i] = step(i, after[i - 1])
      OBVIOUS
    <2> QED BY <1>3, <2>1, <2>2, Zenon
  <1> DEFINE right == {k \in Nat : k <= out => after[k] \in State /\ Through(f, read, m + k, after[k])}
  <1>5. 0 \in right
    <2>1. m + 0 = m
      OBVIOUS
    <2> QED BY <1>4, <2>1
  <1>6. ASSUME NEW k \in Nat, k \in right, k + 1 <= out
        PROVE  after[k + 1] \in State /\ Through(f, read, m + (k + 1), after[k + 1])
    <2>1. after[k] \in State /\ Through(f, read, m + k, after[k])
      BY <1>6
    <2>2. k + 1 \in 1..out /\ (k + 1) - 1 = k /\ m + k \in 0..(Len(read) - 1) /\ (m + k) + 1 = m + (k + 1)
      BY <1>6
    <2>3. after[k + 1] = step(k + 1, after[k]) /\ frames[k + 1] = read[m + (k + 1)]
      <3> HIDE DEF step
      <3> QED BY <1>1, <1>4, <2>2
    <2>4. after[k + 1] \in State
      BY <1>2, <2>1, <2>2, <2>3
    <2>5. Through(f, read, (m + k) + 1, Resample(after[k], read[(m + k) + 1], f))
      BY <2>1, <2>2, ThroughStep
    <2> QED BY <2>2, <2>3, <2>4, <2>5
  <1>7. \A k \in Nat : k \in right
    <2>1. \A k \in Nat : k \in right => k + 1 \in right
      <3>1. \A k \in Nat : k + 1 \in Nat
        OBVIOUS
      <3> QED BY <1>6, <3>1, Zenon
    <2> HIDE DEF right
    <2> QED BY <1>5, <2>1, Induction
  <1>8. after[out] \in State /\ Through(f, read, m + out, after[out])
    <2>1. out <= out
      OBVIOUS
    <2> QED BY <1>7, <2>1, Zenon
  <1>9. After(begin, frames, f, out) = after[out]
    BY Zenon DEF After, after
  <1> QED BY <1>8, <1>9
LEMMA ProgressMore ==
  ASSUME NEW f, NEW read \in Seq(AudioFrame), NEW more \in Seq(AudioFrame), NEW queue, NEW built, NEW tail, NEW out,
         Progress(f, read, queue, built, tail, out)
  PROVE  Progress(f, read \o more, queue \o more, built, tail, out)
  <1>1. PICK n \in 0..Len(read) :
          /\ queue = SubSeq(read, n + 1, Len(read))
          /\ SamplesOf(SubSeq(read, 1, n)) = out \o tail
          /\ Taken(SubSeq(read, 1, n), built, f)
    BY DEF Progress
  <1>2. /\ n \in 0..Len(read \o more)
        /\ SubSeq(read \o more, 1, n) = SubSeq(read, 1, n)
        /\ SubSeq(read \o more, n + 1, Len(read \o more)) = SubSeq(read, n + 1, Len(read)) \o more
    BY SplitMore, ZenonT(60)
  <1>3. /\ queue \o more = SubSeq(read \o more, n + 1, Len(read \o more))
        /\ SamplesOf(SubSeq(read \o more, 1, n)) = out \o tail
        /\ Taken(SubSeq(read \o more, 1, n), built, f)
    BY <1>1, <1>2
  <1> QED BY <1>2, <1>3, Zenon DEF Progress

(* What drain makes of a thread, whose frames read so far are these. *)
DrainedTo(d, read, keep, then) ==
  /\ codec' \in [Decoders -> Seq(AudioFrame)] /\ input' \in [Decoders -> InputType \cup {None}]
  /\ held' \in [Decoders -> Held] /\ pcm' \in [Decoders -> Seq(Nat)]
  /\ \A e \in Decoders : e # d => /\ codec'[e] = codec[e] /\ input'[e] = input[e]
                                  /\ held'[e] = held[e] /\ pcm'[e] = pcm[e] /\ pc'[e] = pc[e]
  /\ \/ pc'[d] = "failed"
     \/ pc'[d] = "error" /\ Conflict(read, file[d])
     \/ /\ pc'[d] = then /\ Progress(file[d], read, codec'[d], input'[d], held'[d], pcm'[d])
        /\ keep = 0 => codec'[d] = <<>>

LEMMA DrainKeeps ==
  ASSUME NEW d \in Decoders, Typed, NEW frames, NEW keep \in Nat, NEW then, NEW read \in Seq(AudioFrame), pc \in [Decoders -> Points],
         Progress(file[d], read, frames, input[d], held[d], pcm[d]), Drain(d, frames, keep, then)
  PROVE  DrainedTo(d, read, keep, then)
  <1> DEFINE broken == pc' = [pc EXCEPT ![d] = "failed"] /\ UNCHANGED <<codec, input, held, pcm>>
  <1>1. CASE broken
    BY <1>1 DEF Typed, DrainedTo
  <1> SUFFICES ASSUME ~broken PROVE DrainedTo(d, read, keep, then)
    BY <1>1
  <1> DEFINE f == file[d]
             out == IF Len(frames) > keep THEN Len(frames) - keep ELSE 0
             begin == [failed |-> FALSE, input |-> input[d], held |-> held[d], pcm |-> pcm[d]]
             end == After(begin, frames, f, out)
  <1>2. PICK m \in 0..Len(read) :
          /\ frames = SubSeq(read, m + 1, Len(read))
          /\ SamplesOf(SubSeq(read, 1, m)) = pcm[d] \o held[d]
          /\ Taken(SubSeq(read, 1, m), input[d], f)
    BY DEF Progress
  <1>3. frames \in Seq(AudioFrame) /\ Len(frames) = Len(read) - m /\ \A k \in 1..(Len(read) - m) : frames[k] = read[m + k]
    BY <1>2, SplitAt
  <1>4. f \in Files /\ begin \in State /\ Through(f, read, m, begin)
    BY <1>2 DEF Typed, State, Through
  <1>5. out \in Nat /\ out <= Len(frames) /\ m + out <= Len(read) /\ m + out \in 0..Len(read) /\ (keep = 0 => out = Len(frames))
    BY <1>3
  <1>6. \A k \in 1..out : frames[k] = read[m + k]
    BY <1>3, <1>5
  <1>7. /\ codec' = [codec EXCEPT ![d] = SubSeq(frames, out + 1, Len(frames))]
        /\ input' = [input EXCEPT ![d] = end.input]
        /\ held' = [held EXCEPT ![d] = end.held]
        /\ pcm' = [pcm EXCEPT ![d] = end.pcm]
        /\ pc' = [pc EXCEPT ![d] = IF end.failed THEN "error" ELSE then]
    BY Zenon DEF Drain, Goto, After
  <1> HIDE DEF out, begin, broken
  <1>8. end \in State /\ Through(f, read, m + out, end)
    <2> HIDE DEF f
    <2> QED BY <1>4, <1>5, <1>6, Drained
  <1> HIDE DEF end, f
  <1>9. /\ SubSeq(frames, out + 1, Len(frames)) \in Seq(AudioFrame)
        /\ out = Len(frames) => SubSeq(frames, out + 1, Len(frames)) = <<>>
        /\ SubSeq(frames, out + 1, Len(frames)) = SubSeq(read, (m + out) + 1, Len(read))
    <2>1. out \in 0..Len(frames) /\ Len(frames) \in Nat
      BY <1>3, <1>5
    <2>2. /\ SubSeq(frames, out + 1, Len(frames)) \in Seq(AudioFrame)
          /\ Len(SubSeq(frames, out + 1, Len(frames))) = Len(frames) - out
          /\ \A i \in 1..(Len(frames) - out) : SubSeq(frames, out + 1, Len(frames))[i] = frames[out + i]
      BY <1>3, <2>1, SplitAt
    <2>3. /\ SubSeq(read, (m + out) + 1, Len(read)) \in Seq(AudioFrame)
          /\ Len(SubSeq(read, (m + out) + 1, Len(read))) = Len(read) - (m + out)
          /\ \A i \in 1..(Len(read) - (m + out)) : SubSeq(read, (m + out) + 1, Len(read))[i] = read[(m + out) + i]
      BY <1>5, SplitAt
    <2> DEFINE s == SubSeq(frames, out + 1, Len(frames))
               t == SubSeq(read, (m + out) + 1, Len(read))
    <2>4. Len(s) = Len(t) /\ \A i \in 1..Len(s) : s[i] = t[i]
      <3>1. ASSUME NEW i \in 1..(Len(frames) - out)
            PROVE  frames[out + i] = read[(m + out) + i]
        <4>1. out + i \in 1..(Len(read) - m) /\ m + (out + i) = (m + out) + i
          BY <1>3, <1>5
        <4> QED BY <1>3, <4>1
      <3>2. Len(read) - (m + out) = Len(frames) - out
        BY <1>3, <1>5
      <3> QED BY <2>2, <2>3, <3>1, <3>2
    <2>5. s \in Seq(AudioFrame) /\ t \in Seq(AudioFrame)
      BY <2>2, <2>3
    <2>6. out = Len(frames) => Len(s) = 0
      BY <2>1, <2>2
    <2> HIDE DEF s, t
    <2>7. s = t /\ (Len(s) = 0 => s = <<>>)
      BY <2>4, <2>5
    <2> QED BY <2>5, <2>6, <2>7 DEF s, t
  <1>10. end.input \in InputType \cup {None} /\ end.held \in Held /\ end.pcm \in Seq(Nat) /\ end.failed \in BOOLEAN
    BY <1>8 DEF State
  <1>11. /\ codec'[d] = SubSeq(frames, out + 1, Len(frames)) /\ input'[d] = end.input
         /\ held'[d] = end.held /\ pcm'[d] = end.pcm /\ pc'[d] = IF end.failed THEN "error" ELSE then
    BY <1>7 DEF Typed
  <1>12. /\ codec' \in [Decoders -> Seq(AudioFrame)] /\ input' \in [Decoders -> InputType \cup {None}]
         /\ held' \in [Decoders -> Held] /\ pcm' \in [Decoders -> Seq(Nat)]
    BY <1>7, <1>9, <1>10 DEF Typed
  <1>13. \A e \in Decoders : e # d => /\ codec'[e] = codec[e] /\ input'[e] = input[e]
                                      /\ held'[e] = held[e] /\ pcm'[e] = pcm[e] /\ pc'[e] = pc[e]
    BY <1>7 DEF Typed
  <1>14. CASE end.failed
    BY <1>5, <1>8, <1>9, <1>11, <1>12, <1>13, <1>14 DEF Through, DrainedTo, f
  <1>15. CASE ~end.failed
    <2>1. /\ codec'[d] = SubSeq(read, (m + out) + 1, Len(read))
          /\ SamplesOf(SubSeq(read, 1, m + out)) = pcm'[d] \o held'[d]
          /\ Taken(SubSeq(read, 1, m + out), input'[d], f)
      BY <1>8, <1>9, <1>11, <1>15 DEF Through
    <2>2. Progress(f, read, codec'[d], input'[d], held'[d], pcm'[d])
      BY <1>5, <2>1, Zenon DEF Progress
    <2>3. keep = 0 => codec'[d] = <<>>
      BY <1>5, <1>9, <1>11
    <2> QED BY <1>11, <1>12, <1>13, <1>15, <2>2, <2>3 DEF DrainedTo, f
  <1> QED BY <1>10, <1>14, <1>15

(* Frames that one resampler cannot take are not all of one kind. *)
LEMMA ConflictKind ==
  ASSUME NEW f \in Files, NEW n \in 0..Len(f.packets), Conflict(FramesOf(f, n), f)
  PROVE  ~OneKind(f)
  <1>1. PICK i, j \in DOMAIN FramesOf(f, n) :
          LayoutOf(FramesOf(f, n)[i], f) = 0 \/ InputOf(FramesOf(f, n)[i], f) # InputOf(FramesOf(f, n)[j], f)
    BY DEF Conflict
  <1>2. PICK p \in DOMAIN Frames(f) : Frames(f)[p] = FramesOf(f, n)[i]
    BY FramesMember
  <1>3. PICK q \in DOMAIN Frames(f) : Frames(f)[q] = FramesOf(f, n)[j]
    BY FramesMember
  <1> QED BY <1>1, <1>2, <1>3 DEF OneKind

(* When all has been read and the codec is empty, the resampler has had    *)
(* every frame.                                                            *)
LEMMA AllThrough ==
  ASSUME NEW f \in Files, NEW built, NEW tail \in Seq(Nat), NEW out \in Seq(Nat),
         Progress(f, FramesOf(f, Len(f.packets)), <<>>, built, tail, out)
  PROVE  Samples(f) = out \o tail /\ Taken(Frames(f), built, f) /\ OneKind(f) /\ Frames(f) \in Seq(AudioFrame)
  <1> DEFINE read == Frames(f)
  <1>1. read \in Seq(AudioFrame)
    <2>1. Len(f.packets) \in Nat
      <3> 0 \in 0..Len(f.packets) \/ Len(f.packets) \notin Nat
        OBVIOUS
      <3> QED BY FilesAssumption
    <2> QED BY <2>1, FramesStep DEF Frames
  <1>2. PICK n \in 0..Len(read) :
          /\ <<>> = SubSeq(read, n + 1, Len(read))
          /\ SamplesOf(SubSeq(read, 1, n)) = out \o tail
          /\ Taken(SubSeq(read, 1, n), built, f)
    BY DEF Progress, Frames
  <1> HIDE DEF read
  <1>3. Len(SubSeq(read, n + 1, Len(read))) = Len(read) - n
    BY <1>1, SplitAt
  <1>4. n = Len(read)
    <2>1. Len(<<>>) = 0
      OBVIOUS
    <2>2. Len(read) - n = 0
      BY <1>2, <1>3, <2>1
    <2> QED BY <1>1, <2>2
  <1>5. SubSeq(read, 1, n) = read
    BY <1>1, <1>4, SubSeqFull
  <1>6. SamplesOf(read) = out \o tail /\ Taken(read, built, f)
    BY <1>2, <1>5
  <1>7. OneKind(f)
    <2>1. \A i \in DOMAIN read : LayoutOf(read[i], f) # 0 /\ InputOf(read[i], f) = built
      BY <1>6 DEF Taken
    <2>2. \A i \in DOMAIN read : 1 \in DOMAIN read
      BY <1>1
    <2> QED BY <2>1, <2>2 DEF OneKind, read
  <1> QED BY <1>1, <1>6, <1>7 DEF Samples, read
----------------------------------------------------------------------------
(* The invariant.                                                          *)

LEMMA FileTyped ==
  ASSUME NEW f \in Files
  PROVE  /\ f.samples \in Seq(Nat) /\ Len(f.packets) \in Nat
         /\ f.packets \in Seq([best : BOOLEAN, decodable : BOOLEAN, frames : Seq(AudioFrame)])
         /\ FramesOf(f, 0) = <<>>
  <1>1. f.samples \in Seq(Nat) /\ f.packets \in Seq([best : BOOLEAN, decodable : BOOLEAN, frames : Seq(AudioFrame)])
    BY FilesAssumption
  <1>2. Len(f.packets) \in Nat
    BY <1>1
  <1>3. 0 \in 0..Len(f.packets)
    BY <1>2
  <1> QED BY <1>1, <1>2, <1>3, FramesStep

LEMMA InitDInv == Init => DInv
  <1> SUFFICES ASSUME Init PROVE DInv
    OBVIOUS
  <1>1. Placed /\ LibavReady
    BY InitReady
  <1>2. Typed
    <2>1. <<>> \in Held
      BY DelayAssumption DEF Held
    <2> QED BY <2>1 DEF Init, Typed
  <1>3. ASSUME NEW d \in Decoders PROVE SoFar(d) /\ EndsRight(d)
    <2>1. file[d] \in Files
      BY DEF Init
    <2>2. Len(Packets(d)) \in Nat
      BY <2>1, FileTyped DEF Packets
    <2> QED BY <2>2 DEF Init, SoFar, EndsRight
  <1> QED BY <1>1, <1>2, <1>3 DEF DInv, DecodesAll

(* A step of d changes only what is d's. *)
Local(d) ==
  /\ file' = file /\ Typed'
  /\ once = "poisoned" => once' = "poisoned"
  /\ \A e \in Decoders : e # d => /\ next'[e] = next[e] /\ codec'[e] = codec[e] /\ input'[e] = input[e]
                                  /\ held'[e] = held[e] /\ pcm'[e] = pcm[e] /\ pc'[e] = pc[e]

Kept(d) == Local(d) /\ SoFar(d)' /\ EndsRight(d)'

LEMMA OthersKept ==
  ASSUME DInv, NEW d \in Decoders, Kept(d), NEW e \in Decoders, e # d
  PROVE  SoFar(e)' /\ EndsRight(e)'
  <1>1. SoFar(e) /\ EndsRight(e)
    BY DEF DInv, DecodesAll
  <1>2. Packets(e)' = Packets(e)
    BY DEF Packets, Kept, Local
  <1>3. SoFar(e)'
    BY <1>1, <1>2 DEF SoFar, Kept, Local
  <1>4. EndsRight(e)'
    BY <1>1 DEF EndsRight, Kept, Local
  <1> QED BY <1>3, <1>4

(* Before the first packet. *)
LEMMA EarlyStep ==
  ASSUME DInv, NEW d \in Decoders,
         WavFastpath(d) \/ NotNative(d) \/ EnterInit(d) \/ InitSucceeds(d) \/ InitPanics(d) \/ PassInit(d)
           \/ OpenFails(d) \/ Open(d)
  PROVE  Kept(d)
  <1>1. pc \in [Decoders -> Points] /\ Typed /\ file[d] \in Files /\ SoFar(d) /\ EndsRight(d)
    BY DEF DInv, Placed, Typed, DecodesAll
  <1>2. pc[d] = "initializing" => once = "running"
    BY DEF DInv, LibavReady
  <1>3. Local(d)
    <2>1. CASE WavFastpath(d)
      <3>1. file[d].samples \in Seq(Nat)
        BY <1>1, FileTyped
      <3> QED BY <1>1, <2>1, <3>1 DEF WavFastpath, Goto, Typed, Local
    <2>2. CASE ~WavFastpath(d)
      <3>1. UNCHANGED work /\ (once = "poisoned" => once' = "poisoned") /\ \E p \in Points : pc' = [pc EXCEPT ![d] = p]
        BY <1>2, <2>2 DEF NotNative, EnterInit, InitSucceeds, InitPanics, PassInit, OpenFails, LibavFails, Open, Goto, work, Points
      <3> QED BY <1>1, <3>1 DEF work, Typed, Local
    <2> QED BY <2>1, <2>2
  <1>4. Packets(d)' = Packets(d)
    BY <1>3 DEF Packets, Local
  <1>5. CASE WavFastpath(d)
    <2>1. pc'[d] = "decoded" /\ pcm'[d] = file[d].samples /\ Native(file[d]) /\ next'[d] = next[d]
      BY <1>1, <1>5 DEF WavFastpath, Goto, Typed
    <2> QED BY <1>1, <1>3, <1>4, <2>1 DEF Kept, Local, SoFar, EndsRight
  <1>6. CASE ~WavFastpath(d)
    <2>1. /\ UNCHANGED work
          /\ pc[d] \in {"begin", "libav", "initializing", "open"}
          /\ pc[d] = "begin" => ~Native(file[d])
          /\ \/ pc'[d] \in {"libav", "initializing", "open", "failed"}
             \/ pc'[d] = "panic" /\ once' = "poisoned"
             \/ pc'[d] = "packets" /\ Opens(file[d])
             \/ pc'[d] = "error" /\ ~Opens(file[d])
      BY <1>1, <1>6 DEF NotNative, EnterInit, InitSucceeds, InitPanics, PassInit, OpenFails, LibavFails, Open, Goto, work
    <2>2. ~Native(file[d]) /\ codec[d] = <<>> /\ input[d] = None /\ held[d] = <<>> /\ pcm[d] = <<>> /\ next[d] = 1
      BY <1>1, <2>1 DEF SoFar
    <2>3. Progress(file[d], FramesOf(file[d], 1 - 1), <<>>, None, <<>>, <<>>)
      <3>1. FramesOf(file[d], 1 - 1) = <<>>
        BY <1>1, FileTyped
      <3>2. Taken(<<>>, None, file[d])
        BY DEF Taken
      <3>3. SubSeq(<<>>, 1, 0) = <<>> /\ SubSeq(<<>>, 0 + 1, Len(<<>>)) = <<>> /\ 0 \in 0..Len(<<>>) /\ <<>> \o <<>> = <<>>
        OBVIOUS
      <3>4. SamplesOf(<<>>) = <<>>
        BY NoSamples
      <3> QED BY <3>1, <3>2, <3>3, <3>4 DEF Progress
    <2>4. SoFar(d)'
      BY <1>1, <1>4, <2>1, <2>2, <2>3 DEF SoFar, work
    <2>5. EndsRight(d)'
      BY <2>1, <2>2 DEF EndsRight, work, Whole
    <2> QED BY <1>3, <2>4, <2>5 DEF Kept
  <1> QED BY <1>5, <1>6

LEMMA PacketStep ==
  ASSUME DInv, NEW d \in Decoders, SkipPacket(d) \/ DecodePacket(d) \/ EndPackets(d)
  PROVE  Kept(d)
  <1> DEFINE f == file[d]
             k == next[d]
             read == FramesOf(f, k - 1)
  <1>1. pc \in [Decoders -> Points] /\ Typed /\ f \in Files /\ SoFar(d) /\ pc[d] = "packets"
    BY DEF DInv, Placed, Typed, SkipPacket, DecodePacket, EndPackets
  <1>2. /\ k \in 1..(Len(f.packets) + 1) /\ Len(f.packets) \in Nat /\ k - 1 \in 0..Len(f.packets) /\ k \in Nat
        /\ ~Native(f) /\ Opens(f) /\ Progress(f, read, codec[d], input[d], held[d], pcm[d])
    <2>1. Len(f.packets) \in Nat
      BY <1>1, FileTyped
    <2>2. k \in 1..(Len(f.packets) + 1)
      BY <1>1 DEF SoFar, Packets
    <2>3. ~Native(f) /\ Opens(f) /\ Progress(f, read, codec[d], input[d], held[d], pcm[d])
      BY <1>1 DEF SoFar
    <2> HIDE DEF k, f, read
    <2> QED BY <2>1, <2>2, <2>3
  <1>3. read \in Seq(AudioFrame) /\ (k <= Len(f.packets) => FramesOf(f, k) = read \o Part(f, k) /\ Part(f, k) \in Seq(AudioFrame))
    <2> HIDE DEF f, k
    <2>1. read \in Seq(AudioFrame) /\ (k - 1 < Len(f.packets) => FramesOf(f, (k - 1) + 1) = read \o Part(f, (k - 1) + 1))
      BY <1>1, <1>2, FramesStep
    <2>2. (k - 1) + 1 = k /\ (k <= Len(f.packets) => k - 1 < Len(f.packets) /\ k \in 1..Len(f.packets))
      BY <1>2
    <2>3. k <= Len(f.packets) => Part(f, k) \in Seq(AudioFrame)
      BY <1>1, <1>2, <2>2, PartsTyped
    <2> QED BY <2>1, <2>2, <2>3
  (* What is left to show, once the frames read are known. *)
  <1>4. ASSUME NEW n \in 0..Len(f.packets), next'[d] = n + 1, file' = file, Typed', ~(pc'[d] = "decoded"),
               \/ pc'[d] = "failed"
               \/ pc'[d] = "error" /\ Conflict(FramesOf(f, n), f)
               \/ /\ pc'[d] = "packets" \/ (pc'[d] = "flushing" /\ n = Len(f.packets) /\ codec'[d] = <<>>)
                  /\ Progress(f, FramesOf(f, n), codec'[d], input'[d], held'[d], pcm'[d])
        PROVE  SoFar(d)' /\ EndsRight(d)'
    <2>1. file'[d] = f /\ Len(Packets(d)') = Len(f.packets) /\ next'[d] - 1 = n /\ next'[d] \in 1..(Len(f.packets) + 1)
      BY <1>2, <1>4 DEF Packets
    <2>2. pc'[d] = "error" => ~Whole(f)
      BY <1>1, <1>4, ConflictKind DEF Whole
    <2> HIDE DEF f
    <2>3. SoFar(d)'
      BY <1>2, <1>4, <2>1 DEF SoFar
    <2>4. EndsRight(d)'
      BY <1>2, <1>4, <2>1, <2>2 DEF EndsRight
    <2> QED BY <2>3, <2>4
  <1>5. CASE SkipPacket(d)
    <2>1. /\ k <= Len(f.packets) /\ Part(f, k) = <<>> /\ next' = [next EXCEPT ![d] = k + 1]
          /\ UNCHANGED <<once, pc, file, codec, input, held, pcm>>
      BY <1>5 DEF SkipPacket, Packets, Part
    <2>2. FramesOf(f, k) = read
      BY <1>3, <2>1, ConcatEmptySeq
    <2>3. Local(d)
      BY <1>1, <1>2, <2>1 DEF Local, Typed
    <2>4. k \in 0..Len(f.packets) /\ next'[d] = k + 1
      BY <1>1, <1>2, <2>1 DEF Typed
    <2>5. pc'[d] = "packets" /\ Progress(f, FramesOf(f, k), codec'[d], input'[d], held'[d], pcm'[d])
      BY <1>1, <1>2, <2>1, <2>2
    <2>6. file' = file /\ Typed'
      BY <2>3 DEF Local
    <2> HIDE DEF f, k, read
    <2> QED BY <1>4, <2>3, <2>4, <2>5, <2>6 DEF Kept
  <1>6. CASE DecodePacket(d)
    <2>1. /\ k <= Len(f.packets) /\ Part(f, k) = f.packets[k].frames /\ next' = [next EXCEPT ![d] = k + 1]
          /\ Drain(d, codec[d] \o Part(f, k), CodecDelay, "packets") /\ UNCHANGED <<once, file>>
      BY <1>6 DEF DecodePacket, Packets, Part
    <2>2. Progress(f, FramesOf(f, k), codec[d] \o Part(f, k), input[d], held[d], pcm[d])
      BY <1>2, <1>3, <2>1, ProgressMore
    <2>3. FramesOf(f, k) \in Seq(AudioFrame) /\ CodecDelay \in Nat
      <3>1. \A x, y \in Seq(AudioFrame) : x \o y \in Seq(AudioFrame)
        OBVIOUS
      <3> HIDE DEF f, k, read
      <3> QED BY <1>3, <2>1, <3>1, DelayAssumption
    <2>4. DrainedTo(d, FramesOf(f, k), CodecDelay, "packets")
      <3> HIDE DEF k
      <3> QED BY <1>1, <2>1, <2>2, <2>3, DrainKeeps
    <2>5. Local(d)
      <3>1. next' \in [Decoders -> Nat] /\ \A e \in Decoders : e # d => next'[e] = next[e]
        <4> HIDE DEF k
        <4> QED BY <1>1, <1>2, <2>1 DEF Typed
      <3>2. file' \in [Decoders -> Files] /\ file' = file /\ once' = once
        BY <1>1, <2>1 DEF Typed
      <3> HIDE DEF f, k, read
      <3> QED BY <2>4, <3>1, <3>2 DEF Local, Typed, DrainedTo
    <2>6. k \in 0..Len(f.packets) /\ next'[d] = k + 1 /\ file' = file /\ Typed'
      BY <1>1, <1>2, <2>1, <2>5, SMTT(30) DEF Typed, Local
    <2>7. \/ pc'[d] = "failed"
          \/ pc'[d] = "error" /\ Conflict(FramesOf(f, k), f)
          \/ pc'[d] = "packets" /\ Progress(f, FramesOf(f, k), codec'[d], input'[d], held'[d], pcm'[d])
      BY <2>4 DEF DrainedTo
    <2> HIDE DEF f, k, read
    <2> QED BY <1>4, <2>5, <2>6, <2>7 DEF Kept
  <1>7. CASE EndPackets(d)
    <2>1. k = Len(f.packets) + 1 /\ Drain(d, codec[d], 0, "flushing") /\ UNCHANGED <<once, file, next>>
      BY <1>2, <1>7 DEF EndPackets, Packets
    <2>2. k - 1 = Len(f.packets) /\ next'[d] = (k - 1) + 1 /\ file' = file
      BY <1>2, <2>1
    <2>3. DrainedTo(d, read, 0, "flushing")
      <3> HIDE DEF k, read
      <3> QED BY <1>1, <1>2, <1>3, <2>1, DrainKeeps
    <2>4. Local(d)
      BY <1>1, <2>1, <2>3 DEF Local, Typed, DrainedTo
    <2>5. Typed'
      BY <2>4 DEF Local
    <2>6. \/ pc'[d] = "failed"
          \/ pc'[d] = "error" /\ Conflict(read, f)
          \/ pc'[d] = "flushing" /\ codec'[d] = <<>> /\ Progress(f, read, codec'[d], input'[d], held'[d], pcm'[d])
      BY <2>3 DEF DrainedTo
    <2> HIDE DEF f, k
    <2> QED BY <1>2, <1>4, <2>2, <2>4, <2>5, <2>6 DEF Kept
  <1> QED BY <1>5, <1>6, <1>7

LEMMA FlushStep ==
  ASSUME DInv, NEW d \in Decoders, Flush(d) \/ FlushFails(d) \/ NothingDecoded(d)
  PROVE  Kept(d)
  <1> DEFINE f == file[d]
             n == Len(f.packets)
             tail == held[d]
             out == FlushOut(d)
             gone == SubSeq(tail, 1, out)
             rest == Rest(d)
  <1>1. pc \in [Decoders -> Points] /\ Typed /\ f \in Files /\ SoFar(d) /\ pc[d] = "flushing"
    BY DEF DInv, Placed, Typed, Flush, FlushFails, Flushing, NothingDecoded
  <1>2. /\ tail \in Seq(Nat) /\ Len(tail) <= Hold /\ pcm[d] \in Seq(Nat)
        /\ n \in Nat /\ next[d] - 1 = n /\ next[d] = n + 1
    <2>1. tail \in Seq(Nat) /\ Len(tail) <= Hold /\ pcm[d] \in Seq(Nat) /\ n \in Nat
      BY <1>1, FileTyped DEF Typed, Held
    <2>2. next[d] = n + 1
      BY <1>1 DEF SoFar, Packets
    <2> QED BY <2>1, <2>2
  <1>3. ~Native(f) /\ Opens(f) /\ codec[d] = <<>> /\ Progress(f, FramesOf(f, n), <<>>, input[d], tail, pcm[d])
    BY <1>1, <1>2 DEF SoFar
  <1>4. Samples(f) = pcm[d] \o tail /\ Taken(Frames(f), input[d], f) /\ OneKind(f) /\ Frames(f) \in Seq(AudioFrame)
    <2> HIDE DEF f, tail
    <2> QED BY <1>1, <1>2, <1>3, AllThrough
  <1>5. CASE NothingDecoded(d)
    <2>1. input[d] = None /\ pc' = [pc EXCEPT ![d] = IF pcm[d] = <<>> THEN "error" ELSE "decoded"] /\ UNCHANGED <<once, work>>
      BY <1>5 DEF NothingDecoded, Finish, Goto
    <2>2. Frames(f) = <<>>
      <3>1. \A i \in DOMAIN Frames(f) : Frames(f)[i] \in AudioFrame
        BY <1>4
      <3>2. \A i \in DOMAIN Frames(f) : FALSE
        BY <1>1, <1>4, <2>1, <3>1, InputTyped DEF Taken
      <3> HIDE DEF f
      <3>3. \A S : \A x \in Seq(S) : x # <<>> => 1 \in DOMAIN x
        OBVIOUS
      <3> QED BY <1>4, <3>2, <3>3, Zenon
    <2>3. Samples(f) = <<>>
      BY <2>2, NoSamples DEF Samples
    <2>4. pcm[d] = <<>>
      <3> HIDE DEF f, tail
      <3>1. \A x, y \in Seq(Nat) : x \o y = <<>> => x = <<>>
        BY ConcatEqualIffEmpty
      <3> QED BY <1>2, <1>4, <2>3, <3>1
    <2>5. pc'[d] = "error" /\ ~Whole(f)
      BY <1>1, <2>1, <2>3, <2>4 DEF Whole
    <2>6. Local(d)
      BY <1>1, <2>1 DEF Local, Typed, work
    <2>7. SoFar(d)'
      BY <1>2, <1>3, <2>1, <2>5 DEF SoFar, work, Packets
    <2>8. EndsRight(d)'
      BY <1>3, <2>1, <2>5 DEF EndsRight, work
    <2> QED BY <2>6, <2>7, <2>8 DEF Kept
  <1>6. CASE FlushFails(d)
    <2>1. pc' = [pc EXCEPT ![d] = "failed"] /\ UNCHANGED <<once, work>>
      BY <1>6 DEF FlushFails, LibavFails, Goto
    <2>2. Local(d)
      BY <1>1, <2>1 DEF Local, Typed, work
    <2>3. SoFar(d)' /\ EndsRight(d)'
      BY <1>1, <1>3, <2>1 DEF SoFar, EndsRight, work, Packets
    <2> QED BY <2>2, <2>3 DEF Kept
  <1>7. CASE Flush(d)
    <2>1. /\ pcm' = [pcm EXCEPT ![d] = pcm[d] \o gone]
          /\ held' = [held EXCEPT ![d] = rest]
          /\ IF out = 0 \/ ~Reports(d)
             THEN pc' = [pc EXCEPT ![d] = IF pcm'[d] = <<>> THEN "error" ELSE "decoded"] ELSE UNCHANGED pc
          /\ UNCHANGED <<once, file, next, codec, input>>
      BY <1>7 DEF Flush, FlushTurn, Finish, Goto
    <2>2. out \in 0..Len(tail) /\ (out = 0 => Len(tail) = 0) /\ (out # Len(tail) => out = FlushLen) /\ FlushLen \in Nat /\ Hold \in Nat
      BY <1>2, DelayAssumption DEF FlushOut
    <2>3. gone \in Seq(Nat) /\ rest \in Seq(Nat) /\ gone \o rest = tail /\ Len(gone) = out /\ Len(rest) = Len(tail) - out
      <3>1. rest = SubSeq(tail, out + 1, Len(tail))
        BY DEF Rest
      <3> HIDE DEF tail, out, rest
      <3> QED BY <1>2, <2>2, <3>1, SplitAt, ZenonT(60)
    <2> HIDE DEF tail, out
    <2> HIDE DEF gone, rest
    <2>10. rest \in Held
      BY <1>2, <2>2, <2>3 DEF Held
    <2>4. (pcm[d] \o gone) \o rest = Samples(f) /\ pcm[d] \o gone \in Seq(Nat)
      <3>1. \A x, y, z \in Seq(Nat) : (x \o y) \o z = x \o (y \o z) /\ x \o y \in Seq(Nat)
        BY ConcatAssociative, SMTT(30)
      <3> HIDE DEF f
      <3> QED BY <1>2, <1>4, <2>3, <3>1
    <2>5. pcm'[d] = pcm[d] \o gone /\ held'[d] = rest
      BY <1>1, <2>1 DEF Typed
    <2>6. Local(d)
      <3>1. /\ pcm' \in [Decoders -> Seq(Nat)] /\ held' \in [Decoders -> Held]
            /\ \A e \in Decoders : e # d => pcm'[e] = pcm[e] /\ held'[e] = held[e] /\ pc'[e] = pc[e]
        BY <1>1, <2>1, <2>4, <2>10 DEF Typed
      <3> QED BY <1>1, <2>1, <3>1 DEF Local, Typed
    <2>7. file'[d] = f /\ next'[d] = next[d] /\ codec'[d] = codec[d] /\ input'[d] = input[d] /\ Packets(d)' = Packets(d)
      BY <2>1 DEF Packets
    <2>8. CASE out = 0 \/ ~Reports(d)
      <3>1. pc'[d] = IF pcm'[d] = <<>> THEN "error" ELSE "decoded"
        BY <1>1, <2>1, <2>8
      <3>2. pcm'[d] = <<>> => Samples(f) = <<>>
        <4>1. ASSUME pcm'[d] = <<>> PROVE gone = <<>> /\ pcm[d] = <<>>
          <5>1. \A x, y \in Seq(Nat) : x \o y = <<>> => x = <<>> /\ y = <<>>
            BY ConcatEqualIffEmpty
          <5> QED BY <1>2, <2>3, <2>5, <4>1, <5>1
        <4>2. gone = <<>> => Len(gone) = 0
          OBVIOUS
        <4>3. Len(tail) = 0 => tail = <<>>
          BY <1>2
        <4>4. <<>> \o <<>> = <<>>
          OBVIOUS
        <4> HIDE DEF f
        <4> QED BY <1>4, <2>2, <2>3, <4>1, <4>2, <4>3, <4>4
      <3>3. Complete(pcm'[d], f)
        <4> DEFINE all == Samples(f)
                   had == pcm[d] \o gone
        <4>1. /\ all \in Seq(Nat) /\ Len(all) = Len(had) + Len(rest) /\ Len(had) \in 0..Len(all)
              /\ SubSeq(all, 1, Len(had)) = had
          <5> HIDE DEF had, f
          <5>1. had \o rest \in Seq(Nat) /\ Len(had \o rest) = Len(had) + Len(rest) /\ Len(had) \in 0..Len(had)
            <6>1. had \in Seq(Nat)
              BY <2>4 DEF had
            <6> QED BY <2>3, <6>1
          <5>2. Len(had) \in 0..Len(had \o rest) /\ SubSeq(had \o rest, 1, Len(had)) = SubSeq(had, 1, Len(had))
            BY <2>3, <2>4, <5>1, SplitMore DEF had
          <5>3. SubSeq(had, 1, Len(had)) = had
            BY <2>4, SubSeqFull DEF had
          <5> QED BY <2>4, <5>1, <5>2, <5>3 DEF had
        <4>2. pcm'[d] = had
          BY <2>5
        <4>3. Len(had) = Len(all) \/ (f.delay = "rounded" /\ FlushLen + (Len(all) - Len(had)) <= Hold)
          <5>1. Len(rest) \in Nat /\ Len(had) \in Nat
            BY <2>3, <2>4
          <5>2. f.delay \in {"exact", "residue", "rounded"}
            BY <1>1, FilesAssumption
          <5>3. Len(rest) = 0 \/ f.delay = "rounded"
            <6>1. Reports(d) <=> f.delay = "residue" \/ (f.delay = "exact" /\ rest # <<>>)
              BY DEF Reports, rest
            <6>2. rest = <<>> => Len(rest) = 0
              OBVIOUS
            <6> HIDE DEF f
            <6> QED BY <2>2, <2>3, <2>8, <5>2, <6>1, <6>2
          <5>4. Len(tail) \in Nat /\ Len(tail) <= Hold
            BY <1>2
          <5>5. Len(all) = Len(had) + Len(rest)
            BY <4>1
          <5> HIDE DEF f, had, all
          <5>6. Len(rest) # 0 => FlushLen + Len(rest) <= Hold
            BY <2>2, <2>3, <5>1, <5>4
          <5> QED BY <5>1, <5>3, <5>5, <5>6
        <4> HIDE DEF f, had
        <4> QED BY <4>1, <4>2, <4>3 DEF Complete
      <3> HIDE DEF f
      <3>4. (pc'[d] = "error" => ~Whole(f)) /\ (pc'[d] = "decoded" => Whole(f)) /\ pc'[d] \in {"error", "decoded"}
        <4>1. Samples(f) = <<>> => pcm'[d] = <<>>
          <5>1. \A x, y \in Seq(Nat) : x \o y = <<>> => x = <<>>
            BY ConcatEqualIffEmpty
          <5> QED BY <2>3, <2>4, <2>5, <5>1
        <4> QED BY <1>3, <1>4, <3>1, <3>2, <4>1 DEF Whole
      <3>5. SoFar(d)'
        BY <1>1, <1>3, <2>7, <3>4 DEF SoFar
      <3>6. EndsRight(d)'
        BY <1>3, <2>7, <3>3, <3>4 DEF EndsRight
      <3> QED BY <2>6, <3>5, <3>6 DEF Kept
    <2>9. CASE ~(out = 0 \/ ~Reports(d))
      <3>1. pc'[d] = "flushing"
        BY <1>1, <2>1, <2>5, <2>9
      <3>2. Progress(f, FramesOf(f, n), <<>>, input'[d], held'[d], pcm'[d])
        <4>1. Samples(f) = pcm'[d] \o held'[d]
          BY <2>4, <2>5
        <4> DEFINE all == Frames(f)
        <4>2. SamplesOf(all) = pcm'[d] \o held'[d] /\ Taken(all, input'[d], f) /\ all \in Seq(AudioFrame) /\ all = FramesOf(f, n)
          BY <1>4, <2>7, <4>1 DEF Samples, Frames
        <4> HIDE DEF all, f, n
        <4>3. Len(all) \in 0..Len(all) /\ Len(all) \in Int /\ Len(all) + 1 \in Int /\ Len(all) < Len(all) + 1
          BY <4>2
        <4>4. SubSeq(all, 1, Len(all)) = all
          BY <4>2, SubSeqFull
        <4>5. SubSeq(all, Len(all) + 1, Len(all)) = <<>>
          BY <4>3, SubSeqEmpty
        <4>6. Progress(f, all, <<>>, input'[d], held'[d], pcm'[d])
          BY <4>2, <4>3, <4>4, <4>5 DEF Progress
        <4> QED BY <4>2, <4>6
      <3> HIDE DEF f, n
      <3>3. SoFar(d)'
        BY <1>1, <1>2, <1>3, <2>7, <3>1, <3>2 DEF SoFar
      <3>4. EndsRight(d)'
        BY <3>1 DEF EndsRight
      <3> QED BY <2>6, <3>3, <3>4 DEF Kept
    <2> QED BY <2>8, <2>9
  <1> QED BY <1>5, <1>6, <1>7

LEMMA StepDInv == DInv /\ [Next]_vars => DInv'
  <1> SUFFICES ASSUME DInv, [Next]_vars PROVE DInv'
    OBVIOUS
  <1>1. Placed' /\ LibavReady'
    BY StepReady DEF DInv
  <1>2. CASE UNCHANGED vars
    <2>1. Typed'
      BY <1>2 DEF DInv, Typed, vars, work
    <2>2. ASSUME NEW d \in Decoders PROVE SoFar(d)' /\ EndsRight(d)'
      BY <1>2 DEF DInv, DecodesAll, SoFar, EndsRight, Packets, vars, work
    <2> QED BY <1>1, <2>1, <2>2 DEF DInv, DecodesAll
  <1>3. ASSUME NEW d \in Decoders, Runs(d) \/ Fails(d) PROVE DInv'
    <2>1. Kept(d)
      BY <1>3, EarlyStep, PacketStep, FlushStep DEF Runs, Fails
    <2>2. \A e \in Decoders : SoFar(e)' /\ EndsRight(e)'
      BY <2>1, OthersKept DEF Kept
    <2> QED BY <1>1, <2>1, <2>2 DEF DInv, DecodesAll, Kept, Local
  <1> QED BY <1>2, <1>3 DEF Next

(* What was decoded, the codec and the resampler hold, between them, all   *)
(* that was read.                                                          *)
THEOREM DecodeInvariance == Spec => []DInv
  BY InitDInv, StepDInv, PTL DEF Spec

(* A decode that succeeds gives the whole recording, whatever is kept back *)
(* on the way and wherever libav may report an error of its own; what it   *)
(* refuses as having no recording has none.                                *)
THEOREM DecodeWhole == Spec => []DecodesAll
  <1>1. DInv => DecodesAll
    BY DEF DInv
  <1> QED BY <1>1, DecodeInvariance, PTL
=============================================================================
