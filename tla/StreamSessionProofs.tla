------------------------- MODULE StreamSessionProofs -------------------------
(***************************************************************************)
(* One stream, whatever its client sends and however the window, the frame *)
(* and the threshold are chosen: its chunks tile the audio, the buffer     *)
(* stays below a window, its frames come in order, and the final says what *)
(* they said and no less.                                                  *)
(***************************************************************************)
EXTENDS StreamSession, ChunkCutProofs

LEMMA WindowHoldsFrame == Window(MaxChunk) \in Nat /\ Window(MaxChunk) >= Frame
BY WindowType, MaxChunkAssumption

(* One more chunk that begins where the last one ended. *)
LEMMA TilesAppend ==
  ASSUME NEW chunks \in Seq(Part), NEW c \in Part, Tiles(chunks), Fits(c), c.from = End(chunks)
  PROVE  Tiles(Append(chunks, c)) /\ End(Append(chunks, c)) = c.to
<1> DEFINE n == Len(chunks)
           more == Append(chunks, c)
<1>1. /\ n \in Nat /\ DOMAIN chunks = 1..n /\ (chunks = <<>> <=> n = 0)
      /\ \A i \in 1..n : chunks[i] \in Part
  OBVIOUS
<1>2. /\ Len(more) = n + 1 /\ DOMAIN more = 1..(n + 1) /\ more # <<>>
      /\ more[n + 1] = c /\ \A i \in 1..n : more[i] = chunks[i]
  BY AppendElement
<1> HIDE DEF more, n
<1>3. ASSUME NEW i \in 1..(n + 1)
      PROVE  Fits(more[i]) /\ more[i].from = IF i = 1 THEN 0 ELSE more[i - 1].to
  <2>1. CASE i \in 1..n
    <3>1. i = 1 \/ i - 1 \in 1..n
      BY <1>1, <2>1
    <3>2. Fits(chunks[i]) /\ chunks[i].from = IF i = 1 THEN 0 ELSE chunks[i - 1].to
      BY <1>1, <2>1 DEF Tiles
    <3> QED BY <1>2, <2>1, <3>1, <3>2
  <2>2. CASE i = n + 1
    <3>1. End(chunks) = IF n = 0 THEN 0 ELSE chunks[n].to
      BY <1>1 DEF End, n
    <3>2. (i = 1 <=> n = 0) /\ i - 1 = n /\ (n # 0 => n \in 1..n)
      BY <1>1, <2>2
    <3> QED BY <1>2, <2>2, <3>1, <3>2
  <2> QED BY <1>1, <2>1, <2>2
<1>4. Tiles(more)
  BY <1>2, <1>3 DEF Tiles
<1>5. End(more) = c.to
  BY <1>2 DEF End
<1> QED BY <1>4, <1>5 DEF more

(* One more frame has been sent. *)
LEMMA SentAppend ==
  ASSUME NEW type \in FrameTypes, NEW text, TypeOK, Send(type, text)
  PROVE  /\ sent' \in Seq([type : FrameTypes, text : {sent'[i].text : i \in DOMAIN sent'}])
         /\ Len(sent) \in Nat /\ DOMAIN sent = 1..Len(sent)
         /\ Len(sent') = Len(sent) + 1 /\ DOMAIN sent' = 1..(Len(sent) + 1)
         /\ sent'[Len(sent) + 1].type = type /\ sent'[Len(sent) + 1].text = text
         /\ \A i \in DOMAIN sent : sent'[i] = sent[i]
<1> DEFINE frame == [type |-> type, text |-> text]
           Before == [type : FrameTypes, text : {sent[i].text : i \in DOMAIN sent}]
           All == [type : FrameTypes, text : {sent[i].text : i \in DOMAIN sent} \cup {text}]
           After == [type : FrameTypes, text : {sent'[i].text : i \in DOMAIN sent'}]
<1>1. sent \in Seq(Before) /\ Before \subseteq All /\ frame \in All
  BY DEF TypeOK
<1>2. sent \in Seq(All)
  <2> HIDE DEF Before, All
  <2>1. Len(sent) \in Nat /\ sent \in [1..Len(sent) -> Before]
    BY <1>1
  <2>2. sent \in [1..Len(sent) -> All]
    BY <1>1, <2>1
  <2> QED BY <2>1, <2>2
<1>3. sent' = Append(sent, frame)
  BY DEF Send
<1> HIDE DEF All
<1>4. /\ Len(sent) \in Nat /\ DOMAIN sent = 1..Len(sent)
      /\ Len(sent') = Len(sent) + 1 /\ DOMAIN sent' = 1..(Len(sent) + 1)
      /\ sent'[Len(sent) + 1] = frame /\ \A i \in DOMAIN sent : sent'[i] = sent[i]
      /\ sent' \in Seq(All)
  <2>1. Append(sent, frame) \in Seq(All)
    BY <1>1, <1>2, AppendProperties
  <2> QED BY <1>1, <1>2, <1>3, <2>1, AppendElement
<1>5. sent' \in Seq(After)
  <2>1. \A i \in DOMAIN sent' : sent'[i] \in All
    BY <1>4
  <2>2. \A i \in DOMAIN sent' : sent'[i] \in After
    BY <2>1 DEF All
  <2> HIDE DEF After
  <2>3. sent' \in [1..Len(sent') -> After] /\ Len(sent') \in Nat
    BY <1>4, <2>2
  <2> QED BY <2>3
<1> QED BY <1>4, <1>5

----------------------------------------------------------------------------
(* The parts of SInv, by what they speak of. *)

LEMMA InitSInv == Init => SInv
<1> SUFFICES ASSUME Init PROVE SInv
  OBVIOUS
<1> DEFINE Frames == [type : FrameTypes, text : {sent[i].text : i \in DOMAIN sent}]
<1>1. sent = <<>> /\ parts = <<>> /\ audio = <<>> /\ drained = 0 /\ pc = "starting"
  BY DEF Init
<1>2. sent \in Seq(Frames)
  <2> HIDE DEF Frames
  <2> QED BY <1>1
<1>3. TypeOK
  <2>1. pc \in Points /\ chunk \in Part /\ stopped \in BOOLEAN
    BY DEF Init, Points, Part
  <2>2. audio \in Seq(Sample) /\ parts \in Seq(Part) /\ drained \in 0..Len(audio)
    BY <1>1
  <2> QED BY <1>2, <2>1, <2>2, Zenon DEF TypeOK
<1>4. ChunksInv /\ BufferBounded /\ FramesInv /\ FrameOrder
  BY <1>1 DEF ChunksInv, BufferBounded, FramesInv, FrameOrder, InFlight, Tiles, End
<1> QED BY <1>3, <1>4 DEF SInv

(* A step that sends nothing, and keeps the frames in their order. *)
LEMMA SilentStep ==
  ASSUME SInv, UNCHANGED sent, pc \notin {"closing", "ended"}
  PROVE  FramesInv' /\ FrameOrder'
BY DEF SInv, FramesInv, FrameOrder, TypeOK

(* A chunk is taken out of the buffer. *)
LEMMA TakeStep ==
  ASSUME SInv, NEW to \in Nat, TakeChunk(to), pc \in {"receiving", "draining"},
         drained < to, to - drained <= Window(MaxChunk), to <= Len(audio), UNCHANGED <<audio, parts, sent>>, stopped' \in BOOLEAN
  PROVE  SInv'
<1>1. drained \in Nat /\ Len(audio) \in Nat
  BY DEF SInv, TypeOK
<1>2. TypeOK'
  BY <1>1 DEF SInv, TypeOK, TakeChunk, Points, Part
<1>3. ChunksInv'
  BY <1>1 DEF SInv, ChunksInv, TakeChunk, InFlight, Fits, Tiles, End
<1>4. BufferBounded'
  BY DEF TakeChunk, BufferBounded
<1> QED BY <1>2, <1>3, <1>4, SilentStep DEF SInv

LEMMA DrainStep == SInv /\ Drain => SInv'
<1> SUFFICES ASSUME SInv, Drain PROVE SInv'
  OBVIOUS
<1>1. audio \in Seq(Sample) /\ drained \in Nat /\ Len(audio) \in Nat /\ drained < Len(audio)
  BY WindowHoldsFrame, FrameAssumption DEF SInv, TypeOK, ChunksInv, Drain, Buffered
<1> DEFINE to == FirstCut(audio, drained, MaxChunk)
<1>2. to \in Nat /\ drained < to /\ to - drained <= Window(MaxChunk) /\ to <= Len(audio)
  BY <1>1, CutBounds, MaxChunkAssumption
<1>3. TakeChunk(to) /\ pc = "draining" /\ UNCHANGED <<audio, parts, sent, stopped>>
  BY DEF Drain
<1> HIDE DEF to
<1> QED BY <1>2, <1>3, TakeStep DEF SInv, TypeOK

LEMMA StopStep == SInv /\ Stop => SInv'
<1> SUFFICES ASSUME SInv, Stop PROVE SInv'
  OBVIOUS
<1>1. drained \in Nat /\ Len(audio) \in Nat /\ drained <= Len(audio) /\ pc = "receiving" /\ stopped' = TRUE
  BY DEF SInv, TypeOK, Stop
<1>2. CASE Buffered > 0 /\ TakeChunk(Len(audio))
  <2>1. drained < Len(audio) /\ Len(audio) - drained <= Window(MaxChunk)
    BY <1>1, <1>2, WindowHoldsFrame DEF SInv, BufferBounded, Buffered
  <2> QED BY <1>1, <1>2, <2>1, TakeStep DEF Stop
<1>3. CASE Buffered = 0 /\ pc' = "finalizing" /\ UNCHANGED <<drained, chunk>>
  BY <1>1, <1>3, SilentStep DEF Stop, SInv, TypeOK, Points, ChunksInv, InFlight, BufferBounded
<1> QED BY <1>2, <1>3 DEF Stop

LEMMA ReceiveStep ==
  ASSUME SInv, NEW payload \in Payloads, ReceiveAudio(payload)
  PROVE  SInv'
<1>1. payload \in Seq(Sample) /\ audio \in Seq(Sample) /\ drained \in 0..Len(audio)
  BY PayloadsAssumption DEF SInv, TypeOK
<1>2. audio' \in Seq(Sample) /\ Len(audio') = Len(audio) + Len(payload)
  BY <1>1, ConcatProperties DEF ReceiveAudio
<1>3. pc = "receiving" /\ pc' = (IF Len(audio') - drained >= Window(MaxChunk) THEN "draining" ELSE "receiving")
      /\ UNCHANGED <<drained, chunk, parts, sent, stopped>>
  BY DEF ReceiveAudio
<1>4. TypeOK'
  BY <1>1, <1>2, <1>3 DEF SInv, TypeOK, Points
<1>5. ChunksInv' /\ BufferBounded'
  BY <1>1, <1>2, <1>3, WindowHoldsFrame, FrameAssumption DEF SInv, ChunksInv, InFlight, BufferBounded, Buffered
<1> QED BY <1>3, <1>4, <1>5, SilentStep DEF SInv

(* The chunk in flight is kept, with what was heard in it. *)
LEMMA KeepChunk ==
  ASSUME SInv, InFlight, NEW c \in Part, c.from = chunk.from, c.to = chunk.to
  PROVE  Append(parts, c) \in Seq(Part) /\ Tiles(Append(parts, c)) /\ End(Append(parts, c)) = drained
<1>1. parts \in Seq(Part) /\ Tiles(parts) /\ Fits(c) /\ c.from = End(parts) /\ c.to = drained
  BY DEF SInv, TypeOK, ChunksInv, Fits
<1>2. Append(parts, c) \in Seq(Part)
  BY <1>1, AppendProperties
<1> QED BY <1>1, <1>2, TilesAppend

LEMMA AnswerStep ==
  ASSUME SInv, NEW heard \in BOOLEAN, EngineAnswers(heard)
  PROVE  SInv'
<1>1. chunk' \in Part /\ chunk'.from = chunk.from /\ chunk'.to = chunk.to /\ chunk \in Part
  BY DEF SInv, TypeOK, Part, EngineAnswers
<1>2. pc = "transcribing" /\ InFlight /\ UNCHANGED <<audio, drained, sent, stopped>>
  BY DEF EngineAnswers, InFlight
<1>3. CASE stopped /\ pc' = "finalizing" /\ parts' = Append(parts, chunk')
  <2>1. parts' \in Seq(Part) /\ Tiles(parts') /\ End(parts') = drained
    BY <1>1, <1>2, <1>3, KeepChunk
  <2>2. TypeOK'
    BY <1>1, <1>2, <1>3, <2>1 DEF SInv, TypeOK, Points
  <2>3. ChunksInv' /\ BufferBounded'
    BY <1>2, <1>3, <2>1 DEF ChunksInv, BufferBounded, InFlight
  <2> QED BY <1>2, <2>2, <2>3, SilentStep DEF SInv
<1>4. CASE ~stopped /\ pc' = "sending" /\ UNCHANGED parts
  <2>1. TypeOK'
    BY <1>1, <1>2, <1>4 DEF SInv, TypeOK, Points
  <2>2. ChunksInv' /\ BufferBounded'
    BY <1>1, <1>2, <1>4 DEF SInv, ChunksInv, BufferBounded, InFlight, Fits
  <2> QED BY <1>2, <2>1, <2>2, SilentStep DEF SInv
<1> QED BY <1>3, <1>4 DEF EngineAnswers

LEMMA PartialStep == SInv /\ SendPartial => SInv'
<1> SUFFICES ASSUME SInv, SendPartial PROVE SInv'
  OBVIOUS
<1>1. /\ pc = "sending" /\ InFlight /\ Send("partial", Text(chunk)) /\ chunk \in Part
      /\ UNCHANGED <<audio, drained, chunk, stopped>> /\ drained \in Nat /\ Len(audio) \in Nat
      /\ parts' = Append(parts, chunk) /\ pc' = IF Buffered >= Window(MaxChunk) THEN "draining" ELSE "receiving"
  BY DEF SendPartial, InFlight, SInv, TypeOK
<1>2. parts' \in Seq(Part) /\ Tiles(parts') /\ End(parts') = drained
  BY <1>1, KeepChunk
<1>3. /\ sent' \in Seq([type : FrameTypes, text : {sent'[i].text : i \in DOMAIN sent'}])
      /\ Len(sent) \in Nat /\ DOMAIN sent = 1..Len(sent) /\ DOMAIN sent' = 1..(Len(sent) + 1)
      /\ sent'[Len(sent) + 1].type = "partial" /\ \A i \in DOMAIN sent : sent'[i] = sent[i]
  BY <1>1, SentAppend DEF SInv, FrameTypes
<1>4. TypeOK'
  BY <1>1, <1>2, <1>3 DEF SInv, TypeOK, Points
<1>5. ChunksInv' /\ BufferBounded'
  BY <1>1, <1>2, WindowHoldsFrame DEF ChunksInv, BufferBounded, Buffered, InFlight
<1>6. \A i \in DOMAIN sent' : sent'[i].type = "partial"
  BY <1>1, <1>3 DEF SInv, FramesInv
<1>7. FramesInv' /\ FrameOrder'
  BY <1>1, <1>6 DEF FramesInv, FrameOrder
<1> QED BY <1>4, <1>5, <1>7 DEF SInv

(* A frame that ends the session: the final or an error, then the close. *)
LEMMA LastFrames ==
  ASSUME SInv, NEW type \in {"final", "error", "close"}, NEW text, Send(type, text),
         \/ pc \notin {"closing", "ended"} /\ type # "close" /\ pc' = "closing"
         \/ pc = "closing" /\ type = "close" /\ pc' = "ended"
  PROVE  /\ sent' \in Seq([type : FrameTypes, text : {sent'[i].text : i \in DOMAIN sent'}])
         /\ FramesInv' /\ FrameOrder'
<1>1. /\ sent' \in Seq([type : FrameTypes, text : {sent'[i].text : i \in DOMAIN sent'}])
      /\ Len(sent) \in Nat /\ DOMAIN sent = 1..Len(sent) /\ DOMAIN sent' = 1..(Len(sent) + 1)
      /\ Len(sent') = Len(sent) + 1
      /\ sent'[Len(sent) + 1].type = type /\ \A i \in DOMAIN sent : sent'[i] = sent[i]
  BY SentAppend DEF SInv, FrameTypes
<1>2. CASE pc \notin {"closing", "ended"} /\ type # "close" /\ pc' = "closing"
  <2>1. \A i \in 1..Len(sent) : sent'[i].type = "partial"
    BY <1>1, <1>2 DEF SInv, FramesInv
  <2>2. ASSUME NEW i \in 1..(Len(sent) + 1)
        PROVE  /\ sent'[i].type # "close" /\ (sent'[i].type # "partial" => i = Len(sent) + 1)
    <3>1. CASE i \in 1..Len(sent)
      BY <2>1, <3>1
    <3>2. CASE i = Len(sent) + 1
      BY <1>1, <1>2, <3>2
    <3> QED BY <1>1, <3>1, <3>2
  <2>3. FramesInv'
    BY <1>1, <1>2, <2>2 DEF FramesInv
  <2>4. ASSUME NEW i \in 1..(Len(sent) + 1), NEW j \in 1..(Len(sent) + 1), i < j
        PROVE  sent'[i].type # "close" /\ sent'[i].type \notin {"final", "error"}
    <3>1. i \in 1..Len(sent)
      BY <1>1, <2>4
    <3> QED BY <2>1, <3>1
  <2>5. FrameOrder'
    BY <1>1, <2>4 DEF FrameOrder
  <2> QED BY <1>1, <2>3, <2>5
<1>3. CASE pc = "closing" /\ type = "close" /\ pc' = "ended"
  <2>1. \A i \in 1..Len(sent) : sent'[i].type # "close" /\ (sent'[i].type # "partial" => i = Len(sent))
    BY <1>1, <1>3 DEF SInv, FramesInv
  <2>2. FramesInv'
    BY <1>3 DEF FramesInv
  <2>3. ASSUME NEW i \in 1..(Len(sent) + 1), NEW j \in 1..(Len(sent) + 1), i < j
        PROVE  sent'[i].type # "close" /\ (sent'[i].type \in {"final", "error"} => sent'[j].type = "close")
    <3>1. Len(sent) \in Nat
      BY <1>1
    <3>2. i \in 1..Len(sent) /\ (i = Len(sent) => j = Len(sent) + 1)
      BY <2>3, <3>1
    <3> QED BY <1>1, <1>3, <2>1, <3>2
  <2>4. FrameOrder'
    BY <1>1, <2>3 DEF FrameOrder
  <2> QED BY <1>1, <2>2, <2>4
<1> QED BY <1>2, <1>3

LEMMA EndStep == SInv /\ (SendFinal \/ SendError \/ SendClose) => SInv'
<1> SUFFICES ASSUME SInv, SendFinal \/ SendError \/ SendClose PROVE SInv'
  OBVIOUS
<1>1. /\ UNCHANGED <<audio, drained, chunk, parts, stopped>> /\ pc' \in {"closing", "ended"}
  BY DEF SendFinal, SendError, SendClose
<1>2. /\ sent' \in Seq([type : FrameTypes, text : {sent'[i].text : i \in DOMAIN sent'}])
      /\ FramesInv' /\ FrameOrder'
  <2>1. CASE SendFinal
    BY <2>1, LastFrames DEF SendFinal
  <2>2. CASE SendError /\ Send("error", <<>>)
    BY <2>2, LastFrames DEF SendError
  <2>3. CASE SendClose /\ Send("close", <<>>)
    BY <2>3, LastFrames DEF SendClose
  <2>4. CASE (SendError \/ SendClose) /\ UNCHANGED sent
    BY <2>4 DEF SendError, SendClose, SInv, TypeOK, FramesInv, FrameOrder
  <2> QED BY <2>1, <2>2, <2>3, <2>4 DEF SendError, SendClose
<1>3. TypeOK'
  BY <1>1, <1>2 DEF SInv, TypeOK, Points
<1>4. ChunksInv' /\ BufferBounded'
  BY <1>1 DEF SInv, ChunksInv, BufferBounded, InFlight
<1> QED BY <1>2, <1>3, <1>4 DEF SInv

(* The steps that only move on. *)
LEMMA MoveStep == SInv /\ (Start \/ ProtocolError \/ PeerGone \/ EngineFails \/ SendFails) => SInv'
<1> SUFFICES ASSUME SInv, Start \/ ProtocolError \/ PeerGone \/ EngineFails \/ SendFails PROVE SInv'
  OBVIOUS
<1>1. pc \notin {"closing", "ended"} /\ UNCHANGED <<audio, drained, chunk, parts, sent, stopped>>
      /\ ((pc = "starting" /\ pc' = "receiving") \/ pc' \in {"failing", "ended"})
  BY DEF Start, ProtocolError, PeerGone, EngineFails, SendFails
<1>2. TypeOK'
  BY <1>1 DEF SInv, TypeOK, Points
<1>3. ChunksInv' /\ BufferBounded'
  BY <1>1, WindowHoldsFrame, FrameAssumption DEF SInv, TypeOK, ChunksInv, BufferBounded, Buffered, InFlight
<1> QED BY <1>1, <1>2, <1>3, SilentStep DEF SInv

(* The inductive invariant of a stream. *)
THEOREM StreamInvariance == Spec => []SInv
<1>1. SInv /\ [Next]_vars => SInv'
  <2> SUFFICES ASSUME SInv, [Next]_vars PROVE SInv'
    OBVIOUS
  <2>1. CASE Next
    BY <2>1, DrainStep, StopStep, ReceiveStep, AnswerStep, PartialStep, EndStep, MoveStep DEF Next
  <2>2. CASE UNCHANGED vars
    BY <2>2 DEF vars, SInv, TypeOK, ChunksInv, BufferBounded, Buffered, InFlight, FramesInv, FrameOrder
  <2> QED BY <2>1, <2>2
<1> QED BY <1>1, InitSInv, PTL DEF Spec

(* Every sample of a stream is in one chunk or buffered, in order. *)
THEOREM StreamTiled == Spec => []Tiled
<1>1. SInv => Tiled
  <2> SUFFICES ASSUME SInv PROVE Tiled
    OBVIOUS
  <2>1. CASE InFlight
    <3>1. chunk \in Part
      BY DEF SInv, TypeOK
    <3>2. Tiles(Append(parts, chunk)) /\ End(Append(parts, chunk)) = drained
      BY <2>1, <3>1, KeepChunk
    <3> QED BY <2>1, <3>2 DEF Tiled
  <2>2. CASE ~InFlight
    BY <2>2 DEF Tiled, SInv, ChunksInv
  <2> QED BY <2>1, <2>2
<1> QED BY <1>1, StreamInvariance, PTL

(* The buffer of a stream is shorter than a window whenever it is read to. *)
THEOREM StreamBufferBounded == Spec => []BufferBounded
BY StreamInvariance, PTL DEF SInv

(* Partials, then at most one final or error, then at most one close. *)
THEOREM StreamFrameOrder == Spec => []FrameOrder
BY StreamInvariance, PTL DEF SInv

----------------------------------------------------------------------------
(* The texts.                                                              *)

Spans == Nat \X Nat

(* What is joined of one more part. *)
LEMMA JoinedAppend ==
  ASSUME NEW ps \in Seq(Part), NEW part \in Part
  PROVE  /\ Joined(ps) \in Seq(Spans) /\ Text(part) \in Seq(Spans)
         /\ Joined(Append(ps, part)) = Joined(ps) \o Text(part)
<1> DEFINE n == Len(ps)
           more == Append(ps, part)
           texts == [i \in DOMAIN ps |-> Text(ps[i])]
<1>1. \A p \in Part : Text(p) \in Seq(Spans)
  <2>1. ASSUME NEW p \in Part
        PROVE  Text(p) \in Seq(Spans)
    <3>1. <<p.from, p.to>> \in Spans
      BY DEF Part, Spans
    <3> QED BY <3>1 DEF Text
  <2> QED BY <2>1
<1>2. /\ n \in Nat /\ DOMAIN ps = 1..n /\ \A i \in 1..n : ps[i] \in Part
      /\ DOMAIN more = 1..(n + 1) /\ more[n + 1] = part /\ \A i \in 1..n : more[i] = ps[i]
  BY AppendElement
<1> HIDE DEF n, more
<1>3. texts = [i \in 1..n |-> Text(ps[i])]
  BY <1>2
<1> HIDE DEF texts
<1>4. texts \in Seq(Seq(Spans)) /\ Len(texts) = n
  BY <1>1, <1>2, <1>3
<1>5. [i \in DOMAIN more |-> Text(more[i])] = Append(texts, Text(part))
  <2> DEFINE later == [i \in DOMAIN more |-> Text(more[i])]
  <2>1. later = [i \in 1..(n + 1) |-> later[i]] /\ later[n + 1] = Text(part)
    BY <1>2
  <2>2. \A i \in 1..n : later[i] = texts[i]
    BY <1>2, <1>3
  <2> HIDE DEF later
  <2>3. later = Append(texts, Text(part))
    BY <1>1, <1>4, <2>1, <2>2, IsAppend, ZenonT(60)
  <2> QED BY <2>3 DEF later
<1>6. Joined(ps) = FlattenSeq(texts) /\ Joined(more) = FlattenSeq(Append(texts, Text(part)))
  BY <1>5 DEF Joined, texts
<1>7. FlattenSeq(texts) \in Seq(Spans) /\ FlattenSeq(Append(texts, Text(part))) = FlattenSeq(texts) \o Text(part)
  BY <1>1, <1>4, FlattenAppend
<1> QED BY <1>1, <1>6, <1>7 DEF more

(* What the partials say, after one more frame. *)
LEMMA PartialTextsAppend ==
  ASSUME SInv, TextsInv, NEW type \in FrameTypes, NEW text \in Seq(Spans), Send(type, text)
  PROVE  /\ PartialTexts \in Seq(Spans)
         /\ PartialTexts' = IF type = "partial" THEN PartialTexts \o text ELSE PartialTexts
         /\ \A i \in DOMAIN sent' : sent'[i].text \in Seq(Spans)
<1> DEFINE n == Len(sent)
           said == IF type = "partial" THEN text ELSE <<>>
           texts == [i \in DOMAIN sent |-> IF sent[i].type = "partial" THEN sent[i].text ELSE <<>>]
           later == [i \in DOMAIN sent' |-> IF sent'[i].type = "partial" THEN sent'[i].text ELSE <<>>]
<1>1. /\ n \in Nat /\ DOMAIN sent = 1..n /\ DOMAIN sent' = 1..(n + 1)
      /\ sent'[n + 1].type = type /\ sent'[n + 1].text = text
      /\ \A i \in 1..n : sent'[i] = sent[i]
  BY SentAppend DEF SInv
<1>2. said \in Seq(Spans) /\ \A i \in 1..n : sent[i].text \in Seq(Spans)
  BY <1>1, SMTT(30) DEF TextsInv, Spans
<1>3. \A i \in DOMAIN sent' : sent'[i].text \in Seq(Spans)
  BY <1>1, <1>2
<1> HIDE DEF n
<1>4. /\ texts = [i \in 1..n |-> IF sent[i].type = "partial" THEN sent[i].text ELSE <<>>]
      /\ \A i \in 1..n : texts[i] \in Seq(Spans) /\ texts[i] = IF sent[i].type = "partial" THEN sent[i].text ELSE <<>>
  BY <1>1, <1>2
<1>5. /\ later = [i \in 1..(n + 1) |-> later[i]] /\ later[n + 1] = said
      /\ \A i \in 1..n : later[i] = IF sent[i].type = "partial" THEN sent[i].text ELSE <<>>
  BY <1>1
<1> HIDE DEF texts, said, later
<1>6. texts \in Seq(Seq(Spans)) /\ Len(texts) = n
  BY <1>1, <1>4
<1>7. later = Append(texts, said)
  <2> DEFINE longer == Append(texts, said)
  <2>1. longer \in Seq(Seq(Spans)) /\ Len(longer) = n + 1
    BY <1>2, <1>6, AppendProperties
  <2>2. longer[n + 1] = said /\ \A i \in 1..n : longer[i] = texts[i]
    <3>1. said \in Seq(Spans) /\ texts \in Seq(Seq(Spans))
      BY <1>2, <1>6
    <3>2. longer[Len(texts) + 1] = said /\ \A i \in 1..Len(texts) : longer[i] = texts[i]
      BY <3>1, AppendElement
    <3> QED BY <1>6, <3>2
  <2> HIDE DEF longer
  <2>3. ASSUME NEW i \in 1..(n + 1)
        PROVE  later[i] = longer[i]
    <3>1. i = n + 1 \/ i \in 1..n
      BY <1>1
    <3> QED BY <1>4, <1>5, <2>2, <3>1
  <2>4. longer = [i \in 1..(n + 1) |-> longer[i]]
    BY <2>1
  <2> QED BY <1>5, <2>3, <2>4 DEF longer
<1>8. PartialTexts = FlattenSeq(texts) /\ PartialTexts' = FlattenSeq(later)
  BY DEF PartialTexts, texts, later
<1>9. FlattenSeq(texts) \in Seq(Spans) /\ FlattenSeq(Append(texts, said)) = FlattenSeq(texts) \o said
  BY <1>2, <1>6, FlattenAppend
<1>10. PartialTexts' = PartialTexts \o said /\ PartialTexts \in Seq(Spans)
  BY <1>7, <1>8, <1>9
<1>11. type # "partial" => PartialTexts' = PartialTexts
  <2>1. PartialTexts \o <<>> = PartialTexts
    BY <1>10, ConcatEmptySeq
  <2> QED BY <1>10, <2>1 DEF said
<1> QED BY <1>3, <1>10, <1>11 DEF said

TInv == TextsInv /\ FinalSaysAll

LEMMA InitTInv == Init => TInv
<1> SUFFICES ASSUME Init PROVE TInv
  OBVIOUS
<1>1. sent = <<>> /\ parts = <<>> /\ pc = "starting" /\ stopped = FALSE /\ DOMAIN sent = {} /\ DOMAIN parts = {}
  BY DEF Init
<1>2. [i \in DOMAIN parts |-> Text(parts[i])] = <<>>
      /\ [i \in DOMAIN sent |-> IF sent[i].type = "partial" THEN sent[i].text ELSE <<>>] = <<>>
  BY <1>1
<1>3. Joined(parts) = PartialTexts
  BY <1>2 DEF Joined, PartialTexts
<1> QED BY <1>1, <1>3 DEF TInv, TextsInv, FinalSaysAll

(* As long as the session is not closing, there is no final. *)
LEMMA NoFinalYet ==
  ASSUME SInv, pc \notin {"closing", "ended"}
  PROVE  \A i \in DOMAIN sent : sent[i].type # "final"
BY DEF SInv, FramesInv

(* The steps that send nothing and keep no part. *)
LEMMA QuietTexts ==
  ASSUME SInv, TInv, UNCHANGED <<sent, parts>>, pc \notin {"closing", "ended"},
         \/ pc' \in {"failing", "ended"}
         \/ /\ pc' \in {"receiving", "draining", "transcribing", "sending", "finalizing"}
            /\ pc \in {"starting", "receiving", "draining", "transcribing"}
            /\ pc' \in {"receiving", "draining", "sending"} => ~stopped'
            /\ pc' = "finalizing" \/ (pc' = "transcribing" /\ stopped') => drained' = Len(audio')
  PROVE  TInv'
<1>1. PartialTexts' = PartialTexts /\ Joined(parts)' = Joined(parts)
  <2>1. sent' = sent /\ parts' = parts
    OBVIOUS
  <2> QED BY <2>1 DEF PartialTexts, Joined
<1>2. FinalSaysAll'
  BY NoFinalYet DEF FinalSaysAll
<1>3. TextsInv'
  BY <1>1 DEF TInv, TextsInv
<1> QED BY <1>2, <1>3 DEF TInv

LEMMA QuietSteps ==
  ASSUME SInv, TInv,
         \/ Start \/ ProtocolError \/ PeerGone \/ EngineFails \/ SendFails \/ Drain \/ Stop
         \/ \E payload \in Payloads : ReceiveAudio(payload)
         \/ \E heard \in BOOLEAN : EngineAnswers(heard) /\ ~stopped
  PROVE  TInv'
<1>1. CASE Start \/ ProtocolError \/ PeerGone \/ EngineFails \/ SendFails
  BY <1>1, QuietTexts, SMTT(30) DEF Start, ProtocolError, PeerGone, EngineFails, SendFails, TInv, TextsInv
<1>2. CASE Drain
  BY <1>2, QuietTexts DEF Drain, TakeChunk, TInv, TextsInv
<1>3. CASE Stop
  <2>1. drained \in Nat /\ Len(audio) \in Nat
    BY DEF SInv, TypeOK
  <2> QED BY <1>3, <2>1, QuietTexts DEF Stop, TakeChunk, Buffered
<1>4. ASSUME NEW payload \in Payloads, ReceiveAudio(payload)
      PROVE  TInv'
  BY <1>4, QuietTexts DEF ReceiveAudio, TInv, TextsInv
<1>5. ASSUME NEW heard \in BOOLEAN, EngineAnswers(heard), ~stopped
      PROVE  TInv'
  BY <1>5, QuietTexts DEF EngineAnswers
<1> QED BY <1>1, <1>2, <1>3, <1>4, <1>5

(* The remainder is kept. *)
LEMMA RemainderTexts ==
  ASSUME SInv, TInv, NEW heard \in BOOLEAN, EngineAnswers(heard), stopped
  PROVE  TInv'
<1>1. /\ pc = "transcribing" /\ pc' = "finalizing" /\ parts' = Append(parts, chunk')
      /\ UNCHANGED <<audio, drained, sent, stopped>> /\ chunk' = [chunk EXCEPT !.heard = heard]
  BY DEF EngineAnswers
<1>2. /\ parts \in Seq(Part) /\ chunk' \in Part /\ chunk'.from \in Nat /\ chunk'.to = drained
      /\ drained = Len(audio) /\ Joined(parts) = PartialTexts
  BY <1>1 DEF SInv, TypeOK, ChunksInv, InFlight, TInv, TextsInv, Part
<1>3. PartialTexts' = PartialTexts
  BY <1>1 DEF PartialTexts
<1>4. Joined(parts)' = PartialTexts \o Text(chunk') /\ PartialTexts \in Seq(Spans)
  BY <1>1, <1>2, JoinedAppend
<1>5. \/ Joined(parts)' = PartialTexts'
      \/ \E from \in Nat : Joined(parts)' = PartialTexts' \o <<<<from, Len(audio')>>>>
  <2>1. CASE chunk'.heard
    BY <1>1, <1>2, <1>3, <1>4, <2>1 DEF Text
  <2>2. CASE ~chunk'.heard
    <3>1. PartialTexts \o <<>> = PartialTexts
      BY <1>4, ConcatEmptySeq
    <3> QED BY <1>3, <1>4, <2>2, <3>1 DEF Text
  <2> QED BY <2>1, <2>2
<1>6. FinalSaysAll'
  BY <1>1, NoFinalYet DEF FinalSaysAll
<1>7. TextsInv'
  BY <1>1, <1>2, <1>5 DEF TInv, TextsInv
<1> QED BY <1>6, <1>7 DEF TInv

LEMMA PartialKept ==
  ASSUME SInv, TInv, SendPartial
  PROVE  TInv'
<1>1. /\ pc = "sending" /\ pc' \in {"draining", "receiving"} /\ parts' = Append(parts, chunk)
      /\ Send("partial", Text(chunk)) /\ UNCHANGED <<audio, drained, chunk, stopped>>
      /\ parts \in Seq(Part) /\ chunk \in Part /\ ~stopped /\ Joined(parts) = PartialTexts
  BY DEF SendPartial, SInv, TypeOK, TInv, TextsInv
<1>2. Joined(parts)' = Joined(parts) \o Text(chunk) /\ Text(chunk) \in Seq(Spans)
  BY <1>1, JoinedAppend
<1>3. PartialTexts' = PartialTexts \o Text(chunk) /\ \A i \in DOMAIN sent' : sent'[i].text \in Seq(Spans)
  <2>1. "partial" \in FrameTypes
    BY DEF FrameTypes
  <2> QED BY <1>1, <1>2, <2>1, PartialTextsAppend DEF TInv
<1>4. FinalSaysAll'
  <2>1. /\ DOMAIN sent = 1..Len(sent) /\ DOMAIN sent' = 1..(Len(sent) + 1) /\ Len(sent) \in Nat
        /\ sent'[Len(sent) + 1].type = "partial" /\ \A i \in DOMAIN sent : sent'[i] = sent[i]
    BY <1>1, SentAppend DEF SInv, FrameTypes
  <2>2. \A i \in DOMAIN sent' : sent'[i].type # "final"
    BY <1>1, <2>1, NoFinalYet
  <2> QED BY <2>2 DEF FinalSaysAll
<1>5. TextsInv'
  BY <1>1, <1>2, <1>3 DEF TextsInv, Spans
<1> QED BY <1>4, <1>5 DEF TInv

(* The frames after the last partial leave what the partials said.  An     *)
(* error or a close follows no final but at its end.                       *)
LEMMA ErrorTexts ==
  ASSUME SInv, TInv, SendError \/ SendClose
  PROVE  TInv'
<1>1. UNCHANGED <<audio, drained, chunk, parts, stopped>> /\ pc' \in {"closing", "ended"}
  BY DEF SendError, SendClose
<1>2. CASE UNCHANGED sent
  <2>1. PartialTexts' = PartialTexts
    BY <1>2 DEF PartialTexts
  <2>2. FinalSaysAll'
    BY <1>1, <1>2, <2>1 DEF TInv, FinalSaysAll
  <2> QED BY <1>1, <1>2, <2>2 DEF TInv, TextsInv
<1>3. ASSUME NEW type \in {"error", "close"}, Send(type, <<>>)
      PROVE  TInv'
  <2>1. type \in FrameTypes /\ type # "partial" /\ type # "final" /\ <<>> \in Seq(Spans)
    BY DEF FrameTypes
  <2>2. PartialTexts' = PartialTexts /\ \A i \in DOMAIN sent' : sent'[i].text \in Seq(Spans)
    BY <1>3, <2>1, PartialTextsAppend DEF TInv
  <2>3. /\ DOMAIN sent = 1..Len(sent) /\ DOMAIN sent' = 1..(Len(sent) + 1) /\ Len(sent) \in Nat
        /\ sent'[Len(sent) + 1].type = type /\ \A i \in DOMAIN sent : sent'[i] = sent[i]
    BY <1>3, <2>1, SentAppend DEF SInv
  <2>4. \A i \in DOMAIN sent' : sent'[i].type = "final" => i \in DOMAIN sent /\ sent'[i] = sent[i]
    BY <2>1, <2>3
  <2>5. FinalSaysAll'
    BY <1>1, <2>2, <2>4 DEF TInv, FinalSaysAll
  <2> QED BY <1>1, <2>2, <2>5 DEF TInv, TextsInv, Spans
<1> QED BY <1>2, <1>3 DEF SendError, SendClose

LEMMA FinalTexts ==
  ASSUME SInv, TInv, SendFinal
  PROVE  TInv'
<1> DEFINE text == Joined(parts)
<1>1. /\ pc = "finalizing" /\ pc' = "closing" /\ Send("final", text)
      /\ UNCHANGED <<audio, drained, chunk, parts, stopped>> /\ parts \in Seq(Part)
  BY DEF SendFinal, SInv, TypeOK
<1>2. /\ Len(audio) \in Nat /\ drained = Len(audio)
      /\ text = PartialTexts \/ \E from \in Nat : text = PartialTexts \o <<<<from, Len(audio)>>>>
  <2>1. Len(audio) \in Nat
    BY DEF SInv, TypeOK
  <2>2. /\ drained = Len(audio)
        /\ \/ Joined(parts) = PartialTexts
           \/ \E from \in Nat : Joined(parts) = PartialTexts \o <<<<from, Len(audio)>>>>
    BY <1>1, Zenon DEF TInv, TextsInv
  <2> QED BY <2>1, <2>2
<1>3. text \in Seq(Spans)
  <2>1. chunk \in Part
    BY DEF SInv, TypeOK
  <2> QED BY <1>1, <2>1, JoinedAppend
<1> HIDE DEF text
<1>4. /\ PartialTexts \in Seq(Spans) /\ PartialTexts' = PartialTexts
      /\ \A i \in DOMAIN sent' : sent'[i].text \in Seq(Spans)
  <2>1. "final" \in FrameTypes
    BY DEF FrameTypes
  <2> QED BY <1>1, <1>3, <2>1, PartialTextsAppend DEF TInv
<1>5. /\ DOMAIN sent = 1..Len(sent) /\ DOMAIN sent' = 1..(Len(sent) + 1) /\ Len(sent) \in Nat
      /\ sent'[Len(sent) + 1].type = "final" /\ sent'[Len(sent) + 1].text = text
      /\ \A i \in DOMAIN sent : sent'[i] = sent[i]
  <2>1. "final" \in FrameTypes /\ TypeOK /\ Send("final", text)
    BY <1>1 DEF SInv, FrameTypes
  <2> QED BY <2>1, SentAppend
<1>6. /\ IsPrefix(PartialTexts, text)
      /\ \A k \in (Len(PartialTexts) + 1)..Len(text) : k = Len(text) /\ text[k][2] = Len(audio)
  <2>1. CASE text = PartialTexts
    BY <1>4, <2>1 DEF IsPrefix
  <2>2. CASE \E from \in Nat : text = PartialTexts \o <<<<from, Len(audio)>>>>
    <3>1. PICK from \in Nat : text = PartialTexts \o <<<<from, Len(audio)>>>>
      BY <2>2
    <3> DEFINE n == Len(PartialTexts)
    <3>2. <<<<from, Len(audio)>>>> \in Seq(Spans) /\ Len(<<<<from, Len(audio)>>>>) = 1
      BY <1>2 DEF Spans
    <3>3. /\ n \in Nat /\ Len(text) = n + 1 /\ text[n + 1] = <<from, Len(audio)>>
          /\ \A i \in 1..n : text[i] = PartialTexts[i]
      BY <1>4, <3>1, <3>2, ConcatProperties
    <3>4. SubSeq(PartialTexts, 1, n) = SubSeq(text, 1, n)
      BY <1>3, <1>4, <3>3
    <3> QED BY <3>3, <3>4 DEF IsPrefix
  <2> QED BY <1>2, <2>1, <2>2
<1>7. FinalSaysAll'
  <2>1. ASSUME NEW i \in DOMAIN sent', sent'[i].type = "final"
        PROVE  i = Len(sent) + 1
    BY <1>1, <1>5, <2>1, NoFinalYet
  <2> QED BY <1>1, <1>2, <1>4, <1>5, <1>6, <2>1 DEF FinalSaysAll
<1> QED BY <1>1, <1>4, <1>7 DEF TInv, TextsInv, Spans

LEMMA TextsStep == SInv /\ TInv /\ [Next]_vars => TInv'
<1> SUFFICES ASSUME SInv, TInv, [Next]_vars PROVE TInv'
  OBVIOUS
<1>1. CASE Next
  <2>1. ASSUME NEW heard \in BOOLEAN, EngineAnswers(heard)
        PROVE  TInv'
    BY <2>1, QuietSteps, RemainderTexts DEF SInv, TypeOK
  <2> QED BY <1>1, <2>1, QuietSteps, PartialKept, ErrorTexts, FinalTexts DEF Next
<1>2. CASE UNCHANGED vars
  <2>1. PartialTexts' = PartialTexts /\ Joined(parts)' = Joined(parts)
    BY <1>2 DEF vars, PartialTexts, Joined
  <2> QED BY <1>2, <2>1 DEF vars, TInv, TextsInv, FinalSaysAll
<1> QED BY <1>1, <1>2

(* The final says what every partial said, in order, then the remainder if *)
(* anything was heard in it, and nothing received is left out of it.       *)
THEOREM StreamFinalSaysAll == Spec => []FinalSaysAll
<1>1. Init => TInv
  BY InitTInv
<1>2. SInv /\ TInv /\ [Next]_vars => TInv'
  BY TextsStep
<1>3. TInv => FinalSaysAll
  BY DEF TInv
<1> QED BY <1>1, <1>2, <1>3, StreamInvariance, PTL DEF Spec
=============================================================================
