--------------------------- MODULE StreamSession ---------------------------
(***************************************************************************)
(* One WebSocket session of /v1/audio/stream: run_session, wait_for_start  *)
(* and handle, against a client that may send anything in any order and    *)
(* may go away at any point.  The samples are kept from the first one, and *)
(* the code's buffer is the part of them not drained yet.  A chunk's text  *)
(* is the chunk itself, or nothing when the engine heard nothing in it.    *)
(***************************************************************************)
EXTENDS ChunkCut, SequencesExt

CONSTANTS
  Payloads,    \* the contents of the binary frames a client may send
  MaxChunk,    \* the chunk length of the session's model, in samples
  MaxSamples   \* bound: a client sends no more samples than this

ASSUME PayloadsAssumption == Payloads \subseteq Seq(Sample)
ASSUME MaxChunkAssumption == MaxChunk \in Nat

VARIABLES
  pc,        \* where the task that runs the session is
  audio,     \* every sample received since start
  drained,   \* how many of them have been taken out of the buffer
  chunk,     \* the chunk drained last, as [from, to, heard]
  parts,     \* the chunks whose text counts towards the final one
  sent,      \* the frames the client was sent
  stopped    \* the stop command has been read

vars == <<pc, audio, drained, chunk, parts, sent, stopped>>

Points == {"starting", "receiving", "draining", "transcribing", "sending",
           "finalizing", "failing", "closing", "ended"}

Part == [from : Nat, to : Nat, heard : BOOLEAN]
FrameTypes == {"partial", "final", "error", "close"}

TypeOK ==
  /\ pc \in Points
  /\ audio \in Seq(Sample)
  /\ drained \in 0..Len(audio)
  /\ chunk \in Part
  /\ parts \in Seq(Part)
  /\ sent \in Seq([type : FrameTypes, text : {sent[i].text : i \in DOMAIN sent}])
  /\ stopped \in BOOLEAN

Init ==
  /\ pc = "starting"
  /\ audio = <<>>
  /\ drained = 0
  /\ chunk = [from |-> 0, to |-> 0, heard |-> FALSE]
  /\ parts = <<>>
  /\ sent = <<>>
  /\ stopped = FALSE

Buffered == Len(audio) - drained

(* What a partial says of a part, and what join_parts makes of several:    *)
(* the parts nothing was heard in leave no trace.                          *)
Text(part) == IF part.heard THEN <<<<part.from, part.to>>>> ELSE <<>>
Joined(ps) == FlattenSeq([i \in DOMAIN ps |-> Text(ps[i])])

Send(type, text) == sent' = Append(sent, [type |-> type, text |-> text])

----------------------------------------------------------------------------
(* wait_for_start.                                                         *)

Start ==
  /\ pc = "starting"
  /\ pc' = "receiving"
  /\ UNCHANGED <<audio, drained, chunk, parts, sent, stopped>>

(* A binary frame, a stop or an invalid command before start; an odd-sized *)
(* frame, a second start or an invalid command after it.                   *)
ProtocolError ==
  /\ pc \in {"starting", "receiving"}
  /\ pc' = "failing"
  /\ UNCHANGED <<audio, drained, chunk, parts, sent, stopped>>

(* The socket closes or fails under recv. *)
PeerGone ==
  /\ pc \in {"starting", "receiving"}
  /\ pc' = "ended"
  /\ UNCHANGED <<audio, drained, chunk, parts, sent, stopped>>

----------------------------------------------------------------------------
(* The receive loop.                                                       *)

ReceiveAudio(payload) ==
  /\ pc = "receiving"
  /\ Len(audio) + Len(payload) <= MaxSamples
  /\ audio' = audio \o payload
  /\ pc' = IF Len(audio') - drained >= Window(MaxChunk) THEN "draining" ELSE "receiving"
  /\ UNCHANGED <<drained, chunk, parts, sent, stopped>>

(* The buffer up to "to" becomes the chunk the engine is handed. *)
TakeChunk(to) ==
  /\ drained' = to
  /\ chunk' = [from |-> drained, to |-> to, heard |-> FALSE]
  /\ pc' = "transcribing"

(* A full window is buffered: its first chunk is drained.  Nothing reads   *)
(* the socket until the chunk's text is sent.                              *)
Drain ==
  /\ pc = "draining"
  /\ TakeChunk(FirstCut(audio, drained, MaxChunk))
  /\ UNCHANGED <<audio, parts, sent, stopped>>

(* Mutant of Stop: what is still buffered is not transcribed. *)
StopDropsRemainder ==
  /\ pc = "receiving"
  /\ stopped' = TRUE
  /\ drained' = Len(audio)
  /\ pc' = "finalizing"
  /\ UNCHANGED <<audio, chunk, parts, sent>>

(* Mutant of Stop: with nothing buffered it is not answered. *)
StopUnanswered ==
  /\ pc = "receiving"
  /\ stopped' = TRUE
  /\ \/ Buffered > 0 /\ TakeChunk(Len(audio))
     \/ Buffered = 0 /\ UNCHANGED <<pc, drained, chunk>>
  /\ UNCHANGED <<audio, parts, sent>>

(* stop leaves the loop; what is still buffered is the last chunk. *)
Stop ==
  /\ pc = "receiving"
  /\ stopped' = TRUE
  /\ \/ Buffered > 0 /\ TakeChunk(Len(audio))
     \/ Buffered = 0 /\ pc' = "finalizing" /\ UNCHANGED <<drained, chunk>>
  /\ UNCHANGED <<audio, parts, sent>>

(* transcribe_range answers for the chunk in flight.  A partial is sent    *)
(* before its text is kept; the remainder's text is only kept.             *)
EngineAnswers(heard) ==
  /\ pc = "transcribing"
  /\ chunk' = [chunk EXCEPT !.heard = heard]
  /\ \/ stopped /\ pc' = "finalizing" /\ parts' = Append(parts, chunk')
     \/ ~stopped /\ pc' = "sending" /\ UNCHANGED parts
  /\ UNCHANGED <<audio, drained, sent, stopped>>

(* ... with an error: busy, a refused option, a failed run. *)
EngineFails ==
  /\ pc = "transcribing"
  /\ pc' = "failing"
  /\ UNCHANGED <<audio, drained, chunk, parts, sent, stopped>>

(* Mutant of SendPartial: the window is checked once per message. *)
SendPartialOnce ==
  /\ pc = "sending"
  /\ Send("partial", Text(chunk))
  /\ parts' = Append(parts, chunk)
  /\ pc' = "receiving"
  /\ UNCHANGED <<audio, drained, chunk, stopped>>

(* Mutant of SendPartial: its text is not kept for the final one. *)
SendPartialForgets ==
  /\ pc = "sending"
  /\ Send("partial", Text(chunk))
  /\ pc' = IF Buffered >= Window(MaxChunk) THEN "draining" ELSE "receiving"
  /\ UNCHANGED <<audio, drained, chunk, parts, stopped>>

(* Mutant of SendPartial: a chunk nothing was heard in is put back. *)
SendPartialRetries ==
  /\ pc = "sending"
  /\ IF chunk.heard
     THEN /\ Send("partial", Text(chunk))
          /\ parts' = Append(parts, chunk)
          /\ pc' = IF Buffered >= Window(MaxChunk) THEN "draining" ELSE "receiving"
          /\ UNCHANGED drained
     ELSE drained' = chunk.from /\ pc' = "draining" /\ UNCHANGED <<sent, parts>>
  /\ UNCHANGED <<audio, chunk, stopped>>

(* The partial goes out, and the loop drains while a window is buffered. *)
SendPartial ==
  /\ pc = "sending"
  /\ Send("partial", Text(chunk))
  /\ parts' = Append(parts, chunk)
  /\ pc' = IF Buffered >= Window(MaxChunk) THEN "draining" ELSE "receiving"
  /\ UNCHANGED <<audio, drained, chunk, stopped>>

SendFinal ==
  /\ pc = "finalizing"
  /\ Send("final", Joined(parts))
  /\ pc' = "closing"
  /\ UNCHANGED <<audio, drained, chunk, parts, stopped>>

(* A partial or the final cannot be sent: the client is gone. *)
SendFails ==
  /\ pc \in {"sending", "finalizing"}
  /\ pc' = "ended"
  /\ UNCHANGED <<audio, drained, chunk, parts, sent, stopped>>

----------------------------------------------------------------------------
(* handle: what the client is told at the end; failures are ignored.       *)

(* Mutant of SendError: the session goes on after the error. *)
SendErrorOnly ==
  /\ pc = "failing"
  /\ Send("error", <<>>)
  /\ pc' = "receiving"
  /\ UNCHANGED <<audio, drained, chunk, parts, stopped>>

SendError ==
  /\ pc = "failing"
  /\ Send("error", <<>>) \/ UNCHANGED sent
  /\ pc' = "closing"
  /\ UNCHANGED <<audio, drained, chunk, parts, stopped>>

SendClose ==
  /\ pc = "closing"
  /\ Send("close", <<>>) \/ UNCHANGED sent
  /\ pc' = "ended"
  /\ UNCHANGED <<audio, drained, chunk, parts, stopped>>

Next ==
  \/ Start \/ ProtocolError \/ PeerGone
  \/ \E payload \in Payloads : ReceiveAudio(payload)
  \/ Drain \/ Stop \/ (\E heard \in BOOLEAN : EngineAnswers(heard)) \/ EngineFails
  \/ SendPartial \/ SendFinal \/ SendFails \/ SendError \/ SendClose

Spec == Init /\ [][Next]_vars

(* The session's own task is polled, and the engine answers (EngineSlots). *)
(* Nothing is assumed of the client, and so nothing of the sends either:   *)
(* socket.send has no timeout and waits for as long as a connected client  *)
(* does not read.                                                          *)
Fairness == WF_vars(Drain \/ (\E heard \in BOOLEAN : EngineAnswers(heard)) \/ EngineFails)

FairSpec == Spec /\ Fairness

----------------------------------------------------------------------------
InFlight == pc \in {"transcribing", "sending"}

End(chunks) == IF chunks = <<>> THEN 0 ELSE chunks[Len(chunks)].to

Fits(c) == c.from < c.to /\ c.to - c.from <= Window(MaxChunk)

Tiles(chunks) == \A i \in DOMAIN chunks :
  Fits(chunks[i]) /\ chunks[i].from = IF i = 1 THEN 0 ELSE chunks[i - 1].to

(* Every sample received is in exactly one chunk or still buffered, in     *)
(* order, and no chunk is empty or past the window (buffer.drain, and the  *)
(* remainder).                                                             *)
Tiled ==
  LET chunks == IF InFlight THEN Append(parts, chunk) ELSE parts
  IN  /\ Tiles(chunks)
      /\ pc \in {"starting", "receiving", "draining", "finalizing"} \/ InFlight => End(chunks) = drained

(* Less than a window is buffered whenever the socket is read, however     *)
(* much one message carried: the buffer does not grow with the session.    *)
BufferBounded == pc = "receiving" => Buffered < Window(MaxChunk)

PartialTexts == FlattenSeq([i \in DOMAIN sent |-> IF sent[i].type = "partial" THEN sent[i].text ELSE <<>>])

(* The final text is every partial's text and the remainder's, in order,   *)
(* and accounts for all the audio received (the module comment and the     *)
(* README: "every partial text plus the remainder").                       *)
FinalSaysAll == \A i \in DOMAIN sent : sent[i].type = "final" =>
  /\ IsPrefix(PartialTexts, sent[i].text)
  /\ \A k \in (Len(PartialTexts) + 1)..Len(sent[i].text) :
       k = Len(sent[i].text) /\ sent[i].text[k][2] = Len(audio)
  /\ drained = Len(audio)

(* Partials, then at most one final or error, then at most one close: in   *)
(* particular no partial follows a final, and stop is never answered with  *)
(* an error after a final.                                                 *)
FrameOrder == \A i, j \in DOMAIN sent : i < j =>
  /\ sent[i].type # "close"
  /\ sent[i].type \in {"final", "error"} => sent[j].type = "close"

(* The inductive invariant: where the chunks lie that are kept and the one *)
(* in flight, and which frames can have been sent by when.                 *)
ChunksInv ==
  /\ Tiles(parts)
  /\ InFlight => Fits(chunk) /\ chunk.from = End(parts) /\ chunk.to = drained
  /\ pc \in {"starting", "receiving", "draining", "finalizing"} => End(parts) = drained
  /\ pc = "starting" => audio = <<>>
  /\ pc = "draining" => Buffered >= Window(MaxChunk)

FramesInv ==
  /\ pc \notin {"closing", "ended"} => \A i \in DOMAIN sent : sent[i].type = "partial"
  /\ pc = "closing" => \A i \in DOMAIN sent :
       sent[i].type # "close" /\ (sent[i].type # "partial" => i = Len(sent))

SInv == TypeOK /\ ChunksInv /\ BufferBounded /\ FramesInv /\ FrameOrder

(* What the partials say is what is kept of the parts, until stop: the     *)
(* remainder is the last part then, and takes all the audio that is left.  *)
TextsInv ==
  /\ \A i \in DOMAIN sent : sent[i].text \in Seq(Nat \X Nat)
  /\ pc \in {"starting", "receiving", "draining", "sending"} => ~stopped
  /\ pc \in {"starting", "receiving", "draining", "sending", "transcribing"} => Joined(parts) = PartialTexts
  /\ pc = "transcribing" /\ stopped => drained = Len(audio)
  /\ pc = "finalizing" =>
       /\ drained = Len(audio)
       /\ \/ Joined(parts) = PartialTexts
          \/ \E from \in Nat : Joined(parts) = PartialTexts \o <<<<from, Len(audio)>>>>

(* The client reads what it is sent, or its connection fails. *)
SendsEnd == WF_vars(SendPartial \/ SendFinal \/ SendFails \/ SendError \/ SendClose)

(* Once stop has been read the session ends, whatever the engine answers,  *)
(* unless it waits for ever for its client to read (run_session, handle).  *)
StopEnds == SendsEnd => (stopped ~> pc = "ended")

(* A message is dealt with, however many windows it filled: the session    *)
(* reads the next one or ends, unless its client stops reading (the while  *)
(* loop of run_session).                                                   *)
DrainEnds == SendsEnd => (pc = "draining" ~> pc \in {"receiving", "ended"})

(* The README of the stream: a partial is "cut at a VAD-detected silence   *)
(* when there is one" in the look-back of its window.                      *)
PartialsCutAtSilence == pc = "sending" =>
  \/ SilentFrames(audio, chunk.from, MaxChunk) = {}
  \/ \E p \in SilentFrames(audio, chunk.from, MaxChunk) : p <= chunk.to /\ chunk.to <= p + Frame
=============================================================================
