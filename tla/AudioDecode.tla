---------------------------- MODULE AudioDecode ----------------------------
(***************************************************************************)
(* audio::decode_to_pcm_16k, as several blocking threads run it at once:   *)
(* the native path for WAV that is in the target format already, and the   *)
(* one through libav, whose initialisation the threads share (FFMPEG_INIT, *)
(* a Once, which a panic poisons).                                         *)
(*                                                                         *)
(* A file is what the two readers make of it.  A sample is told from every *)
(* other, so that one lost, repeated or out of order shows; resampling     *)
(* keeps a sample and delays it.  hound, libavformat, libavcodec and       *)
(* swresample are external.                                                *)
(***************************************************************************)
EXTENDS Integers, SequencesExt

CONSTANTS
  Decoders,    \* the blocking threads that decode
  Files,       \* the uploads: [wav, intact, samples, opens, audio, channels, delay, packets]
  CodecDelay,  \* frames the codec keeps back until it is told of the end
  Hold,        \* samples the resampler keeps back until it is flushed
  FlushLen,    \* samples one flush gives out at most
  None         \* no resampler yet

ASSUME DelayAssumption == CodecDelay \in Nat /\ Hold \in Nat /\ FlushLen \in Nat \ {0}

(* What the codec makes: its samples, and what a resampler is built for. *)
AudioFrame == [ids : Seq(Nat), format : STRING, layout : Nat, channels : Nat, rate : Nat]
InputType == [format : STRING, layout : Nat, rate : Nat]

ASSUME FilesAssumption == \A f \in Files :
  /\ f.samples \in Seq(Nat) /\ f.channels \in Nat /\ f.delay \in {"exact", "residue", "rounded"}
  /\ f.packets \in Seq([best : BOOLEAN, decodable : BOOLEAN, frames : Seq(AudioFrame)])
ASSUME NoneAssumption == None \notin InputType

VARIABLES
  once,    \* FFMPEG_INIT
  pc,      \* where each thread is
  file,    \* what it decodes
  next,    \* the packet it reads next
  codec,   \* the frames the codec holds
  input,   \* what the resampler was built for: sample format, layout and rate
  held,    \* the samples the resampler holds
  pcm      \* the samples decoded

work == <<file, next, codec, input, held, pcm>>
vars == <<once, pc, work>>

Points == {"begin", "libav", "initializing", "open", "packets", "flushing", "decoded", "error", "failed", "panic"}
UsesLibav == {"open", "packets", "flushing"}

Init ==
  /\ once = "new"
  /\ pc = [d \in Decoders |-> "begin"]
  /\ file \in [Decoders -> Files]
  /\ next = [d \in Decoders |-> 1]
  /\ codec = [d \in Decoders |-> <<>>]
  /\ input = [d \in Decoders |-> None]
  /\ held = [d \in Decoders |-> <<>>]
  /\ pcm = [d \in Decoders |-> <<>>]

Goto(d, point) == pc' = [pc EXCEPT ![d] = point]

----------------------------------------------------------------------------
(* hound.                                                                  *)

(* RIFF that hound reads as 16 kHz mono i16 or f32, to its last sample. *)
Native(f) == f.wav = "target" /\ f.intact

WavFastpath(d) ==
  /\ pc[d] = "begin" /\ Native(file[d])
  /\ pcm' = [pcm EXCEPT ![d] = file[d].samples]
  /\ Goto(d, "decoded")
  /\ UNCHANGED <<once, file, next, codec, input, held>>

NotNative(d) ==
  /\ pc[d] = "begin" /\ ~Native(file[d])
  /\ Goto(d, "libav")
  /\ UNCHANGED <<once, work>>

----------------------------------------------------------------------------
(* FFMPEG_INIT.call_once.                                                  *)

(* The first to come runs the closure; whoever comes meanwhile waits. *)
EnterInit(d) ==
  /\ pc[d] = "libav" /\ once = "new"
  /\ once' = "running"
  /\ Goto(d, "initializing")
  /\ UNCHANGED work

InitSucceeds(d) ==
  /\ pc[d] = "initializing"
  /\ once' = "done"
  /\ Goto(d, "open")
  /\ UNCHANGED work

InitPanics(d) ==
  /\ pc[d] = "initializing"
  /\ once' = "poisoned"
  /\ Goto(d, "panic")
  /\ UNCHANGED work

(* Mutant of PassInit: a flag instead of a Once, set when the closure begins. *)
PassFlag(d) ==
  /\ pc[d] = "libav" /\ once # "new"
  /\ Goto(d, "open")
  /\ UNCHANGED <<once, work>>

(* Done before: through.  Poisoned: call_once panics. *)
PassInit(d) ==
  /\ pc[d] = "libav" /\ once \in {"done", "poisoned"}
  /\ Goto(d, IF once = "done" THEN "open" ELSE "panic")
  /\ UNCHANGED <<once, work>>

----------------------------------------------------------------------------
(* Demux, decode, resample.                                                *)

(* The temporary file cannot be had, or libav reports an error of its own  *)
(* (memory, a codec that does not start).  The code answers as it does to  *)
(* bad audio, and drops what was decoded; "failed" keeps the two apart.    *)
LibavFails(d) ==
  /\ Goto(d, "failed")
  /\ UNCHANGED <<once, work>>

OpenFails(d) == pc[d] = "open" /\ LibavFails(d)

(* A container libav knows, an audio stream in it, a codec for that. *)
Opens(f) == f.opens /\ f.audio

Open(d) ==
  /\ pc[d] = "open"
  /\ Goto(d, IF Opens(file[d]) THEN "packets" ELSE "error")
  /\ UNCHANGED <<once, work>>

(* A frame without a layout gets the default one of its channels, or of    *)
(* the decoder's when the frame does not know them either.                 *)
LayoutOf(frame, f) ==
  IF frame.layout # 0 THEN frame.layout ELSE IF frame.channels # 0 THEN frame.channels ELSE f.channels

InputOf(frame, f) == [format |-> frame.format, layout |-> LayoutOf(frame, f), rate |-> frame.rate]

(* The resampler is built for the first frame and takes no other kind. *)
Takes(built, frame, f) == IF built = None THEN LayoutOf(frame, f) # 0 ELSE InputOf(frame, f) = built

(* One frame through the resampler: as much comes out as it does not hold. *)
Resample(state, frame, f) ==
  LET all == state.held \o frame.ids
      out == IF Len(all) > Hold THEN Len(all) - Hold ELSE 0
  IN  IF state.failed \/ ~Takes(state.input, frame, f) THEN [state EXCEPT !.failed = TRUE]
      ELSE [failed |-> FALSE, input |-> InputOf(frame, f),
            pcm |-> state.pcm \o SubSeq(all, 1, out), held |-> SubSeq(all, out + 1, Len(all))]

(* drain: the frames the codec gives out, all but the last "keep".  The    *)
(* first frame the resampler does not take ends the decode, and so does    *)
(* any other error of building or running it.                              *)
Drain(d, frames, keep, then) ==
  LET out == IF Len(frames) > keep THEN Len(frames) - keep ELSE 0
      begin == [failed |-> FALSE, input |-> input[d], held |-> held[d], pcm |-> pcm[d]]
      after[n \in 0..out] == IF n = 0 THEN begin ELSE Resample(after[n - 1], frames[n], file[d])
      end == after[out]
  IN  \/ /\ codec' = [codec EXCEPT ![d] = SubSeq(frames, out + 1, Len(frames))]
         /\ input' = [input EXCEPT ![d] = end.input]
         /\ held' = [held EXCEPT ![d] = end.held]
         /\ pcm' = [pcm EXCEPT ![d] = end.pcm]
         /\ Goto(d, IF end.failed THEN "error" ELSE then)
      \/ out > 0 /\ Goto(d, "failed") /\ UNCHANGED <<codec, input, held, pcm>>

Packets(d) == file[d].packets
Mine(packet) == packet.best /\ packet.decodable

(* A packet of another stream, or one the codec does not take. *)
SkipPacket(d) ==
  /\ pc[d] = "packets" /\ next[d] <= Len(Packets(d)) /\ ~Mine(Packets(d)[next[d]])
  /\ next' = [next EXCEPT ![d] = @ + 1]
  /\ UNCHANGED <<once, pc, file, codec, input, held, pcm>>

DecodePacket(d) ==
  /\ pc[d] = "packets" /\ next[d] <= Len(Packets(d)) /\ Mine(Packets(d)[next[d]])
  /\ next' = [next EXCEPT ![d] = @ + 1]
  /\ Drain(d, codec[d] \o Packets(d)[next[d]].frames, CodecDelay, "packets")
  /\ UNCHANGED <<once, file>>

(* The codec is told of the end and gives out what it kept. *)
EndPackets(d) ==
  /\ pc[d] = "packets" /\ next[d] > Len(Packets(d))
  /\ Drain(d, codec[d], 0, "flushing")
  /\ UNCHANGED <<once, file, next>>

Finish(d, samples) == Goto(d, IF samples = <<>> THEN "error" ELSE "decoded")

(* What one flush gives out, and what the resampler still holds after it. *)
FlushOut(d) == IF Len(held[d]) > FlushLen THEN FlushLen ELSE Len(held[d])
Rest(d) == SubSeq(held[d], FlushOut(d) + 1, Len(held[d]))

(* Whether the resampler then reports a delay: that of the samples it      *)
(* holds; always, by a residue it has no samples for; or never, by a       *)
(* binding that rounds the delay away though samples are held.             *)
Reports(d) == \/ file[d].delay = "residue"
              \/ file[d].delay = "exact" /\ Rest(d) # <<>>

FlushTurn(d, last) ==
  /\ pcm' = [pcm EXCEPT ![d] = @ \o SubSeq(held[d], 1, FlushOut(d))]
  /\ held' = [held EXCEPT ![d] = Rest(d)]
  /\ IF last THEN Finish(d, pcm'[d]) ELSE UNCHANGED pc
  /\ UNCHANGED <<once, file, next, codec, input>>

Flushing(d) == pc[d] = "flushing" /\ input[d] # None

(* Mutant of FlushFails: the error is taken for the end. *)
FlushFailureEnds(d) == Flushing(d) /\ Finish(d, pcm[d]) /\ UNCHANGED <<once, work>>

FlushFails(d) == Flushing(d) /\ LibavFails(d)

(* Mutants of Flush: the resampler is flushed once; until it reports no delay. *)
FlushOnce(d) == Flushing(d) /\ FlushTurn(d, TRUE)
FlushToNoDelay(d) == Flushing(d) /\ FlushTurn(d, ~Reports(d))

(* One turn of the flush loop; it ends when nothing came out or no delay   *)
(* is reported, and a recording without a sample is an error.              *)
Flush(d) == Flushing(d) /\ FlushTurn(d, FlushOut(d) = 0 \/ ~Reports(d))

(* No frame was ever decoded, so there is no resampler. *)
NothingDecoded(d) ==
  /\ pc[d] = "flushing" /\ input[d] = None
  /\ Finish(d, pcm[d])
  /\ UNCHANGED <<once, work>>

Runs(d) ==
  \/ WavFastpath(d) \/ NotNative(d) \/ EnterInit(d) \/ InitSucceeds(d) \/ InitPanics(d) \/ PassInit(d)
  \/ Open(d) \/ SkipPacket(d) \/ DecodePacket(d) \/ EndPackets(d) \/ Flush(d) \/ NothingDecoded(d)

Fails(d) == OpenFails(d) \/ FlushFails(d)

Next == \E d \in Decoders : Runs(d) \/ Fails(d)

Spec == Init /\ [][Next]_vars

(* A blocking thread runs on and the libraries return from what they are   *)
(* asked; nothing has to fail.                                             *)
FairSpec == Spec /\ \A d \in Decoders : WF_vars(Runs(d))

----------------------------------------------------------------------------
(* What a file decodes to, said in one go: its native samples, or every    *)
(* sample of every frame of its best audio stream that decodes, if the     *)
(* frames are all of one kind.                                             *)
FramesOf(f, n) == FlattenSeq([i \in 1..n |-> IF Mine(f.packets[i]) THEN f.packets[i].frames ELSE <<>>])
Frames(f) == FramesOf(f, Len(f.packets))
SamplesOf(frames) == FlattenSeq([i \in DOMAIN frames |-> frames[i].ids])
Samples(f) == SamplesOf(Frames(f))
OneKind(f) == \A i \in DOMAIN Frames(f) :
  LayoutOf(Frames(f)[i], f) # 0 /\ InputOf(Frames(f)[i], f) = InputOf(Frames(f)[1], f)

Whole(f) == Opens(f) /\ OneKind(f) /\ Samples(f) # <<>>

(* A whole recording, but for a tail that one flush does not give out and  *)
(* the resampler does not own up to.                                       *)
Complete(samples, f) == \E n \in 0..Len(Samples(f)) :
  /\ samples = SubSeq(Samples(f), 1, n)
  /\ n = Len(Samples(f)) \/ (f.delay = "rounded" /\ FlushLen + (Len(Samples(f)) - n) <= Hold)

EndsRight(d) ==
  /\ pc[d] = "decoded" => IF Native(file[d]) THEN pcm[d] = file[d].samples
                          ELSE Whole(file[d]) /\ Complete(pcm[d], file[d])
  /\ pc[d] = "error" => ~Native(file[d]) /\ ~Whole(file[d])
  /\ pc[d] = "failed" => ~Native(file[d])
  /\ pc[d] = "panic" => ~Native(file[d]) /\ once = "poisoned"

(* A decode that succeeds gives back the whole recording, each sample once *)
(* and in order, whatever the codec and the resampler keep back (NEWS: the *)
(* flush drains the tail); only a binding that reports no delay while more *)
(* is held than a flush gives out costs the rest.  It is refused as having *)
(* no recording only if it has none: an error of libav's own, at any frame *)
(* or flush, is an error and never a shorter recording.  It panics only if *)
(* libav could not be initialised, and a native WAV needs no libav at all. *)
DecodesAll == \A d \in Decoders : EndsRight(d)

(* The inductive invariant: of the frames read so far the codec holds the  *)
(* last, and of the samples of the others the resampler, which took them   *)
(* all, holds the last.                                                    *)
Taken(frames, built, f) ==
  /\ frames = <<>> => built = None
  /\ \A i \in DOMAIN frames : LayoutOf(frames[i], f) # 0 /\ InputOf(frames[i], f) = built

Progress(f, read, queue, built, tail, out) == \E n \in 0..Len(read) :
  /\ queue = SubSeq(read, n + 1, Len(read))
  /\ SamplesOf(SubSeq(read, 1, n)) = out \o tail
  /\ Taken(SubSeq(read, 1, n), built, f)

Held == {samples \in Seq(Nat) : Len(samples) <= Hold}

Placed == pc \in [Decoders -> Points]

Typed ==
  /\ file \in [Decoders -> Files] /\ next \in [Decoders -> Nat] /\ codec \in [Decoders -> Seq(AudioFrame)]
  /\ input \in [Decoders -> InputType \cup {None}]
  /\ held \in [Decoders -> Held] /\ pcm \in [Decoders -> Seq(Nat)]

SoFar(d) ==
  /\ next[d] \in 1..(Len(Packets(d)) + 1)
  /\ pc[d] \notin {"begin", "decoded"} => ~Native(file[d])
  /\ pc[d] \in {"begin", "libav", "initializing", "open"} =>
       codec[d] = <<>> /\ input[d] = None /\ held[d] = <<>> /\ pcm[d] = <<>> /\ next[d] = 1
  /\ pc[d] \in {"packets", "flushing"} =>
       Opens(file[d]) /\ Progress(file[d], FramesOf(file[d], next[d] - 1), codec[d], input[d], held[d], pcm[d])
  /\ pc[d] = "flushing" => next[d] = Len(Packets(d)) + 1 /\ codec[d] = <<>>

(* libav is used by no thread before its initialisation has ended well,    *)
(* which at most one thread attempts, once (FFMPEG_INIT).                  *)
LibavReady ==
  /\ \A d \in Decoders : pc[d] \in UsesLibav => once = "done"
  /\ \A d, e \in Decoders : pc[d] = "initializing" /\ pc[e] = "initializing" => d = e
  /\ (\E d \in Decoders : pc[d] = "initializing") <=> once = "running"

(* ... with where each thread is and what it has come to. *)
DInv == Placed /\ Typed /\ LibavReady /\ DecodesAll /\ \A d \in Decoders : SoFar(d)

(* Every decode ends, also when the resampler reports a delay it never     *)
(* gives out, and when the initialisation another thread ran has panicked. *)
DecodeEnds == \A d \in Decoders : <>(pc[d] \in {"decoded", "error", "failed", "panic"})
=============================================================================
