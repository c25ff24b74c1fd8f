---------------------------- MODULE ChunkRanges ----------------------------
(***************************************************************************)
(* chunk::chunk_ranges: the loop that splits an uploaded recording into    *)
(* the chunks the engine is handed one after the other.                    *)
(***************************************************************************)
EXTENDS ChunkCut

CONSTANTS
  Recordings,  \* the inputs considered
  MaxChunk     \* max_sec, in samples

ASSUME RecordingsAssumption == Recordings \subseteq Seq(Sample)
ASSUME MaxChunkAssumption == MaxChunk \in Nat

VARIABLES
  pcm,     \* the recording
  start,   \* everything before it is in a range
  ranges   \* the ranges so far, as <<from, to>>: samples from..to-1

vars == <<pcm, start, ranges>>

TypeOK ==
  /\ pcm \in Recordings
  /\ start \in 0..Len(pcm)
  /\ ranges \in Seq(Nat \X Nat)

Init ==
  /\ pcm \in Recordings
  /\ start = 0
  /\ ranges = <<>>

(* Mutant of PushRange: a tail shorter than a frame is not worth a range. *)
PushWholeFrames ==
  /\ start + Frame <= Len(pcm)
  /\ ranges' = Append(ranges, <<start, FirstCut(pcm, start, MaxChunk)>>)
  /\ start' = FirstCut(pcm, start, MaxChunk)
  /\ UNCHANGED pcm

(* One turn of the loop. *)
PushRange ==
  /\ start < Len(pcm)
  /\ ranges' = Append(ranges, <<start, FirstCut(pcm, start, MaxChunk)>>)
  /\ start' = FirstCut(pcm, start, MaxChunk)
  /\ UNCHANGED pcm

Next == PushRange

Spec == Init /\ [][Next]_vars /\ WF_vars(Next)

----------------------------------------------------------------------------
(* The ranges cover what has been split without gap or overlap, and none   *)
(* is empty or longer than the window (the chunker's promise to the        *)
(* model, whose own limit the window stays inside).                        *)
Tiling ==
  /\ \A i \in DOMAIN ranges :
       /\ ranges[i][1] = IF i = 1 THEN 0 ELSE ranges[i - 1][2]
       /\ ranges[i][1] < ranges[i][2] /\ ranges[i][2] - ranges[i][1] <= Window(MaxChunk)
  /\ start = IF ranges = <<>> THEN 0 ELSE ranges[Len(ranges)][2]

(* A cut falls inside a silent frame, and a full range that is not the     *)
(* last had none to be cut at (first_cut: "no silence found means a hard   *)
(* cut at the window edge").                                               *)
CutsInSilence == \A i \in DOMAIN ranges :
  LET from == ranges[i][1]
      to == ranges[i][2]
  IN  \/ to = Len(pcm)
      \/ \E p \in SilentFrames(pcm, from, MaxChunk) : p <= to /\ to < p + Frame
      \/ SilentFrames(pcm, from, MaxChunk) = {} /\ to - from = Window(MaxChunk)

(* The scan of the code, frame by frame: the best one so far, if any, is   *)
(* replaced only by a strictly quieter one.                                *)
ScanStart(from, k) == from + SearchStart(MaxChunk) + k * Frame

ScanFrames == (Window(MaxChunk) - SearchStart(MaxChunk)) \div Frame

ScanBest(audio, from) ==
  LET best[k \in 0..ScanFrames] ==
        IF k = 0 THEN {}
        ELSE LET energy == Energy(audio, ScanStart(from, k - 1))
             IN  IF energy < Threshold /\ \A p \in best[k - 1] : energy < Energy(audio, p)
                 THEN {ScanStart(from, k - 1)} ELSE best[k - 1]
  IN  best[ScanFrames]

IsScanCut(audio, from, to) ==
  IF Len(audio) - from <= Window(MaxChunk) THEN to = Len(audio)
  ELSE \/ \E p \in ScanBest(audio, from) : p + Frame \div 2 > from /\ to = p + Frame \div 2
       \/ (\A p \in ScanBest(audio, from) : p + Frame \div 2 = from) /\ to = from + Window(MaxChunk)

(* Every cut is the one the code's scan comes to.                          *)
CutsWhereScanDoes == \A i \in DOMAIN ranges : IsScanCut(pcm, ranges[i][1], ranges[i][2])

(* However the pauses lie, a chunk that is not the last is not much        *)
(* shorter than the window (a_short_window_still_cuts_near_its_end).       *)
NeverFarShort == \A i \in DOMAIN ranges :
  ranges[i][2] < Len(pcm) => ranges[i][2] - ranges[i][1] >= Window(MaxChunk) - SearchBack(MaxChunk)

(* The loop ends, with the whole recording in ranges.                      *)
AllSplit == <>[](start = Len(pcm))
=============================================================================
