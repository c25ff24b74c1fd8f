----------------------------- MODULE ChunkCut -----------------------------
(***************************************************************************)
(* chunk::first_cut: where a buffer that has filled one window is cut.     *)
(*                                                                         *)
(* Positions count samples from the start of the whole audio; "from" is    *)
(* where the buffer, the slice the code is handed, begins in it, and "max" *)
(* is max_sec, in samples.  A sample is loud or soft, and the energy of a  *)
(* frame, mean(|x|) in the code, is how many of its samples are loud.      *)
(***************************************************************************)
EXTENDS Integers, Sequences, FiniteSets

CONSTANTS
  Frame,              \* frame_len(): one 30 ms frame, in samples
  SearchBackMax,      \* SEARCH_BACK_SEC, in samples
  SearchBackPercent,  \* SEARCH_BACK_FRACTION
  Threshold           \* vad_threshold: energy below it is silence

ASSUME FrameAssumption == Frame \in Nat \ {0}
ASSUME SearchBackAssumption == {SearchBackMax, SearchBackPercent, Threshold} \subseteq Nat

Sample == {"soft", "loud"}

(* window_samples: the longest chunk. *)
Window(max) == IF max < Frame THEN Frame ELSE max

(* The look-back, scaled to the window. *)
SearchBack(max) ==
  LET scaled == (max * SearchBackPercent) \div 100
  IN  IF scaled < SearchBackMax THEN scaled ELSE SearchBackMax

Energy(pcm, p) == Cardinality({i \in (p + 1)..(p + Frame) : pcm[i] = "loud"})

(* Mutant of SearchStart: the whole window is searched. *)
SearchFromStart(max) == 0

(* saturating_sub *)
SearchStart(max) == IF SearchBack(max) >= Window(max) THEN 0 ELSE Window(max) - SearchBack(max)

(* The frames the scan visits in the buffer, by where each begins. *)
FrameStarts(from, max) ==
  {p \in (from + SearchStart(max))..(from + Window(max) - Frame) :
     (p - from - SearchStart(max)) % Frame = 0}

SilentFrames(pcm, from, max) == {p \in FrameStarts(from, max) : Energy(pcm, p) < Threshold}

(* The first of the quietest silent frames: a later one must be quieter.   *)
IsBest(pcm, from, max, p) ==
  /\ p \in SilentFrames(pcm, from, max)
  /\ \A q \in SilentFrames(pcm, from, max) :
       /\ Energy(pcm, p) <= Energy(pcm, q)
       /\ q < p => Energy(pcm, p) < Energy(pcm, q)

(* Mutant of BestFrame: a later frame need not be quieter. *)
LastBest(pcm, from, max) == CHOOSE p \in SilentFrames(pcm, from, max) :
  \A q \in SilentFrames(pcm, from, max) :
    /\ Energy(pcm, p) <= Energy(pcm, q)
    /\ q > p => Energy(pcm, p) < Energy(pcm, q)

BestFrame(pcm, from, max) == CHOOSE p \in SilentFrames(pcm, from, max) : IsBest(pcm, from, max, p)

(* Mutant of FirstCut: it cuts where the silent frame begins. *)
CutBeforeFrame(pcm, from, max) ==
  IF Len(pcm) - from <= Window(max) THEN Len(pcm)
  ELSE IF SilentFrames(pcm, from, max) = {} THEN from + Window(max)
  ELSE BestFrame(pcm, from, max) - 1

(* Mutant of FirstCut: a tail shorter than a frame is not cut off. *)
KeepShortTail(pcm, from, max) ==
  IF Len(pcm) - from <= Window(max) + Frame THEN Len(pcm)
  ELSE IF SilentFrames(pcm, from, max) = {} THEN from + Window(max)
  ELSE BestFrame(pcm, from, max) + Frame \div 2

(* The end of the first chunk of pcm[from..]: all of it when it fits the   *)
(* window; else the middle of the quietest silent frame near the window's  *)
(* end, unless that makes no progress; else the window's edge.             *)
FirstCut(pcm, from, max) ==
  IF Len(pcm) - from <= Window(max) THEN Len(pcm)
  ELSE IF /\ SilentFrames(pcm, from, max) # {}
          /\ BestFrame(pcm, from, max) + Frame \div 2 > from
  THEN BestFrame(pcm, from, max) + Frame \div 2
  ELSE from + Window(max)
=============================================================================
