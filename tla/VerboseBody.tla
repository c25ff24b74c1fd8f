---------------------------- MODULE VerboseBody ----------------------------
(***************************************************************************)
(* The verbose_json answer, stitched from the chunks' transcripts, and     *)
(* Transcript::shift, which makes their times absolute.                    *)
(*                                                                         *)
(* A chunk is [span, transcript] and whatever else is known of it.  Times  *)
(* count samples; a text is TRUE when it is not empty.  Languages are as   *)
(* the catalogue spells them.                                              *)
(***************************************************************************)
EXTENDS RunOptions

CONSTANTS
  Millisecond,  \* samples in one millisecond
  Unknown       \* the language nobody can tell

ASSUME MillisecondAssumption == Millisecond \in Nat \ {0}

(* TimedSpan and Transcript. *)
Row == [start : Nat, end : Nat, text : BOOLEAN]
Transcript == [text : BOOLEAN, language : Code \cup {None}, segments : Seq(Row), words : Seq(Row)]

(* Mutant of Shifted: the segments move, the words do not. *)
ShiftedSegments(transcript, offset) ==
  [transcript EXCEPT
     !.segments = [i \in DOMAIN @ |-> [@[i] EXCEPT !.start = @ + offset, !.end = @ + offset]]]

(* Transcript::shift: every timed row moves by the chunk's offset. *)
Shifted(transcript, offset) ==
  LET later(rows) == [i \in DOMAIN rows |->
        [rows[i] EXCEPT !.start = @ + offset, !.end = @ + offset]]
  IN  [transcript EXCEPT !.segments = later(@), !.words = later(@)]

(* sec(): rounded to the nearest millisecond, halves up. *)
Milliseconds(samples) == (2 * samples + Millisecond) \div (2 * Millisecond)

Rounded(row) == [row EXCEPT !.start = Milliseconds(@), !.end = Milliseconds(@)]

Heard(rows) == FlattenSeq([i \in DOMAIN rows |-> IF rows[i].text THEN <<rows[i]>> ELSE <<>>])

(* The rows of one chunk; a chunk whose model reports none is one row, if  *)
(* there is text in it.                                                    *)
SegmentRows(chunk) ==
  IF chunk.transcript.segments = <<>>
  THEN Heard(<<[start |-> chunk.span[1], end |-> chunk.span[2], text |-> chunk.transcript.text]>>)
  ELSE Heard(chunk.transcript.segments)

Segments(chunks) ==
  LET rows == FlattenSeq([i \in DOMAIN chunks |-> SegmentRows(chunks[i])])
  IN  [i \in DOMAIN rows |-> [id |-> i - 1, row |-> Rounded(rows[i])]]

Words(chunks) ==
  LET rows == FlattenSeq([i \in DOMAIN chunks |-> Heard(chunks[i].transcript.words)])
  IN  [i \in DOMAIN rows |-> Rounded(rows[i])]

(* joined_text: the chunks something was heard in, in order. *)
JoinedText(chunks) == SelectSeq([i \in DOMAIN chunks |-> i], LAMBDA i : chunks[i].transcript.text)

(* Mutant of Language: what the model detected, also of a translation. *)
DetectedLanguage(chunks, task, reported) ==
  LET i == SelectInSeq(chunks, LAMBDA chunk : chunk.transcript.language # None)
  IN  IF i > 0 THEN chunks[i].transcript.language ELSE IF reported # None THEN reported ELSE Unknown

(* A transcription is in the language the model detected, else in the one  *)
(* reported; a translation never in the detected one.                      *)
Language(chunks, task, reported) ==
  LET i == SelectInSeq(chunks, LAMBDA chunk : chunk.transcript.language # None)
  IN  IF task = "transcribe" /\ i > 0 THEN chunks[i].transcript.language
      ELSE IF reported # None THEN reported ELSE Unknown
=============================================================================
