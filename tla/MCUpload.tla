------------------------------ MODULE MCUpload ------------------------------
(* An instance of Upload for TLC: the default model only transcribes, two  *)
(* list their targets, and one translates without listing any.             *)
EXTENDS Upload, FakeEngine

Lang(name, upper, spaced) == [name |-> name, upper |-> upper, spaced |-> spaced]
en == Lang("en", FALSE, FALSE)
de == Lang("de", FALSE, FALSE)
ru == Lang("ru", FALSE, FALSE)

Models == <<
  [id |-> "plain", translates |-> FALSE, targets |-> <<>>, limit |-> 6, switches |-> {"pnc"}],
  [id |-> "lists", translates |-> TRUE, targets |-> <<de, en>>, limit |-> 0, switches |-> {"pnc", "itn"}],
  [id |-> "single", translates |-> TRUE, targets |-> <<en>>, limit |-> 0, switches |-> {"itn"}],
  [id |-> "free", translates |-> TRUE, targets |-> <<>>, limit |-> 4, switches |-> {}] >>

Run(level, n) == [i \in 1..n |-> level]

(* A recording of two or more chunks of every model, and an empty one. *)
Recordings == {<<>>, Run("loud", 2) \o Run("soft", 2) \o Run("loud", 2)}

Values == [
  file |-> Recordings \cup {Garbage},
  model |-> {"lists", "single", "free", "gone"},
  language |-> {Lang("", FALSE, TRUE), Lang("ru", TRUE, TRUE)},
  response_format |-> {"verbose_json", "bad"},
  target_language |-> {Lang("en", TRUE, TRUE), Lang("fr", FALSE, FALSE)},
  pnc |-> {Lang("maybe", FALSE, FALSE), Lang("on", TRUE, TRUE)},
  itn |-> {Lang("0", FALSE, TRUE)} ]

Span(start, end, text) == [start |-> start, end |-> end, text |-> text]

(* Nothing; text without rows; a silent row and one that is not; the fake  *)
(* engine's.                                                               *)
SomeTranscripts(options, length) ==
  LET empty == [text |-> FALSE, language |-> None, segments |-> <<>>, words |-> <<>>]
      rows == <<Span(0, 0, FALSE), Span(0, Millisecond * (length \div Millisecond), TRUE)>>
  IN  { empty, [empty EXCEPT !.text = TRUE, !.language = ru],
        [empty EXCEPT !.text = TRUE, !.segments = rows, !.words = rows],
        FakeTranscript(options, length) }
=============================================================================
