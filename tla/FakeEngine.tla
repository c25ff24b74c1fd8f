----------------------------- MODULE FakeEngine -----------------------------
(***************************************************************************)
(* --engine fake: one segment over the whole audio, and as many words as   *)
(* its text has parts.  Times count samples, rounded down.                 *)
(***************************************************************************)
EXTENDS RunOptions

(* The parts between the colons: fake, the alias, the number of samples,   *)
(* then the target of a translation and each switch that is set.           *)
FakeParts(options) ==
  3 + Len(SelectSeq(<<options.task = "translate", options.pnc # None, options.itn # None>>, LAMBDA told : told))

FakeTranscript(options, length) ==
  LET n == FakeParts(options)
      row(start, end) == [start |-> start, end |-> end, text |-> TRUE]
  IN  [text |-> TRUE, language |-> options.language, segments |-> <<row(0, length)>>,
       words |-> [i \in 1..n |-> row((length * (i - 1)) \div n, (length * i) \div n)]]
=============================================================================
