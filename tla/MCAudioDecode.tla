--------------------------- MODULE MCAudioDecode ---------------------------
EXTENDS AudioDecode

Frame(ids, format, layout, channels) ==
  [ids |-> ids, format |-> format, layout |-> layout, channels |-> channels, rate |-> 8]
Packet(frames) == [best |-> TRUE, decodable |-> TRUE, frames |-> frames]
Skipped(best) == [best |-> best, decodable |-> ~best, frames |-> <<Frame(<<9>>, "s16", 1, 1)>>]

(* A container with these packets in its audio stream. *)
Container(packets) == [wav |-> "none", intact |-> FALSE, samples |-> <<>>,
  opens |-> TRUE, audio |-> TRUE, channels |-> 2, delay |-> "exact", packets |-> packets]

(* Layouts stamped from the frame and from the decoder, foreign and bad    *)
(* packets in between. *)
Long == Container(<<
  Packet(<<Frame(<<1, 2>>, "s16", 0, 2)>>), Skipped(TRUE), Packet(<<Frame(<<3>>, "s16", 2, 2)>>),
  Skipped(FALSE), Packet(<<Frame(<<4, 5, 6>>, "s16", 0, 0), Frame(<<7>>, "s16", 2, 2)>>)>>)

SomeFiles == {
  [Long EXCEPT !.wav = "target", !.intact = TRUE, !.samples = <<1, 2>>],
  [Long EXCEPT !.wav = "target", !.intact = TRUE],
  [Long EXCEPT !.wav = "target"],
  [Long EXCEPT !.wav = "other", !.intact = TRUE],
  [Long EXCEPT !.audio = FALSE], [Long EXCEPT !.opens = FALSE],
  Long, [Long EXCEPT !.delay = "residue"], [Long EXCEPT !.delay = "rounded"], Container(<<>>), Container(<<Packet(<<Frame(<<1>>, "s16", 1, 1)>>)>>),
  Container(<<Packet(<<Frame(<<1>>, "s16", 2, 2)>>), Packet(<<Frame(<<2>>, "flt", 2, 2)>>)>>),
  Container(<<Packet(<<Frame(<<1>>, "s16", 2, 2), [Frame(<<2>>, "s16", 2, 2) EXCEPT !.rate = 16]>>)>>),
  [Container(<<Packet(<<Frame(<<1>>, "s16", 0, 0)>>)>>) EXCEPT !.channels = 0] }
=============================================================================
