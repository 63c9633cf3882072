----------------------------- MODULE MCExploreReg -----------------------------
(* Instances of ExploreReg for TLC: databases of three records on a BAR of   *)
(* four bytes with two bits each.                                            *)
EXTENDS ExploreReg, TLC

CONSTANTS r1, r2, r3

Opt(name, value) == [name |-> name, value |-> value, number |-> TRUE]
NoNumber(name) == [name |-> name, value |-> 0, number |-> FALSE]

Scalar(dir, size, ord, lockset, opts) ==
  [dir |-> dir, size |-> size, ord |-> ord, array |-> FALSE, spec |-> "test",
   opts |-> opts, elem |-> 4, nelm |-> 1, lockset |-> lockset]
Waveform(dir, size, ord, lockset, opts, elem) ==
  [Scalar(dir, size, ord, lockset, opts) EXCEPT !.array = TRUE, !.elem = elem, !.nelm = 3]
At(offset) == <<Opt("offset", offset)>>
Part(offset, mask, shift) == At(offset) \o <<Opt("mask", mask), Opt("shift", shift)>>
Three(a, b, c) == r1 :> a @@ r2 :> b @@ r3 :> c

Links ==
  { \* two fields of one register and a reader
    Three(Scalar("write", 1, "NAT", 1, Part(1, {0}, 0)),
          Scalar("write", 1, "NAT", 1, Part(1, {1}, 1) \o <<Opt("initread", FALSE)>>),
          Scalar("read", 2, "BE", 2, Part(0, {1, 2}, 1))),
    \* two fields in different lock sets; a number that is none
    Three(Scalar("write", 2, "BE", 1, Part(0, {0, 1}, 0)),
          Scalar("write", 2, "LE", 2, Part(0, {0, 1}, 0)),
          Scalar("read", 1, "NAT", 2, <<NoNumber("mask")>>)),
    \* an array, too long for the BAR, and its readers
    Three(Waveform("write", 2, "LE", 1, At(0), 2),
          Waveform("read", 2, "NAT", 2, At(0) \o <<Opt("initread", TRUE)>>, 1),
          Waveform("read", 2, "LE", 3, At(1), 4)),
    \* backwards, on the spot, and past the end
    Three(Waveform("read", 1, "NAT", 1, At(2) \o <<Opt("step", 15)>>, 1),
          Waveform("write", 4, "BE", 1, <<Opt("step", 0)>>, 4),
          Scalar("read", 2, "NAT", 2, At(3))),
    \* a long word in two orders; a BAR that may not be there
    Three(Scalar("write", 4, "BE", 1, Part(0, {0, 5}, 0)),
          [Scalar("write", 4, "NAT", 1, Part(0, {1, 6}, 0)) EXCEPT !.spec = "found"],
          [Waveform("write", 2, "NAT", 2, <<>>, 0) EXCEPT !.opts = <<Opt("initread", TRUE)>>]),
    \* errors in the links
    Three([Scalar("write", 4, "LE", 1, <<>>) EXCEPT !.spec = "unknown"],
          Scalar("read", 1, "NAT", 1, <<Opt("size", 1)>>),
          Scalar("read", 4, "LE", 2, <<>>)) }

Inputs == { <<{}>>, <<{0, 1}>>, <<{0}, {1, 3, 6}, {2}>> }
=============================================================================
