---------------------------- MODULE MCSessionRead ----------------------------
(***************************************************************************)
(* SessionRead on a scaled-down wire format: bytes have 4 values and a     *)
(* challenge declares one byte before the account name, so that legal,     *)
(* oversize, mismatched and wrapping lengths all fit a short stream.  The  *)
(* offsets (size field at 2, name length after the fixed part) are kept.   *)
(***************************************************************************)
EXTENDS SessionRead

(* opcode 0, a byte, declared size (2 bytes), name length, name.           *)
ChallengeFrames == {
  <<0, 0, 1, 0, 0>>,        \* empty name
  <<0, 3, 2, 0, 1, 3>>,     \* one-letter name: the longest legal frame
  <<0, 0, 2, 0, 0, 1>>,     \* length disagrees with the name
  <<0, 0, 0, 1, 0>>,        \* declared 4: larger than any legal challenge
  <<0, 0, 3, 3, 0>>,        \* declared 15: 4 + 15 wraps to 3
  <<0, 1, 0, 3, 2>>}        \* declared 12: 4 + 12 wraps to 0

OtherFrames == {<<1, 3, 3>>, <<1, 2, 0>>, <<2, 1>>, <<2, 3>>, <<3, 0>>}

(* A client that stops in the middle of a frame.                           *)
Fragments == {<<0>>, <<0, 0, 2>>, <<1, 3>>, <<2>>}

AllFrames == ChallengeFrames \cup OtherFrames

MCStreams ==
  {f \o g \o h : f \in AllFrames, g \in AllFrames, h \in Fragments}
    \cup {f \o g : f \in AllFrames, g \in AllFrames}

==============================================================================
