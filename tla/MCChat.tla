------------------------------- MODULE MCChat -------------------------------
(***************************************************************************)
(* An instance of Chat for TLC.                                            *)
(***************************************************************************)
EXTENDS Chat

CONSTANT hi

MCLine     == {hi, Bang}
MCDatagram == MCLine \union {Junk}
MCMessage  == MCDatagram \union {RawBang, Blank}
MCReads    == [m \in Message |-> IF m = RawBang THEN {Bang, Junk} ELSE {m}]

\* At most so many lines, datagrams, messages sent and messages shown, at A and
\* at B.
Within(typed, arrived, sent, shown) ==
  /\ Len(typedA) <= typed[1] /\ Len(typedB) <= typed[2]
  /\ Len(arrivedA) <= arrived[1] /\ Len(arrivedB) <= arrived[2]
  /\ Len(sentA) <= sent[1] /\ Len(sentB) <= sent[2]
  /\ Len(shownA) <= shown[1] /\ Len(shownB) <= shown[2]

\* A line goes to the other process and its echo back, or both users type.
ThereAndBack ==
  /\ Within(<<1, 1>>, <<1, 1>>, <<1, 1>>, <<1, 1>>)
  /\ Len(typedA) + Len(typedB) + Len(arrivedA) + Len(arrivedB) <= 3
  /\ Len(shownA) + Len(shownB) <= 1

\* Two messages of A, none of which A's own display takes: at B one of them may
\* arrive twice, or the second first.
TwiceOrSwapped ==
  Within(<<2, 0>>, <<0, 2>>, <<2, 0>>, <<0, 1>>) /\ ~fullA["display"]

\* The bounds of the instance.  A thread may also put in the bare escape
\* character for ever: once here.
Short ==
  /\ ThereAndBack \/ TwiceOrSwapped
  /\ insideA[RawBang] + insideB[RawBang] <= 1

MCSpec == Init /\ [][Next /\ Short']_vars
=============================================================================
