------------------------------- MODULE MCSTalk -------------------------------
(***************************************************************************)
(* Instances of STalk and DumpTalk for TLC.  Both mailboxes point to one   *)
(* list, as the two calls of List_create in main() leave them              *)
(* (ListClientProofs).                                                     *)
(***************************************************************************)
EXTENDS DumpTalk, TLC

CONSTANTS hi, yo, hey, list

MCThread  == {reader, sender, display, receiver}
MCMailbox == {hostMsg, remoteMsg}
MCList    == {list}
MCListOf  == [m \in MCMailbox |-> list]

MCLine      == {hi, Bang}
MCDatagram  == {yo, hey, Bang}
OneDatagram == {yo, Bang}

Unwritten   == {RawBang, Junk, Blank}
MCMessage   == MCLine \union MCDatagram \union Unwritten
OneMessage  == MCLine \union OneDatagram \union Unwritten
MCReads     == [m \in Message |-> IF m = RawBang THEN {Bang, Junk} ELSE {m}]

\* The texts of two datagrams are alike.
Alike == Permutations({yo, hey})

\* A constraint: three inputs to the newer program and two to the older one,
\* and one fewer once it shuts down.
FewInputs ==
  Len(typed) + Len(arrived) <=
    (IF Older THEN 1 ELSE 2) + (IF shutdownFlag THEN 0 ELSE 1)
=============================================================================
