----------------------------- MODULE MCTrimRace -----------------------------
(***************************************************************************)
(* An instance of TrimRace for TLC: the two threads of s-talk that take    *)
(* messages out, under the mutexes of their mailboxes, with three messages *)
(* in the list.                                                            *)
(***************************************************************************)
EXTENDS TrimRace

CONSTANTS sender, display, hostMsg, remoteMsg, a, b, c

MCThread  == {sender, display}
MCMutex   == {hostMsg, remoteMsg}
TwoMutexes == [t \in MCThread |-> IF t = sender THEN hostMsg ELSE remoteMsg]
MCStored  == <<a, b, c>>
=============================================================================
