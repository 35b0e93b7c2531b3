---------------------------- MODULE MCListClient ----------------------------
(***************************************************************************)
(* Instances of ListClient for TLC: two owners, as in main(), two items,   *)
(* and the sets of functions that the runs let the client call.            *)
(***************************************************************************)
EXTENDS ListClient

CONSTANTS x, y, hostMsg, remoteMsg

MCItem  == {x, y}
MCOwner == {hostMsg, remoteMsg}

\* What s-talk calls, with num_nodes read as List_count does.
STalkOps == {"List_create", "List_prepend", "List_trim", "List_count",
             "List_free"}

\* Everything.
AllOps == OpNames

\* No function looks at which item or which owner it has.
Alike == Permutations(MCItem) \union Permutations(MCOwner)
=============================================================================
