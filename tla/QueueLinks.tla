------------------------------ MODULE QueueLinks ------------------------------
(***************************************************************************)
(* The state of a list's links while only List_prepend and List_trim work  *)
(* on it, as the mailboxes do.                                             *)
(*                                                                         *)
(* List_trim cuts the prev link of the node that becomes the new tail      *)
(* (list.c:375-377: the arguments of unlinkNodes are shifted by one).      *)
(* With at most one item left nothing is lost: the list is "whole".        *)
(* Otherwise it is                                                         *)
(*   "cut"    the tail's prev link is gone: the next List_trim returns the *)
(*            right item and finds no node to make the new tail            *)
(*   "lost"   there are items and no tail: the next List_trim uses a null  *)
(*            pointer                                                      *)
(* The older library of dump/list.c passes the arguments in their order    *)
(* (dump/list.c:398): its lists are "sound" and stay so.                   *)
(***************************************************************************)
EXTENDS Naturals, Sequences

LinkStates == {"whole", "cut", "lost", "sound"}

\* The links of a new list, in list.c and in dump/list.c.
NewLinks == {"whole", "sound"}

\* Mutation: the tail itself is cut loose, at the first List_trim.
TrimmedAtOnce(links, items) ==
  IF links = "whole" /\ Len(items) >= 2 THEN "lost" ELSE links

\* The links after List_trim of a list with these items.
Trimmed(links, items) ==
  CASE links = "cut"                      -> "lost"
    [] links = "whole" /\ Len(items) >= 3 -> "cut"
    [] OTHER                              -> links
=============================================================================
