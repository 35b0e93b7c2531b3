------------------------------ MODULE ListQueue ------------------------------
(***************************************************************************)
(* What the mailboxes get from the list library: a first-in first-out      *)
(* queue of at most Capacity messages.  The queue of list.c breaks when it *)
(* is trimmed three times with three or more messages in it (QueueLinks),  *)
(* and can be freed only when it is empty.                                 *)
(*                                                                         *)
(* "out" is the result of the last operation.                              *)
(***************************************************************************)
EXTENDS QueueLinks

CONSTANTS Message, Capacity

VARIABLES
  q,      \* the messages, oldest first
  links,  \* the state of the links
  out

vars == <<q, links, out>>

Init ==
  /\ q = <<>>
  /\ links \in NewLinks
  /\ out = <<"none">>

Working == out # <<"fault">>

Put(m) ==
  /\ out' = <<"put">>
  /\ Len(q) < Capacity
  /\ q' = Append(q, m)
  /\ UNCHANGED links

PutFails ==
  /\ out' = <<"full">>
  /\ Len(q) = Capacity
  /\ UNCHANGED <<q, links>>

Get ==
  /\ q # <<>> /\ links # "lost"
  /\ out' = <<"got", Head(q)>>
  /\ q' = Tail(q)
  /\ links' = Trimmed(links, q)

GetNothing ==
  /\ out' = <<"empty">>
  /\ q = <<>>
  /\ UNCHANGED <<q, links>>

GetFaults ==
  /\ out' = <<"fault">>
  /\ links = "lost"
  /\ UNCHANGED <<q, links>>

\* The client ends the list.
Free ==
  /\ \/ /\ q = <<>> \/ links = "sound"
        /\ out' = <<"freed">> /\ q' = <<>>
     \/ /\ q # <<>> /\ links # "sound"
        /\ out' = <<"fault">> /\ UNCHANGED q
  /\ UNCHANGED links

Count ==
  /\ out' = <<"count", Len(q)>>
  /\ UNCHANGED <<q, links>>

Next ==
  /\ Working
  /\ \/ \E m \in Message : Put(m)
     \/ PutFails
     \/ Get
     \/ GetNothing
     \/ GetFaults
     \/ Count
     \/ Free

Spec == Init /\ [][Next]_vars
=============================================================================
