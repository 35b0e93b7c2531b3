---------------------------- MODULE BlockingQueue ----------------------------
(***************************************************************************)
(* What a mailbox promises its callers: put() and get() on a first-in      *)
(* first-out queue of at most Capacity messages, each taking effect in one *)
(* step between its call and its return, put() blocking while the queue is *)
(* full and get() while it is empty.                                       *)
(***************************************************************************)
EXTENDS Naturals, Sequences

CONSTANTS Thread, Message, Reads, Capacity

VARIABLES
  q,       \* the messages, oldest first
  caller   \* each thread's call: is it pending, its function and message

vars == <<q, caller>>

Idle(t)    == ~caller[t].pending
Return(t, msg) == caller' = [caller EXCEPT ![t].pending = FALSE, ![t].msg = msg]

Init ==
  /\ q = <<>>
  /\ \A t \in Thread : Idle(t)

Invoke(t) ==
  /\ Idle(t)
  /\ \E fn \in {"consume", "produce"}, msg \in Message :
       caller' = [caller EXCEPT ![t] = [pending |-> TRUE, fn |-> fn, msg |-> msg]]
  /\ UNCHANGED q

Put(t) ==
  /\ ~Idle(t) /\ caller[t].fn = "consume"
  /\ Len(q) < Capacity
  /\ q' = Append(q, caller[t].msg)
  /\ Return(t, caller[t].msg)

Get(t) ==
  /\ ~Idle(t) /\ caller[t].fn = "produce"
  /\ q # <<>>
  /\ q' = Tail(q)
  /\ \E text \in Reads[Head(q)] : Return(t, text)

\* The process of the callers ends, whatever they were about.
Abandon ==
  /\ caller' = [t \in Thread |-> [caller[t] EXCEPT !.pending = FALSE]]
  /\ UNCHANGED q

Next == Abandon \/ \E t \in Thread : Invoke(t) \/ Put(t) \/ Get(t)

Spec == Init /\ [][Next]_vars

\* A queue that can serve a pending call serves one, if not that one.
Serves == WF_vars(\E t \in Thread : Put(t)) /\ WF_vars(\E t \in Thread : Get(t))

LiveSpec == Spec /\ Serves
=============================================================================
