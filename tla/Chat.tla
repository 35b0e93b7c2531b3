-------------------------------- MODULE Chat --------------------------------
(***************************************************************************)
(* Two s-talk processes, A and B, and the network between them.  Each is a *)
(* Peer, which is what STalk is shown to implement.                        *)
(*                                                                         *)
(* Datagrams are lost, duplicated and delivered in any order: what one     *)
(* process has sent may arrive at the other at any later time, any number  *)
(* of times.                                                               *)
(***************************************************************************)
EXTENDS Naturals, Sequences

CONSTANTS
  Message, Line, Datagram, Reads, Bang, RawBang, Junk, Blank,
  MaxTyped, MaxArrived

ASSUME ChatAssumption ==
  /\ Bang \in Line /\ Line \subseteq Datagram /\ Datagram \subseteq Message
  /\ {RawBang, Junk, Blank} \subseteq Message
  /\ Line \intersect {RawBang, Junk, Blank} = {}
  /\ RawBang \notin Datagram
  /\ Reads = [m \in Message |-> IF m = RawBang THEN {Bang, Junk} ELSE {m}]

VARIABLES
  insideA, bufferA, fullA, closingA, typedA, arrivedA, sentA, shownA,
  insideB, bufferB, fullB, closingB, typedB, arrivedB, sentB, shownB

A == INSTANCE Peer WITH
  inside <- insideA, buffer <- bufferA, full <- fullA, closing <- closingA,
  typed <- typedA, arrived <- arrivedA, sent <- sentA, shown <- shownA

B == INSTANCE Peer WITH
  inside <- insideB, buffer <- bufferB, full <- fullB, closing <- closingB,
  typed <- typedB, arrived <- arrivedB, sent <- sentB, shown <- shownB

varsA ==
  <<insideA, bufferA, fullA, closingA, typedA, arrivedA, sentA, shownA>>
varsB ==
  <<insideB, bufferB, fullB, closingB, typedB, arrivedB, sentB, shownB>>
vars == <<varsA, varsB>>

Init == A!PeerInit /\ B!PeerInit

Said(s, msg) == \E i \in DOMAIN s : s[i] = msg

StepOfA ==
  /\ \/ \E m \in Line : A!Type(m)
     \/ \E m \in Datagram : Said(sentB, m) /\ A!Arrive(m)
     \/ A!Inner \/ A!Send
  /\ UNCHANGED varsB

StepOfB ==
  /\ \/ \E m \in Line : B!Type(m)
     \/ \E m \in Datagram : Said(sentA, m) /\ B!Arrive(m)
     \/ B!Inner \/ B!Send
  /\ UNCHANGED varsA

Next == StepOfA \/ StepOfB

Spec == Init /\ [][Next]_vars

-----------------------------------------------------------------------------
\* Neither process shuts down unless one of the two users has typed "!", and a
\* process whose user has not only after the other one has sent it: datagrams
\* that come twice or late, messages that a sender takes out of the shared
\* list and sends back, and bare escape characters never add up to a "!"
\* (UDPsockets.c:33-40, 151-163, 228-240).
ClosingWasAsked ==
  /\ closingA \/ closingB => Said(typedA, Bang) \/ Said(typedB, Bang)
  /\ closingA /\ ~Said(typedA, Bang) => Said(sentB, Bang)
  /\ closingB /\ ~Said(typedB, Bang) => Said(sentA, Bang)

\* What either screen shows was typed by one of the users, or is an empty
\* buffer or what memory held before: nothing is made up on the way, through
\* two processes and back, and "!" is never shown (UDPsockets.c:86-106).
Written(s) ==
  \A i \in DOMAIN s :
    \/ s[i] \in {Junk, Blank}
    \/ s[i] # Bang /\ (Said(typedA, s[i]) \/ Said(typedB, s[i]))

ShownWasTyped == Written(shownA) /\ Written(shownB)
=============================================================================
