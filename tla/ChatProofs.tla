----------------------------- MODULE ChatProofs -----------------------------
(***************************************************************************)
(* Theorems on two processes and the network between them, for every value *)
(* of the constants.  PeerProofs says what happens inside of each process; *)
(* what is added here is how messages go from one to the other.            *)
(***************************************************************************)
EXTENDS Chat, TLAPS

AtA == INSTANCE PeerProofs WITH
  inside <- insideA, buffer <- bufferA, full <- fullA, closing <- closingA,
  typed <- typedA, arrived <- arrivedA, sent <- sentA, shown <- shownA

AtB == INSTANCE PeerProofs WITH
  inside <- insideB, buffer <- bufferB, full <- fullB, closing <- closingB,
  typed <- typedB, arrived <- arrivedB, sent <- sentB, shown <- shownB

\* A text that one of the users has typed, or that nobody has written.
Rooted(m) == m \in {Junk, Blank} \/ Said(typedA, m) \/ Said(typedB, m)

\* What has arrived was sent, and was typed in the first place.
Delivered ==
  /\ \A m : Said(arrivedA, m) => Said(sentB, m) /\ Rooted(m)
  /\ \A m : Said(arrivedB, m) => Said(sentA, m) /\ Rooted(m)

ChatInv == AtA!PeerInv /\ AtB!PeerInv /\ Delivered

LEMMA SaidMore ==
  ASSUME NEW s \in Seq(Message), NEW m \in Message, NEW x
  PROVE  Said(Append(s, m), x) <=> Said(s, x) \/ x = m
<1>1. AtA!Occurs(Append(s, m), x) <=> AtA!Occurs(s, x) \/ x = m
  BY AtA!Appended
<1>. QED  BY <1>1 DEF AtA!Occurs, Said

LEMMA TextsHold == AtA!Texts /\ AtB!Texts
BY ChatAssumption DEF AtA!Texts, AtB!Texts

LEMMA ChatStarts == Init => ChatInv
<1>. SUFFICES ASSUME Init PROVE ChatInv
  OBVIOUS
<1>1. AtA!PeerInit /\ AtB!PeerInit
  BY DEF Init, A!PeerInit, B!PeerInit, AtA!PeerInit, AtB!PeerInit,
         A!Taker, B!Taker, AtA!Taker, AtB!Taker
<1>2. AtA!PeerInv
  BY <1>1, TextsHold, AtA!PeerStarts
<1>3. AtB!PeerInv
  BY <1>1, TextsHold, AtB!PeerStarts
<1>4. Delivered
  BY <1>1 DEF AtA!PeerInit, AtB!PeerInit, Delivered, Said
<1>. QED  BY <1>2, <1>3, <1>4 DEF ChatInv
\* What B has sent is rooted: it came into B, and all of that is.
LEMMA SentByBIsRooted ==
  ASSUME ChatInv, NEW m, Said(sentB, m)
  PROVE  Rooted(m)
<1>1. m \in {Junk, Blank} \/ Said(typedB, m) \/ Said(arrivedB, m)
  BY DEF ChatInv, AtB!PeerInv, AtB!AllCameIn, AtB!Known, AtB!CameIn,
         AtB!Occurs, Said
<1>. QED  BY <1>1 DEF ChatInv, Delivered, Rooted

LEMMA StepOfAKeeps ==
  ASSUME ChatInv, StepOfA
  PROVE  ChatInv'
<1>1. AtA!PeerNext
  BY DEF StepOfA, A!Type, A!Arrive, A!ComesIn, A!Inner, A!Send, A!Close,
         A!SeenBang, A!TakeNothing, A!Take, A!Fill, A!SendFails, A!Show,
         A!ShowNothing, A!Emptied, A!Taker,
         AtA!PeerNext, AtA!Type, AtA!Arrive, AtA!ComesIn, AtA!Inner, AtA!Send,
         AtA!Close, AtA!SeenBang, AtA!TakeNothing, AtA!Take, AtA!Fill,
         AtA!SendFails, AtA!Show, AtA!ShowNothing, AtA!Emptied, AtA!Taker
<1>2. AtA!PeerInv'
  BY <1>1, TextsHold, AtA!PeerKeeps DEF ChatInv
<1>3. AtB!PeerInv'
  <2>1. UNCHANGED AtB!peerVars
    BY DEF StepOfA, varsB, AtB!peerVars
  <2>. QED  BY <2>1, TextsHold, AtB!PeerKeeps DEF ChatInv
<1>4. Delivered'
  <2>1. UNCHANGED <<typedB, arrivedB, sentB>>
    BY DEF StepOfA, varsB
  <2>a. /\ typedA \in Seq(Message) /\ sentA \in Seq(Message)
        /\ arrivedA \in Seq(Message)
        /\ bufferA["sender"] \in Message
    BY DEF ChatInv, AtA!PeerInv, AtA!PeerTypeOK, AtA!Taker
  <2>2. \A m : Said(typedA, m) => Said(typedA', m)
    <3>1. typedA' = typedA \/ \E m \in Message : typedA' = Append(typedA, m)
      BY ChatAssumption DEF StepOfA, A!Type, A!Arrive, A!Inner, A!Send, A!Close,
         A!TakeNothing, A!Take, A!Fill, A!SendFails, A!Show, A!ShowNothing
    <3>2. \A m \in Message : \A x :
            Said(Append(typedA, m), x) <=> Said(typedA, x) \/ x = m
      BY <2>a, SaidMore
    <3>3. CASE typedA' = typedA
      BY <3>3
    <3>4. ASSUME NEW m \in Message, typedA' = Append(typedA, m)
          PROVE  \A x : Said(typedA, x) => Said(typedA', x)
      BY <3>2, <3>4
    <3>. QED  BY <3>1, <3>3, <3>4
  <2>3. \A m : Said(sentA, m) => Said(sentA', m)
    <3>1. sentA' = sentA \/ sentA' = Append(sentA, bufferA["sender"])
      BY DEF StepOfA, A!Type, A!Arrive, A!Inner, A!Send, A!Close,
         A!TakeNothing, A!Take, A!Fill, A!SendFails, A!Show, A!ShowNothing
    <3>2. \A m \in Message : \A x :
            Said(Append(sentA, m), x) <=> Said(sentA, x) \/ x = m
      BY <2>a, SaidMore
    <3>. QED  BY <2>a, <3>1, <3>2
  <2>4. \A m : Said(arrivedA', m) => Said(arrivedA, m) \/ Said(sentB, m)
    <3>1. \/ arrivedA' = arrivedA
          \/ \E m \in Message : Said(sentB, m) /\ arrivedA' = Append(arrivedA, m)
      BY ChatAssumption DEF StepOfA, A!Type, A!Arrive, A!Inner, A!Send, A!Close,
         A!TakeNothing, A!Take, A!Fill, A!SendFails, A!Show, A!ShowNothing
    <3>2. \A m \in Message : \A x :
            Said(Append(arrivedA, m), x) <=> Said(arrivedA, x) \/ x = m
      BY <2>a, SaidMore
    <3>3. CASE arrivedA' = arrivedA
      BY <3>3
    <3>4. ASSUME NEW m \in Message, Said(sentB, m), arrivedA' = Append(arrivedA, m)
          PROVE  \A x : Said(arrivedA', x) => Said(arrivedA, x) \/ Said(sentB, x)
      BY <3>2, <3>4
    <3>. QED  BY <3>1, <3>3, <3>4
  <2>5. \A m : Rooted(m) => Rooted(m)'
    BY <2>1, <2>2 DEF Rooted
  <2>6. ASSUME NEW m, Said(arrivedA', m)
        PROVE  Said(sentB', m) /\ Rooted(m)'
    BY <2>1, <2>4, <2>5, <2>6, SentByBIsRooted DEF ChatInv, Delivered
  <2>7. ASSUME NEW m, Said(arrivedB', m)
        PROVE  Said(sentA', m) /\ Rooted(m)'
    BY <2>1, <2>3, <2>5, <2>7 DEF ChatInv, Delivered
  <2>. QED  BY <2>6, <2>7 DEF Delivered
<1>. QED  BY <1>2, <1>3, <1>4 DEF ChatInv

\* What A has sent is rooted: it came into A, and all of that is.
LEMMA SentByAIsRooted ==
  ASSUME ChatInv, NEW m, Said(sentA, m)
  PROVE  Rooted(m)
<1>1. m \in {Junk, Blank} \/ Said(typedA, m) \/ Said(arrivedA, m)
  BY DEF ChatInv, AtA!PeerInv, AtA!AllCameIn, AtA!Known, AtA!CameIn,
         AtA!Occurs, Said
<1>. QED  BY <1>1 DEF ChatInv, Delivered, Rooted

LEMMA StepOfBKeeps ==
  ASSUME ChatInv, StepOfB
  PROVE  ChatInv'
<1>1. AtB!PeerNext
  BY DEF StepOfB, B!Type, B!Arrive, B!ComesIn, B!Inner, B!Send, B!Close,
         B!SeenBang, B!TakeNothing, B!Take, B!Fill, B!SendFails, B!Show,
         B!ShowNothing, B!Emptied, B!Taker,
         AtB!PeerNext, AtB!Type, AtB!Arrive, AtB!ComesIn, AtB!Inner, AtB!Send,
         AtB!Close, AtB!SeenBang, AtB!TakeNothing, AtB!Take, AtB!Fill,
         AtB!SendFails, AtB!Show, AtB!ShowNothing, AtB!Emptied, AtB!Taker
<1>2. AtB!PeerInv'
  BY <1>1, TextsHold, AtB!PeerKeeps DEF ChatInv
<1>3. AtA!PeerInv'
  <2>1. UNCHANGED AtA!peerVars
    BY DEF StepOfB, varsA, AtA!peerVars
  <2>. QED  BY <2>1, TextsHold, AtA!PeerKeeps DEF ChatInv
<1>4. Delivered'
  <2>1. UNCHANGED <<typedA, arrivedA, sentA>>
    BY DEF StepOfB, varsA
  <2>a. /\ typedB \in Seq(Message) /\ sentB \in Seq(Message)
        /\ arrivedB \in Seq(Message)
        /\ bufferB["sender"] \in Message
    BY DEF ChatInv, AtB!PeerInv, AtB!PeerTypeOK, AtB!Taker
  <2>2. \A m : Said(typedB, m) => Said(typedB', m)
    <3>1. typedB' = typedB \/ \E m \in Message : typedB' = Append(typedB, m)
      BY ChatAssumption DEF StepOfB, B!Type, B!Arrive, B!Inner, B!Send, B!Close,
         B!TakeNothing, B!Take, B!Fill, B!SendFails, B!Show, B!ShowNothing
    <3>2. \A m \in Message : \A x :
            Said(Append(typedB, m), x) <=> Said(typedB, x) \/ x = m
      BY <2>a, SaidMore
    <3>3. CASE typedB' = typedB
      BY <3>3
    <3>4. ASSUME NEW m \in Message, typedB' = Append(typedB, m)
          PROVE  \A x : Said(typedB, x) => Said(typedB', x)
      BY <3>2, <3>4
    <3>. QED  BY <3>1, <3>3, <3>4
  <2>3. \A m : Said(sentB, m) => Said(sentB', m)
    <3>1. sentB' = sentB \/ sentB' = Append(sentB, bufferB["sender"])
      BY DEF StepOfB, B!Type, B!Arrive, B!Inner, B!Send, B!Close,
         B!TakeNothing, B!Take, B!Fill, B!SendFails, B!Show, B!ShowNothing
    <3>2. \A m \in Message : \A x :
            Said(Append(sentB, m), x) <=> Said(sentB, x) \/ x = m
      BY <2>a, SaidMore
    <3>. QED  BY <2>a, <3>1, <3>2
  <2>4. \A m : Said(arrivedB', m) => Said(arrivedB, m) \/ Said(sentA, m)
    <3>1. \/ arrivedB' = arrivedB
          \/ \E m \in Message : Said(sentA, m) /\ arrivedB' = Append(arrivedB, m)
      BY ChatAssumption DEF StepOfB, B!Type, B!Arrive, B!Inner, B!Send, B!Close,
         B!TakeNothing, B!Take, B!Fill, B!SendFails, B!Show, B!ShowNothing
    <3>2. \A m \in Message : \A x :
            Said(Append(arrivedB, m), x) <=> Said(arrivedB, x) \/ x = m
      BY <2>a, SaidMore
    <3>3. CASE arrivedB' = arrivedB
      BY <3>3
    <3>4. ASSUME NEW m \in Message, Said(sentA, m), arrivedB' = Append(arrivedB, m)
          PROVE  \A x : Said(arrivedB', x) => Said(arrivedB, x) \/ Said(sentA, x)
      BY <3>2, <3>4
    <3>. QED  BY <3>1, <3>3, <3>4
  <2>5. \A m : Rooted(m) => Rooted(m)'
    BY <2>1, <2>2 DEF Rooted
  <2>6. ASSUME NEW m, Said(arrivedB', m)
        PROVE  Said(sentA', m) /\ Rooted(m)'
    BY <2>1, <2>4, <2>5, <2>6, SentByAIsRooted DEF ChatInv, Delivered
  <2>7. ASSUME NEW m, Said(arrivedA', m)
        PROVE  Said(sentB', m) /\ Rooted(m)'
    BY <2>1, <2>3, <2>5, <2>7 DEF ChatInv, Delivered
  <2>. QED  BY <2>6, <2>7 DEF Delivered
<1>. QED  BY <1>2, <1>3, <1>4 DEF ChatInv

LEMMA ChatKeeps ==
  ASSUME ChatInv, [Next]_vars
  PROVE  ChatInv'
<1>1. CASE UNCHANGED vars
  <2>1. UNCHANGED AtA!peerVars /\ UNCHANGED AtB!peerVars
    BY <1>1 DEF vars, varsA, varsB, AtA!peerVars, AtB!peerVars
  <2>2. AtA!PeerInv' /\ AtB!PeerInv'
    BY <2>1, TextsHold, AtA!PeerKeeps, AtB!PeerKeeps DEF ChatInv
  <2>3. Delivered'
    BY <1>1 DEF ChatInv, Delivered, Rooted, vars, varsA, varsB
  <2>. QED  BY <2>2, <2>3 DEF ChatInv
<1>. QED  BY <1>1, StepOfAKeeps, StepOfBKeeps DEF Next

LEMMA ChatIsSound == Spec => []ChatInv
<1>1. ChatInv /\ [Next]_vars => ChatInv'
  BY ChatKeeps
<1>. QED  BY <1>1, ChatStarts, PTL DEF Spec

\* Two processes shut down only because a user typed "!", and the one whose
\* user has not only after the other one sent it, however many datagrams are
\* lost, repeated or late (UDPsockets.c:33-40, 151-163, 228-240).
THEOREM NobodyShutsDownUnasked == Spec => []ClosingWasAsked
<1>1. ASSUME ChatInv
      PROVE  ClosingWasAsked
  <2>1. Bang \notin {Junk, Blank}
    BY ChatAssumption
  <2>2. closingA => Said(typedA, Bang) \/ Said(arrivedA, Bang)
    BY <1>1 DEF ChatInv, AtA!PeerInv, AtA!AllCameIn, AtA!CameIn, AtA!Occurs, Said
  <2>3. closingB => Said(typedB, Bang) \/ Said(arrivedB, Bang)
    BY <1>1 DEF ChatInv, AtB!PeerInv, AtB!AllCameIn, AtB!CameIn, AtB!Occurs, Said
  <2>. QED
    BY <1>1, <2>1, <2>2, <2>3 DEF ChatInv, Delivered, Rooted, ClosingWasAsked
<1>. QED  BY <1>1, ChatIsSound, PTL

\* No screen shows a line that neither user has typed, nor a "!"
\* (UDPsockets.c:86-106).
THEOREM NothingIsMadeUp == Spec => []ShownWasTyped
<1>1. ASSUME ChatInv
      PROVE  ShownWasTyped
  <2>1. ASSUME NEW i \in DOMAIN shownA
        PROVE  shownA[i] # Bang /\ Rooted(shownA[i])
    BY <1>1 DEF ChatInv, AtA!PeerInv, AtA!AllCameIn, AtA!Known, AtA!CameIn,
           AtA!Occurs, Said, Delivered, Rooted
  <2>2. ASSUME NEW i \in DOMAIN shownB
        PROVE  shownB[i] # Bang /\ Rooted(shownB[i])
    BY <1>1 DEF ChatInv, AtB!PeerInv, AtB!AllCameIn, AtB!Known, AtB!CameIn,
           AtB!Occurs, Said, Delivered, Rooted
  <2>. QED  BY <2>1, <2>2 DEF Rooted, ShownWasTyped, Written
<1>. QED  BY <1>1, ChatIsSound, PTL
=============================================================================
