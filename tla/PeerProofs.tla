----------------------------- MODULE PeerProofs -----------------------------
(***************************************************************************)
(* What one process does to messages, for every value of the constants:    *)
(* the part of the argument of ChatProofs that is about a single process.  *)
(***************************************************************************)
EXTENDS Peer, FiniteSetTheorems, TLAPS

\* What Peer is used with: see STalk and Chat.
Texts ==
  /\ {Bang, RawBang, Junk, Blank} \subseteq Message
  /\ Line \subseteq Message /\ Datagram \subseteq Message
  /\ RawBang \notin Line \union Datagram
  /\ Bang \notin {Junk, Blank}
  /\ Reads = [m \in Message |-> IF m = RawBang THEN {Bang, Junk} ELSE {m}]

Occurs(s, m) == \E i \in DOMAIN s : s[i] = m

\* What has come in; and what a buffer may hold: this, an empty text, or bytes
\* nobody wrote.
CameIn(m) == Occurs(typed, m) \/ Occurs(arrived, m)
Known(m)  == m \in {Junk, Blank} \/ CameIn(m)

PeerTypeOK ==
  /\ inside \in [Message -> Nat]
  /\ buffer \in [Taker -> Message]
  /\ full \in [Taker -> BOOLEAN]
  /\ typed \in Seq(Message) /\ arrived \in Seq(Message)
  /\ sent \in Seq(Message) /\ shown \in Seq(Message)

\* Everything in the process came into it, but for the bare escape characters
\* that follow a "!" which did.
AllCameIn ==
  /\ \A m \in Message :
       inside[m] > 0 => IF m = RawBang THEN CameIn(Bang) ELSE Known(m)
  /\ \A t \in Taker : Known(buffer[t])
  /\ \A i \in DOMAIN sent : Known(sent[i])
  /\ \A i \in DOMAIN shown : Known(shown[i]) /\ shown[i] # Bang
  /\ closing => CameIn(Bang)

PeerInv == PeerTypeOK /\ AllCameIn

LEMMA Appended ==
  ASSUME NEW S, NEW s \in Seq(S), NEW m \in S
  PROVE  /\ Append(s, m) \in Seq(S)
         /\ \A x : Occurs(Append(s, m), x) <=> Occurs(s, x) \/ x = m
<1>1. Append(s, m) \in Seq(S)
  OBVIOUS
<1>2. /\ DOMAIN Append(s, m) = 1 .. Len(s) + 1
      /\ DOMAIN s = 1 .. Len(s)
      /\ Append(s, m)[Len(s) + 1] = m
      /\ \A i \in 1 .. Len(s) : Append(s, m)[i] = s[i]
      /\ Len(s) \in Nat
  OBVIOUS
<1>3. ASSUME NEW x
      PROVE  Occurs(Append(s, m), x) <=> Occurs(s, x) \/ x = m
  BY <1>2 DEF Occurs
<1>. QED  BY <1>1, <1>3

LEMMA PeerStarts ==
  ASSUME Texts, PeerInit
  PROVE  PeerInv
BY DEF Texts, PeerInit, PeerInv, PeerTypeOK, AllCameIn, Known, CameIn, Occurs,
       Taker

\* Every message of a longer sequence is still known.
LEMMA KnownStays ==
  ASSUME typed \in Seq(Message), arrived \in Seq(Message),
         \A x : Occurs(typed, x) => Occurs(typed', x),
         \A x : Occurs(arrived, x) => Occurs(arrived', x)
  PROVE  \A x : (CameIn(x) => CameIn(x)') /\ (Known(x) => Known(x)')
BY DEF CameIn, Known

\* A message comes in: the keyboard's or the network's.
LEMMA EnteringKeeps ==
  ASSUME Texts, PeerInv, NEW m \in Line \union Datagram, Type(m) \/ Arrive(m)
  PROVE  PeerInv'
<1>. m \in Message /\ m # RawBang
  BY DEF Texts
<1>1. /\ inside' = [inside EXCEPT ![m] = @ + 1]
      /\ UNCHANGED <<buffer, full, closing, sent, shown>>
      /\ \/ typed' = Append(typed, m) /\ arrived' = arrived
         \/ arrived' = Append(arrived, m) /\ typed' = typed
  BY DEF Type, Arrive, ComesIn
<1>a. typed \in Seq(Message) /\ arrived \in Seq(Message)
  BY DEF PeerInv, PeerTypeOK
<1>b. /\ Append(typed, m) \in Seq(Message)
      /\ \A x : Occurs(Append(typed, m), x) <=> Occurs(typed, x) \/ x = m
  BY <1>a, Appended
<1>c. /\ Append(arrived, m) \in Seq(Message)
      /\ \A x : Occurs(Append(arrived, m), x) <=> Occurs(arrived, x) \/ x = m
  BY <1>a, Appended
<1>2. PeerTypeOK'
  <2>1. typed' \in Seq(Message) /\ arrived' \in Seq(Message)
    BY <1>1, <1>a, <1>b, <1>c
  <2>2. inside' \in [Message -> Nat]
    BY <1>1 DEF PeerInv, PeerTypeOK
  <2>. QED  BY <1>1, <2>1, <2>2 DEF PeerInv, PeerTypeOK
<1>3. \A x : /\ Occurs(typed, x) => Occurs(typed', x)
             /\ Occurs(arrived, x) => Occurs(arrived', x)
             /\ x = m => CameIn(x)'
  BY <1>1, <1>b, <1>c DEF CameIn
<1>4. \A x : (CameIn(x) => CameIn(x)') /\ (Known(x) => Known(x)')
  BY <1>3, KnownStays DEF PeerInv, PeerTypeOK
<1>5. \A x \in Message : x # m => inside'[x] = inside[x]
  BY <1>1 DEF PeerInv, PeerTypeOK
<1>6. AllCameIn'
  <2>1. ASSUME NEW x \in Message, inside'[x] > 0
        PROVE  IF x = RawBang THEN CameIn(Bang)' ELSE Known(x)'
    BY <2>1, <1>3, <1>4, <1>5 DEF PeerInv, AllCameIn, Known
  <2>2. (\A t \in Taker : Known(buffer[t]))'
    BY <1>1, <1>4 DEF PeerInv, AllCameIn
  <2>3. (\A i \in DOMAIN sent : Known(sent[i]))'
    BY <1>1, <1>4 DEF PeerInv, AllCameIn
  <2>4. (\A i \in DOMAIN shown : Known(shown[i]) /\ shown[i] # Bang)'
    BY <1>1, <1>4 DEF PeerInv, AllCameIn
  <2>5. (closing => CameIn(Bang))'
    BY <1>1, <1>4 DEF PeerInv, AllCameIn
  <2>. QED  BY <2>1, <2>2, <2>3, <2>4, <2>5 DEF AllCameIn
<1>. QED  BY <1>2, <1>6 DEF PeerInv

\* The thread that has seen "!" is right to shut down.
LEMMA ClosingKeeps ==
  ASSUME Texts, PeerInv, Close
  PROVE  PeerInv'
<1>1. UNCHANGED <<buffer, full, typed, arrived, sent, shown>>
      /\ inside' = [inside EXCEPT ![RawBang] = @ + 1]
  BY DEF Close, ComesIn
<1>2. CameIn(Bang)
  <2>1. CASE buffer["sender"] = Bang
    <3>1. Known(Bang)
      BY <2>1 DEF PeerInv, AllCameIn, Taker
    <3>. QED  BY <3>1 DEF Known, Texts
  <2>2. CASE buffer["sender"] # Bang
    BY <2>2 DEF Close, SeenBang, CameIn, Occurs
  <2>. QED  BY <2>1, <2>2
<1>3. \A x \in Message : x # RawBang => inside'[x] = inside[x]
  BY <1>1 DEF PeerInv, PeerTypeOK
<1>4. PeerTypeOK'
  BY <1>1 DEF PeerInv, PeerTypeOK, Texts
<1>5. \A x : CameIn(x)' = CameIn(x) /\ Known(x)' = Known(x)
  BY <1>1 DEF CameIn, Known
<1>6. AllCameIn'
  BY <1>1, <1>2, <1>3, <1>5 DEF PeerInv, AllCameIn
<1>. QED  BY <1>4, <1>6 DEF PeerInv

\* What a buffer can be filled with is known.
LEMMA TakingKeeps ==
  ASSUME Texts, PeerInv, NEW t \in Taker,
         TakeNothing(t) \/ \E m \in Message : Take(t, m)
  PROVE  PeerInv'
<1>1. /\ UNCHANGED <<closing, typed, arrived, sent, shown>>
      /\ full' = [full EXCEPT ![t] = TRUE]
  BY DEF TakeNothing, Take, Fill
<1>2. /\ inside' \in [Message -> Nat]
      /\ \A x \in Message : inside'[x] > 0 => inside[x] > 0
  <2>1. CASE inside' = inside
    BY <2>1 DEF PeerInv, PeerTypeOK
  <2>2. ASSUME NEW m \in Message, Take(t, m)
        PROVE  /\ inside' \in [Message -> Nat]
               /\ \A x \in Message : inside'[x] > 0 => inside[x] > 0
    <3>1. inside[m] > 0 /\ inside' = [inside EXCEPT ![m] = @ - 1]
      BY <2>2 DEF Take
    <3>. QED  BY <3>1 DEF PeerInv, PeerTypeOK
  <2>. QED  BY <2>1, <2>2 DEF TakeNothing
<1>3. \E text \in Message : Known(text) /\ buffer' = [buffer EXCEPT ![t] = text]
  <2>1. CASE TakeNothing(t)
    BY <2>1 DEF TakeNothing, Fill, PeerInv, PeerTypeOK, AllCameIn
  <2>2. ASSUME NEW m \in Message, Take(t, m)
        PROVE  \E text \in Message :
                 Known(text) /\ buffer' = [buffer EXCEPT ![t] = text]
    <3>1. PICK text \in Reads[m] : buffer' = [buffer EXCEPT ![t] = text]
      BY <2>2 DEF Take, Fill
    <3>2. inside[m] > 0
      BY <2>2 DEF Take
    <3>3. CASE m = RawBang
      <4>1. text \in {Bang, Junk}
        BY <3>1, <3>3 DEF Texts
      <4>2. CameIn(Bang)
        BY <3>2, <3>3 DEF PeerInv, AllCameIn
      <4>3. text \in Message /\ Known(text)
        BY <4>1, <4>2 DEF Known, Texts
      <4>. QED  BY <3>1, <4>3
    <3>4. CASE m # RawBang
      <4>1. text = m
        BY <3>1, <3>4 DEF Texts
      <4>2. Known(m)
        BY <3>2, <3>4 DEF PeerInv, AllCameIn
      <4>. QED  BY <3>1, <4>1, <4>2
    <3>. QED  BY <3>3, <3>4
  <2>. QED  BY <2>1, <2>2
<1>4. PeerTypeOK'
  BY <1>1, <1>2, <1>3 DEF PeerInv, PeerTypeOK
<1>5. \A x : CameIn(x)' = CameIn(x) /\ Known(x)' = Known(x)
  BY <1>1 DEF CameIn, Known
<1>6. \A u \in Taker : Known(buffer'[u])
  BY <1>3 DEF PeerInv, PeerTypeOK, AllCameIn
<1>7. AllCameIn'
  BY <1>1, <1>2, <1>5, <1>6 DEF PeerInv, AllCameIn
<1>. QED  BY <1>4, <1>7 DEF PeerInv

\* What a buffer holds is sent or shown.
LEMMA EmptyingKeeps ==
  ASSUME Texts, PeerInv, Send \/ SendFails \/ Show \/ ShowNothing
  PROVE  PeerInv'
<1>1. /\ UNCHANGED <<inside, closing, typed, arrived>>
      /\ full' \in [Taker -> BOOLEAN]
      /\ buffer' = buffer \/ buffer' = [buffer EXCEPT !["display"] = Blank]
  BY DEF Send, SendFails, Show, ShowNothing, Emptied, PeerInv, PeerTypeOK
<1>2. \A u \in Taker : buffer[u] \in Message /\ Known(buffer[u])
  BY DEF PeerInv, PeerTypeOK, AllCameIn
<1>3. sent' \in Seq(Message) /\ \A i \in DOMAIN sent' : Known(sent'[i])
  <2>1. CASE sent' = sent
    BY <2>1 DEF PeerInv, PeerTypeOK, AllCameIn
  <2>2. CASE sent' = Append(sent, buffer["sender"])
    <3>1. buffer["sender"] \in Message /\ Known(buffer["sender"])
      BY <1>2 DEF Taker
    <3>2. /\ sent' \in Seq(Message)
          /\ \A x : Occurs(sent', x) => Occurs(sent, x) \/ x = buffer["sender"]
      BY <2>2, <3>1, Appended DEF PeerInv, PeerTypeOK
    <3>. QED  BY <3>1, <3>2 DEF PeerInv, AllCameIn, Occurs
  <2>. QED  BY <2>1, <2>2 DEF Send, SendFails, Show, ShowNothing
<1>4. /\ shown' \in Seq(Message)
      /\ \A i \in DOMAIN shown' : Known(shown'[i]) /\ shown'[i] # Bang
  <2>1. CASE shown' = shown
    BY <2>1 DEF PeerInv, PeerTypeOK, AllCameIn
  <2>2. CASE Show
    <3>1. /\ buffer["display"] \in Message /\ Known(buffer["display"])
          /\ buffer["display"] # Bang
      BY <1>2, <2>2 DEF Taker, Show
    <3>2. /\ shown' \in Seq(Message)
          /\ \A x : Occurs(shown', x) => Occurs(shown, x) \/ x = buffer["display"]
      BY <2>2, <3>1, Appended DEF PeerInv, PeerTypeOK, Show
    <3>. QED  BY <3>1, <3>2 DEF PeerInv, AllCameIn, Occurs
  <2>. QED  BY <2>1, <2>2 DEF Send, SendFails, ShowNothing
<1>5. PeerTypeOK'
  BY <1>1, <1>3, <1>4 DEF PeerInv, PeerTypeOK, Texts, Taker
<1>6. \A x : CameIn(x)' = CameIn(x) /\ Known(x)' = Known(x)
  BY <1>1 DEF CameIn, Known
<1>7. \A u \in Taker : Known(buffer'[u])
  BY <1>1, <1>2 DEF Known, PeerInv, PeerTypeOK
<1>8. AllCameIn'
  BY <1>1, <1>3, <1>4, <1>6, <1>7 DEF PeerInv, AllCameIn
<1>. QED  BY <1>5, <1>8 DEF PeerInv

LEMMA PeerKeeps ==
  ASSUME Texts, PeerInv, [PeerNext]_peerVars
  PROVE  PeerInv'
<1>1. CASE UNCHANGED peerVars
  BY <1>1 DEF peerVars, PeerInv, PeerTypeOK, AllCameIn, Known, CameIn
<1>2. ASSUME NEW m \in Line \union Datagram, Type(m) \/ Arrive(m)
      PROVE  PeerInv'
  BY <1>2, EnteringKeeps DEF Texts
<1>3. CASE Inner \/ Send
  BY <1>3, ClosingKeeps, TakingKeeps, EmptyingKeeps DEF Inner
<1>. QED  BY <1>1, <1>2, <1>3 DEF PeerNext

\* A process sends and shows nothing but what came into it, empty buffers and
\* bytes nobody wrote, never shows "!", and shuts down only after a "!" came in.
THEOREM PeerMakesNothingUp ==
  ASSUME Texts
  PROVE  PeerSpec => []PeerInv
<1>1. PeerInit => PeerInv
  BY PeerStarts
<1>2. PeerInv /\ [PeerNext]_peerVars => PeerInv'
  BY PeerKeeps
<1>. QED  BY <1>1, <1>2, PTL DEF PeerSpec
-----------------------------------------------------------------------------
(* How often a message is passed on.                                       *)

\* How often m is in s, and how often a row of m begins in s.
Times(s, m) == Cardinality({i \in DOMAIN s : s[i] = m})
Turns(s, m) ==
  Cardinality({i \in DOMAIN s : s[i] = m /\ (i = 1 \/ s[i - 1] # m)})

One(b) == IF b THEN 1 ELSE 0

\* The next m in s begins a new row.
NewTurn(s, m) == s = <<>> \/ s[Len(s)] # m

LEMMA PositionsAreFinite ==
  ASSUME NEW S, NEW s \in Seq(S), NEW P \in SUBSET (DOMAIN s)
  PROVE  IsFiniteSet(P) /\ Cardinality(P) \in Nat
<1>1. DOMAIN s = 1 .. Len(s) /\ Len(s) \in Nat
  OBVIOUS
<1>2. IsFiniteSet(1 .. Len(s))
  BY <1>1, FS_Interval
<1>3. IsFiniteSet(P)
  BY <1>1, <1>2, FS_Subset
<1>. QED  BY <1>3, FS_CardinalityType

\* A set of positions of s after one more element: with the new one or without.
LEMMA OnePositionMore ==
  ASSUME NEW S, NEW s \in Seq(S), NEW P \in SUBSET (DOMAIN s), NEW Q, NEW new \in BOOLEAN,
         \A i : i \in Q <=> i \in P \/ (new /\ i = Len(s) + 1)
  PROVE  Cardinality(Q) = Cardinality(P) + One(new)
<1>1. IsFiniteSet(P) /\ Cardinality(P) \in Nat
  BY PositionsAreFinite
<1>2. Len(s) + 1 \notin P
  OBVIOUS
<1>3. CASE new
  <2>1. Q = P \union {Len(s) + 1}
    BY <1>3
  <2>. QED  BY <1>1, <1>2, <1>3, <2>1, FS_AddElement DEF One
<1>4. CASE ~new
  <2>1. Q = P
    BY <1>4
  <2>. QED  BY <1>1, <1>4, <2>1 DEF One
<1>. QED  BY <1>3, <1>4

LEMMA TimesAppended ==
  ASSUME NEW S, NEW s \in Seq(S), NEW e \in S, NEW m
  PROVE  /\ Times(s, m) \in Nat
         /\ Times(Append(s, e), m) = Times(s, m) + One(e = m)
<1>. DEFINE P == {i \in DOMAIN s : s[i] = m}
            Q == {i \in DOMAIN Append(s, e) : Append(s, e)[i] = m}
            new == e = m
<1>1. /\ DOMAIN Append(s, e) = 1 .. Len(s) + 1
      /\ DOMAIN s = 1 .. Len(s)
      /\ Append(s, e)[Len(s) + 1] = e
      /\ \A i \in 1 .. Len(s) : Append(s, e)[i] = s[i]
      /\ Len(s) \in Nat
  OBVIOUS
<1>2. \A i : i \in Q <=> i \in P \/ (new /\ i = Len(s) + 1)
  BY <1>1
<1>3. P \in SUBSET (DOMAIN s) /\ new \in BOOLEAN
  OBVIOUS
<1>. HIDE DEF P, Q, new
<1>4. Cardinality(Q) = Cardinality(P) + One(new) /\ Cardinality(P) \in Nat
  BY <1>2, <1>3, OnePositionMore, PositionsAreFinite
<1>. QED  BY <1>4 DEF Times, P, Q, new

LEMMA TurnsAppended ==
  ASSUME NEW S, NEW s \in Seq(S), NEW e \in S, NEW m
  PROVE  /\ Turns(s, m) \in Nat
         /\ Turns(Append(s, e), m) = Turns(s, m) + One(e = m /\ NewTurn(s, m))
         /\ NewTurn(Append(s, e), m) <=> e # m
<1>. DEFINE t == Append(s, e)
            P == {i \in DOMAIN s : s[i] = m /\ (i = 1 \/ s[i - 1] # m)}
            Q == {i \in DOMAIN t : t[i] = m /\ (i = 1 \/ t[i - 1] # m)}
            new == e = m /\ NewTurn(s, m)
<1>1. /\ DOMAIN t = 1 .. Len(s) + 1
      /\ DOMAIN s = 1 .. Len(s)
      /\ t[Len(s) + 1] = e /\ t # <<>> /\ Len(t) = Len(s) + 1
      /\ \A i \in 1 .. Len(s) : t[i] = s[i]
      /\ Len(s) \in Nat
      /\ s = <<>> <=> Len(s) = 0
  OBVIOUS
<1>2. P \in SUBSET (DOMAIN s) /\ new \in BOOLEAN
  BY DEF NewTurn
<1>3. \A i \in DOMAIN s : i \in P <=> i \in Q
  <2>. TAKE i \in DOMAIN s
  <2>1. t[i] = s[i] /\ i \in DOMAIN t /\ (i # 1 => t[i - 1] = s[i - 1])
    BY <1>1
  <2>. QED  BY <2>1
<1>4. Len(s) + 1 \in Q <=> new
  <2>. DEFINE n == Len(s) + 1
  <2>1. n \in DOMAIN t /\ t[n] = e /\ (n # 1 => t[n - 1] = s[Len(s)])
    <3>1. n - 1 = Len(s) /\ n \in 1 .. Len(s) + 1
      BY <1>1
    <3>2. n # 1 => Len(s) \in 1 .. Len(s)
      BY <1>1
    <3>. HIDE DEF n, t
    <3>3. n # 1 => t[Len(s)] = s[Len(s)]
      BY <1>1, <3>2
    <3>. QED  BY <1>1, <3>1, <3>3 DEF n
  <2>2. n = 1 <=> s = <<>>
    BY <1>1
  <2>. QED  BY <2>1, <2>2 DEF NewTurn
<1>5. \A i : i \in Q => i \in DOMAIN t
  OBVIOUS
<1>6. \A i : i \in Q <=> i \in P \/ (new /\ i = Len(s) + 1)
  <2>. HIDE DEF P, Q, new, t
  <2>. QED  BY <1>1, <1>2, <1>3, <1>4, <1>5
<1>7. NewTurn(t, m) <=> e # m
  <2>. HIDE DEF t
  <2>. QED  BY <1>1 DEF NewTurn
<1>. HIDE DEF P, Q, new, t
<1>8. Cardinality(Q) = Cardinality(P) + One(new) /\ Cardinality(P) \in Nat
  BY <1>2, <1>6, OnePositionMore, PositionsAreFinite
<1>. QED  BY <1>7, <1>8 DEF Turns, P, Q, new, t
\* The messages that are no escape characters and that somebody wrote.
Written == Message \ {Bang, RawBang, Junk, Blank}

\* Where copies of m are that the sender has still to send for the first time
\* in a row, and the display to show.
Owed(m) == One(buffer["sender"] = m /\ NewTurn(sent, m))
Held(m) == One(buffer["display"] = m)

\* Every copy of m that came in is in one place, or gone.
CopiesOf(m) ==
  Times(shown, m) + Turns(sent, m) + inside[m] + Owed(m) + Held(m)

NoCopies ==
  \A m \in Written : CopiesOf(m) <= Times(typed, m) + Times(arrived, m)

\* What is shown or sent goes one way, and once but for rows of repetitions.
GoesOneWay ==
  \A m \in Written :
    Times(shown, m) + Turns(sent, m) <= Times(typed, m) + Times(arrived, m)

\* The numbers in it are numbers.
LEMMA CountsAreNumbers ==
  ASSUME PeerTypeOK, NEW m \in Message
  PROVE  /\ Times(shown, m) \in Nat /\ Turns(sent, m) \in Nat
         /\ Times(typed, m) \in Nat /\ Times(arrived, m) \in Nat
         /\ inside[m] \in Nat /\ Owed(m) \in 0 .. 1 /\ Held(m) \in 0 .. 1
BY TimesAppended, TurnsAppended DEF PeerTypeOK, Owed, Held, One

LEMMA EnteringCounts ==
  ASSUME Texts, PeerTypeOK, NEW m \in Written, NEW e \in Message,
         Type(e) \/ Arrive(e)
  PROVE  /\ CopiesOf(m)' = CopiesOf(m) + One(e = m)
         /\ (Times(typed, m) + Times(arrived, m))'
              = Times(typed, m) + Times(arrived, m) + One(e = m)
<1>1. /\ inside' = [inside EXCEPT ![e] = @ + 1]
      /\ UNCHANGED <<buffer, sent, shown>>
      /\ \/ typed' = Append(typed, e) /\ arrived' = arrived
         \/ arrived' = Append(arrived, e) /\ typed' = typed
  BY DEF Type, Arrive, ComesIn
<1>2. m \in Message /\ inside[m] \in Nat /\ inside'[m] = inside[m] + One(e = m)
  BY <1>1 DEF Written, PeerTypeOK, One
<1>3. /\ Times(typed, m) \in Nat /\ Times(arrived, m) \in Nat
      /\ Times(Append(typed, e), m) = Times(typed, m) + One(e = m)
      /\ Times(Append(arrived, e), m) = Times(arrived, m) + One(e = m)
  BY TimesAppended DEF PeerTypeOK
<1>4. One(e = m) \in Nat
  BY DEF One
<1>5. /\ Times(shown, m)' = Times(shown, m) /\ Turns(sent, m)' = Turns(sent, m)
      /\ Owed(m)' = Owed(m) /\ Held(m)' = Held(m)
  BY <1>1 DEF Times, Turns, Owed, Held, NewTurn
<1>6. /\ Times(shown, m) \in Nat /\ Turns(sent, m) \in Nat
      /\ Owed(m) \in 0 .. 1 /\ Held(m) \in 0 .. 1
  BY <1>2, CountsAreNumbers
<1>7. CopiesOf(m)' = CopiesOf(m) + One(e = m)
  BY <1>2, <1>4, <1>5, <1>6 DEF CopiesOf
<1>8. \/ Times(typed, m)' = Times(typed, m) + One(e = m)
           /\ Times(arrived, m)' = Times(arrived, m)
      \/ Times(arrived, m)' = Times(arrived, m) + One(e = m)
           /\ Times(typed, m)' = Times(typed, m)
  BY <1>1, <1>3 DEF Times
<1>. QED  BY <1>3, <1>4, <1>7, <1>8

\* The other steps bring in no copy.
LEMMA InsideMakesNoCopies ==
  ASSUME Texts, PeerTypeOK, NEW m \in Written, Inner \/ Send
  PROVE  /\ CopiesOf(m)' \in Int /\ CopiesOf(m)' <= CopiesOf(m)
         /\ UNCHANGED <<typed, arrived>>
<1>. USE DEF Taker
<1>. m \in Message /\ m \notin {Bang, RawBang, Junk, Blank}
  BY DEF Written
<1>1. /\ Times(shown, m) \in Nat /\ Turns(sent, m) \in Nat /\ inside[m] \in Nat
      /\ Owed(m) \in 0 .. 1 /\ Held(m) \in 0 .. 1
  BY CountsAreNumbers
<1>2. ASSUME UNCHANGED <<sent, shown>>,
             inside'[m] \in Nat,
             inside'[m] + Owed(m)' + Held(m)' <= inside[m] + Owed(m) + Held(m),
             Owed(m)' \in 0 .. 1, Held(m)' \in 0 .. 1
      PROVE  CopiesOf(m)' \in Int /\ CopiesOf(m)' <= CopiesOf(m)
  <2>1. Times(shown, m)' = Times(shown, m) /\ Turns(sent, m)' = Turns(sent, m)
    BY <1>2 DEF Times, Turns
  <2>. QED  BY <1>1, <1>2, <2>1 DEF CopiesOf
<1>3. CASE Close
  <2>1. inside'[m] = inside[m] /\ UNCHANGED <<buffer, sent, shown, typed, arrived>>
    BY <1>3 DEF Close, ComesIn, PeerTypeOK
  <2>2. Owed(m)' = Owed(m) /\ Held(m)' = Held(m)
    BY <2>1 DEF Owed, Held, NewTurn
  <2>. QED  BY <1>1, <1>2, <2>1, <2>2
<1>4. ASSUME NEW t \in Taker, TakeNothing(t)
      PROVE  /\ CopiesOf(m)' \in Int /\ CopiesOf(m)' <= CopiesOf(m)
             /\ UNCHANGED <<typed, arrived>>
  <2>1. buffer' = buffer /\ UNCHANGED <<inside, sent, shown, typed, arrived>>
    BY <1>4 DEF TakeNothing, Fill, PeerTypeOK
  <2>2. Owed(m)' = Owed(m) /\ Held(m)' = Held(m)
    BY <2>1 DEF Owed, Held, NewTurn
  <2>. QED  BY <1>1, <1>2, <2>1, <2>2
<1>5. ASSUME NEW t \in Taker, NEW e \in Message, Take(t, e)
      PROVE  /\ CopiesOf(m)' \in Int /\ CopiesOf(m)' <= CopiesOf(m)
             /\ UNCHANGED <<typed, arrived>>
  <2>1. /\ UNCHANGED <<sent, shown, typed, arrived>>
        /\ inside[e] > 0 /\ inside' = [inside EXCEPT ![e] = @ - 1]
    BY <1>5 DEF Take, Fill
  <2>2. PICK text \in Reads[e] : buffer' = [buffer EXCEPT ![t] = text]
    BY <1>5 DEF Take, Fill
  <2>3. text = m => e = m
    BY <2>2 DEF Texts
  <2>4. /\ inside'[m] = inside[m] - One(e = m)
        /\ inside'[m] \in Nat
    BY <1>1, <2>1 DEF PeerTypeOK, One
  <2>5. CASE t = "sender"
    <3>1. buffer'["display"] = buffer["display"] /\ buffer'["sender"] = text
      BY <2>2, <2>5 DEF PeerTypeOK
    <3>2. Held(m)' = Held(m)
      BY <3>1 DEF Held
    <3>3. Owed(m)' <= One(e = m) /\ Owed(m)' \in 0 .. 1
      BY <2>3, <3>1 DEF Owed, One
    <3>. QED  BY <1>1, <1>2, <2>1, <2>4, <3>2, <3>3 DEF One
  <2>6. CASE t = "display"
    <3>1. buffer'["sender"] = buffer["sender"] /\ buffer'["display"] = text
      BY <2>2, <2>6 DEF PeerTypeOK
    <3>2. Owed(m)' = Owed(m)
      BY <2>1, <3>1 DEF Owed, NewTurn
    <3>3. Held(m)' <= One(e = m) /\ Held(m)' \in 0 .. 1
      BY <2>3, <3>1 DEF Held, One
    <3>. QED  BY <1>1, <1>2, <2>1, <2>4, <3>2, <3>3 DEF One
  <2>. QED  BY <2>5, <2>6
<1>6. CASE SendFails \/ ShowNothing
  <2>1. UNCHANGED <<inside, buffer, sent, shown, typed, arrived>>
    BY <1>6 DEF SendFails, ShowNothing
  <2>2. Owed(m)' = Owed(m) /\ Held(m)' = Held(m)
    BY <2>1 DEF Owed, Held, NewTurn
  <2>. QED  BY <1>1, <1>2, <2>1, <2>2
<1>7. CASE Show
  <2>. DEFINE e == buffer["display"]
  <2>1. /\ UNCHANGED <<inside, sent, typed, arrived>>
        /\ shown' = Append(shown, e)
        /\ buffer'["sender"] = buffer["sender"] /\ buffer'["display"] = Blank
    BY <1>7 DEF Show, PeerTypeOK
  <2>2. Times(shown, m)' = Times(shown, m) + One(e = m)
    <3>1. shown \in Seq(Message) /\ e \in Message
      BY DEF PeerTypeOK
    <3>2. Times(Append(shown, e), m) = Times(shown, m) + One(e = m)
      BY <3>1, TimesAppended
    <3>. QED  BY <2>1, <3>2 DEF Times
  <2>3. /\ Turns(sent, m)' = Turns(sent, m) /\ Owed(m)' = Owed(m)
        /\ inside'[m] = inside[m]
    BY <2>1 DEF Turns, Owed, NewTurn
  <2>4. Held(m)' = 0 /\ Held(m) = One(e = m)
    BY <2>1 DEF Held, One
  <2>. QED  BY <1>1, <2>1, <2>2, <2>3, <2>4 DEF CopiesOf
<1>8. CASE Send
  <2>. DEFINE e == buffer["sender"]
  <2>1. UNCHANGED <<inside, buffer, shown, typed, arrived>> /\ sent' = Append(sent, e)
    BY <1>8 DEF Send
  <2>2. /\ Turns(sent, m)' = Turns(sent, m) + Owed(m)
        /\ NewTurn(sent, m)' <=> e # m
    <3>1. sent \in Seq(Message) /\ e \in Message
      BY DEF PeerTypeOK
    <3>2. /\ Turns(Append(sent, e), m) = Turns(sent, m) + One(e = m /\ NewTurn(sent, m))
          /\ NewTurn(Append(sent, e), m) <=> e # m
      BY <3>1, TurnsAppended
    <3>3. Turns(sent, m)' = Turns(Append(sent, e), m)
      BY <2>1 DEF Turns
    <3>4. NewTurn(sent, m)' <=> NewTurn(Append(sent, e), m)
      BY <2>1 DEF NewTurn
    <3>. QED  BY <3>2, <3>3, <3>4 DEF Owed
  <2>3. Owed(m)' = 0
    BY <2>1, <2>2 DEF Owed, One
  <2>4. Times(shown, m)' = Times(shown, m) /\ Held(m)' = Held(m) /\ inside'[m] = inside[m]
    BY <2>1 DEF Times, Held
  <2>. QED  BY <1>1, <2>1, <2>2, <2>3, <2>4 DEF CopiesOf
<1>. QED  BY <1>3, <1>4, <1>5, <1>6, <1>7, <1>8 DEF Inner

LEMMA NoCopiesStarts ==
  ASSUME Texts, PeerInit
  PROVE  NoCopies
<1>1. ASSUME NEW m \in Written PROVE CopiesOf(m) = 0 /\ Times(typed, m) = 0 /\ Times(arrived, m) = 0
  <2>1. Times(<<>>, m) = 0 /\ Turns(<<>>, m) = 0
    BY FS_EmptySet DEF Times, Turns
  <2>2. m \in Message /\ m # Junk
    BY DEF Written
  <2>. QED
    BY <2>1, <2>2 DEF PeerInit, CopiesOf, Owed, Held, One, Taker
<1>. QED  BY <1>1 DEF NoCopies

LEMMA NoCopiesKeeps ==
  ASSUME Texts, PeerTypeOK, NoCopies, [PeerNext]_peerVars
  PROVE  NoCopies'
<1>. SUFFICES ASSUME NEW m \in Written
              PROVE  CopiesOf(m)' <= (Times(typed, m) + Times(arrived, m))'
  BY DEF NoCopies
<1>1. /\ Times(typed, m) \in Nat /\ Times(arrived, m) \in Nat
      /\ CopiesOf(m) \in Nat
      /\ CopiesOf(m) <= Times(typed, m) + Times(arrived, m)
  <2>1. m \in Message
    BY DEF Written
  <2>. QED  BY <2>1, CountsAreNumbers DEF NoCopies, CopiesOf
<1>2. CASE UNCHANGED peerVars
  BY <1>1, <1>2 DEF peerVars, CopiesOf, Times, Turns, Owed, Held, NewTurn
<1>3. ASSUME NEW e \in Line \union Datagram, Type(e) \/ Arrive(e)
      PROVE  CopiesOf(m)' <= (Times(typed, m) + Times(arrived, m))'
  <2>1. e \in Message /\ One(e = m) \in Nat
    BY DEF Texts, One
  <2>. QED  BY <1>1, <1>3, <2>1, EnteringCounts
<1>4. CASE Inner \/ Send
  <2>1. /\ CopiesOf(m)' \in Int /\ CopiesOf(m)' <= CopiesOf(m)
        /\ UNCHANGED <<typed, arrived>>
    BY <1>4, InsideMakesNoCopies
  <2>2. (Times(typed, m) + Times(arrived, m))' = Times(typed, m) + Times(arrived, m)
    BY <2>1 DEF Times
  <2>. QED  BY <1>1, <2>1, <2>2
<1>. QED  BY <1>2, <1>3, <1>4 DEF PeerNext

\* A message that comes in as bytes nobody wrote is no copy of anything.
LEMMA GarbledKeeps ==
  ASSUME Texts, PeerTypeOK, NoCopies, NEW msg \in Message,
         arrived' = Append(arrived, msg), ComesIn(Junk),
         UNCHANGED <<buffer, typed, sent, shown>>
  PROVE  NoCopies'
<1>. SUFFICES ASSUME NEW m \in Written
              PROVE  CopiesOf(m)' <= (Times(typed, m) + Times(arrived, m))'
  BY DEF NoCopies
<1>1. m \in Message /\ m # Junk
  BY DEF Written
<1>2. /\ Times(typed, m) \in Nat /\ Times(arrived, m) \in Nat
      /\ CopiesOf(m) \in Nat
      /\ CopiesOf(m) <= Times(typed, m) + Times(arrived, m)
  <2>1. /\ Times(shown, m) \in Nat /\ Turns(sent, m) \in Nat
        /\ Times(typed, m) \in Nat /\ Times(arrived, m) \in Nat
        /\ inside[m] \in Nat /\ Owed(m) \in 0 .. 1 /\ Held(m) \in 0 .. 1
    BY <1>1, CountsAreNumbers
  <2>2. CopiesOf(m) \in Nat
    BY <2>1 DEF CopiesOf
  <2>. QED  BY <2>1, <2>2 DEF NoCopies
<1>3. inside'[m] = inside[m]
  BY <1>1 DEF ComesIn, PeerTypeOK
<1>4. CopiesOf(m)' = CopiesOf(m)
  BY <1>3 DEF CopiesOf, Times, Turns, Owed, Held, NewTurn
<1>5. /\ Times(typed, m)' = Times(typed, m)
      /\ Times(arrived, m)' = Times(arrived, m) + One(msg = m)
  <2>1. Times(Append(arrived, msg), m) = Times(arrived, m) + One(msg = m)
    BY TimesAppended DEF PeerTypeOK
  <2>. QED  BY <2>1 DEF Times
<1>6. One(msg = m) \in Nat
  BY DEF One
<1>. QED  BY <1>2, <1>4, <1>5, <1>6

LEMMA NoCopiesInvariant ==
  ASSUME Texts
  PROVE  PeerSpec => []NoCopies
<1>1. PeerInit => NoCopies
  BY NoCopiesStarts
<1>2. PeerInv /\ NoCopies /\ [PeerNext]_peerVars => NoCopies'
  BY NoCopiesKeeps DEF PeerInv
<1>. QED  BY <1>1, <1>2, PeerMakesNothingUp, PTL DEF PeerSpec

\* Whatever comes into a process goes one way, once: to the screen or to the
\* network, and repetitions of the sender follow one another directly.
THEOREM PeerGoesOneWay ==
  ASSUME Texts
  PROVE  PeerSpec => []GoesOneWay
<1>1. PeerInv /\ NoCopies => GoesOneWay
  <2>. SUFFICES ASSUME PeerTypeOK, NoCopies, NEW m \in Written
                PROVE  Times(shown, m) + Turns(sent, m)
                         <= Times(typed, m) + Times(arrived, m)
    BY DEF GoesOneWay, PeerInv
  <2>1. m \in Message
    BY DEF Written
  <2>. QED  BY <2>1, CountsAreNumbers DEF NoCopies, CopiesOf
<1>. QED  BY <1>1, PeerMakesNothingUp, NoCopiesInvariant, PTL
=============================================================================
