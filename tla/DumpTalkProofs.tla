--------------------------- MODULE DumpTalkProofs ---------------------------
(***************************************************************************)
(* Theorems on the older program and the newer one, for any lines and      *)
(* datagrams, any bounds and any lists.                                    *)
(***************************************************************************)
EXTENDS DumpTalk, STalkProofs

\* But for one step of its own the older program does what the newer one does.
LEMMA OlderSteps == BothNext => Next \/ Listen
BY DEF BothNext, readUserInput, printRemoteMessage, sendUserMessages,
       listenForRemoteMessages, dumpMain, Next

LEMMA BothKeepMonitor ==
  ASSUME Monitor, [BothNext]_vars
  PROVE  Monitor'
<1>1. ASSUME NEW t \in Thread, MonitorStep(t) PROVE Monitor'
  BY <1>1, TypeStep, MutexStep, BoundedStep DEF Monitor
<1>2. ASSUME NEW t \in Thread, OutsideStep(t) PROVE Monitor'
  BY <1>2, OutsideKeeps DEF Monitor
<1>3. ASSUME UNCHANGED mboxVars PROVE Monitor'
  BY <1>3 DEF mboxVars, Monitor, MailboxTypeOK, MutualExclusion, Bounded,
              Committed, Sharing
<1>4. CASE Next
  BY <1>1, <1>2, <1>3, <1>4, NextIsMonitorStep DEF Monitor
<1>5. CASE Listen
  <2>1. MonitorStep(receiver)
    BY <1>5, Constants
       DEF Listen, Received, Consume, MonitorStep, Fn, NoListStep
  <2>. QED  BY <1>1, <2>1, Constants
<1>6. CASE UNCHANGED vars
  BY <1>3, <1>6 DEF vars
<1>. QED  BY <1>4, <1>5, <1>6, OlderSteps

LEMMA MonitorInBoth == BothSpec => []Monitor
<1>1. Init \/ DumpInit => Monitor
  <2>1. ASSUME NEW kind \in LinkStates, InitWith(kind) PROVE MailboxTypeOK
    BY <2>1, MailboxAssumption, Constants
       DEF InitWith, MailboxInit, MailboxTypeOK, Call, Fn
  <2>2. Init \/ DumpInit => MutualExclusion
    BY DEF Init, DumpInit, InitWith, MailboxInit, MutualExclusion
  <2>3. ASSUME Init \/ DumpInit, NEW l \in List, Sharing(l) # {}
        PROVE  Len(queue[l]) + Cardinality(Committed(l))
                 <= MAX_NUM_MESSAGES - 1 + Cardinality(Sharing(l))
    <3>1. queue[l] = <<>> /\ Committed(l) = {}
      BY <2>3 DEF Init, DumpInit, InitWith, MailboxInit, Committed, Sharing
    <3>. QED
      BY <2>3, <3>1, CommittedIsFinite, MailboxAssumption, FS_EmptySet
  <2>4. Init \/ DumpInit => MailboxTypeOK
    BY <2>1 DEF Init, DumpInit, LinkStates
  <2>. QED  BY <2>2, <2>3, <2>4 DEF Monitor, Bounded
<1>2. Monitor /\ [BothNext]_vars => Monitor'
  BY BothKeepMonitor
<1>. QED  BY <1>1, <1>2, PTL DEF BothSpec

\* In either program the list holds at most one message more than
\* MAX_NUM_MESSAGES for each further mailbox that points to it
\* (UDPthreads.c:20-28, dump/listMonitor.c:35-55).
THEOREM BothBounded == BothSpec => []Bounded
BY MonitorInBoth, PTL DEF Monitor

-----------------------------------------------------------------------------
(* What both programs do to messages.                                      *)

\* The receiver of the older program brings in a datagram, or bytes nobody wrote
\* in its place.
LEMMA ListenBrings ==
  ASSUME Listen
  PROVE  \E msg \in Datagram : \E text \in {msg, Junk} :
           /\ arrived' = Append(arrived, msg)
           /\ Consume(receiver, remoteMsg, text, "escape")
BY DEF Listen, Received

LEMMA ListenElse ==
  ASSUME Listen
  PROVE  /\ UNCHANGED <<shutdownFlag, typed, shown, sent>> /\ NoListStep
         /\ Len(arrived) < MaxArrived /\ pc[receiver] = "loop"
BY DEF Listen, At

LEMMA BothKeepQuiet ==
  ASSUME MailboxTypeOK, QuietInv, [BothNext]_vars
  PROVE  QuietInv'
<1>. USE Constants
<1>1. ASSUME UNCHANGED <<mboxVars, threadVars, historyVars>> PROVE QuietInv'
  BY <1>1 DEF mboxVars, threadVars, historyVars, QuietInv, HistoryTypeOK, Asked, Quiet
<1>2. CASE Listen
  <2>1. PICK msg \in Datagram : \E text \in {msg, Junk} :
          /\ arrived' = Append(arrived, msg)
          /\ Consume(receiver, remoteMsg, text, "escape")
    BY <1>2, ListenBrings
  <2>2. PICK text \in {msg, Junk} : Enter(receiver, "consume", remoteMsg, text)
    BY <2>1 DEF Consume
  <2>3. UNCHANGED <<shutdownFlag, typed, queue>>
    BY <1>2, ListenElse DEF NoListStep
  <2>4. HistoryTypeOK'
    BY <2>1, <2>3 DEF QuietInv, HistoryTypeOK
  <2>5. /\ Said(arrived, Bang) => Said(arrived', Bang)
        /\ msg = Bang => Said(arrived', Bang)
    BY <2>1, SaidAppend DEF QuietInv, HistoryTypeOK
  <2>6. CASE Asked \/ msg = Bang
    BY <2>3, <2>4, <2>5, <2>6 DEF QuietInv, Asked
  <2>7. CASE Quiet /\ msg # Bang
    <3>1. text \notin Escapes
      BY <2>7, STalkAssumption DEF Escapes
    <3>2. at' = [at EXCEPT ![receiver] = [pc |-> "lock", fn |-> "consume",
                                          box |-> remoteMsg, msg |-> text]]
      BY <2>2 DEF Enter
    <3>3. Quiet'
      BY <2>3, <2>7, <3>1, <3>2 DEF Quiet, MailboxTypeOK
    <3>. QED  BY <2>4, <3>3 DEF QuietInv
  <2>. QED  BY <2>6, <2>7 DEF QuietInv
<1>3. CASE UNCHANGED vars
  BY <1>1, <1>3 DEF vars
<1>. QED  BY <1>1, <1>2, <1>3, OlderSteps, QuietStep

LEMMA BothKeepTypes ==
  ASSUME MailboxTypeOK, ProcessTypeOK, [BothNext]_vars
  PROVE  ProcessTypeOK'
<1>. USE Constants
<1>1. CASE Listen
  <2>1. pc' = [pc EXCEPT ![receiver] = "escape"]
    BY <1>1, ListenBrings DEF Consume, Goto
  <2>2. UNCHANGED <<shutdownFlag, process, joined, shown, sent>>
    BY <1>1, ListenElse DEF NoListStep
  <2>. QED  BY <2>1, <2>2 DEF ProcessTypeOK
<1>2. CASE UNCHANGED vars
  BY <1>2 DEF vars, threadVars, historyVars, ProcessTypeOK
<1>. QED  BY <1>1, <1>2, OlderSteps, ProcessTypeStep

LEMMA BothKeepRoles ==
  ASSUME MailboxTypeOK, HistoryTypeOK, ProcessTypeOK, Roles, [BothNext]_vars
  PROVE  Roles'
<1>. USE Constants, FourThreads
<1>1. ASSUME UNCHANGED <<mboxVars, threadVars, historyVars>> PROVE Roles'
  BY <1>1 DEF mboxVars, threadVars, historyVars, Roles, Said
<1>2. CASE Listen
  <2>1. PICK msg \in Datagram : \E text \in {msg, Junk} :
          /\ arrived' = Append(arrived, msg)
          /\ Consume(receiver, remoteMsg, text, "escape")
    BY <1>2, ListenBrings
  <2>2. PICK text \in {msg, Junk} : Consume(receiver, remoteMsg, text, "escape")
    BY <2>1
  <2>3. /\ UNCHANGED <<shutdownFlag, typed>>
        /\ at' = [at EXCEPT ![receiver] = [pc |-> "lock", fn |-> "consume",
                                           box |-> remoteMsg, msg |-> text]]
        /\ pc' = [pc EXCEPT ![receiver] = "escape"]
        /\ at \in [Thread -> Call] /\ DOMAIN pc = Thread
    BY <1>2, <2>2, ListenElse DEF Consume, Enter, Goto, MailboxTypeOK, ProcessTypeOK
  <2>4. text = Bang => Said(arrived', Bang)
    BY <2>1, SaidAppend, STalkAssumption DEF HistoryTypeOK
  <2>. QED  BY <2>3, <2>4 DEF Roles, Said
<1>3. CASE UNCHANGED vars
  BY <1>1, <1>3 DEF vars
<1>. QED  BY <1>1, <1>2, <1>3, OlderSteps, RolesKept

\* Nothing is copied by either program.
LEMMA BothKeepCopies ==
  ASSUME RoomForAll, PeerGrounds, View!NoCopies, [BothNext]_vars
  PROVE  View!NoCopies' /\ Finite'
<1>. USE Constants
<1>1. ASSUME UNCHANGED <<mboxVars, threadVars, historyVars>>
      PROVE  View!NoCopies' /\ Finite'
  <2>1. UNCHANGED View!peerVars
    BY <1>1 DEF mboxVars, threadVars, historyVars, View!peerVars, Inside, Buffers,
                Full, OnItsWayIn, InLists
  <2>2. Finite'
    BY <1>1 DEF PeerGrounds, Finite, InLists, mboxVars
  <2>. QED  BY <2>1, <2>2, TypesInside, TextsHold, View!NoCopiesKeeps
<1>2. CASE Next
  BY <1>2, StepOfPeer, NoCopiesInStep
<1>3. CASE Listen
  <2>1. PICK msg \in Datagram : \E text \in {msg, Junk} :
          /\ arrived' = Append(arrived, msg)
          /\ Consume(receiver, remoteMsg, text, "escape")
    BY <1>3, ListenBrings
  <2>2. PICK text \in {msg, Junk} : Consume(receiver, remoteMsg, text, "escape")
    BY <2>1
  <2>3. /\ UNCHANGED <<queue, shutdownFlag, typed, shown, sent>>
        /\ Len(arrived) < MaxArrived /\ pc[receiver] = "loop"
    BY <1>3, ListenElse DEF NoListStep
  <2>4. View!ComesIn(text) /\ Finite' /\ UNCHANGED <<Buffers, Full>>
    BY <2>2, <2>3, EnterComesIn DEF PeerGrounds
  <2>5. CASE text = msg
    <3>1. View!Arrive(msg)
      BY <2>1, <2>3, <2>4, <2>5 DEF View!Arrive
    <3>2. View!PeerNext
      BY <3>1 DEF View!PeerNext
    <3>. QED  BY <2>4, <3>2, TypesInside, TextsHold, View!NoCopiesKeeps
  <2>6. CASE text = Junk
    BY <2>1, <2>3, <2>4, <2>6, TypesInside, TextsHold, View!GarbledKeeps
  <2>. QED  BY <2>5, <2>6
<1>4. CASE UNCHANGED vars
  BY <1>1, <1>4 DEF vars
<1>. QED  BY <1>1, <1>2, <1>3, <1>4, OlderSteps

\* The invariant of both programs.
Together == Monitor /\ QuietInv /\ ProcessTypeOK /\ Roles

LEMMA TogetherInBoth == BothSpec => []Together
<1>1. ASSUME Init \/ DumpInit PROVE QuietInv /\ ProcessTypeOK /\ Roles
  <2>1. PICK kind \in {"whole", "sound"} : InitWith(kind)
    BY <1>1 DEF Init, DumpInit
  <2>2. QuietInv
    <3>1. Junk \notin Escapes
      BY STalkAssumption DEF Escapes
    <3>. QED
      BY <2>1, <3>1 DEF InitWith, MailboxInit, QuietInv, HistoryTypeOK, Quiet
  <2>3. ProcessTypeOK
    <3>1. pc \in [Thread -> {"setup", "check"}]
      BY <2>1 DEF InitWith
    <3>2. shown \in Seq(Message) /\ sent \in Seq(Message) /\ joined \in 0 .. 4
      BY <2>1 DEF InitWith
    <3>. QED  BY <2>1, <3>1, <3>2 DEF InitWith, ProcessTypeOK
  <2>. QED  BY <2>1, <2>2, <2>3, RolesStart
<1>2. Monitor /\ QuietInv /\ ProcessTypeOK /\ Roles /\ [BothNext]_vars
        => QuietInv' /\ ProcessTypeOK' /\ Roles'
  BY BothKeepQuiet, BothKeepTypes, BothKeepRoles DEF Monitor, QuietInv
<1>. QED  BY <1>1, <1>2, MonitorInBoth, PTL DEF BothSpec, Together

\* Either program keeps the types of its state, and what it shows is a message
\* also when the receiver's first datagram has no end (dump/main.c:127-258).
THEOREM BothTypeCorrect == BothSpec => []TypeOK
<1>1. Together => TypeOK
  BY DEF Together, Monitor, QuietInv, ProcessTypeOK, HistoryTypeOK, TypeOK
<1>. QED  BY <1>1, TogetherInBoth, PTL

\* In either program the flag is set only after the user or the peer has said
\* "!" (UDPsockets.c:33-40, dump/main.c:41-48, 108-114, 186-196, 243-249).
THEOREM BothAskedFor == BothSpec => []ShutdownIsAskedFor
<1>1. Together => ShutdownIsAskedFor
  BY DEF Together, QuietInv, Quiet, Asked, ShutdownIsAskedFor
<1>. QED  BY <1>1, TogetherInBoth, PTL

\* Each line or datagram that came in goes one way in either program, once but
\* for direct repetitions of the sender; in the older one a first datagram may
\* also be lost to the bytes behind it (UDPsockets.c:86-106, 151-163,
\* dump/main.c:127-258).
THEOREM BothGoOneWay ==
  ASSUME RoomForAll
  PROVE  BothSpec => []EachGoesOneWay
<1>1. ASSUME Init \/ DumpInit PROVE View!NoCopies /\ Finite
  <2>1. \E kind : InitWith(kind)
    BY <1>1 DEF Init, DumpInit
  <2>. QED  BY <2>1, StartOfPeer, TextsHold, View!NoCopiesStarts
<1>2. Together /\ Finite => PeerGrounds
  BY DEF Together, PeerGrounds, QuietInv
<1>3. Together /\ View!NoCopies /\ Finite /\ [BothNext]_vars
        => View!NoCopies' /\ Finite'
  BY <1>2, BothKeepCopies
<1>4. Together /\ View!NoCopies /\ Finite => EachGoesOneWay
  BY <1>2, OneWayInProcess
<1>. QED  BY <1>1, <1>3, <1>4, TogetherInBoth, PTL DEF BothSpec
\* Either program shows the messages of the peer in the order they arrived in
\* (UDPsockets.c:86-106 and 199-240, dump/main.c:127-258).
THEOREM BothShowInOrder == BothSpec => []ShownInOrder
<1>. USE DEF Together, Monitor, QuietInv
<1>1. Init \/ DumpInit => Queueing
  BY QueueingStarts DEF Init, DumpInit
<1>2. ASSUME Together, Queueing, [BothNext]_vars PROVE Queueing'
  <2>1. ASSUME UNCHANGED <<mboxVars, historyVars>> PROVE Queueing'
    <3>1. UNCHANGED <<queue, at, typed, arrived, shown>>
      BY <2>1 DEF mboxVars, historyVars
    <3>. QED  BY <1>2, <3>1, QueueingStays
  <2>2. shown \in Seq(Message)
    BY <1>2 DEF ProcessTypeOK
  <2>3. CASE Next
    BY <1>2, <2>2, <2>3, MovesInStep, QueueingKept DEF Queueing
  <2>4. CASE Listen
    <3>1. PICK msg \in Datagram : \E text \in {msg, Junk} :
            /\ arrived' = Append(arrived, msg)
            /\ Consume(receiver, remoteMsg, text, "escape")
      BY <2>4, ListenBrings
    <3>2. PICK text \in {msg, Junk} : Enter(receiver, "consume", remoteMsg, text)
      BY <3>1 DEF Consume
    <3>3. UNCHANGED <<typed, queue, shown>>
      BY <2>4, ListenElse DEF NoListStep
    <3>4. Moves /\ Ways'
      BY <1>2, <3>1, <3>2, <3>3, MovesByArrival DEF Queueing
    <3>. QED  BY <1>2, <2>2, <3>4, QueueingKept
  <2>5. CASE UNCHANGED vars
    BY <2>1, <2>5 DEF vars
  <2>. QED  BY <1>2, <2>1, <2>3, <2>4, <2>5, OlderSteps
<1>3. Together /\ Queueing => ShownInOrder
  BY LinedUpShows DEF Queueing
<1>. QED  BY <1>1, <1>2, <1>3, TogetherInBoth, PTL DEF BothSpec
=============================================================================
