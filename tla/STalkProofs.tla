----------------------------- MODULE STalkProofs -----------------------------
(***************************************************************************)
(* Theorems on one s-talk process, for any lines and datagrams, any bounds *)
(* and whichever lists its two mailboxes point to, and that the process    *)
(* implements Peer.                                                        *)
(***************************************************************************)
EXTENDS STalk, MessageListsProofs

\* Besides the monitor steps the program writes the buffer of a thread that is
\* in no call.
OutsideStep(t) ==
  /\ at[t].pc = "out"
  /\ \E msg \in Message : at' = [at EXCEPT ![t].msg = msg]
  /\ UNCHANGED <<queue, links, access>>

\* The constants the lemmas use.
LEMMA Constants ==
  /\ reader \in Thread /\ sender \in Thread
  /\ display \in Thread /\ receiver \in Thread
  /\ hostMsg \in Mailbox /\ remoteMsg \in Mailbox
  /\ Line \subseteq Message /\ Datagram \subseteq Message
  /\ Bang \in Message /\ RawBang \in Message
  /\ Junk \in Message /\ Blank \in Message
BY STalkAssumption

\* A step of the program is one of these for one thread, or leaves the
\* monitor as it is.
LEMMA NextIsMonitorStep ==
  ASSUME MailboxTypeOK, Next
  PROVE  \/ \E t \in Thread : MonitorStep(t) \/ OutsideStep(t)
         \/ UNCHANGED mboxVars
<1>. USE Constants DEF NoListStep
<1>0. \A t \in Thread : at[t].msg \in Message
  BY DEF MailboxTypeOK, Call
<1>1. ASSUME NEW t \in Thread, Check(t) PROVE UNCHANGED mboxVars
  BY <1>1 DEF Check, mboxVars
<1>2. ASSUME NEW t \in Thread, NEW m \in Mailbox, EscapeOrLoop(t, m)
      PROVE  MonitorStep(t) \/ UNCHANGED mboxVars
  BY <1>2 DEF EscapeOrLoop, Consume, MonitorStep, Fn, mboxVars
<1>3. ASSUME NEW t \in Thread, MailboxStep(t) \/ Wakeup(t)
      PROVE  MonitorStep(t)
  BY <1>3 DEF MailboxStep, Wakeup, MonitorStep
<1>4. ASSUME NEW t \in Thread, TearList(t) \/ TrimCrash(t) \/ Setup(t)
      PROVE  UNCHANGED mboxVars
  BY <1>4 DEF TearList, TrimCrash, Setup
<1>5. CASE ReadLine
  BY <1>5 DEF ReadLine, Consume, MonitorStep, Fn
<1>6. CASE RecvFrom
  BY <1>6 DEF RecvFrom, Consume, MonitorStep, Fn
<1>7. CASE ReadNothing \/ RecvFails \/ SendTo
  BY <1>7 DEF ReadNothing, RecvFails, SendTo, mboxVars
<1>8. CASE DisplayProduce
  BY <1>0, <1>8 DEF DisplayProduce, Produce, MonitorStep, Fn
<1>9. CASE SenderProduce
  BY <1>0, <1>9 DEF SenderProduce, Produce, MonitorStep, Fn
<1>10. CASE Display
  BY <1>10 DEF Display, At, SetBuffer, OutsideStep, mboxVars
<1>11. CASE MainStep
  BY <1>11 DEF MainStep, Join, Destroy
<1>12. CASE ReaderEscape \/ SenderEscape \/ ReceiverEscape
  BY <1>2, <1>12 DEF ReaderEscape, SenderEscape, ReceiverEscape
<1>. QED
  BY <1>1, <1>3, <1>4, <1>5, <1>6, <1>7, <1>8, <1>9, <1>10, <1>11, <1>12
     DEF Next, ReaderStep, DisplayStep, SenderStep, ReceiverStep
-----------------------------------------------------------------------------
\* Writing a buffer outside of a call disturbs nothing of the monitor.
LEMMA OutsideKeeps ==
  ASSUME MailboxTypeOK, MutualExclusion, NEW t \in Thread, OutsideStep(t)
  PROVE  MailboxTypeOK' /\ MutualExclusion' /\ (Bounded => Bounded')
<1>1. PICK msg \in Message : at' = [at EXCEPT ![t].msg = msg]
  BY DEF OutsideStep
<1>2. queue' = queue /\ links' = links /\ access' = access
  BY DEF OutsideStep
<1>3. at \in [Thread -> Call]
  BY DEF MailboxTypeOK
<1>4. at' \in [Thread -> Call]
  BY <1>1, <1>3 DEF Call
<1>5. \A u \in Thread : at'[u].pc = at[u].pc /\ SameCall(u)
  BY <1>1, <1>3 DEF Call, SameCall
<1>6. MailboxTypeOK'
  BY <1>2, <1>4 DEF MailboxTypeOK
<1>7. access \in [Mailbox -> Thread \union {NoThread}]
  BY DEF MailboxTypeOK
<1>8. MutualExclusion'
  BY <1>2, <1>5, <1>7 DEF MutualExclusion, SameCall
<1>9. ASSUME NEW l \in List PROVE Committed(l)' = Committed(l)
  BY <1>2, <1>5, <1>7 DEF Committed, Sharing, SameCall
<1>10. Bounded => Bounded'
  BY <1>2, <1>9 DEF Bounded, Sharing
<1>. QED  BY <1>6, <1>8, <1>10

\* The monitor part of s-talk keeps its types, its mutexes and its bound.
Monitor == MailboxTypeOK /\ MutualExclusion /\ Bounded

\* It holds in every state.
LEMMA MonitorInvariant == Spec => []Monitor
<1>1. Init => Monitor
  <2>1. Init => MailboxTypeOK
    BY MailboxAssumption, Constants
       DEF Init, InitWith, MailboxInit, MailboxTypeOK, Call, Fn, LinkStates
  <2>2. Init => MutualExclusion
    BY DEF Init, InitWith, MailboxInit, MutualExclusion
  <2>3. ASSUME Init, NEW l \in List, Sharing(l) # {}
        PROVE  Len(queue[l]) + Cardinality(Committed(l))
                 <= MAX_NUM_MESSAGES - 1 + Cardinality(Sharing(l))
    <3>1. queue[l] = <<>>
      BY <2>3 DEF Init, InitWith, MailboxInit
    <3>. QED  BY <3>1, CommittedIsFinite, MailboxAssumption
  <2>. QED  BY <2>1, <2>2, <2>3 DEF Monitor, Bounded
<1>2. Monitor /\ [Next]_vars => Monitor'
  <2>1. ASSUME Monitor, NEW t \in Thread, MonitorStep(t) PROVE Monitor'
    BY <2>1, TypeStep, MutexStep, BoundedStep DEF Monitor
  <2>2. ASSUME Monitor, NEW t \in Thread, OutsideStep(t) PROVE Monitor'
    BY <2>2, OutsideKeeps DEF Monitor
  <2>3. ASSUME Monitor, UNCHANGED mboxVars PROVE Monitor'
    BY <2>3 DEF mboxVars, Monitor, MailboxTypeOK, MutualExclusion, Bounded,
                Committed, Sharing
  <2>. QED  BY <2>1, <2>2, <2>3, NextIsMonitorStep DEF Monitor, vars
<1>. QED  BY <1>1, <1>2, PTL DEF Spec

\* The messages in s-talk's lists never exceed MAX_NUM_MESSAGES by more than
\* one for each further mailbox that points to the list: by one when both
\* mailboxes share theirs (UDPthreads.c:20-28).
THEOREM STalkBounded == Spec => []Bounded
BY MonitorInvariant, PTL DEF Monitor

-----------------------------------------------------------------------------
Asked == Said(typed, Bang) \/ Said(arrived, Bang)

\* The escape character, with or without its terminator.
Escapes == {Bang, RawBang}

\* No buffer, no list and not the flag knows of an escape character.
Quiet ==
  /\ ~shutdownFlag
  /\ \A t \in Thread : at[t].msg \notin Escapes
  /\ \A l \in List : \A i \in DOMAIN queue[l] : queue[l][i] \notin Escapes

\* What comes out of a quiet list is quiet: only a bare escape character is
\* read as something else than it is.
LEMMA QuietHead ==
  ASSUME MailboxTypeOK, Quiet, NEW l \in List, queue[l] # <<>>,
         NEW text \in Reads[Head(queue[l])]
  PROVE  text \in Message /\ text \notin Escapes
<1>1. queue[l] \in Seq(Message)
  BY DEF MailboxTypeOK
<1>2. Head(queue[l]) \in Message /\ Head(queue[l]) \notin Escapes
  BY <1>1 DEF Quiet
<1>3. Reads[Head(queue[l])] = {Head(queue[l])}
  BY <1>2, STalkAssumption DEF Escapes
<1>. QED  BY <1>2, <1>3

\* A mailbox call brings no escape character to a list or a buffer.
LEMMA QuietCall ==
  ASSUME MailboxTypeOK, Quiet, NEW t \in Thread, CallStep(t) \/ SpuriousWake(t),
         UNCHANGED shutdownFlag
  PROVE  Quiet'
<1>. DEFINE l == ListOf[at[t].box]
<1>1. /\ at \in [Thread -> Call] /\ queue \in [List -> Seq(Message)]
      /\ l \in List /\ at[t].msg \in Message
  BY MailboxAssumption DEF MailboxTypeOK, Call
<1>2. CASE LockAndPass(t)
  BY <1>1, <1>2 DEF LockAndPass, Quiet, Call
<1>3. CASE LockAndWait(t)
  BY <1>1, <1>3 DEF LockAndWait, Quiet, Call
<1>4. CASE SpuriousWake(t)
  BY <1>1, <1>4 DEF SpuriousWake, Quiet, Call
<1>5. CASE Prepend(t)
  <2>1. ReturnAndSignal(t, at[t].msg) /\ at[t].pc = "holding"
    BY <1>5 DEF Prepend
  <2>2. \A u \in Thread : at'[u].msg \notin Escapes
    BY <1>1, <2>1, SignalMoves DEF Quiet
  <2>3. queue' = queue \/ queue' = [queue EXCEPT ![l] = Append(queue[l], at[t].msg)]
    BY <1>5 DEF Prepend
  <2>4. ASSUME NEW k \in List, NEW i \in DOMAIN queue'[k]
        PROVE  queue'[k][i] \notin Escapes
    <3>1. CASE queue'[k] = queue[k]
      BY <3>1 DEF Quiet
    <3>2. CASE k = l /\ queue'[k] = Append(queue[l], at[t].msg)
      <4>1. \/ queue'[k][i] = at[t].msg
            \/ i \in DOMAIN queue[l] /\ queue'[k][i] = queue[l][i]
        BY <1>1, <2>4, <3>2
      <4>. QED  BY <1>1, <4>1 DEF Quiet
    <3>. QED  BY <1>1, <2>3, <3>1, <3>2
  <2>. QED  BY <2>2, <2>4 DEF Quiet
<1>6. CASE Trim(t)
  <2>1. PICK text \in Message \ Escapes : ReturnAndSignal(t, text)
    <3>1. CASE queue[l] # <<>>
      BY <1>1, <1>6, <3>1, QuietHead DEF Trim
    <3>2. CASE queue[l] = <<>>
      BY <1>1, <1>6, <3>2 DEF Trim, Quiet
    <3>. QED  BY <3>1, <3>2
  <2>2. \A u \in Thread : at'[u].msg \notin Escapes
    <3>1. at[t].pc = "holding"
      BY <1>6 DEF Trim
    <3>. QED  BY <2>1, <3>1, SignalMoves DEF Quiet
  <2>3. \/ queue' = queue
        \/ queue[l] # <<>> /\ queue' = [queue EXCEPT ![l] = Tail(queue[l])]
    BY <1>6 DEF Trim
  <2>4. ASSUME NEW k \in List, NEW i \in DOMAIN queue'[k]
        PROVE  queue'[k][i] \notin Escapes
    <3>1. CASE queue'[k] = queue[k]
      BY <3>1 DEF Quiet
    <3>2. CASE k = l /\ queue[l] # <<>> /\ queue'[k] = Tail(queue[l])
      <4>1. i + 1 \in DOMAIN queue[l] /\ queue'[k][i] = queue[l][i + 1]
        BY <1>1, <2>4, <3>2
      <4>. QED  BY <1>1, <4>1 DEF Quiet
    <3>. QED  BY <1>1, <2>3, <3>1, <3>2
  <2>. QED  BY <2>2, <2>4 DEF Quiet
<1>. QED  BY <1>2, <1>3, <1>4, <1>5, <1>6 DEF CallStep

\* What has been said stays said.
LEMMA SaidAppend ==
  ASSUME NEW S, NEW s \in Seq(S), NEW e \in S
  PROVE  /\ Said(s, Bang) => Said(Append(s, e), Bang)
         /\ e = Bang => Said(Append(s, e), Bang)
<1>1. DOMAIN Append(s, e) = 1 .. Len(s) + 1
  BY DEF Said
<1>2. Append(s, e)[Len(s) + 1] = e /\ Len(s) + 1 \in DOMAIN Append(s, e)
  BY <1>1
<1>3. \A i \in DOMAIN s : i \in DOMAIN Append(s, e) /\ Append(s, e)[i] = s[i]
  BY <1>1
<1>. QED  BY <1>2, <1>3 DEF Said

\* The history keeps its types.
HistoryTypeOK == typed \in Seq(Line) /\ arrived \in Seq(Datagram)

QuietInv == HistoryTypeOK /\ (Asked \/ Quiet)

\* Every step of s-talk keeps it: a line or datagram that is an escape
\* character is said in the step that brings it in.
LEMMA QuietStep ==
  ASSUME MailboxTypeOK, QuietInv, Next
  PROVE  QuietInv'
<1>. USE Constants DEF NoListStep, historyVars, threadVars, QuietInv
<1>1. ASSUME UNCHANGED historyVars, Quiet => Quiet' PROVE QuietInv'
  BY <1>1 DEF HistoryTypeOK, Asked
<1>2. ASSUME NEW t \in Thread, NEW fn \in Fn, NEW m \in Mailbox,
             NEW msg, msg \notin Escapes,
             Enter(t, fn, m, msg), UNCHANGED <<queue, shutdownFlag>>
      PROVE  Quiet => Quiet'
  BY <1>2 DEF Enter, Quiet, MailboxTypeOK
<1>3. ASSUME NEW t \in Thread, Check(t) PROVE QuietInv'
  BY <1>1, <1>3 DEF Check, Quiet
<1>4. ASSUME NEW t \in Thread, NEW m \in Mailbox, EscapeOrLoop(t, m)
      PROVE  QuietInv'
  <2>1. Quiet => at[t].msg # Bang
    BY DEF Quiet, Escapes
  <2>2. Quiet => Quiet'
    BY <1>4, <2>1 DEF EscapeOrLoop, Quiet
  <2>. QED  BY <1>1, <1>4, <2>2 DEF EscapeOrLoop
<1>5. ASSUME NEW t \in Thread, MailboxStep(t) \/ Wakeup(t) PROVE QuietInv'
  BY <1>1, <1>5, QuietCall DEF MailboxStep, Wakeup
<1>6. ASSUME NEW t \in Thread, TearList(t) \/ TrimCrash(t) \/ Setup(t)
      PROVE  QuietInv'
  BY <1>1, <1>6 DEF TearList, TrimCrash, Setup, mboxVars, Quiet
<1>7. CASE ReadLine
  <2>1. PICK msg \in Line : typed' = Append(typed, msg)
                           /\ Enter(reader, "consume", hostMsg, msg)
    BY <1>7 DEF ReadLine, Consume
  <2>2. HistoryTypeOK'
    BY <1>7, <2>1 DEF ReadLine, HistoryTypeOK
  <2>3. Said(typed, Bang) => Said(typed', Bang)
    BY <2>1, SaidAppend DEF HistoryTypeOK
  <2>4. CASE msg = Bang
    BY <2>1, <2>2, <2>4, SaidAppend DEF HistoryTypeOK, Asked
  <2>5. CASE msg # Bang
    <3>1. msg \notin Escapes
      BY <2>5, STalkAssumption DEF Escapes
    <3>2. Quiet => Quiet'
      BY <1>2, <1>7, <2>1, <3>1 DEF ReadLine, Fn
    <3>. QED  BY <1>7, <2>2, <2>3, <3>2 DEF ReadLine, Asked
  <2>. QED  BY <2>4, <2>5
<1>8. CASE RecvFrom
  <2>1. PICK msg \in Datagram : arrived' = Append(arrived, msg)
                               /\ Enter(receiver, "consume", remoteMsg, msg)
    BY <1>8 DEF RecvFrom, Consume
  <2>2. HistoryTypeOK'
    BY <1>8, <2>1 DEF RecvFrom, HistoryTypeOK
  <2>3. Said(arrived, Bang) => Said(arrived', Bang)
    BY <2>1, SaidAppend DEF HistoryTypeOK
  <2>4. CASE msg = Bang
    BY <2>1, <2>2, <2>4, SaidAppend DEF HistoryTypeOK, Asked
  <2>5. CASE msg # Bang
    <3>1. msg \notin Escapes
      BY <2>5, STalkAssumption DEF Escapes
    <3>2. Quiet => Quiet'
      BY <1>2, <1>8, <2>1, <3>1 DEF RecvFrom, Fn
    <3>. QED  BY <1>8, <2>2, <2>3, <3>2 DEF RecvFrom, Asked
  <2>. QED  BY <2>4, <2>5
<1>9. CASE ReadNothing \/ RecvFails
  BY <1>1, <1>9 DEF ReadNothing, RecvFails, Quiet
<1>15. CASE SendTo
  BY <1>15 DEF SendTo, HistoryTypeOK, Asked, Quiet
<1>10. CASE DisplayProduce
  <2>1. Quiet => Quiet'
    BY <1>2, <1>10 DEF DisplayProduce, Produce, Quiet, Fn
  <2>. QED  BY <1>1, <1>10, <2>1 DEF DisplayProduce
<1>11. CASE SenderProduce
  <2>1. Quiet => Quiet'
    BY <1>2, <1>11 DEF SenderProduce, Produce, Quiet, Fn
  <2>. QED  BY <1>1, <1>11, <2>1 DEF SenderProduce
<1>12. CASE Display
  <2>1. Blank \notin Escapes
    BY STalkAssumption DEF Escapes
  <2>2. Quiet => Quiet'
    BY <1>12, <2>1 DEF Display, SetBuffer, Quiet, MailboxTypeOK, Call
  <2>. QED  BY <1>12, <2>2 DEF Display, HistoryTypeOK, Asked
<1>13. CASE MainStep
  BY <1>1, <1>13 DEF MainStep, Join, Destroy, mboxVars, Quiet
<1>14. CASE ReaderEscape \/ SenderEscape \/ ReceiverEscape
  BY <1>4, <1>14 DEF ReaderEscape, SenderEscape, ReceiverEscape
<1>. QED
  BY <1>3, <1>5, <1>6, <1>7, <1>8, <1>9, <1>10, <1>11, <1>12, <1>13, <1>14, <1>15
     DEF Next, ReaderStep, DisplayStep, SenderStep, ReceiverStep

\* It holds in every state.
LEMMA QuietInvariant == Spec => []QuietInv
<1>1. Init => QuietInv
  <2>1. Junk \notin Escapes
    BY STalkAssumption DEF Escapes
  <2>. QED  BY <2>1 DEF Init, InitWith, MailboxInit, QuietInv, HistoryTypeOK, Quiet
<1>2. MailboxTypeOK /\ QuietInv /\ [Next]_vars => QuietInv'
  <2>1. CASE Next
    BY <2>1, QuietStep
  <2>2. CASE UNCHANGED vars
    BY <2>2 DEF vars, mboxVars, threadVars, historyVars, QuietInv,
                HistoryTypeOK, Asked, Quiet
  <2>. QED  BY <2>1, <2>2
<1>3. Monitor => MailboxTypeOK
  BY DEF Monitor
<1>. QED  BY <1>1, <1>2, <1>3, MonitorInvariant, PTL DEF Spec

\* The flag is set only after the user or the peer has said "!", whatever the
\* threads take from each other out of the list or find in a buffer
\* (UDPsockets.c:33-40, 72-75, 159-161, 234-239).
THEOREM ShutdownAskedFor == Spec => []ShutdownIsAskedFor
<1>1. QuietInv => ShutdownIsAskedFor
  BY DEF QuietInv, Quiet, Asked, ShutdownIsAskedFor
<1>. QED  BY <1>1, QuietInvariant, PTL

-----------------------------------------------------------------------------
\* What TypeOK says beyond MailboxTypeOK.
ProcessTypeOK ==
  /\ pc \in [Thread -> {"setup", "check", "loop", "show", "send", "escape",
                        "done"}]
  /\ shutdownFlag \in BOOLEAN
  /\ process \in {"running", "undefined", "failed", "crashed", "exited"}
  /\ joined \in 0 .. 4
  /\ shown \in Seq(Message) /\ sent \in Seq(Message)

LEMMA ProcessTypeStep ==
  ASSUME MailboxTypeOK, ProcessTypeOK, Next
  PROVE  ProcessTypeOK'
<1>. USE Constants DEF NoListStep, historyVars, threadVars, ProcessTypeOK, Goto
<1>1. ASSUME NEW t \in Thread, Check(t) PROVE ProcessTypeOK'
  BY <1>1 DEF Check
<1>2. ASSUME NEW t \in Thread, NEW m \in Mailbox, EscapeOrLoop(t, m)
      PROVE  ProcessTypeOK'
  BY <1>2 DEF EscapeOrLoop, Consume
<1>3. ASSUME NEW t \in Thread,
             \/ MailboxStep(t) \/ Wakeup(t) \/ Setup(t)
             \/ TearList(t) \/ TrimCrash(t)
      PROVE  ProcessTypeOK'
  BY <1>3 DEF MailboxStep, Wakeup, Setup, TearList, TrimCrash
<1>4. CASE ReadLine
  BY <1>4 DEF ReadLine, Consume
<1>5. CASE RecvFrom
  BY <1>5 DEF RecvFrom, Consume
<1>6. CASE ReadNothing \/ RecvFails
  BY <1>6 DEF ReadNothing, RecvFails
<1>11. CASE SendTo
  <2>1. at[sender].msg \in Message
    BY DEF MailboxTypeOK, Call
  <2>2. Append(sent, at[sender].msg) \in Seq(Message)
    BY <2>1
  <2>3. sent' = Append(sent, at[sender].msg) \/ UNCHANGED sent
    BY <1>11 DEF SendTo
  <2>4. /\ pc' = [pc EXCEPT ![sender] = "escape"]
           \/ pc' = [pc EXCEPT ![sender] = "check"]
        /\ UNCHANGED <<shutdownFlag, process, joined, shown>>
    BY <1>11 DEF SendTo
  <2>. QED  BY <2>2, <2>3, <2>4
<1>7. CASE DisplayProduce \/ SenderProduce
  BY <1>7 DEF DisplayProduce, SenderProduce, Produce
<1>8. CASE Display
  <2>1. at[display].msg \in Message
    BY DEF MailboxTypeOK, Call
  <2>. QED  BY <1>8, <2>1 DEF Display
<1>9. CASE MainStep
  BY <1>9 DEF MainStep, Join, Destroy
<1>10. CASE ReaderEscape \/ SenderEscape \/ ReceiverEscape
  BY <1>2, <1>10 DEF ReaderEscape, SenderEscape, ReceiverEscape
<1>. QED
  BY <1>1, <1>3, <1>4, <1>5, <1>6, <1>7, <1>8, <1>9, <1>10, <1>11
     DEF Next, ReaderStep, DisplayStep, SenderStep, ReceiverStep

\* The state of the whole process keeps its types: in particular everything
\* that is shown is a message, also after a stale while test or a bare escape
\* character (main.c:8-54, UDPsockets.c:44-243).
THEOREM STalkTypeCorrect == Spec => []TypeOK
<1>1. Init => ProcessTypeOK
  <2>1. ASSUME Init PROVE pc \in [Thread -> {"setup", "check"}]
    BY <2>1 DEF Init, InitWith
  <2>2. ASSUME Init
        PROVE  shown \in Seq(Message) /\ sent \in Seq(Message) /\ joined \in 0 .. 4
    BY <2>2 DEF Init, InitWith
  <2>. QED  BY <2>1, <2>2 DEF Init, InitWith, ProcessTypeOK
<1>2. MailboxTypeOK /\ ProcessTypeOK /\ [Next]_vars => ProcessTypeOK'
  <2>1. CASE Next
    BY <2>1, ProcessTypeStep
  <2>2. CASE UNCHANGED vars
    BY <2>2 DEF vars, threadVars, historyVars, ProcessTypeOK
  <2>. QED  BY <2>1, <2>2
<1>3. MailboxTypeOK /\ ProcessTypeOK /\ HistoryTypeOK => TypeOK
  BY DEF ProcessTypeOK, HistoryTypeOK, TypeOK
<1>4. Monitor => MailboxTypeOK
  BY DEF Monitor
<1>5. QuietInv => HistoryTypeOK
  BY DEF QuietInv
<1>. QED
  BY <1>1, <1>2, <1>3, <1>4, <1>5, MonitorInvariant, QuietInvariant, PTL DEF Spec
-----------------------------------------------------------------------------
(* Who calls what, and with what in his buffer.                            *)

LEMMA FourThreads ==
  /\ reader # sender /\ reader # display /\ reader # receiver
  /\ sender # display /\ sender # receiver /\ display # receiver
<1>1. ASSUME NEW a, NEW b, NEW c PROVE Cardinality({a, b, c}) # 4
  <2>1. IsFiniteSet({a}) /\ Cardinality({a}) = 1
    BY FS_Singleton
  <2>2. /\ IsFiniteSet({a} \union {b})
        /\ Cardinality({a} \union {b}) \in {1, 2}
    BY <2>1, FS_AddElement
  <2>3. Cardinality(({a} \union {b}) \union {c}) \in {1, 2, 3}
    BY <2>2, FS_AddElement
  <2>4. {a, b, c} = ({a} \union {b}) \union {c}
    OBVIOUS
  <2>. QED  BY <2>3, <2>4
<1>2. Cardinality({reader, sender, display, receiver}) = 4
  BY STalkAssumption
<1>3. ASSUME reader = sender \/ reader = display \/ reader = receiver PROVE FALSE
  <2>1. {reader, sender, display, receiver} = {sender, display, receiver}
    BY <1>3
  <2>. QED  BY <1>1, <1>2, <2>1
<1>4. ASSUME sender = display \/ sender = receiver PROVE FALSE
  <2>1. {reader, sender, display, receiver} = {reader, display, receiver}
    BY <1>4
  <2>. QED  BY <1>1, <1>2, <2>1
<1>5. ASSUME display = receiver PROVE FALSE
  <2>1. {reader, sender, display, receiver} = {reader, sender, receiver}
    BY <1>5
  <2>. QED  BY <1>1, <1>2, <2>1
<1>. QED  BY <1>3, <1>4, <1>5

\* The reader and the receiver only put messages in, and when they find an
\* escape character in their buffer it is the one that has just come in.
\* The display only takes messages out.
\* The sender takes messages out, and puts in the bare escape character, which
\* it leaves in its buffer; it does so at most once, before it stops.
Roles ==
  /\ at[reader].fn = "consume" /\ at[receiver].fn = "consume"
  /\ pc[reader] = "escape" /\ at[reader].msg = Bang => Said(typed, Bang)
  /\ pc[receiver] = "escape" /\ at[receiver].msg = Bang => Said(arrived, Bang)
  /\ at[display].pc # "out" => at[display].fn = "produce" /\ pc[display] = "show"
  /\ at[sender].pc # "out" =>
       \/ at[sender].fn = "produce" /\ pc[sender] = "send"
       \/ at[sender].fn = "consume" /\ at[sender].msg = RawBang
  /\ at[sender].msg = RawBang => shutdownFlag /\ pc[sender] \in {"check", "done"}

\* What a step inside a call may do to the calls: only produce() writes to the
\* buffer of its caller, and never a bare escape character.
LEMMA CallEffect ==
  ASSUME MailboxTypeOK, NEW t \in Thread, CallStep(t) \/ SpuriousWake(t)
  PROVE  /\ at' \in [Thread -> Call]
         /\ \A u \in Thread : SameCall(u)
         /\ \A u \in Thread : at'[u].pc # "out" => at[u].pc # "out"
         /\ \A u \in Thread \ {t} :
              /\ at'[u].msg = at[u].msg
              /\ (at'[u].pc = "out") = (at[u].pc = "out")
         /\ at[t].pc # "out"
         /\ at'[t].msg # at[t].msg => at[t].fn = "produce" /\ at'[t].msg # RawBang
<1>. at \in [Thread -> Call] /\ MailboxTypeOK
  BY DEF MailboxTypeOK
<1>1. CASE LockAndPass(t)
  BY <1>1 DEF LockAndPass, Call, SameCall
<1>2. CASE LockAndWait(t)
  BY <1>2 DEF LockAndWait, Call, SameCall
<1>3. CASE SpuriousWake(t)
  BY <1>3 DEF SpuriousWake, Call, SameCall
<1>4. CASE Prepend(t)
  <2>1. at[t].pc = "holding" /\ at[t].msg \in Message /\ ReturnAndSignal(t, at[t].msg)
    BY <1>4 DEF Prepend, Call
  <2>. QED  BY <2>1, SignalMoves
<1>5. CASE Trim(t)
  <2>. DEFINE l == ListOf[at[t].box]
  <2>1. at[t].pc = "holding" /\ at[t].fn = "produce"
    BY <1>5 DEF Trim
  <2>2. \E text \in Message :
          ReturnAndSignal(t, text) /\ (text = at[t].msg \/ text # RawBang)
    <3>1. CASE queue[l] = <<>>
      BY <1>5, <3>1 DEF Trim, Call
    <3>2. CASE queue[l] # <<>>
      <4>1. Head(queue[l]) \in Message
        <5>1. queue[l] \in Seq(Message)
          BY MailboxAssumption DEF MailboxTypeOK, Call
        <5>. QED  BY <3>2, <5>1
      <4>2. \A text \in Reads[Head(queue[l])] : text \in Message /\ text # RawBang
        BY <4>1, STalkAssumption, Constants
      <4>. QED  BY <1>5, <3>2, <4>2 DEF Trim
    <3>. QED  BY <3>1, <3>2
  <2>. QED  BY <2>1, <2>2, SignalMoves
<1>. QED  BY <1>1, <1>2, <1>3, <1>4, <1>5 DEF CallStep

LEMMA RolesStart ==
  ASSUME NEW kind, InitWith(kind)
  PROVE  Roles
<1>1. Junk # RawBang /\ Junk # Bang
  BY STalkAssumption
<1>. QED  BY <1>1, Constants, FourThreads DEF InitWith, Roles

\* Calls of consume() and produce() begin and end as the roles say.
LEMMA RolesInCall ==
  ASSUME MailboxTypeOK, Roles, NEW t \in Thread, CallStep(t) \/ SpuriousWake(t),
         UNCHANGED <<threadVars, historyVars>>
  PROVE  Roles'
<1>. USE Constants
<1>1. /\ \A u \in Thread : at'[u].fn = at[u].fn
      /\ \A u \in Thread : at'[u].pc # "out" => at[u].pc # "out"
      /\ \A u \in Thread \ {t} : at'[u].msg = at[u].msg
      /\ at'[t].msg # at[t].msg => at[t].fn = "produce" /\ at'[t].msg # RawBang
  BY CallEffect DEF SameCall
<1>2. UNCHANGED <<pc, shutdownFlag, typed, arrived>>
  BY DEF threadVars, historyVars
<1>3. \A u \in {reader, receiver} : at'[u].msg = at[u].msg
  BY <1>1 DEF Roles
<1>4. at'[sender].pc # "out" => at'[sender].msg = at[sender].msg
                                 \/ at[sender].fn = "produce"
  BY <1>1
<1>5. at'[sender].msg = RawBang => at[sender].msg = RawBang
  BY <1>1
<1>6. (at[reader].fn = "consume" /\ at[receiver].fn = "consume")'
  BY <1>1 DEF Roles
<1>7. (pc[reader] = "escape" /\ at[reader].msg = Bang => Said(typed, Bang))'
  BY <1>2, <1>3 DEF Roles, Said
<1>8. (pc[receiver] = "escape" /\ at[receiver].msg = Bang => Said(arrived, Bang))'
  BY <1>2, <1>3 DEF Roles, Said
<1>9. (at[display].pc # "out" => at[display].fn = "produce" /\ pc[display] = "show")'
  BY <1>1, <1>2 DEF Roles
<1>10. (at[sender].pc # "out" =>
          \/ at[sender].fn = "produce" /\ pc[sender] = "send"
          \/ at[sender].fn = "consume" /\ at[sender].msg = RawBang)'
  BY <1>1, <1>2, <1>4 DEF Roles
<1>11. (at[sender].msg = RawBang => shutdownFlag /\ pc[sender] \in {"check", "done"})'
  BY <1>2, <1>5 DEF Roles
<1>. QED  BY <1>6, <1>7, <1>8, <1>9, <1>10, <1>11 DEF Roles

LEMMA RolesKept ==
  ASSUME MailboxTypeOK, HistoryTypeOK, ProcessTypeOK, Roles, Next
  PROVE  Roles'
<1>. USE Constants, FourThreads DEF NoListStep, Goto, Roles
<1>0. /\ at \in [Thread -> Call] /\ DOMAIN pc = Thread
      /\ pc \in [Thread -> {"setup", "check", "loop", "show", "send", "escape", "done"}]
  BY DEF MailboxTypeOK, ProcessTypeOK
<1>1. ASSUME UNCHANGED <<at, shutdownFlag, historyVars>>,
             NEW t \in Thread, At(t, pc[t]),
             NEW p \in {"check", "loop", "escape", "done"}, Goto(t, p),
             p = "escape" => t = sender,
             t = sender /\ p \in {"loop", "escape"} => at[t].msg # RawBang
      PROVE  Roles'
  BY <1>0, <1>1 DEF At, historyVars, Said
<1>2. ASSUME NEW t \in Thread, Check(t) PROVE Roles'
  <2>1. t = sender /\ at[t].msg = RawBang => shutdownFlag
    OBVIOUS
  <2>. QED  BY <1>0, <1>1, <1>2, <2>1 DEF Check, At
<1>3. ASSUME NEW t \in {reader, sender, receiver}, NEW m \in Mailbox,
             EscapeOrLoop(t, m), At(t, "escape")
      PROVE  Roles'
  <2>1. CASE at[t].msg # Bang
    BY <1>0, <1>1, <1>3, <2>1 DEF EscapeOrLoop, At
  <2>2. CASE at[t].msg = Bang
    <3>1. /\ at' = [at EXCEPT ![t] = [pc |-> "lock", fn |-> "consume", box |-> m,
                                      msg |-> RawBang]]
          /\ pc' = [pc EXCEPT ![t] = "check"]
          /\ shutdownFlag' = TRUE /\ UNCHANGED historyVars
      BY <1>3, <2>2 DEF EscapeOrLoop, Consume, Enter
    <3>. QED  BY <1>0, <3>1 DEF historyVars, Said
  <2>. QED  BY <2>1, <2>2
<1>4. ASSUME NEW t \in Thread, MailboxStep(t) \/ Wakeup(t) PROVE Roles'
  BY <1>4, RolesInCall DEF MailboxStep, Wakeup
<1>5. ASSUME NEW t \in Thread, TearList(t) \/ TrimCrash(t) \/ Join \/ Destroy
      PROVE  Roles'
  BY <1>5 DEF TearList, TrimCrash, Join, Destroy, mboxVars, threadVars,
              historyVars, Said
<1>6. ASSUME NEW t \in Thread, Setup(t) PROVE Roles'
  <2>1. CASE UNCHANGED pc
    BY <1>6, <2>1 DEF Setup, mboxVars, historyVars, Said
  <2>2. CASE Goto(t, "check")
    BY <1>0, <1>1, <1>6, <2>2 DEF Setup, At, mboxVars
  <2>. QED  BY <1>6, <2>1, <2>2 DEF Setup
<1>7. CASE ReadLine
  <2>1. PICK msg \in Line :
          /\ typed' = Append(typed, msg) /\ UNCHANGED <<arrived, shutdownFlag>>
          /\ at' = [at EXCEPT ![reader] = [pc |-> "lock", fn |-> "consume",
                                           box |-> hostMsg, msg |-> msg]]
          /\ pc' = [pc EXCEPT ![reader] = "escape"]
    BY <1>7 DEF ReadLine, Consume, Enter
  <2>2. msg = Bang => Said(typed', Bang)
    BY <2>1, SaidAppend DEF HistoryTypeOK
  <2>. QED  BY <1>0, <2>1, <2>2 DEF Said
<1>8. CASE RecvFrom
  <2>1. PICK msg \in Datagram :
          /\ arrived' = Append(arrived, msg) /\ UNCHANGED <<typed, shutdownFlag>>
          /\ at' = [at EXCEPT ![receiver] = [pc |-> "lock", fn |-> "consume",
                                             box |-> remoteMsg, msg |-> msg]]
          /\ pc' = [pc EXCEPT ![receiver] = "escape"]
    BY <1>8 DEF RecvFrom, Consume, Enter
  <2>2. msg = Bang => Said(arrived', Bang)
    BY <2>1, SaidAppend DEF HistoryTypeOK
  <2>. QED  BY <1>0, <2>1, <2>2 DEF Said
<1>9. CASE ReadNothing \/ RecvFails
  BY <1>0, <1>1, <1>9 DEF ReadNothing, RecvFails, At
<1>10. CASE DisplayProduce
  <2>1. /\ UNCHANGED <<typed, arrived, shutdownFlag>> /\ at[display].pc = "out"
        /\ at' = [at EXCEPT ![display] = [pc |-> "lock", fn |-> "produce",
                                box |-> remoteMsg, msg |-> at[display].msg]]
        /\ pc' = [pc EXCEPT ![display] = "show"]
    BY <1>10 DEF DisplayProduce, Produce, Enter, historyVars
  <2>. QED  BY <1>0, <2>1 DEF Said
<1>11. CASE SenderProduce
  <2>1. /\ UNCHANGED <<typed, arrived, shutdownFlag>> /\ pc[sender] = "loop"
        /\ at' = [at EXCEPT ![sender] = [pc |-> "lock", fn |-> "produce",
                                box |-> hostMsg, msg |-> at[sender].msg]]
        /\ pc' = [pc EXCEPT ![sender] = "send"]
    BY <1>11 DEF SenderProduce, Produce, Enter, historyVars, At
  <2>. QED  BY <1>0, <2>1 DEF Said
<1>12. CASE Display
  <2>1. /\ UNCHANGED <<typed, arrived, shutdownFlag>> /\ at[display].pc = "out"
        /\ at' = at \/ at' = [at EXCEPT ![display].msg = Blank]
        /\ pc' = [pc EXCEPT ![display] = "check"]
    BY <1>12 DEF Display, SetBuffer, At
  <2>2. /\ at'[display].pc = "out"
        /\ at'[reader] = at[reader] /\ at'[receiver] = at[receiver]
        /\ at'[sender] = at[sender]
    BY <1>0, <2>1 DEF Call
  <2>. QED  BY <1>0, <2>1, <2>2 DEF Said
<1>13. CASE SendTo
  <2>1. /\ UNCHANGED <<at, typed, arrived, shutdownFlag>> /\ pc[sender] = "send"
        /\ \/ pc' = [pc EXCEPT ![sender] = "escape"]
           \/ pc' = [pc EXCEPT ![sender] = "check"]
        /\ at[sender].pc = "out"
    BY <1>13 DEF SendTo, At
  <2>. QED  BY <1>0, <2>1 DEF Said
<1>14. CASE ReaderEscape \/ SenderEscape \/ ReceiverEscape
  BY <1>3, <1>14 DEF ReaderEscape, SenderEscape, ReceiverEscape
<1>. QED
  BY <1>2, <1>4, <1>5, <1>6, <1>7, <1>8, <1>9, <1>10, <1>11, <1>12, <1>13, <1>14
     DEF Next, ReaderStep, DisplayStep, SenderStep, ReceiverStep, MainStep
-----------------------------------------------------------------------------
(* The order of what is shown.                                             *)

\* The lists p are the lists q with e at the end of l, or q without the oldest
\* message of l, which is e.
Differ(q, p, l) ==
  /\ q \in [List -> Seq(Message)] /\ p \in [List -> Seq(Message)]
  /\ l \in List /\ \A k \in List \ {l} : p[k] = q[k]

Longer(q, p, l, e)  == Differ(q, p, l) /\ e \in Message /\ p[l] = Append(q[l], e)

Shorter(q, p, l, e) ==
  Differ(q, p, l) /\ q[l] # <<>> /\ e = Head(q[l]) /\ p[l] = Tail(q[l])

\* The texts of datagrams, and the list they come to.
Plain    == Datagram \ {Bang, Junk, Blank}
Incoming == ListOf[remoteMsg]

\* The receiver is about to put m in.
Hand(m) == at[receiver].pc # "out" /\ at[receiver].msg = m

\* No x comes after a y in s; and no x has arrived after a y.
Ordered(s, x, y) == \A k, n \in DOMAIN s : k < n /\ s[k] = y => s[n] # x
InOrder(x, y) ==
  \A i, j \in DOMAIN arrived : arrived[i] = x /\ arrived[j] = y => i < j

\* The buffer of the reader, and the mailboxes of the display and the receiver.
Ways ==
  /\ at[reader].msg \in {Junk, RawBang} \/ Said(typed, at[reader].msg)
  /\ at[display].pc # "out" => at[display].box = remoteMsg
  /\ at[receiver].pc # "out" =>
       at[receiver].box = remoteMsg \/ at[receiver].msg = RawBang

\* A message that only the receiver brings in is in no list but one, and is
\* nowhere on the way to the screen before it has arrived.
Placed ==
  \A m \in Plain : ~Said(typed, m) =>
    /\ \A l \in List : Said(queue[l], m) => l = Incoming
    /\ \/ Said(shown, m) \/ at[display].msg = m \/ Said(queue[Incoming], m)
       \/ Hand(m)
       => Said(arrived, m)

\* On its way to the screen no x is behind a y.
Lined(x, y) ==
  /\ Ordered(shown, x, y)
  /\ Said(shown, y) => at[display].msg # x /\ ~Said(queue[Incoming], x) /\ ~Hand(x)
  /\ at[display].msg = y => ~Said(queue[Incoming], x) /\ ~Hand(x)
  /\ Ordered(queue[Incoming], x, y)
  /\ Said(queue[Incoming], y) => ~Hand(x)

LinedUp ==
  \A x, y \in Plain :
    x # y /\ ~Said(typed, x) /\ ~Said(typed, y) /\ InOrder(x, y) => Lined(x, y)

LEMMA SaidAppended ==
  ASSUME NEW S, NEW s \in Seq(S), NEW e \in S
  PROVE  /\ \A m : Said(Append(s, e), m) <=> Said(s, m) \/ e = m
         /\ \A x, y : Ordered(Append(s, e), x, y)
                        <=> Ordered(s, x, y) /\ (e = x => ~Said(s, y))
<1>1. /\ DOMAIN Append(s, e) = 1 .. Len(s) + 1 /\ DOMAIN s = 1 .. Len(s)
      /\ Append(s, e)[Len(s) + 1] = e
      /\ \A i \in 1 .. Len(s) : Append(s, e)[i] = s[i]
      /\ Len(s) \in Nat
  OBVIOUS
<1>2. \A m : Said(Append(s, e), m) <=> Said(s, m) \/ e = m
  BY <1>1 DEF Said
<1>3. ASSUME NEW x, NEW y, Ordered(Append(s, e), x, y)
      PROVE  Ordered(s, x, y) /\ (e = x => ~Said(s, y))
  BY <1>1, <1>3 DEF Ordered, Said
<1>4. ASSUME NEW x, NEW y, Ordered(s, x, y), e = x => ~Said(s, y)
      PROVE  Ordered(Append(s, e), x, y)
  BY <1>1, <1>4 DEF Ordered, Said
<1>. QED  BY <1>2, <1>3, <1>4

LEMMA SaidTail ==
  ASSUME NEW S, NEW s \in Seq(S), s # <<>>
  PROVE  /\ Said(s, Head(s))
         /\ \A m : Said(Tail(s), m) => Said(s, m)
         /\ \A x, y : Ordered(s, x, y) => Ordered(Tail(s), x, y)
         /\ \A x, y : Ordered(s, x, y) /\ Head(s) = y => ~Said(Tail(s), x)
<1>1. /\ DOMAIN s = 1 .. Len(s) /\ DOMAIN Tail(s) = 1 .. Len(s) - 1
      /\ \A i \in 1 .. Len(s) - 1 : Tail(s)[i] = s[i + 1]
      /\ Len(s) \in Nat /\ Len(s) >= 1 /\ s[1] = Head(s)
  OBVIOUS
<1>2. Said(s, Head(s))
  BY <1>1 DEF Said
<1>3. \A m : Said(Tail(s), m) => Said(s, m)
  BY <1>1 DEF Said
<1>4. \A x, y : Ordered(s, x, y) => Ordered(Tail(s), x, y)
  BY <1>1 DEF Ordered
<1>5. \A x, y : Ordered(s, x, y) /\ Head(s) = y => ~Said(Tail(s), x)
  BY <1>1 DEF Ordered, Said
<1>. QED  BY <1>2, <1>3, <1>4, <1>5

\* The steps that matter to the order.
NoNews ==
  /\ arrived' = arrived
  /\ \A m : Said(typed, m) => Said(typed', m)
  /\ \A m \in Plain : Hand(m)' => Hand(m)

Stays ==
  /\ NoNews /\ UNCHANGED <<queue, shown>>
  /\ at'[display].msg \in {at[display].msg, Blank}

Shows ==
  /\ NoNews /\ UNCHANGED queue
  /\ shown' = Append(shown, at[display].msg) /\ at'[display].msg = Blank

PutsIn ==
  /\ NoNews /\ UNCHANGED shown /\ at'[display].msg = at[display].msg
  /\ \E l \in List : \E e \in Message :
       /\ Longer(queue, queue', l, e)
       /\ e \in Plain /\ ~Said(typed, e) =>
            l = Incoming /\ Hand(e) /\ \A m \in Plain : ~Hand(m)'

TakesOut ==
  /\ NoNews /\ UNCHANGED shown
  /\ \E l \in List : \E e \in Message :
       /\ Shorter(queue, queue', l, e)
       /\ \/ at'[display].msg = at[display].msg
          \/ l = Incoming /\ (at'[display].msg \in Plain => at'[display].msg = e)

Arrives ==
  /\ UNCHANGED <<typed, queue, shown>> /\ at'[display].msg = at[display].msg
  /\ \E msg \in Datagram :
       /\ arrived' = Append(arrived, msg)
       /\ \A m \in Plain : Hand(m)' => m = msg

Moves == Stays \/ Shows \/ PutsIn \/ TakesOut \/ Arrives

LEMMA ListsTyped ==
  ASSUME MailboxTypeOK
  PROVE  /\ queue \in [List -> Seq(Message)] /\ Incoming \in List
         /\ at[display].msg \in Message /\ at \in [Thread -> Call]
BY MailboxAssumption, Constants DEF MailboxTypeOK, Call, Incoming

\* Where a message may be found after a list has grown or shrunk.
LEMMA SaidLonger ==
  ASSUME NEW q, NEW p, NEW l, NEW e, Longer(q, p, l, e), NEW k \in List
  PROVE  /\ \A m : Said(p[k], m) <=> Said(q[k], m) \/ (k = l /\ e = m)
         /\ \A x, y : Ordered(p[k], x, y)
                        <=> Ordered(q[k], x, y) /\ (k = l /\ e = x => ~Said(q[k], y))
<1>1. CASE k = l
  <2>1. q[k] \in Seq(Message) /\ e \in Message /\ p[k] = Append(q[k], e)
    BY <1>1 DEF Longer, Differ
  <2>. QED  BY <1>1, <2>1, SaidAppended
<1>2. CASE k # l
  <2>1. p[k] = q[k]
    BY <1>2 DEF Longer, Differ
  <2>. QED  BY <1>2, <2>1
<1>. QED  BY <1>1, <1>2

LEMMA SaidShorter ==
  ASSUME NEW q, NEW p, NEW l, NEW e, Shorter(q, p, l, e), NEW k \in List
  PROVE  /\ Said(q[l], e)
         /\ \A m : Said(p[k], m) => Said(q[k], m)
         /\ \A x, y : Ordered(q[k], x, y) => Ordered(p[k], x, y)
         /\ \A x, y : k = l /\ Ordered(q[k], x, y) /\ e = y => ~Said(p[k], x)
<1>1. /\ q[l] \in Seq(Message) /\ q[l] # <<>> /\ e = Head(q[l]) /\ p[l] = Tail(q[l])
      /\ l \in List
  BY DEF Shorter, Differ
<1>2. /\ Said(q[l], Head(q[l]))
      /\ \A m : Said(Tail(q[l]), m) => Said(q[l], m)
      /\ \A x, y : Ordered(q[l], x, y) => Ordered(Tail(q[l]), x, y)
      /\ \A x, y : Ordered(q[l], x, y) /\ Head(q[l]) = y => ~Said(Tail(q[l]), x)
  BY <1>1, SaidTail
<1>3. CASE k = l
  BY <1>1, <1>2, <1>3
<1>4. CASE k # l
  <2>1. p[k] = q[k]
    BY <1>4 DEF Shorter, Differ
  <2>. QED  BY <1>1, <1>2, <1>4, <2>1
<1>. QED  BY <1>3, <1>4

LEMMA BlankNotPlain == Blank \notin Plain /\ RawBang \notin Plain /\ Plain \subseteq Message
BY STalkAssumption, Constants DEF Plain

LEMMA PlacedKept ==
  ASSUME MailboxTypeOK, HistoryTypeOK, shown \in Seq(Message), Placed, Moves
  PROVE  Placed'
<1>. SUFFICES ASSUME NEW m \in Plain, ~Said(typed', m)
              PROVE  /\ \A l \in List : Said(queue'[l], m) => l = Incoming
                     /\ \/ Said(shown', m) \/ at'[display].msg = m
                        \/ Said(queue'[Incoming], m) \/ Hand(m)'
                        => Said(arrived', m)
  BY DEF Placed, Incoming
<1>1. /\ Incoming \in List /\ at[display].msg \in Message
      /\ queue \in [List -> Seq(Message)]
      /\ m # Blank /\ m # RawBang
  BY ListsTyped, BlankNotPlain
<1>2. ~Said(typed, m)
  BY DEF Moves, Stays, Shows, PutsIn, TakesOut, Arrives, NoNews
<1>3. /\ \A l \in List : Said(queue[l], m) => l = Incoming
      /\ \/ Said(shown, m) \/ at[display].msg = m \/ Said(queue[Incoming], m)
         \/ Hand(m)
         => Said(arrived, m)
  BY <1>2 DEF Placed
<1>4. CASE Stays
  BY <1>1, <1>3, <1>4 DEF Stays, NoNews
<1>5. CASE Shows
  <2>1. Said(shown', m) => Said(shown, m) \/ at[display].msg = m
    BY <1>1, <1>5, SaidAppended DEF Shows
  <2>. QED  BY <1>1, <1>3, <1>5, <2>1 DEF Shows, NoNews
<1>6. CASE PutsIn
  <2>1. PICK l \in List : \E e \in Message :
          /\ Longer(queue, queue', l, e)
          /\ e \in Plain /\ ~Said(typed, e) =>
               l = Incoming /\ Hand(e) /\ \A n \in Plain : ~Hand(n)'
    BY <1>6 DEF PutsIn
  <2>2. PICK e \in Message :
          /\ Longer(queue, queue', l, e)
          /\ e \in Plain /\ ~Said(typed, e) =>
               l = Incoming /\ Hand(e) /\ \A n \in Plain : ~Hand(n)'
    BY <2>1
  <2>3. \A k \in List : Said(queue'[k], m) <=> Said(queue[k], m) \/ (k = l /\ e = m)
    BY <2>2, SaidLonger
  <2>4. e = m => l = Incoming /\ Hand(m)
    BY <1>2, <2>2
  <2>5. UNCHANGED <<shown, arrived>> /\ at'[display].msg = at[display].msg
        /\ (Hand(m)' => Hand(m))
    BY <1>6 DEF PutsIn, NoNews
  <2>. QED  BY <1>1, <1>3, <2>3, <2>4, <2>5
<1>7. CASE TakesOut
  <2>1. PICK l \in List : \E e \in Message :
          /\ Shorter(queue, queue', l, e)
          /\ \/ at'[display].msg = at[display].msg
             \/ l = Incoming /\ (at'[display].msg \in Plain => at'[display].msg = e)
    BY <1>7 DEF TakesOut
  <2>2. PICK e \in Message :
          /\ Shorter(queue, queue', l, e)
          /\ \/ at'[display].msg = at[display].msg
             \/ l = Incoming /\ (at'[display].msg \in Plain => at'[display].msg = e)
    BY <2>1
  <2>3. Said(queue[l], e) /\ \A k \in List : Said(queue'[k], m) => Said(queue[k], m)
    BY <2>2, SaidShorter
  <2>4. at'[display].msg = m => at[display].msg = m \/ Said(queue[Incoming], m)
    BY <2>2, <2>3
  <2>5. UNCHANGED <<shown, arrived>> /\ (Hand(m)' => Hand(m))
    BY <1>7 DEF TakesOut, NoNews
  <2>. QED  BY <1>1, <1>3, <2>3, <2>4, <2>5
<1>8. CASE Arrives
  <2>1. PICK msg \in Datagram : /\ arrived' = Append(arrived, msg)
                                /\ \A n \in Plain : Hand(n)' => n = msg
    BY <1>8 DEF Arrives
  <2>2. Said(arrived', m) <=> Said(arrived, m) \/ msg = m
    BY <2>1, SaidAppended DEF HistoryTypeOK
  <2>. QED  BY <1>3, <1>8, <2>1, <2>2 DEF Arrives
<1>. QED  BY <1>4, <1>5, <1>6, <1>7, <1>8 DEF Moves

\* What has been shown, put in or taken out keeps each pair of messages in line.
LEMMA LinedUpKept ==
  ASSUME MailboxTypeOK, HistoryTypeOK, shown \in Seq(Message), Placed, LinedUp, Moves
  PROVE  LinedUp'
<1>. SUFFICES ASSUME NEW x \in Plain, NEW y \in Plain, x # y,
                     ~Said(typed', x), ~Said(typed', y), InOrder(x, y)'
              PROVE  Lined(x, y)'
  BY DEF LinedUp
<1>1. /\ Incoming \in List /\ at[display].msg \in Message
      /\ queue \in [List -> Seq(Message)]
      /\ x # Blank /\ y # Blank
  BY ListsTyped, BlankNotPlain
<1>2. ~Said(typed, x) /\ ~Said(typed, y)
  BY DEF Moves, Stays, Shows, PutsIn, TakesOut, Arrives, NoNews
<1>3. ASSUME NEW msg \in Datagram, arrived' = Append(arrived, msg)
      PROVE  InOrder(x, y) /\ (msg = x => ~Said(arrived, y))
  <2>1. /\ DOMAIN arrived' = 1 .. Len(arrived) + 1 /\ DOMAIN arrived = 1 .. Len(arrived)
        /\ arrived'[Len(arrived) + 1] = msg
        /\ \A i \in 1 .. Len(arrived) : arrived'[i] = arrived[i]
        /\ Len(arrived) \in Nat
    BY <1>3 DEF HistoryTypeOK
  <2>2. \A i, j \in DOMAIN arrived' : arrived'[i] = x /\ arrived'[j] = y => i < j
    BY DEF InOrder
  <2>3. InOrder(x, y)
    BY <2>1, <2>2 DEF InOrder
  <2>4. ASSUME msg = x, NEW j \in DOMAIN arrived, arrived[j] = y PROVE FALSE
    <3>1. Len(arrived) + 1 < j
      BY <2>1, <2>2, <2>4
    <3>. QED  BY <2>1, <2>4, <3>1
  <2>. QED  BY <2>3, <2>4 DEF Said
<1>4. InOrder(x, y)
  <2>1. arrived' = arrived => InOrder(x, y)
    BY DEF InOrder
  <2>. QED
    BY <1>3, <2>1 DEF Moves, Stays, Shows, PutsIn, TakesOut, Arrives, NoNews
<1>5. Lined(x, y)
  BY <1>2, <1>4 DEF LinedUp
<1>6. CASE Stays
  BY <1>1, <1>5, <1>6 DEF Stays, NoNews, Lined, Incoming
<1>7. CASE Shows
  <2>1. /\ Said(shown', y) <=> Said(shown, y) \/ at[display].msg = y
        /\ Ordered(shown', x, y)
             <=> Ordered(shown, x, y) /\ (at[display].msg = x => ~Said(shown, y))
    BY <1>1, <1>7, SaidAppended DEF Shows
  <2>2. at'[display].msg = Blank /\ queue' = queue /\ (Hand(x)' => Hand(x))
    BY <1>7 DEF Shows, NoNews
  <2>. QED  BY <1>1, <1>5, <2>1, <2>2 DEF Lined, Incoming
<1>8. CASE PutsIn
  <2>1. PICK l \in List : \E e \in Message :
          /\ Longer(queue, queue', l, e)
          /\ e \in Plain /\ ~Said(typed, e) =>
               l = Incoming /\ Hand(e) /\ \A n \in Plain : ~Hand(n)'
    BY <1>8 DEF PutsIn
  <2>2. PICK e \in Message :
          /\ Longer(queue, queue', l, e)
          /\ e \in Plain /\ ~Said(typed, e) =>
               l = Incoming /\ Hand(e) /\ \A n \in Plain : ~Hand(n)'
    BY <2>1
  <2>6. \A k \in List :
          /\ \A m : Said(queue'[k], m) <=> Said(queue[k], m) \/ (k = l /\ e = m)
          /\ \A u, v : Ordered(queue'[k], u, v)
               <=> Ordered(queue[k], u, v) /\ (k = l /\ e = u => ~Said(queue[k], v))
    BY <2>2, SaidLonger
  <2>3. /\ \A m : Said(queue'[Incoming], m)
                    <=> Said(queue[Incoming], m) \/ (Incoming = l /\ e = m)
        /\ Ordered(queue'[Incoming], x, y)
             <=> /\ Ordered(queue[Incoming], x, y)
                 /\ Incoming = l /\ e = x => ~Said(queue[Incoming], y)
    BY <1>1, <2>6
  <2>4. /\ e = x => Hand(x)
        /\ e = y => ~Hand(x)'
    BY <1>2, <2>2
  <2>5. UNCHANGED shown /\ at'[display].msg = at[display].msg /\ (Hand(x)' => Hand(x))
    BY <1>8 DEF PutsIn, NoNews
  <2>. QED  BY <1>5, <2>3, <2>4, <2>5 DEF Lined, Incoming
<1>9. CASE TakesOut
  <2>1. PICK l \in List : \E e \in Message :
          /\ Shorter(queue, queue', l, e)
          /\ \/ at'[display].msg = at[display].msg
             \/ l = Incoming /\ (at'[display].msg \in Plain => at'[display].msg = e)
    BY <1>9 DEF TakesOut
  <2>2. PICK e \in Message :
          /\ Shorter(queue, queue', l, e)
          /\ \/ at'[display].msg = at[display].msg
             \/ l = Incoming /\ (at'[display].msg \in Plain => at'[display].msg = e)
    BY <2>1
  <2>6. PICK k \in List : k = Incoming
    BY <1>1
  <2>7. Shorter(queue, queue', l, e)
    BY <2>2
  <2>8. /\ Said(queue[l], e)
        /\ \A m : Said(queue'[k], m) => Said(queue[k], m)
        /\ Ordered(queue[k], x, y) => Ordered(queue'[k], x, y)
        /\ k = l /\ Ordered(queue[k], x, y) /\ e = y => ~Said(queue'[k], x)
    <3>1. Said(queue[l], e)
      BY <2>7, SaidShorter
    <3>2. \A m : Said(queue'[k], m) => Said(queue[k], m)
      BY <2>7, SaidShorter
    <3>3. Ordered(queue[k], x, y) => Ordered(queue'[k], x, y)
      BY <2>7, SaidShorter
    <3>4. k = l /\ Ordered(queue[k], x, y) /\ e = y => ~Said(queue'[k], x)
      BY <2>7, SaidShorter
    <3>. QED  BY <3>1, <3>2, <3>3, <3>4
  <2>3. /\ Said(queue[l], e)
        /\ \A m : Said(queue'[Incoming], m) => Said(queue[Incoming], m)
        /\ Ordered(queue[Incoming], x, y) => Ordered(queue'[Incoming], x, y)
        /\ Incoming = l /\ Ordered(queue[Incoming], x, y) /\ e = y
             => ~Said(queue'[Incoming], x)
    BY <2>6, <2>8
  <2>4. UNCHANGED shown /\ (Hand(x)' => Hand(x))
    BY <1>9 DEF TakesOut, NoNews
  <2>5. /\ at'[display].msg = x =>
             at[display].msg = x \/ Said(queue[Incoming], x)
        /\ at'[display].msg = y =>
             at[display].msg = y \/ (l = Incoming /\ e = y)
    BY <2>2, <2>3
  <2>. QED  BY <1>5, <2>3, <2>4, <2>5 DEF Lined, Incoming
<1>10. CASE Arrives
  <2>1. PICK msg \in Datagram : /\ arrived' = Append(arrived, msg)
                                /\ \A n \in Plain : Hand(n)' => n = msg
    BY <1>10 DEF Arrives
  <2>2. UNCHANGED <<queue, shown>> /\ at'[display].msg = at[display].msg
    BY <1>10 DEF Arrives
  <2>3. Hand(x)' => ~Said(arrived, y)
    BY <1>3, <2>1
  <2>4. ~Said(arrived, y) =>
          ~Said(shown, y) /\ at[display].msg # y /\ ~Said(queue[Incoming], y)
    BY <1>2 DEF Placed
  <2>. QED  BY <1>5, <2>2, <2>3, <2>4 DEF Lined, Incoming
<1>. QED  BY <1>6, <1>7, <1>8, <1>9, <1>10 DEF Moves
\* What is read from a stored message is that message, or is not the text of a
\* datagram.
LEMMA PlainReads ==
  ASSUME NEW e \in Message, NEW text \in Reads[e], text \in Plain
  PROVE  text = e
<1>1. CASE e = RawBang
  BY <1>1, STalkAssumption DEF Plain
<1>2. CASE e # RawBang
  BY <1>2, STalkAssumption
<1>. QED  BY <1>1, <1>2

\* A step inside a call only moves messages from the hands of its thread into a
\* list, or from a list into the buffer of its thread.
LEMMA MovesInCall ==
  ASSUME MailboxTypeOK, Roles, Ways, NEW t \in Thread,
         CallStep(t) \/ SpuriousWake(t), UNCHANGED <<threadVars, historyVars>>
  PROVE  Moves /\ Ways'
<1>. USE Constants, FourThreads
<1>1. /\ \A u \in Thread : SameCall(u)
      /\ \A u \in Thread : at'[u].pc # "out" => at[u].pc # "out"
      /\ \A u \in Thread \ {t} : at'[u].msg = at[u].msg
      /\ at[t].pc # "out"
      /\ at'[t].msg # at[t].msg => at[t].fn = "produce"
  BY CallEffect
<1>2. UNCHANGED <<typed, arrived, shown>>
  BY DEF historyVars
<1>3. \A u \in {reader, receiver} : at'[u].msg = at[u].msg
  BY <1>1 DEF Roles
<1>4. NoNews
  BY <1>1, <1>2, <1>3 DEF NoNews, Hand
<1>5. Ways'
  BY <1>1, <1>2, <1>3 DEF Ways, SameCall
<1>6. at[t].fn = "consume" => at'[display].msg = at[display].msg
  BY <1>1 DEF Roles
<1>7. /\ queue \in [List -> Seq(Message)] /\ ListOf[at[t].box] \in List
      /\ at[t].msg \in Message /\ at[t].fn \in {"consume", "produce"}
  BY MailboxAssumption DEF MailboxTypeOK, Call, Fn
<1>8. PICK l \in List : l = ListOf[at[t].box]
  BY <1>7
<1>9. CASE LockAndPass(t) \/ LockAndWait(t) \/ SpuriousWake(t)
  <2>0. \E p \in {"holding", "waiting", "lock"} :
          queue' = queue /\ at' = [at EXCEPT ![t].pc = p]
    BY <1>9 DEF LockAndPass, LockAndWait, SpuriousWake
  <2>1. queue' = queue /\ at'[display].msg = at[display].msg
    BY <2>0 DEF MailboxTypeOK, Call
  <2>. QED  BY <1>2, <1>4, <1>5, <2>1 DEF Moves, Stays
<1>10. CASE Prepend(t)
  <2>1. /\ at[t].fn = "consume" /\ at[t].pc = "holding"
        /\ queue' = queue \/ queue' = [queue EXCEPT ![l] = Append(queue[l], at[t].msg)]
    BY <1>8, <1>10 DEF Prepend
  <2>2. CASE queue' = queue
    BY <1>2, <1>4, <1>5, <1>6, <2>1, <2>2 DEF Moves, Stays
  <2>3. CASE queue' = [queue EXCEPT ![l] = Append(queue[l], at[t].msg)]
    <3>1. Longer(queue, queue', l, at[t].msg)
      BY <1>7, <1>8, <2>3 DEF Longer, Differ
    <3>2. at'[t].pc = "out"
      BY <1>7, <1>10, SignalMoves DEF Prepend
    <3>3. t \in {reader, sender, receiver}
      BY <2>1, STalkAssumption DEF Roles
    <3>4. ASSUME at[t].msg \in Plain, ~Said(typed, at[t].msg)
          PROVE  l = Incoming /\ Hand(at[t].msg) /\ \A m \in Plain : ~Hand(m)'
      <4>1. at[t].msg # Junk /\ at[t].msg # RawBang
        BY <3>4, BlankNotPlain DEF Plain
      <4>2. t = receiver
        BY <1>1, <2>1, <3>3, <3>4, <4>1 DEF Roles, Ways
      <4>. QED  BY <1>1, <1>8, <3>2, <4>1, <4>2 DEF Ways, Hand, Incoming
    <3>5. PICK e \in Message : e = at[t].msg
      BY <1>7
    <3>6. /\ Longer(queue, queue', l, e)
          /\ e \in Plain /\ ~Said(typed, e) =>
               l = Incoming /\ Hand(e) /\ \A m \in Plain : ~Hand(m)'
      BY <3>1, <3>4, <3>5
    <3>. QED  BY <1>2, <1>4, <1>5, <1>6, <2>1, <3>6 DEF Moves, PutsIn
  <2>. QED  BY <2>1, <2>2, <2>3
<1>11. CASE Trim(t)
  <2>1. at[t].fn = "produce" /\ at[t].pc = "holding"
    BY <1>11 DEF Trim
  <2>2. CASE queue[l] = <<>>
    <3>1. queue' = queue /\ ReturnAndSignal(t, at[t].msg)
      BY <1>8, <1>11, <2>2 DEF Trim
    <3>2. at'[t].msg = at[t].msg
      BY <1>7, <2>1, <3>1, SignalMoves
    <3>. QED  BY <1>1, <1>2, <1>4, <1>5, <3>1, <3>2 DEF Moves, Stays
  <2>3. CASE queue[l] # <<>>
    <3>1. PICK text \in Reads[Head(queue[l])] :
            ReturnAndSignal(t, text) /\ queue' = [queue EXCEPT ![l] = Tail(queue[l])]
      BY <1>8, <1>11, <2>3 DEF Trim
    <3>2. PICK e \in Message : e = Head(queue[l])
      BY <1>7, <2>3
    <3>3. Shorter(queue, queue', l, e)
      BY <1>7, <2>3, <3>1, <3>2 DEF Shorter, Differ
    <3>4. text \in Message /\ (text \in Plain => text = e)
      BY <3>1, <3>2, PlainReads, MailboxAssumption
    <3>5. at'[t].msg = text
      BY <2>1, <3>1, <3>4, SignalMoves
    <3>6. \/ at'[display].msg = at[display].msg
          \/ l = Incoming /\ (at'[display].msg \in Plain => at'[display].msg = e)
      BY <1>1, <1>8, <3>4, <3>5 DEF Ways, Incoming
    <3>. QED  BY <1>2, <1>4, <1>5, <3>3, <3>6 DEF Moves, TakesOut
  <2>. QED  BY <2>2, <2>3
<1>. QED  BY <1>9, <1>10, <1>11 DEF CallStep
\* The receiver puts a datagram in its hand, or bytes nobody wrote instead.
LEMMA MovesByArrival ==
  ASSUME MailboxTypeOK, HistoryTypeOK, Ways, NEW msg \in Datagram, NEW text \in {msg, Junk},
         arrived' = Append(arrived, msg), Enter(receiver, "consume", remoteMsg, text),
         UNCHANGED <<typed, queue, shown>>
  PROVE  Moves /\ Ways'
<1>. USE Constants, FourThreads
<1>1. at' = [at EXCEPT ![receiver] = [pc |-> "lock", fn |-> "consume",
                                      box |-> remoteMsg, msg |-> text]]
  BY DEF Enter
<1>2. /\ at'[receiver].msg = text /\ at'[receiver].box = remoteMsg
      /\ at'[reader] = at[reader] /\ at'[display] = at[display]
  BY <1>1 DEF MailboxTypeOK
<1>3. \A m \in Plain : Hand(m)' => m = msg
  BY <1>2 DEF Hand, Plain
<1>. QED  BY <1>2, <1>3 DEF Moves, Arrives, Ways

LEMMA MovesInStep ==
  ASSUME MailboxTypeOK, HistoryTypeOK, Roles, Ways, Next
  PROVE  Moves /\ Ways'
<1>. USE Constants, FourThreads DEF NoListStep
<1>0. at \in [Thread -> Call]
  BY DEF MailboxTypeOK
<1>1. ASSUME UNCHANGED <<queue, at, typed, arrived, shown>> PROVE Moves /\ Ways'
  BY <1>1 DEF Moves, Stays, NoNews, Hand, Ways
<1>2. ASSUME NEW t \in Thread, Check(t) \/ Setup(t) \/ TearList(t) \/ TrimCrash(t)
      PROVE  Moves /\ Ways'
  BY <1>1, <1>2 DEF Check, Setup, TearList, TrimCrash, mboxVars, historyVars
<1>3. CASE Join \/ Destroy \/ ReadNothing \/ RecvFails \/ SendTo
  BY <1>1, <1>3 DEF Join, Destroy, ReadNothing, RecvFails, SendTo, mboxVars, historyVars
<1>4. ASSUME NEW t \in Thread, MailboxStep(t) \/ Wakeup(t) PROVE Moves /\ Ways'
  BY <1>4, MovesInCall DEF MailboxStep, Wakeup
<1>5. ASSUME NEW t \in {reader, sender, receiver}, NEW m \in Mailbox, EscapeOrLoop(t, m)
      PROVE  Moves /\ Ways'
  <2>1. CASE at' = at
    BY <1>1, <1>5, <2>1 DEF EscapeOrLoop, historyVars
  <2>2. CASE at' # at
    <3>1. /\ at' = [at EXCEPT ![t] = [pc |-> "lock", fn |-> "consume", box |-> m,
                                      msg |-> RawBang]]
          /\ UNCHANGED <<queue, typed, arrived, shown>>
      BY <1>5, <2>2 DEF EscapeOrLoop, Consume, Enter, historyVars
    <3>2. /\ at'[display] = at[display]
          /\ t = receiver => at'[receiver].msg = RawBang
          /\ t # receiver => at'[receiver] = at[receiver]
          /\ at'[reader].msg = RawBang \/ at'[reader] = at[reader]
      BY <1>0, <3>1
    <3>3. \A k \in Plain : Hand(k)' => Hand(k)
      BY <3>2, BlankNotPlain DEF Hand
    <3>. QED  BY <3>1, <3>2, <3>3 DEF Moves, Stays, NoNews, Ways
  <2>. QED  BY <2>1, <2>2
<1>6. CASE ReaderEscape \/ SenderEscape \/ ReceiverEscape
  BY <1>5, <1>6 DEF ReaderEscape, SenderEscape, ReceiverEscape
<1>7. CASE ReadLine
  <2>1. PICK msg \in Line :
          /\ typed' = Append(typed, msg) /\ UNCHANGED <<queue, arrived, shown>>
          /\ at' = [at EXCEPT ![reader] = [pc |-> "lock", fn |-> "consume",
                                           box |-> hostMsg, msg |-> msg]]
    BY <1>7 DEF ReadLine, Consume, Enter
  <2>2. \A m : Said(typed', m) <=> Said(typed, m) \/ msg = m
    BY <2>1, SaidAppended DEF HistoryTypeOK
  <2>3. /\ at'[reader].msg = msg /\ at'[receiver] = at[receiver]
        /\ at'[display] = at[display]
    BY <1>0, <2>1
  <2>. QED  BY <2>1, <2>2, <2>3 DEF Moves, Stays, NoNews, Hand, Ways
<1>8. CASE RecvFrom
  <2>1. PICK msg \in Datagram :
          /\ arrived' = Append(arrived, msg) /\ UNCHANGED <<queue, typed, shown>>
          /\ Enter(receiver, "consume", remoteMsg, msg)
    BY <1>8 DEF RecvFrom, Consume
  <2>. QED  BY <2>1, MovesByArrival
<1>9. CASE DisplayProduce \/ SenderProduce
  <2>1. PICK t \in {display, sender} :
          \E m \in Mailbox :
            /\ at' = [at EXCEPT ![t] = [pc |-> "lock", fn |-> "produce",
                                        box |-> m, msg |-> at[t].msg]]
            /\ t = display => m = remoteMsg
    BY <1>9 DEF DisplayProduce, SenderProduce, Produce, Enter
  <2>2. UNCHANGED <<queue, typed, arrived, shown>>
    BY <1>9 DEF DisplayProduce, SenderProduce, historyVars
  <2>3. /\ at'[reader] = at[reader] /\ at'[receiver] = at[receiver]
        /\ at'[display].msg = at[display].msg
        /\ at'[display] = at[display] \/ at'[display].box = remoteMsg
    BY <1>0, <2>1
  <2>. QED  BY <2>2, <2>3 DEF Moves, Stays, NoNews, Hand, Ways
<1>10. CASE Display
  <2>1. UNCHANGED <<queue, typed, arrived>> /\ at[display].pc = "out"
    BY <1>10 DEF Display, At
  <2>2. CASE UNCHANGED <<at, shown>>
    BY <1>1, <2>1, <2>2
  <2>3. CASE shown' = Append(shown, at[display].msg) /\ SetBuffer(display, Blank)
    <3>1. /\ at'[reader] = at[reader] /\ at'[receiver] = at[receiver]
          /\ at'[display].msg = Blank /\ at'[display].pc = "out"
      BY <1>0, <2>1, <2>3 DEF SetBuffer, Call
    <3>. QED  BY <2>1, <2>3, <3>1 DEF Moves, Shows, NoNews, Hand, Ways
  <2>. QED  BY <1>10, <2>2, <2>3 DEF Display
<1>. QED
  BY <1>2, <1>3, <1>4, <1>6, <1>7, <1>8, <1>9, <1>10
     DEF Next, ReaderStep, DisplayStep, SenderStep, ReceiverStep, MainStep

\* The invariant of the order.
Queueing == Ways /\ Placed /\ LinedUp

LEMMA QueueingStarts ==
  ASSUME NEW kind, InitWith(kind)
  PROVE  Queueing
<1>1. /\ queue = [l \in List |-> <<>>] /\ shown = <<>>
      /\ \A t \in Thread : at[t].pc = "out" /\ at[t].msg = Junk
  BY DEF InitWith, MailboxInit
<1>2. Incoming \in List /\ \A m : ~Said(<<>>, m)
  BY MailboxAssumption, Constants DEF Incoming, Said
<1>3. Ways
  BY <1>1, Constants DEF Ways
<1>4. \A m \in Plain : m # Junk
  BY DEF Plain
<1>5. Placed
  BY <1>1, <1>2, <1>4, Constants DEF Placed, Hand
<1>6. \A x, y : Ordered(<<>>, x, y)
  BY DEF Ordered
<1>7. LinedUp
  BY <1>1, <1>2, <1>4, <1>6, Constants DEF LinedUp, Lined, Hand
<1>. QED  BY <1>3, <1>5, <1>7 DEF Queueing

LEMMA QueueingKept ==
  ASSUME MailboxTypeOK, HistoryTypeOK, shown \in Seq(Message), Queueing, Moves, Ways'
  PROVE  Queueing'
BY PlacedKept, LinedUpKept DEF Queueing

LEMMA QueueingStays ==
  ASSUME Queueing, UNCHANGED <<queue, at, typed, arrived, shown>>
  PROVE  Queueing'
BY DEF Queueing, Ways, Placed, LinedUp, Lined, Hand, Incoming, InOrder, Said

\* Counting the places where a message stands.
LEMMA TimesSays ==
  ASSUME NEW S, NEW s \in Seq(S), NEW a
  PROVE  /\ Times(s, a) \in Nat
         /\ Times(s, a) = 0 => ~Said(s, a)
         /\ Times(s, a) = 1 =>
              \A i, j \in DOMAIN s : s[i] = a /\ s[j] = a => i = j
<1>1. PICK places : places = {i \in DOMAIN s : s[i] = a}
  OBVIOUS
<1>2. IsFiniteSet(places)
  <2>1. DOMAIN s = 1 .. Len(s) /\ Len(s) \in Nat
    OBVIOUS
  <2>2. IsFiniteSet(1 .. Len(s))
    BY <2>1, FS_Interval
  <2>3. places \in SUBSET (1 .. Len(s))
    BY <1>1, <2>1
  <2>. QED  BY <2>2, <2>3, FS_Subset
<1>3. Times(s, a) = Cardinality(places)
  BY <1>1 DEF Times
<1>4. /\ Cardinality(places) \in Nat
      /\ Cardinality(places) = 0 => places = {}
      /\ Cardinality(places) = 1 => \E x : places = {x}
  BY <1>2, FS_CardinalityType, FS_EmptySet, FS_Singleton
<1>. QED  BY <1>1, <1>3, <1>4 DEF Said

\* What stands in line is shown in order.
LEMMA LinedUpShows ==
  ASSUME HistoryTypeOK, LinedUp
  PROVE  ShownInOrder
<1>. SUFFICES ASSUME NEW k \in DOMAIN shown, NEW n \in DOMAIN shown,
                     NEW a \in Plain, NEW b \in Plain,
                     a = shown[k], b = shown[n], k < n, a # b,
                     Times(arrived, a) = 1, Times(arrived, b) = 1,
                     Times(typed, a) + Times(typed, b) = 0,
                     NEW i \in DOMAIN arrived, NEW j \in DOMAIN arrived,
                     arrived[i] = a, arrived[j] = b, ~(i < j)
              PROVE  FALSE
  BY DEF ShownInOrder, Plain
<1>1. ~Said(typed, a) /\ ~Said(typed, b)
  <2>1. /\ Times(typed, a) \in Nat /\ Times(typed, b) \in Nat
        /\ Times(typed, a) = 0 => ~Said(typed, a)
        /\ Times(typed, b) = 0 => ~Said(typed, b)
    BY TimesSays DEF HistoryTypeOK
  <2>. QED  BY <2>1
<1>2. /\ \A u, v \in DOMAIN arrived : arrived[u] = a /\ arrived[v] = a => u = v
      /\ \A u, v \in DOMAIN arrived : arrived[u] = b /\ arrived[v] = b => u = v
  BY TimesSays DEF HistoryTypeOK
<1>3. j < i
  <2>1. i \in Nat /\ j \in Nat
    BY DEF HistoryTypeOK
  <2>2. i # j
    OBVIOUS
  <2>. QED  BY <2>1, <2>2
<1>4. InOrder(b, a)
  BY <1>2, <1>3 DEF InOrder
<1>5. Lined(b, a)
  BY <1>1, <1>4 DEF LinedUp
<1>. QED  BY <1>5 DEF Lined, Ordered

\* Messages of the peer are shown in the order they arrived in, although the
\* sender may take some of them out of the list the mailboxes share
\* (UDPsockets.c:86-106 and 199-240 over UDPthreads.c:16-57).
THEOREM STalkShowsInOrder == Spec => []ShownInOrder
<1>1. Init => Roles /\ Queueing
  BY RolesStart, QueueingStarts DEF Init
<1>2. Monitor /\ TypeOK /\ Roles /\ Queueing /\ [Next]_vars => Roles' /\ Queueing'
  <2>. SUFFICES ASSUME Monitor, TypeOK, Roles, Queueing, [Next]_vars
                PROVE  Roles' /\ Queueing'
    OBVIOUS
  <2>1. ProcessTypeOK /\ HistoryTypeOK /\ MailboxTypeOK /\ shown \in Seq(Message)
    BY DEF TypeOK, ProcessTypeOK, HistoryTypeOK
  <2>2. CASE Next
    BY <2>1, <2>2, RolesKept, MovesInStep, QueueingKept DEF Queueing
  <2>3. CASE UNCHANGED vars
    <3>1. UNCHANGED <<queue, at, typed, arrived, shown>>
      BY <2>3 DEF vars, mboxVars, historyVars
    <3>. QED
      BY <2>3, <3>1, QueueingStays DEF vars, threadVars, Roles, Said
  <2>. QED  BY <2>2, <2>3
<1>3. TypeOK /\ Queueing => ShownInOrder
  BY LinedUpShows DEF TypeOK, HistoryTypeOK, Queueing
<1>. QED  BY <1>1, <1>2, <1>3, MonitorInvariant, STalkTypeCorrect, PTL DEF Spec

-----------------------------------------------------------------------------
(* The process implements Peer, if the list library has a node for every   *)
(* message the two mailboxes let in.  What is proved of Peer then holds of *)
(* the process.                                                            *)

View == INSTANCE PeerProofs WITH
  inside <- Inside, buffer <- Buffers, full <- Full, closing <- shutdownFlag

\* Two mailboxes on one list let in one message more than MAX_NUM_MESSAGES:
\* 10 messages (UDPthreads.h:25) and 100 nodes (list.h:45).
RoomForAll == MAX_NUM_MESSAGES < LIST_MAX_NUM_NODES

LEMMA TextsHold == View!Texts
BY STalkAssumption, Constants DEF View!Texts
-----------------------------------------------------------------------------
(* Counting the messages inside.                                           *)

Finite == \A m \in Message : IsFiniteSet(InLists(m))

\* Where m is in lists with the contents q.
Found(q, m) == UNION {{l} \X {i \in DOMAIN q[l] : q[l][i] = m} : l \in List}

LEMMA InListsFound ==
  \A m : InLists(m) = Found(queue, m) /\ InLists(m)' = Found(queue', m)
BY DEF InLists, Found

LEMMA FoundIs ==
  ASSUME NEW q, NEW m, NEW x
  PROVE  x \in Found(q, m) <=>
           \E l \in List : \E i \in DOMAIN q[l] : q[l][i] = m /\ x = <<l, i>>
BY DEF Found

\* One more message at the end of a list is found there.
LEMMA FoundAppended ==
  ASSUME NEW q, NEW p, NEW l, NEW e, Longer(q, p, l, e), NEW m, IsFiniteSet(Found(q, m))
  PROVE  /\ IsFiniteSet(Found(p, m)) /\ Cardinality(Found(q, m)) \in Nat
         /\ Cardinality(Found(p, m))
              = IF m = e THEN Cardinality(Found(q, m)) + 1
                ELSE Cardinality(Found(q, m))
<1>1. /\ l \in List /\ q[l] \in Seq(Message) /\ Len(q[l]) \in Nat
      /\ DOMAIN p[l] = 1 .. Len(q[l]) + 1
      /\ DOMAIN q[l] = 1 .. Len(q[l])
      /\ p[l][Len(q[l]) + 1] = e
      /\ \A i \in 1 .. Len(q[l]) : p[l][i] = q[l][i]
      /\ \A k \in List \ {l} : p[k] = q[k]
  BY DEF Longer, Differ
<1>2. PICK new : new = <<l, Len(q[l]) + 1>>
  OBVIOUS
<1>a. \A x : x \in Found(q, m) <=>
               \E k \in List : \E i \in DOMAIN q[k] : q[k][i] = m /\ x = <<k, i>>
  BY FoundIs
<1>b. \A x : x \in Found(p, m) <=>
               \E k \in List : \E i \in DOMAIN p[k] : p[k][i] = m /\ x = <<k, i>>
  BY FoundIs
<1>3. ASSUME NEW x
      PROVE  x \in Found(p, m) <=> x \in Found(q, m) \/ (m = e /\ x = new)
  <2>1. ASSUME NEW k \in List, NEW i \in DOMAIN p[k], p[k][i] = m, x = <<k, i>>
        PROVE  x \in Found(q, m) \/ (m = e /\ x = new)
    <3>1. CASE k # l
      BY <1>1, <2>1, <3>1, <1>a
    <3>2. CASE k = l /\ i \in 1 .. Len(q[l])
      BY <1>1, <2>1, <3>2, <1>a
    <3>3. CASE k = l /\ i = Len(q[l]) + 1
      BY <1>1, <1>2, <2>1, <3>3
    <3>. QED  BY <1>1, <2>1, <3>1, <3>2, <3>3
  <2>2. ASSUME NEW k \in List, NEW i \in DOMAIN q[k], q[k][i] = m, x = <<k, i>>
        PROVE  x \in Found(p, m)
    <3>1. i \in DOMAIN p[k] /\ p[k][i] = m
      <4>1. CASE k # l
        BY <1>1, <2>2, <4>1
      <4>2. CASE k = l
        BY <1>1, <2>2, <4>2
      <4>. QED  BY <4>1, <4>2
    <3>. QED  BY <2>2, <3>1, <1>b
  <2>3. ASSUME m = e, x = new PROVE x \in Found(p, m)
    <3>1. Len(q[l]) + 1 \in DOMAIN p[l]
      BY <1>1
    <3>. QED  BY <1>1, <1>2, <2>3, <3>1, <1>b
  <2>. QED  BY <2>1, <2>2, <2>3, <1>a, <1>b
<1>4. new \notin Found(q, m)
  <2>1. ~ \E k \in List : \E i \in DOMAIN q[k] : new = <<k, i>>
    BY <1>1, <1>2
  <2>. QED  BY <2>1, <1>a
<1>5. CASE m = e
  <2>1. Found(p, m) = Found(q, m) \union {new}
    BY <1>3, <1>5
  <2>. QED  BY <1>4, <1>5, <2>1, FS_AddElement, FS_CardinalityType
<1>6. CASE m # e
  <2>1. Found(p, m) = Found(q, m)
    BY <1>3, <1>6
  <2>. QED  BY <1>6, <2>1, FS_CardinalityType
<1>. QED  BY <1>5, <1>6

\* The oldest message of a list is found no more when it is taken out, and the
\* others one place before.
LEMMA FoundTail ==
  ASSUME NEW q, NEW p, NEW l, NEW e, Shorter(q, p, l, e), NEW m, IsFiniteSet(Found(q, m))
  PROVE  /\ IsFiniteSet(Found(p, m)) /\ Cardinality(Found(q, m)) \in Nat
         /\ m = e => Cardinality(Found(q, m)) > 0
         /\ Cardinality(Found(p, m))
              = IF m = e THEN Cardinality(Found(q, m)) - 1
                ELSE Cardinality(Found(q, m))
<1>0. /\ q[l] \in Seq(Message) /\ q[l] # <<>> /\ e = Head(q[l]) /\ p[l] = Tail(q[l])
      /\ l \in List /\ \A k \in List \ {l} : p[k] = q[k]
  BY DEF Shorter, Differ
<1>1. PICK n \in Nat : n = Len(q[l])
  BY <1>0
<1>2. /\ l \in List /\ DOMAIN q[l] = 1 .. n /\ 1 \in DOMAIN q[l] /\ q[l][1] = e
      /\ DOMAIN p[l] = 1 .. n - 1
      /\ \A i \in 1 .. n - 1 : p[l][i] = q[l][i + 1]
      /\ \A k \in List \ {l} : p[k] = q[k]
  BY <1>0, <1>1
<1>a. \A x : x \in Found(q, m) <=>
               \E k \in List : \E i \in DOMAIN q[k] : q[k][i] = m /\ x = <<k, i>>
  BY FoundIs
<1>b. \A x : x \in Found(p, m) <=>
               \E k \in List : \E i \in DOMAIN p[k] : p[k][i] = m /\ x = <<k, i>>
  BY FoundIs
<1>3. PICK S : S = Found(q, m) \ {<<l, 1>>}
  OBVIOUS
<1>4. PICK f : f = [x \in S |-> IF x[1] = l THEN <<l, x[2] - 1>> ELSE x]
  OBVIOUS
<1>5. ASSUME NEW x
      PROVE  x \in S <=> \E k \in List : \E i \in DOMAIN q[k] :
                           q[k][i] = m /\ x = <<k, i>> /\ (k = l => i # 1)
  BY <1>3, <1>a
<1>6. ASSUME NEW k \in List, NEW i \in DOMAIN q[k], q[k][i] = m, k = l => i # 1
      PROVE  /\ <<k, i>> \in S
             /\ f[<<k, i>>] = IF k = l THEN <<l, i - 1>> ELSE <<k, i>>
             /\ f[<<k, i>>] \in Found(p, m)
  <2>1. <<k, i>> \in S
    BY <1>5, <1>6
  <2>2. f[<<k, i>>] = IF k = l THEN <<l, i - 1>> ELSE <<k, i>>
    BY <1>4, <2>1
  <2>3. CASE k = l
    <3>1. i - 1 \in DOMAIN p[l] /\ p[l][i - 1] = m
      BY <1>2, <1>6, <2>3
    <3>. QED  BY <2>1, <2>2, <2>3, <3>1, <1>b
  <2>4. CASE k # l
    <3>1. i \in DOMAIN p[k] /\ p[k][i] = m
      BY <1>2, <1>6, <2>4
    <3>. QED  BY <2>1, <2>2, <2>4, <3>1, <1>b
  <2>. QED  BY <2>3, <2>4
<1>7. f \in [S -> Found(p, m)]
  <2>1. ASSUME NEW x \in S PROVE f[x] \in Found(p, m)
    <3>1. PICK k \in List : \E i \in DOMAIN q[k] :
            q[k][i] = m /\ x = <<k, i>> /\ (k = l => i # 1)
      BY <1>5
    <3>. QED  BY <1>6, <3>1
  <2>. QED  BY <1>4, <2>1
<1>8. ASSUME NEW x \in S, NEW y \in S, f[x] = f[y] PROVE x = y
  <2>1. PICK k \in List : \E i \in DOMAIN q[k] :
          q[k][i] = m /\ x = <<k, i>> /\ (k = l => i # 1)
    BY <1>5
  <2>2. PICK i \in DOMAIN q[k] : q[k][i] = m /\ x = <<k, i>> /\ (k = l => i # 1)
    BY <2>1
  <2>3. PICK j \in List : \E h \in DOMAIN q[j] :
          q[j][h] = m /\ y = <<j, h>> /\ (j = l => h # 1)
    BY <1>5
  <2>4. PICK h \in DOMAIN q[j] : q[j][h] = m /\ y = <<j, h>> /\ (j = l => h # 1)
    BY <2>3
  <2>5. /\ f[x] = IF k = l THEN <<l, i - 1>> ELSE <<k, i>>
        /\ f[y] = IF j = l THEN <<l, h - 1>> ELSE <<j, h>>
    BY <1>6, <2>2, <2>4
  <2>6. k = j
    <3>1. f[x][1] = k /\ f[y][1] = j
      BY <2>5
    <3>. QED  BY <1>8, <3>1
  <2>7. CASE k = l
    BY <1>2, <1>8, <2>2, <2>4, <2>5, <2>6, <2>7
  <2>8. CASE k # l
    BY <1>8, <2>2, <2>4, <2>5, <2>6, <2>8
  <2>. QED  BY <2>7, <2>8
<1>9. ASSUME NEW y \in Found(p, m) PROVE \E x \in S : f[x] = y
  <2>1. PICK k \in List : \E i \in DOMAIN p[k] : p[k][i] = m /\ y = <<k, i>>
    BY <1>b
  <2>2. PICK i \in DOMAIN p[k] : p[k][i] = m /\ y = <<k, i>>
    BY <2>1
  <2>3. CASE k = l
    <3>1. i + 1 \in DOMAIN q[l] /\ q[l][i + 1] = m /\ i + 1 # 1
          /\ (i + 1) - 1 = i
      BY <1>2, <2>2, <2>3
    <3>2. <<l, i + 1>> \in S /\ f[<<l, i + 1>>] = <<l, (i + 1) - 1>>
      BY <1>2, <1>6, <3>1
    <3>. QED  BY <2>2, <2>3, <3>1, <3>2
  <2>4. CASE k # l
    <3>1. i \in DOMAIN q[k] /\ q[k][i] = m
      BY <1>2, <2>2, <2>4
    <3>2. <<k, i>> \in S /\ f[<<k, i>>] = <<k, i>>
      BY <1>6, <2>4, <3>1
    <3>. QED  BY <2>2, <3>2
  <2>. QED  BY <2>3, <2>4
<1>10. f \in Bijection(S, Found(p, m))
  BY <1>7, <1>8, <1>9 DEF Bijection, Injection, IsInjective, Surjection
<1>11. <<l, 1>> \in Found(q, m) <=> m = e
  BY <1>2, <1>a
<1>12. /\ IsFiniteSet(S)
       /\ Cardinality(S) = IF m = e THEN Cardinality(Found(q, m)) - 1
                           ELSE Cardinality(Found(q, m))
  BY <1>3, <1>11, FS_RemoveElement
<1>13. IsFiniteSet(Found(p, m)) /\ Cardinality(Found(p, m)) = Cardinality(S)
  BY <1>10, <1>12, FS_Bijection DEF ExistsBijection
<1>14. /\ Cardinality(Found(q, m)) \in Nat
       /\ Cardinality(Found(q, m)) = 0 <=> Found(q, m) = {}
  BY FS_CardinalityType, FS_EmptySet
<1>. QED  BY <1>11, <1>12, <1>13, <1>14

\* The threads on their way in can be counted.
LEMMA OnItsWayIsFinite ==
  ASSUME NEW m
  PROVE  /\ IsFiniteSet(OnItsWayIn(m)) /\ IsFiniteSet(OnItsWayIn(m)')
         /\ Cardinality(OnItsWayIn(m)) \in Nat
         /\ Cardinality(OnItsWayIn(m)') \in Nat
<1>1. OnItsWayIn(m) \in SUBSET Thread /\ OnItsWayIn(m)' \in SUBSET Thread
  BY DEF OnItsWayIn
<1>2. IsFiniteSet(OnItsWayIn(m)) /\ IsFiniteSet(OnItsWayIn(m)')
  BY <1>1, MailboxAssumption, FS_Subset
<1>. QED  BY <1>2, FS_CardinalityType

LEMMA InsideIsNumber ==
  ASSUME Finite, NEW m \in Message
  PROVE  Inside[m] \in Nat
<1>1. Cardinality(InLists(m)) \in Nat
  BY FS_CardinalityType DEF Finite
<1>. QED  BY <1>1, OnItsWayIsFinite DEF Inside

\* A step that moves no message between threads and lists.
LEMMA InsideStays ==
  ASSUME Finite, UNCHANGED queue, \A m \in Message : OnItsWayIn(m)' = OnItsWayIn(m)
  PROVE  Inside' = Inside /\ Finite'
<1>1. \A m \in Message : InLists(m)' = InLists(m)
  BY DEF InLists
<1>. QED  BY <1>1 DEF Inside, Finite

\* A thread calls consume() with msg.
LEMMA InsideEntered ==
  ASSUME MailboxTypeOK, Finite, NEW t \in Thread, NEW b \in Mailbox,
         NEW msg \in Message,
         Enter(t, "consume", b, msg), UNCHANGED queue
  PROVE  Inside' = [Inside EXCEPT ![msg] = @ + 1] /\ Finite'
<1>1. \A m \in Message : InLists(m)' = InLists(m)
  BY DEF InLists
<1>2. at \in [Thread -> Call] /\ at[t].pc = "out"
      /\ at' = [at EXCEPT ![t] = [pc |-> "lock", fn |-> "consume", box |-> b, msg |-> msg]]
  BY DEF MailboxTypeOK, Enter
<1>3. t \notin OnItsWayIn(msg) /\ OnItsWayIn(msg)' = OnItsWayIn(msg) \union {t}
  BY <1>2 DEF OnItsWayIn
<1>4. \A m \in Message \ {msg} : OnItsWayIn(m)' = OnItsWayIn(m)
  BY <1>2 DEF OnItsWayIn
<1>5. Cardinality(OnItsWayIn(msg)') = Cardinality(OnItsWayIn(msg)) + 1
  BY <1>3, OnItsWayIsFinite, FS_AddElement
<1>6. /\ Inside'[msg] = Inside[msg] + 1
      /\ \A m \in Message \ {msg} : Inside'[m] = Inside[m]
  <2>1. Cardinality(InLists(msg)) \in Nat /\ Cardinality(OnItsWayIn(msg)) \in Nat
    BY FS_CardinalityType, OnItsWayIsFinite DEF Finite
  <2>. QED  BY <1>1, <1>4, <1>5, <2>1 DEF Inside
<1>7. Inside' = [Inside EXCEPT ![msg] = @ + 1]
  BY <1>6 DEF Inside
<1>. QED  BY <1>1, <1>7 DEF Finite

\* A call that returns takes its thread off the way in, and no other.
LEMMA OnlyTheReturning ==
  ASSUME MailboxTypeOK, NEW t \in Thread, NEW msg \in Message,
         at[t].pc = "holding", ReturnAndSignal(t, msg), NEW m \in Message
  PROVE  OnItsWayIn(m)' = OnItsWayIn(m) \ {t}
<1>1. at'[t].pc = "out"
  BY SignalMoves
<1>2. \A u \in Thread \ {t} :
        /\ at'[u].msg = at[u].msg /\ at'[u].fn = at[u].fn
        /\ (at'[u].pc = "out") = (at[u].pc = "out")
  BY SignalMoves DEF SameCall
<1>. QED  BY <1>1, <1>2 DEF OnItsWayIn

\* Nobody finds the library without a node.
LEMMA ThereIsANode ==
  ASSUME RoomForAll, MailboxTypeOK, MutualExclusion, Bounded, NEW t \in Thread,
         at[t].pc = "holding", at[t].fn = "consume"
  PROVE  Len(queue[ListOf[at[t].box]]) < LIST_MAX_NUM_NODES
<1>. DEFINE l == ListOf[at[t].box]
<1>1. /\ l \in List /\ at[t].box \in Sharing(l) /\ Len(queue[l]) \in Nat
      /\ at[t].box \in Committed(l)
  BY MailboxAssumption
     DEF MailboxTypeOK, Call, Sharing, Committed, MutualExclusion
<1>2. Cardinality(Sharing(l)) <= 2
  <2>1. Sharing(l) \subseteq {hostMsg} \union {remoteMsg}
    BY STalkAssumption DEF Sharing
  <2>2. IsFiniteSet({hostMsg}) /\ Cardinality({hostMsg}) = 1
    BY FS_Singleton
  <2>3. /\ IsFiniteSet({hostMsg} \union {remoteMsg})
        /\ Cardinality({hostMsg} \union {remoteMsg}) = 2
    <3>1. remoteMsg \notin {hostMsg}
      BY STalkAssumption
    <3>. QED  BY <2>2, <3>1, FS_AddElement
  <2>. QED  BY <2>1, <2>3, FS_Subset
<1>3. Cardinality(Committed(l)) # 0
  BY <1>1, CommittedIsFinite, FS_EmptySet
<1>4. Len(queue[l]) + Cardinality(Committed(l))
        <= MAX_NUM_MESSAGES - 1 + Cardinality(Sharing(l))
  BY <1>1 DEF Bounded
<1>. QED
  BY <1>1, <1>2, <1>3, <1>4, CommittedIsFinite, MailboxAssumption DEF RoomForAll

\* A message that goes from its thread into the list stays inside.
LEMMA InsidePrepended ==
  ASSUME RoomForAll, MailboxTypeOK, MutualExclusion, Bounded, Finite,
         NEW t \in Thread, Prepend(t)
  PROVE  Inside' = Inside /\ Finite'
<1>1. PICK l \in List : l = ListOf[at[t].box]
  BY MailboxAssumption DEF MailboxTypeOK, Call
<1>2. PICK e \in Message : e = at[t].msg
  BY DEF MailboxTypeOK, Call
<1>3. /\ at[t].pc = "holding" /\ at[t].fn = "consume" /\ ReturnAndSignal(t, e)
      /\ queue \in [List -> Seq(Message)]
  BY <1>2 DEF Prepend, MailboxTypeOK
<1>4. queue' = [queue EXCEPT ![l] = Append(@, e)]
  BY <1>1, <1>2, <1>3, ThereIsANode DEF Prepend
<1>5. ASSUME NEW m \in Message
      PROVE  /\ IsFiniteSet(InLists(m)')
             /\ Cardinality(InLists(m)')
                  = IF m = e THEN Cardinality(InLists(m)) + 1
                    ELSE Cardinality(InLists(m))
             /\ Cardinality(InLists(m)) \in Nat
  <2>1. /\ InLists(m) = Found(queue, m) /\ InLists(m)' = Found(queue', m)
        /\ IsFiniteSet(Found(queue, m))
    BY InListsFound DEF Finite
  <2>2. Longer(queue, queue', l, e)
    BY <1>3, <1>4 DEF Longer, Differ
  <2>3. /\ IsFiniteSet(Found(queue', m)) /\ Cardinality(Found(queue, m)) \in Nat
        /\ Cardinality(Found(queue', m))
             = IF m = e THEN Cardinality(Found(queue, m)) + 1
               ELSE Cardinality(Found(queue, m))
    BY <2>1, <2>2, FoundAppended
  <2>. QED  BY <2>1, <2>3
<1>6. ASSUME NEW m \in Message
      PROVE  Cardinality(OnItsWayIn(m)')
               = IF m = e THEN Cardinality(OnItsWayIn(m)) - 1
                 ELSE Cardinality(OnItsWayIn(m))
  <2>1. OnItsWayIn(m)' = OnItsWayIn(m) \ {t}
    BY <1>3, OnlyTheReturning
  <2>2. t \in OnItsWayIn(m) <=> m = e
    BY <1>2, <1>3 DEF OnItsWayIn
  <2>. QED  BY <2>1, <2>2, OnItsWayIsFinite, FS_RemoveElement
<1>7. \A m \in Message : Inside'[m] = Inside[m]
  BY <1>5, <1>6, OnItsWayIsFinite DEF Inside
<1>. QED  BY <1>5, <1>7 DEF Inside, Finite

\* A message that List_trim returns is inside no more.
LEMMA InsideTrimmed ==
  ASSUME MailboxTypeOK, Finite, NEW t \in Thread, Trim(t),
         queue[ListOf[at[t].box]] # <<>>
  PROVE  LET e == Head(queue[ListOf[at[t].box]])
         IN  /\ e \in Message /\ Inside[e] > 0
             /\ Inside' = [Inside EXCEPT ![e] = @ - 1]
             /\ Finite'
<1>1. PICK l \in List : l = ListOf[at[t].box]
  BY MailboxAssumption DEF MailboxTypeOK, Call
<1>2. queue \in [List -> Seq(Message)] /\ queue[l] # <<>>
  BY <1>1 DEF MailboxTypeOK
<1>3. PICK e \in Message : e = Head(queue[l])
  BY <1>2
<1>4. queue' = [queue EXCEPT ![l] = Tail(@)]
  BY <1>1, <1>2 DEF Trim
<1>5. ASSUME NEW m \in Message PROVE OnItsWayIn(m)' = OnItsWayIn(m)
  <2>1. at[t].pc = "holding" /\ at[t].fn = "produce"
    BY DEF Trim
  <2>2. \E text \in Message : ReturnAndSignal(t, text)
    BY <1>1, <1>2, <1>3, MailboxAssumption DEF Trim
  <2>3. OnItsWayIn(m)' = OnItsWayIn(m) \ {t}
    BY <2>1, <2>2, OnlyTheReturning
  <2>. QED  BY <2>1, <2>3 DEF OnItsWayIn
<1>6. ASSUME NEW m \in Message
      PROVE  /\ IsFiniteSet(InLists(m)')
             /\ Cardinality(InLists(m)')
                  = IF m = e THEN Cardinality(InLists(m)) - 1
                    ELSE Cardinality(InLists(m))
             /\ m = e => Cardinality(InLists(m)) > 0
             /\ Cardinality(InLists(m)) \in Nat
  <2>1. /\ InLists(m) = Found(queue, m) /\ InLists(m)' = Found(queue', m)
        /\ IsFiniteSet(Found(queue, m))
    BY InListsFound DEF Finite
  <2>2. Shorter(queue, queue', l, e)
    BY <1>2, <1>3, <1>4 DEF Shorter, Differ
  <2>3. /\ IsFiniteSet(Found(queue', m)) /\ Cardinality(Found(queue, m)) \in Nat
        /\ m = e => Cardinality(Found(queue, m)) > 0
        /\ Cardinality(Found(queue', m))
             = IF m = e THEN Cardinality(Found(queue, m)) - 1
               ELSE Cardinality(Found(queue, m))
    BY <2>1, <2>2, FoundTail
  <2>. QED  BY <2>1, <2>3
<1>7. Inside[e] > 0
  BY <1>6, OnItsWayIsFinite DEF Inside
<1>8. \A m \in Message : Inside'[m] = IF m = e THEN Inside[m] - 1 ELSE Inside[m]
  BY <1>5, <1>6, OnItsWayIsFinite DEF Inside
<1>9. Inside' = [Inside EXCEPT ![e] = @ - 1]
  BY <1>8 DEF Inside
<1>. QED  BY <1>1, <1>3, <1>6, <1>7, <1>9 DEF Finite
-----------------------------------------------------------------------------
(* Every step of the process is a step of Peer, or none.                   *)

\* What Peer sees of the process.
Silent == UNCHANGED <<Inside, Buffers, Full, shutdownFlag, historyVars>>

LEMMA SilentIsNoStep == Silent => UNCHANGED View!peerVars
BY DEF Silent, View!peerVars, historyVars

\* The buffers and whose turn it is do not change when neither the sender nor
\* the display is concerned.
LEMMA TakersStay ==
  ASSUME at'[sender].msg = at[sender].msg, at'[display].msg = at[display].msg
  PROVE  Buffers' = Buffers
BY DEF Buffers

LEMMA TurnsStay ==
  ASSUME at'[sender].pc = "out" /\ pc'[sender] = "send"
           <=> at[sender].pc = "out" /\ pc[sender] = "send",
         at'[display].pc = "out" /\ pc'[display] = "show"
           <=> at[display].pc = "out" /\ pc[display] = "show"
  PROVE  Full' = Full
BY DEF Full

\* A step outside of calls that changes no more than a program point which is
\* before the use of no buffer.
LEMMA PlainStep ==
  ASSUME MailboxTypeOK, ProcessTypeOK, Finite, NEW t \in Thread,
         pc[t] \notin {"send", "show"}, NEW p, p \notin {"send", "show"},
         Goto(t, p), UNCHANGED <<at, queue, shutdownFlag, historyVars>>
  PROVE  Silent /\ Finite'
<1>. USE Constants
<1>1. \A u \in Thread : pc'[u] = pc[u] \/ (u = t /\ pc'[u] = p)
  BY DEF Goto, ProcessTypeOK
<1>2. Full' = Full
  BY <1>1, TurnsStay
<1>3. Buffers' = Buffers
  BY TakersStay
<1>4. Inside' = Inside /\ Finite'
  BY InsideStays DEF OnItsWayIn
<1>. QED  BY <1>2, <1>3, <1>4 DEF Silent

\* The steps of a call but for List_trim.
LEMMA CallIsSilent ==
  ASSUME RoomForAll, Monitor, Finite, Roles, NEW t \in Thread,
         CallStep(t) \/ SpuriousWake(t), ~Trim(t),
         UNCHANGED <<threadVars, historyVars>>
  PROVE  Silent /\ Finite'
<1>. USE Constants
<1>. MailboxTypeOK /\ MutualExclusion /\ Bounded
  BY DEF Monitor
<1>1. /\ at' \in [Thread -> Call] /\ at[t].pc # "out"
      /\ \A u \in Thread : at'[u].fn = at[u].fn
      /\ \A u \in Thread \ {t} : /\ at'[u].msg = at[u].msg
                                 /\ (at'[u].pc = "out") = (at[u].pc = "out")
  BY CallEffect DEF SameCall
<1>2. at'[t].msg = at[t].msg
  <2>1. CASE Prepend(t)
    <3>1. at[t].pc = "holding" /\ at[t].msg \in Message /\ ReturnAndSignal(t, at[t].msg)
      BY <2>1 DEF Prepend, MailboxTypeOK, Call
    <3>. QED  BY <3>1, SignalMoves
  <2>2. CASE LockAndPass(t) \/ LockAndWait(t) \/ SpuriousWake(t)
    BY <2>2 DEF LockAndPass, LockAndWait, SpuriousWake, MailboxTypeOK, Call
  <2>. QED  BY <2>1, <2>2 DEF CallStep
<1>3. Buffers' = Buffers
  BY <1>1, <1>2, TakersStay
<1>4. CASE Prepend(t)
  <2>1. Inside' = Inside /\ Finite'
    BY <1>4, InsidePrepended
  <2>2. at[t].fn = "consume"
    BY <1>4 DEF Prepend
  <2>3. t # display /\ (t = sender => pc[sender] # "send")
    BY <1>1, <2>2 DEF Roles
  <2>4. Full' = Full
    BY <1>1, <2>3, TurnsStay DEF threadVars
  <2>. QED  BY <1>3, <2>1, <2>4 DEF Silent, threadVars
<1>5. CASE LockAndPass(t) \/ LockAndWait(t) \/ SpuriousWake(t)
  <2>1. at'[t].pc # "out" /\ queue' = queue
    BY <1>5 DEF LockAndPass, LockAndWait, SpuriousWake, MailboxTypeOK, Call
  <2>2. \A m \in Message : OnItsWayIn(m)' = OnItsWayIn(m)
    BY <1>1, <1>2, <2>1 DEF OnItsWayIn
  <2>3. Full' = Full
    BY <1>1, <2>1, TurnsStay DEF threadVars
  <2>. QED  BY <1>3, <2>1, <2>2, <2>3, InsideStays DEF Silent, threadVars
<1>. QED  BY <1>4, <1>5 DEF CallStep

\* List_trim takes out a message that is inside, or finds nothing and leaves
\* the buffer to be used again.
LEMMA TrimTakes ==
  ASSUME Monitor, Finite, Roles, NEW t \in Thread, Trim(t),
         UNCHANGED <<threadVars, historyVars>>
  PROVE  View!Inner /\ Finite'
<1>. USE Constants, FourThreads
<1>. MailboxTypeOK
  BY DEF Monitor
<1>1. at[t].pc = "holding" /\ at[t].fn = "produce" /\ at[t].msg \in Message
  BY DEF Trim, MailboxTypeOK, Call
<1>2. \/ t = display /\ pc[t] = "show"
      \/ t = sender /\ pc[t] = "send" /\ at[t].msg # RawBang
  BY <1>1, STalkAssumption DEF Roles
<1>3. PICK w \in View!Taker : w = IF t = display THEN "display" ELSE "sender"
  BY DEF View!Taker
<1>4. ~Full[w]
  BY <1>1, <1>2, <1>3 DEF Full
<1>5. ASSUME NEW text \in Message, text # RawBang \/ text = at[t].msg,
             ReturnAndSignal(t, text)
      PROVE  View!Fill(w, text)
  <2>1. /\ at'[t].pc = "out" /\ at'[t].msg = text
        /\ \A u \in Thread \ {t} : /\ at'[u].msg = at[u].msg
                                   /\ (at'[u].pc = "out") = (at[u].pc = "out")
    BY <1>1, <1>5, SignalMoves
  <2>2. Buffers' = [Buffers EXCEPT ![w] = text]
    BY <1>2, <1>3, <1>5, <2>1 DEF Buffers
  <2>3. Full' = [Full EXCEPT ![w] = TRUE]
    BY <1>2, <1>3, <2>1 DEF Full, threadVars
  <2>. QED  BY <2>2, <2>3 DEF View!Fill, threadVars, historyVars
<1>6. CASE queue[ListOf[at[t].box]] = <<>>
  <2>1. ReturnAndSignal(t, at[t].msg) /\ queue' = queue
    BY <1>6 DEF Trim
  <2>2. at[t].msg = Buffers[w]
    BY <1>2, <1>3 DEF Buffers
  <2>3. View!Fill(w, Buffers[w])
    BY <1>1, <1>5, <2>1, <2>2
  <2>4. \A m \in Message : OnItsWayIn(m)' = OnItsWayIn(m)
    <3>1. \A m \in Message : OnItsWayIn(m)' = OnItsWayIn(m) \ {t}
      BY <1>1, <2>1, OnlyTheReturning
    <3>. QED  BY <1>1, <3>1 DEF OnItsWayIn
  <2>5. Inside' = Inside /\ Finite'
    BY <2>1, <2>4, InsideStays
  <2>. QED  BY <1>4, <2>3, <2>5 DEF View!TakeNothing, View!Inner
<1>7. CASE queue[ListOf[at[t].box]] # <<>>
  <2>1. PICK e \in Message :
          /\ e = Head(queue[ListOf[at[t].box]]) /\ Inside[e] > 0
          /\ Inside' = [Inside EXCEPT ![e] = @ - 1] /\ Finite'
    BY <1>7, InsideTrimmed
  <2>2. PICK text \in Reads[e] : ReturnAndSignal(t, text)
    BY <1>7, <2>1 DEF Trim
  <2>3. text \in Message /\ text # RawBang
    BY STalkAssumption
  <2>4. View!Fill(w, text)
    BY <1>5, <2>2, <2>3
  <2>5. View!Take(w, e)
    BY <1>4, <2>1, <2>4 DEF View!Take
  <2>. QED  BY <2>1, <2>5 DEF View!Inner
<1>. QED  BY <1>6, <1>7

\* A message of the user or of the network comes inside, by one thread.
LEMMA EnterComesIn ==
  ASSUME Monitor, Finite, NEW t \in Thread, NEW b \in Mailbox, NEW msg \in Message,
         t \in {reader, receiver}, ProcessTypeOK, NEW p,
         pc[t] \notin {"send", "show"}, p \notin {"send", "show"},
         Consume(t, b, msg, p), UNCHANGED queue
  PROVE  View!ComesIn(msg) /\ Finite' /\ UNCHANGED <<Buffers, Full>>
<1>. USE Constants, FourThreads
<1>1. /\ at' = [at EXCEPT ![t] = [pc |-> "lock", fn |-> "consume", box |-> b, msg |-> msg]]
      /\ pc' = [pc EXCEPT ![t] = p] /\ at[t].pc = "out"
      /\ at \in [Thread -> Call] /\ DOMAIN pc = Thread
  BY DEF Consume, Enter, Goto, Monitor, MailboxTypeOK, ProcessTypeOK
<1>2. /\ at'[sender] = at[sender] /\ at'[display] = at[display]
      /\ pc'[sender] = pc[sender] /\ pc'[display] = pc[display]
  BY <1>1
<1>3. Buffers' = Buffers /\ Full' = Full
  BY <1>2, TakersStay, TurnsStay
<1>4. Inside' = [Inside EXCEPT ![msg] = @ + 1] /\ Finite'
  BY InsideEntered DEF Consume, Monitor
<1>. QED  BY <1>3, <1>4 DEF View!ComesIn

\* The thread that has found "!" in its buffer closes, and brings a bare one in.
LEMMA EscapeCloses ==
  ASSUME Monitor, ProcessTypeOK, Finite, Roles, NEW t \in {reader, sender, receiver},
         NEW b \in Mailbox, At(t, "escape"), EscapeOrLoop(t, b)
  PROVE  (Silent \/ View!Inner) /\ Finite'
<1>. USE Constants, FourThreads
<1>1. CASE at[t].msg # Bang
  <2>1. /\ Goto(t, "check") /\ UNCHANGED <<at, queue, shutdownFlag, historyVars>>
        /\ pc[t] = "escape"
    BY <1>1 DEF EscapeOrLoop, NoListStep, At
  <2>. QED  BY <2>1, PlainStep DEF Monitor
<1>2. CASE at[t].msg = Bang
  <2>1. /\ Consume(t, b, RawBang, "check") /\ shutdownFlag' = TRUE
        /\ UNCHANGED <<queue, historyVars>> /\ pc[t] = "escape"
    BY <1>2 DEF EscapeOrLoop, NoListStep, At
  <2>2. View!ComesIn(RawBang) /\ Finite' /\ UNCHANGED <<Buffers, Full>>
    <3>1. CASE t # sender
      BY <2>1, <3>1, EnterComesIn
    <3>2. CASE t = sender
      <4>1. /\ at' = [at EXCEPT ![t] = [pc |-> "lock", fn |-> "consume",
                                        box |-> b, msg |-> RawBang]]
            /\ pc' = [pc EXCEPT ![t] = "check"] /\ at[t].pc = "out"
            /\ at \in [Thread -> Call] /\ DOMAIN pc = Thread
        BY <2>1 DEF Consume, Enter, Goto, Monitor, MailboxTypeOK, ProcessTypeOK
      <4>2. /\ at'[sender].msg = RawBang /\ at'[sender].pc # "out"
            /\ at'[display] = at[display] /\ pc'[display] = pc[display]
        BY <3>2, <4>1
      <4>3. Buffers' = Buffers
        BY <1>2, <3>2, <4>2 DEF Buffers
      <4>4. Full' = Full
        BY <2>1, <3>2, <4>2, TurnsStay
      <4>5. Inside' = [Inside EXCEPT ![RawBang] = @ + 1] /\ Finite'
        BY <2>1, InsideEntered DEF Consume, Monitor
      <4>. QED  BY <4>3, <4>4, <4>5 DEF View!ComesIn
    <3>. QED  BY <3>1, <3>2
  <2>3. View!SeenBang
    <3>1. CASE t = sender
      <4>1. Buffers["sender"] = Bang /\ ~Full["sender"]
        BY <1>2, <2>1, <3>1, STalkAssumption DEF Buffers, Full
      <4>. QED  BY <4>1 DEF View!SeenBang
    <3>2. CASE t # sender
      <4>1. Said(typed, Bang) \/ Said(arrived, Bang)
        BY <1>2, <2>1, <3>2 DEF Roles
      <4>. QED  BY <4>1 DEF Said, View!SeenBang
    <3>. QED  BY <3>1, <3>2
  <2>4. View!Close
    BY <2>1, <2>2, <2>3 DEF View!Close, historyVars
  <2>. QED  BY <2>2, <2>4 DEF View!Inner
<1>. QED  BY <1>1, <1>2

LEMMA ProduceIsSilent ==
  ASSUME Monitor, ProcessTypeOK, Finite, NEW t \in Thread, NEW b \in Mailbox, NEW p,
         pc[t] \notin {"send", "show"}, Produce(t, b, p),
         UNCHANGED <<queue, shutdownFlag, historyVars>>
  PROVE  Silent /\ Finite'
<1>. USE Constants, FourThreads
<1>1. /\ at' = [at EXCEPT ![t] = [pc |-> "lock", fn |-> "produce", box |-> b,
                                  msg |-> at[t].msg]]
      /\ pc' = [pc EXCEPT ![t] = p] /\ at[t].pc = "out"
      /\ at \in [Thread -> Call] /\ DOMAIN pc = Thread
  BY DEF Produce, Enter, Goto, Monitor, MailboxTypeOK, ProcessTypeOK
<1>2. /\ \A u \in Thread : at'[u].msg = at[u].msg
      /\ \A u \in Thread \ {t} : at'[u] = at[u] /\ pc'[u] = pc[u]
      /\ at'[t].pc = "lock" /\ at'[t].fn = "produce"
  BY <1>1
<1>3. Buffers' = Buffers
  BY <1>2, TakersStay
<1>4. Full' = Full
  BY <1>2, TurnsStay
<1>5. \A m \in Message : OnItsWayIn(m)' = OnItsWayIn(m)
  BY <1>1, <1>2 DEF OnItsWayIn
<1>. QED  BY <1>3, <1>4, <1>5, InsideStays DEF Silent

LEMMA SendToSends ==
  ASSUME Monitor, ProcessTypeOK, Finite, Roles, SendTo
  PROVE  (View!Inner \/ View!Send) /\ Finite'
<1>. USE Constants, FourThreads
<1>1. /\ at' = at /\ queue' = queue /\ UNCHANGED <<shutdownFlag, typed, arrived, shown>>
      /\ at[sender].pc = "out" /\ pc[sender] = "send" /\ DOMAIN pc = Thread
      /\ at[sender].msg # RawBang
  BY DEF SendTo, NoListStep, At, ProcessTypeOK, Roles
<1>2. Inside' = Inside /\ Finite' /\ Buffers' = Buffers
  BY <1>1, InsideStays, TakersStay DEF OnItsWayIn
<1>3. ASSUME NEW p \in {"check", "escape"}, Goto(sender, p)
      PROVE  View!Emptied("sender")
  <2>1. pc'[sender] = p /\ pc'[display] = pc[display]
    BY <1>1, <1>3 DEF Goto
  <2>. QED  BY <1>1, <1>3, <2>1 DEF View!Emptied, Full
<1>4. Buffers["sender"] = at[sender].msg
  BY <1>1 DEF Buffers
<1>. QED
  BY <1>1, <1>2, <1>3, <1>4 DEF SendTo, View!Inner, View!Send, View!SendFails

LEMMA DisplayShows ==
  ASSUME Monitor, ProcessTypeOK, Finite, Display
  PROVE  View!Inner /\ Finite'
<1>. USE Constants, FourThreads
<1>1. /\ at \in [Thread -> Call] /\ queue' = queue
      /\ UNCHANGED <<shutdownFlag, typed, arrived, sent>>
      /\ at[display].pc = "out" /\ pc[display] = "show" /\ DOMAIN pc = Thread
      /\ pc' = [pc EXCEPT ![display] = "check"]
  BY DEF Display, NoListStep, At, Goto, ProcessTypeOK, Monitor, MailboxTypeOK
<1>2. at' = at \/ at' = [at EXCEPT ![display].msg = Blank]
  BY DEF Display, SetBuffer
<1>3. at'[display].pc = "out" /\ at'[sender] = at[sender]
      /\ \A u \in Thread : /\ at'[u].pc = at[u].pc /\ at'[u].fn = at[u].fn
                           /\ u # display => at'[u].msg = at[u].msg
  BY <1>1, <1>2 DEF Call
<1>4. Inside' = Inside /\ Finite'
  <2>1. \A m \in Message : OnItsWayIn(m)' = OnItsWayIn(m)
    BY <1>1, <1>3 DEF OnItsWayIn
  <2>. QED  BY <1>1, <2>1, InsideStays
<1>5. View!Emptied("display")
  <2>1. pc'[sender] = pc[sender] /\ pc'[display] = "check"
    BY <1>1
  <2>. QED  BY <1>1, <1>3, <2>1 DEF View!Emptied, Full
<1>6. Buffers["display"] = at[display].msg
  BY DEF Buffers
<1>7. CASE at[display].msg = Bang
  <2>1. at' = at /\ shown' = shown
    BY <1>7 DEF Display
  <2>2. Buffers' = Buffers
    BY <2>1, TakersStay
  <2>. QED  BY <1>1, <1>4, <1>5, <1>6, <1>7, <2>1, <2>2 DEF View!ShowNothing, View!Inner
<1>8. CASE at[display].msg # Bang
  <2>1. /\ at' = [at EXCEPT ![display].msg = Blank]
        /\ shown' = Append(shown, at[display].msg)
    BY <1>8 DEF Display, SetBuffer
  <2>2. at'[display].msg = Blank
    BY <1>1, <2>1 DEF Call
  <2>3. Buffers' = [Buffers EXCEPT !["display"] = Blank]
    BY <1>3, <2>2 DEF Buffers
  <2>. QED  BY <1>1, <1>4, <1>5, <1>6, <1>8, <2>1, <2>3 DEF View!Show, View!Inner
<1>. QED  BY <1>7, <1>8

\* What the process is known to be in when it takes a step.
PeerGrounds == Monitor /\ ProcessTypeOK /\ HistoryTypeOK /\ Finite /\ Roles

LEMMA StepOfPeer ==
  ASSUME RoomForAll, PeerGrounds, Next
  PROVE  (View!PeerNext \/ UNCHANGED View!peerVars) /\ Finite'
<1>. USE Constants, FourThreads DEF PeerGrounds
<1>1. ASSUME Silent \/ View!Inner \/ View!Send
      PROVE  View!PeerNext \/ UNCHANGED View!peerVars
  BY <1>1, SilentIsNoStep DEF View!PeerNext
<1>2. ASSUME NEW t \in Thread, Check(t)
      PROVE  Silent /\ Finite'
  BY <1>2, PlainStep DEF Check, NoListStep, At, Monitor
<1>3. ASSUME NEW t \in Thread, MailboxStep(t) \/ Wakeup(t)
      PROVE  (Silent \/ View!Inner) /\ Finite'
  BY <1>3, TrimTakes, CallIsSilent DEF MailboxStep, Wakeup
<1>4. ASSUME UNCHANGED <<mboxVars, threadVars, historyVars>> PROVE Silent /\ Finite'
  <2>1. Buffers' = Buffers /\ Full' = Full
    BY <1>4 DEF Buffers, Full, mboxVars, threadVars
  <2>2. Inside' = Inside /\ Finite'
    BY <1>4, InsideStays DEF mboxVars, OnItsWayIn
  <2>. QED  BY <1>4, <2>1, <2>2 DEF Silent, threadVars
<1>5. ASSUME NEW t \in Thread, TearList(t) \/ TrimCrash(t) PROVE Silent /\ Finite'
  BY <1>4, <1>5 DEF TearList, TrimCrash
<1>6. CASE Join \/ Destroy
  BY <1>1, <1>4, <1>6 DEF Join, Destroy
<1>7. ASSUME NEW t \in Thread, Setup(t) PROVE Silent /\ Finite'
  <2>1. CASE UNCHANGED pc
    BY <1>4, <1>7, <2>1 DEF Setup, threadVars
  <2>2. CASE Goto(t, "check")
    BY <1>7, <2>2, PlainStep DEF Setup, At, mboxVars, Monitor
  <2>. QED  BY <1>7, <2>1, <2>2 DEF Setup
<1>8. CASE ReadLine
  <2>1. PICK msg \in Line : typed' = Append(typed, msg)
                            /\ Consume(reader, hostMsg, msg, "escape")
    BY <1>8 DEF ReadLine
  <2>2. /\ UNCHANGED <<queue, shutdownFlag, arrived, shown, sent>>
        /\ pc[reader] = "loop" /\ Len(typed) < MaxTyped
    BY <1>8 DEF ReadLine, NoListStep, At
  <2>3. View!ComesIn(msg) /\ Finite' /\ UNCHANGED <<Buffers, Full>>
    BY <2>1, <2>2, EnterComesIn
  <2>. QED  BY <2>1, <2>2, <2>3 DEF View!Type, View!PeerNext
<1>9. CASE RecvFrom
  <2>1. PICK msg \in Datagram : arrived' = Append(arrived, msg)
                                /\ Consume(receiver, remoteMsg, msg, "escape")
    BY <1>9 DEF RecvFrom
  <2>2. /\ UNCHANGED <<queue, shutdownFlag, typed, shown, sent>>
        /\ pc[receiver] = "loop" /\ Len(arrived) < MaxArrived
    BY <1>9 DEF RecvFrom, NoListStep, At
  <2>3. View!ComesIn(msg) /\ Finite' /\ UNCHANGED <<Buffers, Full>>
    BY <2>1, <2>2, EnterComesIn
  <2>. QED  BY <2>1, <2>2, <2>3 DEF View!Arrive, View!PeerNext
<1>10. CASE ReadNothing \/ RecvFails
  <2>1. Silent /\ Finite'
    BY <1>10, PlainStep DEF ReadNothing, RecvFails, NoListStep, At, Monitor
  <2>. QED  BY <1>1, <2>1
<1>11. CASE DisplayProduce \/ SenderProduce
  <2>1. Silent /\ Finite'
    BY <1>11, ProduceIsSilent DEF DisplayProduce, SenderProduce, NoListStep, At
  <2>. QED  BY <1>1, <2>1
<1>12. CASE SendTo
  BY <1>1, <1>12, SendToSends
<1>13. CASE Display
  BY <1>1, <1>13, DisplayShows
<1>14. CASE ReaderEscape \/ SenderEscape \/ ReceiverEscape
  BY <1>1, <1>14, EscapeCloses DEF ReaderEscape, SenderEscape, ReceiverEscape
<1>. QED
  BY <1>1, <1>2, <1>3, <1>5, <1>6, <1>7, <1>8, <1>9, <1>10, <1>11, <1>12, <1>13, <1>14
     DEF Next, ReaderStep, DisplayStep, SenderStep, ReceiverStep, MainStep

LEMMA StartOfPeer ==
  ASSUME NEW kind, InitWith(kind)
  PROVE  View!PeerInit /\ Finite
<1>. USE Constants, FourThreads
<1>1. /\ queue = [l \in List |-> <<>>]
      /\ \A t \in Thread : at[t].pc = "out" /\ at[t].msg = Junk
      /\ pc[sender] = "setup" /\ pc[display] = "check"
  BY DEF InitWith, MailboxInit
<1>2. ASSUME NEW m \in Message PROVE InLists(m) = {} /\ OnItsWayIn(m) = {}
  <2>1. InLists(m) = {}
    <3>1. ~ \E l \in List : \E i \in DOMAIN queue[l] : TRUE
      BY <1>1
    <3>. QED  BY <3>1, InListsFound, FoundIs
  <2>. QED  BY <1>1, <2>1 DEF OnItsWayIn
<1>3. Inside = [m \in Message |-> 0] /\ Finite
  <2>1. IsFiniteSet({}) /\ Cardinality({}) = 0
    BY FS_EmptySet
  <2>2. \A m \in Message : Cardinality(OnItsWayIn(m)) + Cardinality(InLists(m)) = 0
    BY <1>2, <2>1
  <2>. QED  BY <1>2, <2>1, <2>2 DEF Inside, Finite
<1>4. Buffers = [w \in View!Taker |-> Junk]
  BY <1>1, STalkAssumption DEF Buffers, View!Taker
<1>5. Full = [w \in View!Taker |-> FALSE]
  BY <1>1 DEF Full, View!Taker
<1>. QED  BY <1>3, <1>4, <1>5 DEF InitWith, View!PeerInit

LEMMA GroundsInvariant == ASSUME RoomForAll PROVE Spec => []PeerGrounds
<1>1. Init => Finite /\ Roles
  BY StartOfPeer, RolesStart DEF Init
<1>2. Monitor /\ TypeOK /\ Finite /\ Roles /\ [Next]_vars => Finite' /\ Roles'
  <2>. SUFFICES ASSUME Monitor, TypeOK, Finite, Roles, [Next]_vars
                PROVE  Finite' /\ Roles'
    OBVIOUS
  <2>1. ProcessTypeOK /\ HistoryTypeOK /\ MailboxTypeOK
    BY DEF TypeOK, ProcessTypeOK, HistoryTypeOK
  <2>2. CASE Next
    BY <2>1, <2>2, RolesKept, StepOfPeer DEF PeerGrounds
  <2>3. CASE UNCHANGED vars
    BY <2>3 DEF vars, mboxVars, threadVars, historyVars, Finite, InLists, Roles, Said
  <2>. QED  BY <2>2, <2>3
<1>3. Monitor /\ TypeOK /\ Finite /\ Roles => PeerGrounds
  BY DEF PeerGrounds, TypeOK, ProcessTypeOK, HistoryTypeOK
<1>. QED  BY <1>1, <1>2, <1>3, MonitorInvariant, STalkTypeCorrect, PTL DEF Spec

\* Seen from the keyboard, the screen and the network, the threads, locks, waits
\* and stale tests of one process add nothing to what a Peer does to messages,
\* whether the two mailboxes share their list or not (UDPsockets.c:44-244 over
\* UDPthreads.c:16-57).
THEOREM STalkIsPeer ==
  ASSUME RoomForAll
  PROVE  Spec => IsPeer
<1>1. Init => Outside!PeerInit
  BY StartOfPeer DEF Init, View!PeerInit, Outside!PeerInit, View!Taker, Outside!Taker
<1>2. PeerGrounds /\ [Next]_vars => [Outside!PeerNext]_(Outside!peerVars)
  <2>1. CASE UNCHANGED vars
    <3>1. UNCHANGED Outside!peerVars
      BY <2>1 DEF vars, mboxVars, threadVars, historyVars, Outside!peerVars,
                  Inside, Buffers, Full, OnItsWayIn, InLists
    <3>. QED  BY <3>1
  <2>2. ASSUME PeerGrounds, Next
        PROVE  [Outside!PeerNext]_(Outside!peerVars)
    <3>1. View!PeerNext \/ UNCHANGED View!peerVars
      BY <2>2, StepOfPeer
    <3>2. View!PeerNext => Outside!PeerNext
      BY DEF View!PeerNext, Outside!PeerNext, View!Inner, Outside!Inner,
             View!Type, Outside!Type, View!Arrive, Outside!Arrive,
             View!ComesIn, Outside!ComesIn, View!Close, Outside!Close,
             View!SeenBang, Outside!SeenBang, View!Take, Outside!Take,
             View!TakeNothing, Outside!TakeNothing, View!Fill, Outside!Fill,
             View!Send, Outside!Send, View!SendFails, Outside!SendFails,
             View!Show, Outside!Show, View!ShowNothing, Outside!ShowNothing,
             View!Emptied, Outside!Emptied, View!Taker, Outside!Taker
    <3>3. UNCHANGED View!peerVars => UNCHANGED Outside!peerVars
      BY DEF View!peerVars, Outside!peerVars
    <3>. QED  BY <3>1, <3>2, <3>3
  <2>. QED  BY <2>1, <2>2
<1>. QED  BY <1>1, <1>2, GroundsInvariant, PTL DEF Spec, IsPeer, Outside!PeerSpec
-----------------------------------------------------------------------------
(* What is proved of Peer, of the process.                                 *)

LEMMA TypesInside == PeerGrounds => View!PeerTypeOK
<1>. SUFFICES ASSUME PeerGrounds PROVE View!PeerTypeOK
  OBVIOUS
<1>. USE Constants DEF PeerGrounds
<1>1. /\ typed \in Seq(Message) /\ arrived \in Seq(Message)
      /\ sent \in Seq(Message) /\ shown \in Seq(Message)
  BY DEF HistoryTypeOK, ProcessTypeOK
<1>2. Inside \in [Message -> Nat]
  <2>1. \A m \in Message : Inside[m] \in Nat
    BY InsideIsNumber
  <2>. QED  BY <2>1 DEF Inside
<1>3. Buffers \in [View!Taker -> Message]
  <2>1. at[display].msg \in Message /\ at[sender].msg \in Message
    BY DEF Monitor, MailboxTypeOK, Call
  <2>. QED  BY <2>1 DEF Buffers, View!Taker
<1>4. Full \in [View!Taker -> BOOLEAN]
  BY DEF Full, View!Taker
<1>. QED  BY <1>1, <1>2, <1>3, <1>4 DEF View!PeerTypeOK

LEMMA NoCopiesInStep ==
  ASSUME RoomForAll, PeerGrounds, View!NoCopies, Next
  PROVE  View!NoCopies'
BY StepOfPeer, TypesInside, TextsHold, View!NoCopiesKeeps

LEMMA OneWayInProcess ==
  ASSUME PeerGrounds, View!NoCopies
  PROVE  EachGoesOneWay
<1>. SUFFICES ASSUME NEW msg \in (Line \union Datagram) \ {Bang, Junk, Blank}
              PROVE  Times(shown, msg) + Cardinality(Sendings(msg))
                       <= Times(typed, msg) + Times(arrived, msg)
  BY DEF EachGoesOneWay
<1>1. msg \in View!Written /\ msg \in Message
  BY STalkAssumption, Constants DEF View!Written
<1>2. View!CopiesOf(msg) <= View!Times(typed, msg) + View!Times(arrived, msg)
  BY <1>1 DEF View!NoCopies
<1>3. /\ View!Times(shown, msg) \in Nat /\ View!Turns(sent, msg) \in Nat
      /\ View!Times(typed, msg) \in Nat /\ View!Times(arrived, msg) \in Nat
      /\ Inside[msg] \in Nat /\ View!Owed(msg) \in 0 .. 1 /\ View!Held(msg) \in 0 .. 1
  BY <1>1, TypesInside, View!CountsAreNumbers
<1>4. View!Times(shown, msg) + View!Turns(sent, msg)
        <= View!Times(typed, msg) + View!Times(arrived, msg)
  BY <1>2, <1>3 DEF View!CopiesOf
<1>5. \A s : View!Times(s, msg) = Times(s, msg)
  BY DEF View!Times, Times, View!Cardinality, Cardinality, View!IsFiniteSet, IsFiniteSet
<1>6. View!Turns(sent, msg) = Cardinality(Sendings(msg))
  BY DEF View!Turns, Sendings, View!Cardinality, Cardinality, View!IsFiniteSet, IsFiniteSet
<1>. QED  BY <1>4, <1>5, <1>6

\* Each line or datagram that came in is shown or sent, not both, and no more
\* often than it came in, but for direct repetitions of the sender: whatever the
\* two takers take from each other out of one list (UDPsockets.c:86-106, 151-163).
THEOREM STalkGoesOneWay ==
  ASSUME RoomForAll
  PROVE  Spec => []EachGoesOneWay
<1>1. Init => View!NoCopies
  BY StartOfPeer, TextsHold, View!NoCopiesStarts DEF Init
<1>2. PeerGrounds /\ View!NoCopies /\ [Next]_vars => View!NoCopies'
  <2>1. ASSUME PeerGrounds, View!NoCopies, UNCHANGED vars PROVE View!NoCopies'
    <3>1. UNCHANGED View!peerVars
      BY <2>1 DEF vars, mboxVars, threadVars, historyVars, View!peerVars,
                  Inside, Buffers, Full, OnItsWayIn, InLists
    <3>. QED  BY <2>1, <3>1, TypesInside, TextsHold, View!NoCopiesKeeps
  <2>. QED  BY <2>1, NoCopiesInStep
<1>3. PeerGrounds /\ View!NoCopies => EachGoesOneWay
  BY OneWayInProcess
<1>. QED  BY <1>1, <1>2, <1>3, GroundsInvariant, PTL DEF Spec

\* Everything the process sends or shows has come into it, or is an empty buffer
\* or bytes nobody wrote; "!" is never shown (UDPsockets.c:98-103); and the flag is
\* set only after a "!" came in.
THEOREM STalkMakesNothingUp ==
  ASSUME RoomForAll
  PROVE  Spec => []View!AllCameIn
<1>1. Init => View!PeerInv
  BY StartOfPeer, TextsHold, View!PeerStarts DEF Init
<1>2. PeerGrounds /\ View!PeerInv /\ [Next]_vars => View!PeerInv'
  <2>1. ASSUME View!PeerInv, UNCHANGED vars PROVE View!PeerInv'
    <3>1. UNCHANGED View!peerVars
      BY <2>1 DEF vars, mboxVars, threadVars, historyVars, View!peerVars,
                  Inside, Buffers, Full, OnItsWayIn, InLists
    <3>. QED  BY <2>1, <3>1, TextsHold, View!PeerKeeps
  <2>2. ASSUME PeerGrounds, View!PeerInv, Next PROVE View!PeerInv'
    BY <2>2, StepOfPeer, TextsHold, View!PeerKeeps
  <2>. QED  BY <2>1, <2>2
<1>3. View!PeerInv => View!AllCameIn
  BY DEF View!PeerInv
<1>. QED  BY <1>1, <1>2, <1>3, GroundsInvariant, PTL DEF Spec
=============================================================================
