------------------------------ MODULE DumpTalk ------------------------------
(***************************************************************************)
(* The older s-talk of the directory dump: main.c over listMonitor.c and   *)
(* the older list.c.  Its threads take the steps of STalk, except that     *)
(*   - the sender sends a message without its terminator                   *)
(*     (dump/main.c:184), and the receiver's buffer is cleared only behind *)
(*     the first datagram;                                                 *)
(*   - its lists survive List_trim and can be freed with messages in them. *)
(*                                                                         *)
(* userMessages and remoteMessages are called hostMsg and remoteMsg here.  *)
(***************************************************************************)
EXTENDS STalk

\* The older program runs on the older library.
Older == \A l \in List : links[l] = "sound"

DumpInit == InitWith("sound")

\* What the receiver's buffer reads as: before it has been cleared, bytes
\* nobody wrote follow the first datagram, unless a zero happens to.
Received(msg) == IF arrived = <<>> THEN {msg, Junk} ELSE {msg}

Listen ==
  /\ At(receiver, "loop")
  /\ Len(arrived) < MaxArrived
  /\ \E msg \in Datagram :
       /\ arrived' = Append(arrived, msg)
       /\ \E text \in Received(msg) : Consume(receiver, remoteMsg, text, "escape")
  /\ UNCHANGED <<shutdownFlag, typed, shown, sent>> /\ NoListStep

\* Either program, by the functions of the older one.
readUserInput      == ReadLine \/ ReadNothing \/ ReaderStep
printRemoteMessage == DisplayStep
sendUserMessages   == SenderStep
dumpMain           == MainStep

listenForRemoteMessages ==
  \/ RecvFails \/ ReceiverStep
  \/ Older /\ Listen
  \/ ~Older /\ RecvFrom

BothNext ==
  \/ readUserInput \/ printRemoteMessage \/ sendUserMessages
  \/ listenForRemoteMessages \/ dumpMain
  \/ \E t \in Thread : Wakeup(t) \/ TearList(t)

BothSpec == (Init \/ DumpInit) /\ [][BothNext]_vars
=============================================================================
