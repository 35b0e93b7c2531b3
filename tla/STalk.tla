-------------------------------- MODULE STalk --------------------------------
(***************************************************************************)
(* One s-talk process (main.c, UDPsockets.c): the reader of the keyboard,  *)
(* the sender and the receiver of datagrams, the display and main, around  *)
(* the two mailboxes hostMsg and remoteMsg and the shutdown flag.          *)
(*                                                                         *)
(* The user and the remote peer are the environment: the user types lines, *)
(* datagrams arrive.  What came in and was shown is kept as history.       *)
(*                                                                         *)
(* List_create gives both mailboxes the same list, so hostMsg.access and   *)
(* remoteMsg.access protect one list from two sides.  Two threads inside   *)
(* it at once race; the model then takes one of two outcomes: the two list *)
(* operations happen one after the other, or the list is torn and nothing  *)
(* more is said about the process ("undefined").                           *)
(***************************************************************************)
EXTENDS MessageLists

CONSTANTS
  reader, sender, display, receiver,   \* the four threads
  hostMsg, remoteMsg,                  \* the two mailboxes
  Bang,       \* "!" with its terminator
  RawBang,    \* "!" as consume(.., escapeChar, 1) stores it: no terminator
  Junk,       \* bytes nobody wrote: what lies behind a RawBang in memory, or
              \* in a buffer before its first message
  Blank,      \* a buffer of zeros
  Line,       \* the lines the user types, Bang among them
  Datagram,   \* what peers send, Bang among it
  MaxTyped,   \* bound: lines the user types
  MaxArrived  \* bound: datagrams that arrive

ASSUME STalkAssumption ==
  /\ Thread = {reader, sender, display, receiver}
  /\ Cardinality(Thread) = 4
  /\ Mailbox = {hostMsg, remoteMsg} /\ hostMsg # remoteMsg
  /\ Bang \in Line \intersect Datagram
  /\ RawBang \notin {Junk, Blank} /\ Junk # Blank
  /\ Line \intersect {RawBang, Junk, Blank} = {}
  /\ RawBang \notin Datagram
  /\ Message = Line \union Datagram \union {RawBang, Junk, Blank}
  /\ Reads = [m \in Message |-> IF m = RawBang THEN {Bang, Junk} ELSE {m}]
  /\ MaxTyped \in Nat /\ MaxArrived \in Nat

VARIABLES
  pc,            \* where each thread is when it is in no mailbox call
  shutdownFlag,
  process,       \* "running", "undefined", "failed", "crashed" or "exited"
  joined,        \* how many threads main has joined
  typed, arrived,  \* what the user has typed, what recvfrom has returned
  shown,         \* what write has been given
  sent           \* what sendto has taken

threadVars  == <<pc, shutdownFlag>>
historyVars == <<typed, arrived, shown, sent>>
vars == <<mboxVars, threadVars, process, joined, historyVars>>

InitWith(kind) ==
  /\ MailboxInit(kind)
  /\ at = [t \in Thread |-> [pc |-> "out", fn |-> "consume", box |-> hostMsg,
                             msg |-> Junk]]
  /\ pc = [t \in Thread |->
             IF t \in {sender, receiver} THEN "setup" ELSE "check"]
  /\ shutdownFlag = FALSE
  /\ process = "running"
  /\ joined = 0
  /\ typed = <<>> /\ arrived = <<>> /\ shown = <<>> /\ sent = <<>>

Init == InitWith("whole")

-----------------------------------------------------------------------------
\* Thread t is between mailbox calls, at program point p.
At(t, p) == process = "running" /\ at[t].pc = "out" /\ pc[t] = p

Goto(t, p) == pc' = [pc EXCEPT ![t] = p]

\* t calls consume() or produce() and goes on at p when the call returns.
Consume(t, m, msg, p) == Enter(t, "consume", m, msg) /\ Goto(t, p)
Produce(t, m, p)      == Enter(t, "produce", m, at[t].msg) /\ Goto(t, p)

\* t has the message msg in its buffer.
SetBuffer(t, msg) == at' = [at EXCEPT ![t].msg = msg]

\* A step that leaves the mailboxes' lists and locks alone.
NoListStep == UNCHANGED <<queue, links, access, process, joined>>

\* Every thread's loop: while(!getShutdownFlag()).
Check(t) ==
  /\ At(t, "check")
  /\ Goto(t, IF shutdownFlag THEN "done" ELSE "loop")
  /\ UNCHANGED <<at, shutdownFlag, historyVars>> /\ NoListStep

\* Mutation: only the first character is compared, as by strncmp(.., 1), so
\* that bytes nobody wrote can pass for the escape character.
EscapeOrLoopPrefix(t, m) ==
  /\ \/ /\ at[t].msg \in {Bang, Junk}
        /\ shutdownFlag' = TRUE
        /\ Consume(t, m, RawBang, "check")
     \/ /\ at[t].msg \notin {Bang, Junk}
        /\ Goto(t, "check")
        /\ UNCHANGED <<at, shutdownFlag>>
  /\ UNCHANGED historyVars /\ NoListStep

\* isEscapeChar() on the message in t's buffer: it sets the flag and is
\* followed by a consume() of the bare escape character.  (That argument takes
\* the place of t's buffer here; t does not look at the buffer again.)
EscapeOrLoop(t, m) ==
  /\ \/ /\ at[t].msg = Bang
        /\ shutdownFlag' = TRUE
        /\ Consume(t, m, RawBang, "check")
     \/ /\ at[t].msg # Bang
        /\ Goto(t, "check")
        /\ UNCHANGED <<at, shutdownFlag>>
  /\ UNCHANGED historyVars /\ NoListStep

-----------------------------------------------------------------------------
(* The reader.                                                             *)

\* poll() and read(): a line of the user, without its newline.
ReadLine ==
  /\ At(reader, "loop")
  /\ Len(typed) < MaxTyped
  /\ \E msg \in Line :
       /\ typed' = Append(typed, msg)
       /\ Consume(reader, hostMsg, msg, "escape")
  /\ UNCHANGED <<shutdownFlag, arrived, shown, sent>> /\ NoListStep

\* An empty line, an overlong one, end of input and a failing read() are
\* reported or ignored, and the flag is looked at again.
ReadNothing ==
  /\ At(reader, "loop")
  /\ Goto(reader, "check")
  /\ UNCHANGED <<at, shutdownFlag, historyVars>> /\ NoListStep

\* Mutation: the reader leaves the escape character to the sender.
ReaderNoEscape ==
  /\ At(reader, "escape")
  /\ Goto(reader, "check")
  /\ UNCHANGED <<at, shutdownFlag, historyVars>> /\ NoListStep

ReaderEscape == At(reader, "escape") /\ EscapeOrLoop(reader, remoteMsg)

-----------------------------------------------------------------------------
(* The display.                                                            *)

DisplayProduce ==
  /\ At(display, "loop")
  /\ Produce(display, remoteMsg, "show")
  /\ UNCHANGED <<shutdownFlag, historyVars>> /\ NoListStep

\* Mutation: the buffer is not cleared.
DisplayUncleared ==
  /\ At(display, "show")
  /\ Goto(display, "check")
  /\ shown' = IF at[display].msg = Bang THEN shown
              ELSE Append(shown, at[display].msg)
  /\ UNCHANGED <<at, shutdownFlag, typed, arrived, sent>> /\ NoListStep

\* The escape character is not shown and stays in the buffer; anything else
\* is written and the buffer cleared.
Display ==
  /\ At(display, "show")
  /\ Goto(display, "check")
  /\ \/ /\ at[display].msg = Bang
        /\ UNCHANGED <<at, shown>>
     \/ /\ at[display].msg # Bang
        /\ shown' = Append(shown, at[display].msg)
        /\ SetBuffer(display, Blank)
  /\ UNCHANGED <<shutdownFlag, typed, arrived, sent>> /\ NoListStep

-----------------------------------------------------------------------------
(* The sender.                                                             *)

\* getaddrinfo() and socket(), and for the receiver bind(): when they fail
\* the whole process ends with EXIT_FAILURE; but when it is getaddrinfo() that
\* fails, freeaddrinfo() first gets a pointer that nobody has set.
Setup(t) ==
  /\ At(t, "setup")
  /\ \/ Goto(t, "check") /\ UNCHANGED process
     \/ process' \in {"failed", "undefined"} /\ UNCHANGED pc
  /\ UNCHANGED <<mboxVars, shutdownFlag, joined, historyVars>>

SenderProduce ==
  /\ At(sender, "loop")
  /\ Produce(sender, hostMsg, "send")
  /\ UNCHANGED <<shutdownFlag, historyVars>> /\ NoListStep

\* sendto() takes the message, or fails and the message is given up.  The
\* buffer is not cleared.
SendTo ==
  /\ At(sender, "send")
  /\ \/ Goto(sender, "escape") /\ sent' = Append(sent, at[sender].msg)
     \/ Goto(sender, "check") /\ UNCHANGED sent
  /\ UNCHANGED <<at, shutdownFlag, typed, arrived, shown>> /\ NoListStep

SenderEscape == At(sender, "escape") /\ EscapeOrLoop(sender, remoteMsg)

-----------------------------------------------------------------------------
(* The receiver.                                                           *)

\* recvfrom() blocks until a datagram arrives.
RecvFrom ==
  /\ At(receiver, "loop")
  /\ Len(arrived) < MaxArrived
  /\ \E msg \in Datagram :
       /\ arrived' = Append(arrived, msg)
       /\ Consume(receiver, remoteMsg, msg, "escape")
  /\ UNCHANGED <<shutdownFlag, typed, shown, sent>> /\ NoListStep

RecvFails ==
  /\ At(receiver, "loop")
  /\ Goto(receiver, "check")
  /\ UNCHANGED <<at, shutdownFlag, historyVars>> /\ NoListStep

ReceiverEscape == At(receiver, "escape") /\ EscapeOrLoop(receiver, hostMsg)

-----------------------------------------------------------------------------
(* Mailbox calls, and main.                                                *)

\* Another thread is inside the list operations of the list t works on.
Racing(t) ==
  \E u \in Thread \ {t} :
    at[u].pc = "holding" /\ ListOf[at[u].box] = ListOf[at[t].box]

MailboxStep(t) ==
  /\ process = "running"
  /\ CallStep(t)
  /\ UNCHANGED <<threadVars, process, joined, historyVars>>

Wakeup(t) ==
  /\ process = "running"
  /\ SpuriousWake(t)
  /\ UNCHANGED <<threadVars, process, joined, historyVars>>

TearList(t) ==
  /\ process = "running"
  /\ at[t].pc = "holding" /\ Racing(t)
  /\ process' = "undefined"
  /\ UNCHANGED <<mboxVars, threadVars, joined, historyVars>>

\* List_trim of a list whose tail an earlier List_trim has lost.
TrimCrash(t) ==
  /\ process = "running"
  /\ FaultingTrim(t)
  /\ process' = "crashed"
  /\ UNCHANGED <<mboxVars, threadVars, joined, historyVars>>

\* main joins the threads in this order.
JoinOrder == <<sender, receiver, reader, display>>

Join ==
  /\ process = "running"
  /\ joined < 4
  /\ at[JoinOrder[joined + 1]].pc = "out" /\ pc[JoinOrder[joined + 1]] = "done"
  /\ joined' = joined + 1
  /\ UNCHANGED <<mboxVars, threadVars, process, historyVars>>

\* destroyMsgListPtr() on both mailboxes: the process ends, one way or the other.
Destroy ==
  /\ process = "running"
  /\ joined = 4
  /\ process' = IF \E m \in Mailbox : FaultingDestroy(m)
                THEN "crashed" ELSE "exited"
  /\ UNCHANGED <<mboxVars, threadVars, joined, historyVars>>

ReaderStep   == Check(reader) \/ ReaderEscape \/ MailboxStep(reader)
DisplayStep  == Check(display) \/ DisplayProduce \/ Display
                \/ MailboxStep(display) \/ TrimCrash(display)
SenderStep   == Check(sender) \/ SenderProduce \/ SendTo \/ SenderEscape
                \/ Setup(sender) \/ MailboxStep(sender) \/ TrimCrash(sender)
ReceiverStep == Check(receiver) \/ ReceiverEscape \/ Setup(receiver)
                \/ MailboxStep(receiver)
MainStep     == Join \/ Destroy

Next ==
  \/ ReaderStep \/ DisplayStep \/ SenderStep \/ ReceiverStep \/ MainStep
  \/ ReadLine \/ ReadNothing \/ RecvFrom \/ RecvFails
  \/ \E t \in Thread : Wakeup(t) \/ TearList(t)

\* The scheduler lets every thread run.  Nothing makes the user type or a
\* datagram arrive.
Fairness ==
  /\ WF_vars(ReaderStep) /\ WF_vars(DisplayStep) /\ WF_vars(SenderStep)
  /\ WF_vars(ReceiverStep) /\ WF_vars(MainStep)

Spec == Init /\ [][Next]_vars
LiveSpec == Spec /\ Fairness

-----------------------------------------------------------------------------
TypeOK ==
  /\ MailboxTypeOK
  /\ pc \in [Thread -> {"setup", "check", "loop", "show", "send", "escape",
                        "done"}]
  /\ shutdownFlag \in BOOLEAN
  /\ process \in {"running", "undefined", "failed", "crashed", "exited"}
  /\ joined \in 0 .. 4
  /\ typed \in Seq(Line) /\ arrived \in Seq(Datagram)
  /\ shown \in Seq(Message) /\ sent \in Seq(Message)

Said(s, msg) == \E i \in DOMAIN s : s[i] = msg

Times(s, msg) == Cardinality({i \in DOMAIN s : s[i] = msg})

\* The process shuts down only because the user or the peer said "!": a
\* message of other threads, a stale buffer or a bare escape character read
\* with what lies behind it never does (UDPsockets.c:33-40, 72-75, 159-161).
ShutdownIsAskedFor ==
  shutdownFlag => Said(typed, Bang) \/ Said(arrived, Bang)

\* Where the sender began to send msg: its repetitions, one directly after the
\* other, count once.
Sendings(msg) ==
  {i \in DOMAIN sent : sent[i] = msg /\ (i = 1 \/ sent[i - 1] # msg)}

\* Each line or datagram that came in goes one way, once: it is shown, or it
\* is sent, whichever mailbox it went through.  When the sender finds the list
\* empty behind its back it sends its last message again, directly after the
\* first time; the display then shows an empty buffer and nothing twice
\* (UDPsockets.c:86-106 and 151-163).
EachGoesOneWay ==
  \A msg \in (Line \union Datagram) \ {Bang, Junk, Blank} :
    Times(shown, msg) + Cardinality(Sendings(msg))
      <= Times(typed, msg) + Times(arrived, msg)

\* Messages of the peer are shown in the order they arrived in, although the
\* sender may take some of them out of the shared list.
ShownInOrder ==
  \A k, n \in DOMAIN shown :
    LET a == shown[k]  b == shown[n] IN
    k < n /\ a # b /\ {a, b} \subseteq Datagram \ {Bang, Junk, Blank}
      /\ Times(arrived, a) = 1 /\ Times(arrived, b) = 1
      /\ Times(typed, a) + Times(typed, b) = 0 =>
      \A i, j \in DOMAIN arrived : arrived[i] = a /\ arrived[j] = b => i < j

\* Seen from outside the process is a Peer: the threads, locks, waits and stale
\* tests add nothing to what it does to messages.  A message is inside from
\* when its thread has read it, through consume() and the list, until a
\* List_trim returns it (UDPsockets.c:44-244).
OnItsWayIn(msg) ==
  {t \in Thread : at[t].fn = "consume" /\ at[t].pc # "out" /\ at[t].msg = msg}

InLists(msg) ==
  UNION {{l} \X {i \in DOMAIN queue[l] : queue[l][i] = msg} : l \in List}

Inside ==
  [m \in Message |-> Cardinality(OnItsWayIn(m)) + Cardinality(InLists(m))]

\* The buffers of the two takers, and which of them are about to be used.
Buffers ==
  [t \in {"sender", "display"} |->
     IF t = "display" THEN at[display].msg
     ELSE IF at[sender].msg = RawBang THEN Bang ELSE at[sender].msg]

Full ==
  [t \in {"sender", "display"} |->
     IF t = "display" THEN at[display].pc = "out" /\ pc[display] = "show"
     ELSE at[sender].pc = "out" /\ pc[sender] = "send"]

Outside == INSTANCE Peer WITH
  inside <- Inside, buffer <- Buffers, full <- Full, closing <- shutdownFlag

IsPeer == Outside!PeerSpec

\* Nothing the user or the peer said comes to rest in the list while the
\* process is neither shutting down nor over: one of the two threads that
\* take messages out is always on its way.
Resting == \E m \in Mailbox : num_nodes(m) > 0

EveryMessageTaken ==
  Resting ~> (~Resting \/ shutdownFlag \/ process # "running")

\* A "!" of the user takes effect, unless the reader is blocked for space in
\* the mailbox before it looks at what it has read.
EscapeIsHeard ==
  Said(typed, Bang) ~>
    (shutdownFlag \/ process # "running" \/ at[reader].pc = "waiting")

-----------------------------------------------------------------------------
(* What the documentation says of s-talk and the code does not do.         *)

\* README.txt:6 (item 5) - the sender no longer receives its own messages.
OwnMessagesNotShown ==
  \A msg \in Line \ Datagram : Times(shown, msg) = 0

\* README.txt:5 (item 4) - ending the connection is a segmentation fault.
NeverCrashes == process # "crashed"

\* UDPsockets.c:235 - after the peer's "!" and an Enter of the user the
\* process ends.
EnterEnds == WF_vars(ReadNothing)
LiveUserSpec == LiveSpec /\ EnterEnds
PeerEndsUs == Said(arrived, Bang) ~> (joined = 4 \/ process # "running")
=============================================================================
