--------------------------- MODULE MailboxClients ---------------------------
(***************************************************************************)
(* The test program of dump/listMonitorTest.c: writers that call consume() *)
(* and readers that call produce(), each NumTimes times, and main, which   *)
(* joins them all and destroys the mailboxes.                              *)
(*                                                                         *)
(* consume() and produce() are the same code in dump/listMonitor.c and in  *)
(* UDPthreads.c; below them is either of the two list libraries.           *)
(***************************************************************************)
EXTENDS MessageLists

CONSTANTS
  Writer,   \* the threads that call consume()
  BoxOf,    \* the mailbox each thread uses
  Text,     \* the messages the writers put in
  Blank,    \* what a buffer holds before the first message
  NumTimes  \* the calls each thread makes

ASSUME ClientsAssumption ==
  /\ Writer \subseteq Thread
  /\ BoxOf \in [Thread -> Mailbox]
  /\ Text \subseteq Message
  /\ Blank \in Message
  /\ NumTimes \in Nat

VARIABLES
  left,     \* how many calls each thread has still to make
  program   \* "running", "trimCrashed", "freeCrashed" or "finished"

vars == <<mboxVars, left, program>>

Init ==
  /\ \E kind \in NewLinks : MailboxInit(kind)
  /\ at = [t \in Thread |->
             [pc |-> "out", fn |-> IF t \in Writer THEN "consume" ELSE "produce",
              box |-> BoxOf[t], msg |-> Blank]]
  /\ left = [t \in Thread |-> NumTimes]
  /\ program = "running"

\* One round of the loop over NumTimes.
CountDown(t) == left[t] > 0 /\ left' = [left EXCEPT ![t] = @ - 1]

testConsume(t) ==
  /\ t \in Writer
  /\ CountDown(t)
  /\ \E msg \in Text : Enter(t, "consume", BoxOf[t], msg)
  /\ UNCHANGED <<queue, links, access, program>>

testProduce(t) ==
  /\ t \notin Writer
  /\ CountDown(t)
  /\ Enter(t, "produce", BoxOf[t], at[t].msg)
  /\ UNCHANGED <<queue, links, access, program>>

\* The process ends with the thread that faults.
Crash(t) ==
  /\ FaultingTrim(t)
  /\ program' = "trimCrashed"
  /\ UNCHANGED <<mboxVars, left>>

\* The next step of a thread.
Run(t) ==
  /\ program = "running"
  /\ \/ CallStep(t) /\ UNCHANGED <<left, program>>
     \/ testConsume(t) \/ testProduce(t) \/ Crash(t)

Wakeup(t) ==
  /\ program = "running"
  /\ SpuriousWake(t) /\ UNCHANGED <<left, program>>

destroyMsgListPtr ==
  program' = IF \E m \in Mailbox : FaultingDestroy(m) THEN "freeCrashed"
             ELSE "finished"

\* main: every thread is joined, then the mailboxes are destroyed.
main ==
  /\ program = "running"
  /\ \A t \in Thread : left[t] = 0 /\ at[t].pc = "out"
  /\ destroyMsgListPtr
  /\ UNCHANGED <<mboxVars, left>>

Next == main \/ \E t \in Thread : Run(t) \/ Wakeup(t)

\* The scheduler lets every thread run, and main.
Fairness == WF_vars(main) /\ \A t \in Thread : WF_vars(Run(t))

Spec == Init /\ [][Next]_vars
LiveSpec == Spec /\ Fairness

-----------------------------------------------------------------------------
NeverTrimCrashes == program # "trimCrashed"

\* The calls that the threads of S have begun.
CallsOf(S) ==
  Cardinality(UNION {{t} \X (left[t] + 1 .. NumTimes) : t \in S})

\* No sequence of calls uses a null pointer before three messages have been put
\* in and two taken out, and none ever does with the older library: the crash
\* of list.c:377 is out of reach of the test program as it is, with its two
\* messages (dump/listMonitorTest.c:9).
CrashTakesThree ==
  program = "trimCrashed" =>
    /\ \A t \in Thread : links[ListOf[BoxOf[t]]] # "sound"
    /\ CallsOf(Writer) >= 3 /\ CallsOf(Thread \ Writer) >= 3

\* With as many calls of either kind the test program ends, its lists empty,
\* or crashes in List_trim: no call stays blocked for ever because its wakeup
\* went to somebody else (dump/listMonitor.c:35-79).
TestEnds == <>(program \in {"finished", "trimCrashed"})

\* Seen from outside, one mailbox with a list of its own is a blocking queue:
\* the waits, wakeups and lock handovers of UDPthreads.c:16-57 are invisible
\* and, with fairness, leave no call blocked that could be served.
TheBox == CHOOSE m \in Mailbox : TRUE

Outside == INSTANCE BlockingQueue WITH
  Capacity <- MAX_NUM_MESSAGES,
  q <- queue[ListOf[TheBox]],
  caller <- [t \in Thread |->
               [pending |-> at[t].pc # "out" /\ NeverTrimCrashes,
                fn |-> at[t].fn, msg |-> at[t].msg]]

IsBlockingQueue == Outside!Spec
ServesItsCallers == Outside!Serves
=============================================================================
