------------------------ MODULE MailboxClientsProofs ------------------------
(***************************************************************************)
(* Theorems on the mailboxes under any number of writers and readers, for  *)
(* every value of the constants.                                           *)
(***************************************************************************)
EXTENDS MailboxClients, MessageListsProofs

\* A step of the program is a monitor step of one thread, or leaves the monitor
\* as it is: the crash of a thread, or main.
LEMMA NextIsMonitorStep ==
  ASSUME MailboxTypeOK, Next
  PROVE  /\ program = "running"
         /\ \/ /\ \E t \in Thread : MonitorStep(t)
               /\ UNCHANGED program
            \/ /\ \E t \in Thread : FaultingTrim(t)
               /\ program' = "trimCrashed" /\ UNCHANGED mboxVars
            \/ /\ program' \in {"freeCrashed", "finished"}
               /\ UNCHANGED mboxVars
<1>. USE MailboxAssumption, ClientsAssumption
<1>1. CASE main
  BY <1>1 DEF main, destroyMsgListPtr
<1>2. ASSUME NEW t \in Thread, program = "running", testConsume(t)
      PROVE  MonitorStep(t) /\ UNCHANGED program
  BY <1>2 DEF testConsume, MonitorStep, Fn
<1>3. ASSUME NEW t \in Thread, program = "running", testProduce(t)
      PROVE  MonitorStep(t) /\ UNCHANGED program
  BY <1>3 DEF testProduce, MonitorStep, Fn, MailboxTypeOK, Call
<1>4. ASSUME NEW t \in Thread, Crash(t)
      PROVE  FaultingTrim(t) /\ program' = "trimCrashed" /\ UNCHANGED mboxVars
  BY <1>4 DEF Crash
<1>5. ASSUME NEW t \in Thread,
             Wakeup(t) \/ (Run(t) /\ CallStep(t) /\ UNCHANGED program)
      PROVE  MonitorStep(t) /\ program = "running" /\ UNCHANGED program
  BY <1>5 DEF Wakeup, Run, MonitorStep
<1>. QED  BY <1>1, <1>2, <1>3, <1>4, <1>5 DEF Next, Run

\* The lists, the mutexes and the calls keep their types.
THEOREM TypeCorrect == Spec => []MailboxTypeOK
<1>1. Init => MailboxTypeOK
  BY MailboxAssumption, ClientsAssumption
     DEF Init, MailboxInit, MailboxTypeOK, Call, Fn, LinkStates, NewLinks
<1>2. MailboxTypeOK /\ [Next]_vars => MailboxTypeOK'
  <2>1. ASSUME MailboxTypeOK, UNCHANGED mboxVars PROVE MailboxTypeOK'
    BY <2>1 DEF mboxVars, MailboxTypeOK
  <2>2. ASSUME MailboxTypeOK, Next PROVE MailboxTypeOK'
    BY <2>1, <2>2, NextIsMonitorStep, TypeStep
  <2>. QED  BY <2>1, <2>2 DEF vars
<1>. QED  BY <1>1, <1>2, PTL DEF Spec

\* A thread between lock and unlock holds its mailbox's mutex and no other
\* thread does (UDPthreads.c:16-57).
THEOREM MutexHolds == Spec => []MutualExclusion
<1>1. Init => MutualExclusion
  BY MailboxAssumption, ClientsAssumption DEF Init, MailboxInit, MutualExclusion
<1>2. MailboxTypeOK /\ MutualExclusion /\ [Next]_vars => MutualExclusion'
  <2>1. ASSUME MutualExclusion, UNCHANGED mboxVars PROVE MutualExclusion'
    BY <2>1 DEF mboxVars, MutualExclusion
  <2>2. ASSUME MailboxTypeOK, MutualExclusion, Next
        PROVE  MutualExclusion'
    BY <2>1, <2>2, NextIsMonitorStep, MutexStep
  <2>. QED  BY <2>1, <2>2 DEF vars
<1>. QED  BY <1>1, <1>2, TypeCorrect, PTL DEF Spec

\* A list never holds more than MAX_NUM_MESSAGES messages, and one more for
\* each further mailbox that points to it (UDPthreads.c:20-28).
THEOREM ListsBounded == Spec => []Bounded
<1>1. Init => Bounded
  <2>1. ASSUME Init, NEW l \in List, Sharing(l) # {}
        PROVE  Len(queue[l]) + Cardinality(Committed(l))
                 <= MAX_NUM_MESSAGES - 1 + Cardinality(Sharing(l))
    <3>1. queue[l] = <<>>
      BY <2>1 DEF Init, MailboxInit
    <3>. QED  BY <3>1, CommittedIsFinite, MailboxAssumption
  <2>. QED  BY <2>1 DEF Bounded
<1>2. MailboxTypeOK /\ MutualExclusion /\ Bounded /\ [Next]_vars => Bounded'
  <2>1. ASSUME Bounded, UNCHANGED mboxVars PROVE Bounded'
    BY <2>1 DEF mboxVars, Bounded, Committed, Sharing
  <2>2. ASSUME MailboxTypeOK, MutualExclusion, Bounded, Next
        PROVE  Bounded'
    BY <2>1, <2>2, NextIsMonitorStep, BoundedStep
  <2>. QED  BY <2>1, <2>2 DEF vars
<1>. QED  BY <1>1, <1>2, TypeCorrect, MutexHolds, PTL DEF Spec

\* With a list for each mailbox, the room or the message that a thread has
\* found in its while test is still there when it uses it
\* (UDPthreads.c:20-28 and 41-46).
THEOREM TestsHold ==
  ASSUME OwnLists
  PROVE  Spec => []TestStillHolds
<1>1. Init => TestStillHolds
  BY DEF Init, TestStillHolds
<1>2. MailboxTypeOK /\ MutualExclusion /\ TestStillHolds /\ [Next]_vars
        => TestStillHolds'
  <2>1. ASSUME TestStillHolds, UNCHANGED mboxVars PROVE TestStillHolds'
    BY <2>1 DEF mboxVars, TestStillHolds, MustWait, num_nodes
  <2>2. ASSUME MailboxTypeOK, MutualExclusion, TestStillHolds, Next
        PROVE  TestStillHolds'
    BY <2>1, <2>2, NextIsMonitorStep, TestStep
  <2>. QED  BY <2>1, <2>2 DEF vars
<1>. QED  BY <1>1, <1>2, TypeCorrect, MutexHolds, PTL DEF Spec

\* With a list for each mailbox, no two threads are in the operations of one
\* list at once: the mutex makes each access the only one (UDPthreads.h:38).
THEOREM NoRace ==
  ASSUME OwnLists
  PROVE  Spec => []NoDataRace
<1>1. MailboxTypeOK /\ MutualExclusion => NoDataRace
  BY OwnListsNoRace
<1>. QED  BY <1>1, TypeCorrect, MutexHolds, PTL

\* With a list of its own for each mailbox and a node for each message, no
\* wakeup is ever lost: for any number of threads, one pthread_cond_signal for
\* each operation is enough (UDPthreads.c:16-57).
THEOREM NoWakeupIsLost ==
  ASSUME OwnLists, EnoughNodes
  PROVE  Spec => []NoLostWakeup
<1>1. Init => NoLostWakeup
  BY DEF Init, NoLostWakeup, Waiters
<1>2. MailboxTypeOK /\ TestStillHolds /\ NoLostWakeup /\ [Next]_vars
        => NoLostWakeup'
  <2>1. ASSUME NoLostWakeup, UNCHANGED mboxVars PROVE NoLostWakeup'
    BY <2>1 DEF mboxVars, NoLostWakeup, Waiters, OnTheirWay, num_nodes
  <2>2. ASSUME MailboxTypeOK, TestStillHolds, NoLostWakeup, Next
        PROVE  NoLostWakeup'
    BY <2>1, <2>2, NextIsMonitorStep, WakeupStep
  <2>. QED  BY <2>1, <2>2 DEF vars
<1>3. Spec => []TestStillHolds
  BY TestsHold
<1>. QED  BY <1>1, <1>2, <1>3, TypeCorrect, PTL DEF Spec

-----------------------------------------------------------------------------
\* All threads use one mailbox.
OneMailbox == \E m : Mailbox = {m}

\* What an observer of the calls sees of thread t.
Seen(t) == [pending |-> at[t].pc # "out" /\ NeverTrimCrashes,
            fn |-> at[t].fn, msg |-> at[t].msg]

\* All calls are calls of the one mailbox.
LEMMA TheBoxIsUsed ==
  ASSUME OneMailbox, MailboxTypeOK, NEW t \in Thread
  PROVE  at[t].box = TheBox /\ ListOf[TheBox] \in List
<1>1. at[t].box \in Mailbox
  BY DEF MailboxTypeOK, Call
<1>2. TheBox \in Mailbox
  BY <1>1 DEF TheBox
<1>. QED  BY <1>1, <1>2, MailboxAssumption DEF OneMailbox

\* To an observer a call that ends changes nothing but the one thread's view:
\* the thread it wakes up is as pending as it was.
LEMMA SignalIsReturn ==
  ASSUME MailboxTypeOK, NEW t \in Thread, NEW msg \in Message,
         at[t].pc = "holding", ReturnAndSignal(t, msg),
         program = "running", UNCHANGED program
  PROVE  [u \in Thread |-> Seen(u)]' =
           [[u \in Thread |-> Seen(u)] EXCEPT ![t].pending = FALSE, ![t].msg = msg]
<1>1. /\ at'[t].pc = "out" /\ at'[t].msg = msg /\ at'[t].fn = at[t].fn
      /\ \A u \in Thread \ {t} :
           /\ at'[u].msg = at[u].msg /\ at'[u].fn = at[u].fn
           /\ at'[u].pc = at[u].pc \/ (at[u].pc = "waiting" /\ at'[u].pc = "lock")
  BY SignalMoves DEF SameCall
<1>2. ASSUME NEW u \in Thread, u # t PROVE Seen(u)' = Seen(u)
  BY <1>1, <1>2 DEF Seen, NeverTrimCrashes
<1>3. Seen(t)' = [pending |-> FALSE, fn |-> at[t].fn, msg |-> msg]
  BY <1>1 DEF Seen, NeverTrimCrashes
<1>. QED  BY <1>2, <1>3 DEF Seen

\* Every monitor step is a step of the blocking queue, or one it does not see.
LEMMA MonitorStepMaps ==
  ASSUME OneMailbox, EnoughNodes, MailboxTypeOK, TestStillHolds,
         NEW t \in Thread, MonitorStep(t),
         program = "running", UNCHANGED program
  PROVE  [Outside!Next]_(Outside!vars)
<1>. DEFINE l == ListOf[TheBox]
            caller == [u \in Thread |-> Seen(u)]
<1>. USE DEF Outside!vars, Seen, NeverTrimCrashes
<1>1. at[t].box = TheBox /\ l \in List
  BY TheBoxIsUsed
<1>2. /\ at \in [Thread -> Call] /\ at[t] \in Call
      /\ queue \in [List -> Seq(Message)] /\ queue[l] \in Seq(Message)
  BY <1>1 DEF MailboxTypeOK
<1>3. ASSUME NEW fn \in Fn, NEW m \in Mailbox, NEW msg \in Message,
             Enter(t, fn, m, msg), UNCHANGED <<queue, links, access>>
      PROVE  Outside!Invoke(t)
  <2>1. caller' = [caller EXCEPT ![t] = [pending |-> TRUE, fn |-> fn, msg |-> msg]]
    BY <1>2, <1>3 DEF Enter
  <2>. QED  BY <1>3, <2>1 DEF Outside!Invoke, Outside!Idle, Fn, Enter
<1>4. ASSUME LockAndPass(t) \/ LockAndWait(t) \/ SpuriousWake(t)
      PROVE  caller' = caller /\ queue' = queue
  <2>1. PICK p \in {"lock", "waiting", "holding"} : at' = [at EXCEPT ![t].pc = p]
    BY <1>4 DEF LockAndPass, LockAndWait, SpuriousWake
  <2>2. at[t].pc # "out" /\ queue' = queue
    BY <1>4 DEF LockAndPass, LockAndWait, SpuriousWake
  <2>3. ASSUME NEW u \in Thread PROVE Seen(u)' = Seen(u)
    BY <1>2, <2>1, <2>2 DEF Call
  <2>. QED  BY <2>2, <2>3
<1>5. CASE Prepend(t)
  <2>1. /\ at[t].pc = "holding" /\ at[t].fn = "consume"
        /\ ReturnAndSignal(t, at[t].msg) /\ at[t].msg \in Message
    BY <1>2, <1>5 DEF Prepend, Call
  <2>2. Len(queue[l]) < MAX_NUM_MESSAGES
    BY <1>1, <1>2, <2>1, MailboxAssumption DEF TestStillHolds, MustWait, num_nodes
  <2>3. queue'[l] = Append(queue[l], at[t].msg)
    BY <1>1, <1>2, <1>5, <2>2, MailboxAssumption DEF Prepend, EnoughNodes
  <2>4. caller' = [caller EXCEPT ![t].pending = FALSE, ![t].msg = at[t].msg]
    BY <2>1, SignalIsReturn
  <2>5. Outside!Put(t)
    BY <2>1, <2>2, <2>3, <2>4 DEF Outside!Put, Outside!Idle, Outside!Return
  <2>. QED  BY <2>5 DEF Outside!Next
<1>6. CASE Trim(t)
  <2>1. at[t].pc = "holding" /\ at[t].fn = "produce"
    BY <1>6 DEF Trim
  <2>2. queue[l] # <<>>
    BY <1>1, <1>2, <2>1 DEF TestStillHolds, MustWait, num_nodes
  <2>3. queue'[l] = Tail(queue[l])
    BY <1>1, <1>2, <1>6, <2>2 DEF Trim
  <2>4. PICK text \in Reads[Head(queue[l])] : ReturnAndSignal(t, text)
    BY <1>1, <1>6, <2>2 DEF Trim
  <2>5. text \in Message
    BY <1>2, <2>2, MailboxAssumption
  <2>6. caller' = [caller EXCEPT ![t].pending = FALSE, ![t].msg = text]
    BY <2>1, <2>4, <2>5, SignalIsReturn
  <2>7. Outside!Get(t)
    BY <2>1, <2>2, <2>3, <2>4, <2>6 DEF Outside!Get, Outside!Idle, Outside!Return
  <2>. QED  BY <2>7 DEF Outside!Next
<1>. QED  BY <1>3, <1>4, <1>5, <1>6 DEF MonitorStep, CallStep, Outside!Next

\* One mailbox with a list of its own implements a blocking queue, for any
\* number of writers and readers: waiting, being woken up and taking the lock
\* are invisible, and each call takes effect in one step (UDPthreads.c:16-57).
THEOREM MailboxIsBlockingQueue ==
  ASSUME OneMailbox, EnoughNodes
  PROVE  Spec => IsBlockingQueue
<1>1. Init => Outside!Init
  <2>1. ASSUME Init PROVE queue[ListOf[TheBox]] = <<>>
    <3>1. ListOf[TheBox] \in List
      BY MailboxAssumption DEF OneMailbox, TheBox
    <3>. QED  BY <2>1, <3>1 DEF Init, MailboxInit
  <2>2. ASSUME Init, NEW t \in Thread PROVE at[t].pc = "out"
    BY <2>2 DEF Init
  <2>. QED  BY <2>1, <2>2 DEF Outside!Init, Outside!Idle
<1>2. MailboxTypeOK /\ TestStillHolds /\ [Next]_vars
        => [Outside!Next]_(Outside!vars)
  <2>1. ASSUME UNCHANGED mboxVars, NeverTrimCrashes' = NeverTrimCrashes
        PROVE  UNCHANGED Outside!vars
    BY <2>1 DEF mboxVars, Outside!vars
  <2>3. ASSUME UNCHANGED mboxVars, program' = "trimCrashed"
        PROVE  Outside!Abandon
    BY <2>3 DEF mboxVars, NeverTrimCrashes, Outside!Abandon
  <2>4. ASSUME program = "running", program' # "trimCrashed"
        PROVE  NeverTrimCrashes' = NeverTrimCrashes
    BY <2>4 DEF NeverTrimCrashes
  <2>5. Outside!Abandon => Outside!Next
    BY DEF Outside!Next
  <2>2. ASSUME MailboxTypeOK, TestStillHolds, Next
        PROVE  [Outside!Next]_(Outside!vars)
    BY <2>1, <2>2, <2>3, <2>4, <2>5, NextIsMonitorStep, MonitorStepMaps
  <2>. QED  BY <2>1, <2>2 DEF vars, NeverTrimCrashes
<1>3. OwnLists
  BY DEF OneMailbox, OwnLists
<1>4. Spec => []TestStillHolds
  BY <1>3, TestsHold
<1>. QED
  BY <1>1, <1>2, <1>4, TypeCorrect, PTL DEF Spec, IsBlockingQueue, Outside!Spec
-----------------------------------------------------------------------------
(* How many calls the crash in List_trim takes.                            *)

\* The calls begun by the threads of S, and the threads of S that are in one.
Begun(S) == UNION {{t} \X (left[t] + 1 .. NumTimes) : t \in S}
Busy(S)  == {t \in S : at[t].pc # "out"}

\* How many calls of List_trim the damage to a list has taken.
Damage(kind) == CASE kind = "cut" -> 1 [] kind = "lost" -> 2 [] OTHER -> 0

Reader == Thread \ Writer

\* Messages in a list were put in by calls that have ended, and damage to it
\* was done by calls that have ended; three messages were in it before.
Backlog ==
  /\ left \in [Thread -> 0 .. NumTimes]
  /\ \A t \in Thread : at[t].fn = IF t \in Writer THEN "consume" ELSE "produce"
  /\ \A l \in List : Len(queue[l]) + Cardinality(Busy(Writer)) <= CallsOf(Writer)
  /\ \A l \in List :
       Damage(links[l]) + Cardinality(Busy(Reader)) <= CallsOf(Reader)
  /\ \A l \in List : links[l] \in {"cut", "lost"} => CallsOf(Writer) >= 3
  /\ links \in [List -> {"sound"}] \/ links \in [List -> {"whole", "cut", "lost"}]

LEMMA BegunIs ==
  ASSUME NEW S, NEW x
  PROVE  x \in Begun(S) <=>
           \E t \in S : \E i \in left[t] + 1 .. NumTimes : x = <<t, i>>
BY DEF Begun

LEMMA BegunNextIs ==
  ASSUME NEW S, NEW x
  PROVE  x \in Begun(S)' <=>
           \E t \in S : \E i \in left'[t] + 1 .. NumTimes : x = <<t, i>>
BY DEF Begun

LEMMA CallsAreNumbers ==
  ASSUME left \in [Thread -> 0 .. NumTimes], NEW S \in SUBSET Thread
  PROVE  /\ IsFiniteSet(Begun(S)) /\ CallsOf(S) = Cardinality(Begun(S))
         /\ CallsOf(S) \in Nat
<1>1. NumTimes \in Nat
  BY ClientsAssumption
<1>2. IsFiniteSet(Thread \X (1 .. NumTimes))
  <2>1. IsFiniteSet(Thread) /\ IsFiniteSet(1 .. NumTimes)
    BY <1>1, MailboxAssumption, FS_Interval
  <2>. QED  BY <2>1, FS_Product
<1>3. Begun(S) \in SUBSET (Thread \X (1 .. NumTimes))
  <2>. SUFFICES ASSUME NEW x \in Begun(S) PROVE x \in Thread \X (1 .. NumTimes)
    OBVIOUS
  <2>1. PICK t \in S : \E i \in left[t] + 1 .. NumTimes : x = <<t, i>>
    BY BegunIs
  <2>2. PICK i \in left[t] + 1 .. NumTimes : x = <<t, i>>
    BY <2>1
  <2>3. left[t] \in 0 .. NumTimes /\ t \in Thread
    OBVIOUS
  <2>. QED  BY <1>1, <2>2, <2>3
<1>4. IsFiniteSet(Begun(S))
  BY <1>2, <1>3, FS_Subset
<1>5. CallsOf(S) = Cardinality(Begun(S))
  BY DEF CallsOf, Begun
<1>. QED  BY <1>4, <1>5, FS_CardinalityType

\* Whoever begins a call is counted once.
LEMMA CallsCounted ==
  ASSUME left \in [Thread -> 0 .. NumTimes], NEW t \in Thread, CountDown(t),
         NEW S \in SUBSET Thread
  PROVE  /\ left' \in [Thread -> 0 .. NumTimes]
         /\ CallsOf(S)' = IF t \in S THEN CallsOf(S) + 1 ELSE CallsOf(S)
<1>1. /\ NumTimes \in Nat /\ left[t] \in 1 .. NumTimes
      /\ left' = [left EXCEPT ![t] = left[t] - 1]
  BY ClientsAssumption DEF CountDown
<1>2. left' \in [Thread -> 0 .. NumTimes]
  BY <1>1
<1>3. PICK new : new = <<t, left[t]>>
  OBVIOUS
<1>4. ASSUME NEW x
      PROVE  x \in Begun(S)' <=> x \in Begun(S) \/ (t \in S /\ x = new)
  <2>1. ASSUME NEW u \in S, NEW i \in left'[u] + 1 .. NumTimes, x = <<u, i>>
        PROVE  x \in Begun(S) \/ (t \in S /\ x = new)
    <3>1. CASE i \in left[u] + 1 .. NumTimes
      BY <2>1, <3>1, BegunIs
    <3>2. CASE i \notin left[u] + 1 .. NumTimes
      <4>1. u = t /\ i = left[t]
        BY <1>1, <2>1, <3>2
      <4>. QED  BY <1>3, <2>1, <4>1
    <3>. QED  BY <3>1, <3>2
  <2>2. ASSUME NEW u \in S, NEW i \in left[u] + 1 .. NumTimes, x = <<u, i>>
        PROVE  x \in Begun(S)'
    <3>1. i \in left'[u] + 1 .. NumTimes
      <4>1. left[u] \in 0 .. NumTimes /\ left'[u] \in 0 .. NumTimes /\ left'[u] <= left[u]
        BY <1>1, <1>2
      <4>. QED  BY <1>1, <4>1
    <3>. QED  BY <2>2, <3>1, BegunNextIs
  <2>3. ASSUME t \in S, x = new PROVE x \in Begun(S)'
    <3>1. left[t] \in left'[t] + 1 .. NumTimes
      BY <1>1
    <3>. QED  BY <1>3, <2>3, <3>1, BegunNextIs
  <2>4. x \in Begun(S) => \E u \in S : \E i \in left[u] + 1 .. NumTimes : x = <<u, i>>
    BY BegunIs
  <2>5. x \in Begun(S)' => \E u \in S : \E i \in left'[u] + 1 .. NumTimes : x = <<u, i>>
    BY BegunNextIs
  <2>. QED  BY <2>1, <2>2, <2>3, <2>4, <2>5
<1>5. new \notin Begun(S)
  <2>1. ~ \E u \in S : \E i \in left[u] + 1 .. NumTimes : new = <<u, i>>
    BY <1>1, <1>3
  <2>. QED  BY <2>1, BegunIs
<1>6. /\ IsFiniteSet(Begun(S)) /\ CallsOf(S) = Cardinality(Begun(S))
      /\ CallsOf(S)' = Cardinality(Begun(S)')
  BY CallsAreNumbers DEF CallsOf, Begun
<1>7. CASE t \in S
  <2>1. Begun(S)' = Begun(S) \union {new}
    BY <1>4, <1>7
  <2>2. Cardinality(Begun(S) \union {new}) = Cardinality(Begun(S)) + 1
    BY <1>5, <1>6, FS_AddElement
  <2>. QED  BY <1>2, <1>6, <1>7, <2>1, <2>2
<1>8. CASE t \notin S
  <2>1. Begun(S)' = Begun(S)
    BY <1>4, <1>8
  <2>. QED  BY <1>2, <1>6, <1>8, <2>1
<1>. QED  BY <1>7, <1>8

LEMMA BusyIsFinite ==
  ASSUME NEW S \in SUBSET Thread
  PROVE  IsFiniteSet(Busy(S)) /\ Cardinality(Busy(S)) \in Nat
<1>1. Busy(S) \in SUBSET Thread
  BY DEF Busy
<1>2. IsFiniteSet(Busy(S))
  BY <1>1, MailboxAssumption, FS_Subset
<1>. QED  BY <1>2, FS_CardinalityType

\* A step of one thread that leaves the others in their calls or out of them.
LEMMA BusyStep ==
  ASSUME NEW S \in SUBSET Thread, NEW t \in Thread,
         \A u \in Thread \ {t} : at'[u].pc = "out" <=> at[u].pc = "out"
  PROVE  Cardinality(Busy(S)') =
           Cardinality(Busy(S))
             + (IF t \in S /\ at'[t].pc # "out" THEN 1 ELSE 0)
             - (IF t \in S /\ at[t].pc # "out" THEN 1 ELSE 0)
<1>. PICK now : now = Busy(S)
  OBVIOUS
<1>. PICK then : then = Busy(S)'
  OBVIOUS
<1>1. /\ \A u : u \in now <=> u \in S /\ at[u].pc # "out"
      /\ \A u : u \in then <=> u \in S /\ at'[u].pc # "out"
  BY DEF Busy
<1>2. IsFiniteSet(now) /\ Cardinality(now) \in Nat
  BY BusyIsFinite
<1>6. Cardinality(Busy(S)) = Cardinality(now) /\ Cardinality(Busy(S)') = Cardinality(then)
  OBVIOUS
<1>3. CASE t \in S /\ at'[t].pc # "out" /\ at[t].pc = "out"
  <2>1. then = now \union {t} /\ t \notin now
    BY <1>1, <1>3
  <2>2. Cardinality(then) = Cardinality(now) + 1
    BY <1>2, <2>1, FS_AddElement
  <2>. QED  BY <1>2, <1>3, <1>6, <2>2
<1>4. CASE t \in S /\ at'[t].pc = "out" /\ at[t].pc # "out"
  <2>1. then = now \ {t} /\ t \in now
    BY <1>1, <1>4
  <2>2. Cardinality(now \ {t}) = Cardinality(now) - 1
    BY <1>2, <2>1, FS_RemoveElement
  <2>. QED  BY <1>2, <1>4, <1>6, <2>1, <2>2
<1>5. CASE t \notin S \/ (at'[t].pc = "out" <=> at[t].pc = "out")
  <2>1. then = now
    BY <1>1, <1>5
  <2>. QED  BY <1>2, <1>5, <1>6, <2>1
<1>. QED  BY <1>3, <1>4, <1>5

LEMMA BacklogStarts == Init => Backlog
<1>. SUFFICES ASSUME Init PROVE Backlog
  OBVIOUS
<1>1. left = [t \in Thread |-> NumTimes] /\ NumTimes \in Nat
  BY ClientsAssumption DEF Init
<1>2. ASSUME NEW S \in SUBSET Thread
      PROVE  Cardinality(Busy(S)) = 0 /\ CallsOf(S) \in Nat
  <2>1. Busy(S) = {}
    BY DEF Init, Busy
  <2>. QED  BY <1>1, <2>1, CallsAreNumbers, FS_EmptySet
<1>3. Writer \in SUBSET Thread /\ Reader \in SUBSET Thread
  BY ClientsAssumption DEF Reader
<1>4. /\ \A l \in List : queue[l] = <<>> /\ links[l] \in {"whole", "sound"}
      /\ links \in [List -> {"sound"}] \/ links \in [List -> {"whole"}]
  BY DEF Init, MailboxInit, NewLinks
<1>5. \A l \in List : Damage(links[l]) = 0 /\ Len(queue[l]) = 0
  BY <1>4 DEF Damage
<1>6. \A t \in Thread : at[t].fn = IF t \in Writer THEN "consume" ELSE "produce"
  BY DEF Init
<1>7. /\ Cardinality(Busy(Writer)) = 0 /\ CallsOf(Writer) \in Nat
      /\ Cardinality(Busy(Reader)) = 0 /\ CallsOf(Reader) \in Nat
  BY <1>2, <1>3
<1>8. links \in [List -> {"sound"}] \/ links \in [List -> {"whole", "cut", "lost"}]
  BY <1>4
<1>9. \A l \in List : Len(queue[l]) + Cardinality(Busy(Writer)) <= CallsOf(Writer)
  BY <1>5, <1>7
<1>10. \A l \in List : Damage(links[l]) + Cardinality(Busy(Reader)) <= CallsOf(Reader)
  BY <1>5, <1>7
<1>. QED  BY <1>1, <1>4, <1>6, <1>8, <1>9, <1>10 DEF Backlog

\* The numbers that Backlog compares.
LEMMA BacklogNumbers ==
  ASSUME MailboxTypeOK, Backlog
  PROVE  /\ CallsOf(Writer) \in Nat /\ CallsOf(Reader) \in Nat
         /\ Cardinality(Busy(Writer)) \in Nat /\ Cardinality(Busy(Reader)) \in Nat
         /\ \A l \in List : Len(queue[l]) \in Nat
         /\ Writer \in SUBSET Thread /\ Reader \in SUBSET Thread
<1>1. Writer \in SUBSET Thread /\ Reader \in SUBSET Thread
  BY ClientsAssumption DEF Reader
<1>2. \A l \in List : Len(queue[l]) \in Nat
  BY DEF MailboxTypeOK
<1>. QED  BY <1>1, <1>2, CallsAreNumbers, BusyIsFinite DEF Backlog

\* A thread begins a call.
LEMMA BacklogEntered ==
  ASSUME MailboxTypeOK, Backlog, NEW t \in Thread, testConsume(t) \/ testProduce(t)
  PROVE  Backlog'
<1>. DEFINE more(S) == IF t \in S THEN 1 ELSE 0
<1>1. /\ CallsOf(Writer) \in Nat /\ CallsOf(Reader) \in Nat
      /\ Cardinality(Busy(Writer)) \in Nat /\ Cardinality(Busy(Reader)) \in Nat
      /\ \A l \in List : Len(queue[l]) \in Nat
      /\ Writer \in SUBSET Thread /\ Reader \in SUBSET Thread
  BY BacklogNumbers
<1>2. /\ CountDown(t) /\ UNCHANGED <<queue, links>> /\ at[t].pc = "out"
      /\ \E msg : \E fn \in Fn :
           /\ at' = [at EXCEPT ![t] = [pc |-> "lock", fn |-> fn, box |-> BoxOf[t],
                                       msg |-> msg]]
           /\ fn = IF t \in Writer THEN "consume" ELSE "produce"
  BY DEF testConsume, testProduce, Enter, Fn
<1>3. /\ at'[t].pc # "out" /\ at'[t].fn = IF t \in Writer THEN "consume" ELSE "produce"
      /\ \A u \in Thread \ {t} : at'[u] = at[u]
  BY <1>2 DEF MailboxTypeOK
<1>4. left' \in [Thread -> 0 .. NumTimes]
  BY <1>2, CallsCounted DEF Backlog
<1>5. ASSUME NEW S \in SUBSET Thread
      PROVE  /\ CallsOf(S)' = IF t \in S THEN CallsOf(S) + 1 ELSE CallsOf(S)
             /\ Cardinality(Busy(S)') = Cardinality(Busy(S)) + more(S) - 0
  <2>1. CallsOf(S)' = IF t \in S THEN CallsOf(S) + 1 ELSE CallsOf(S)
    BY <1>2, CallsCounted DEF Backlog
  <2>2. \A u \in Thread \ {t} : at'[u].pc = "out" <=> at[u].pc = "out"
    BY <1>3
  <2>3. Cardinality(Busy(S)') =
           Cardinality(Busy(S))
             + (IF t \in S /\ at'[t].pc # "out" THEN 1 ELSE 0)
             - (IF t \in S /\ at[t].pc # "out" THEN 1 ELSE 0)
    BY <2>2, BusyStep
  <2>. QED  BY <1>2, <1>3, <2>1, <2>3
<1>6. /\ CallsOf(Writer)' = CallsOf(Writer) + more(Writer)
      /\ CallsOf(Reader)' = CallsOf(Reader) + more(Reader)
      /\ Cardinality(Busy(Writer)') = Cardinality(Busy(Writer)) + more(Writer)
      /\ Cardinality(Busy(Reader)') = Cardinality(Busy(Reader)) + more(Reader)
  BY <1>1, <1>5
<1>7. (\A u \in Thread : at[u].fn = IF u \in Writer THEN "consume" ELSE "produce")'
  BY <1>3 DEF Backlog
<1>8. ASSUME NEW l \in List
      PROVE  /\ (Len(queue[l]) + Cardinality(Busy(Writer)) <= CallsOf(Writer))'
             /\ (Damage(links[l]) + Cardinality(Busy(Reader)) <= CallsOf(Reader))'
             /\ (links[l] \in {"cut", "lost"} => CallsOf(Writer) >= 3)'
  <2>1. Damage(links[l]) \in Nat /\ queue'[l] = queue[l] /\ links'[l] = links[l]
    BY <1>2 DEF Damage
  <2>2. /\ Len(queue[l]) + Cardinality(Busy(Writer)) <= CallsOf(Writer)
        /\ Damage(links[l]) + Cardinality(Busy(Reader)) <= CallsOf(Reader)
        /\ links[l] \in {"cut", "lost"} => CallsOf(Writer) >= 3
    BY DEF Backlog
  <2>. QED  BY <1>1, <1>6, <2>1, <2>2
<1>9. (links \in [List -> {"sound"}] \/ links \in [List -> {"whole", "cut", "lost"}])'
  BY <1>2 DEF Backlog
<1>. QED  BY <1>4, <1>7, <1>8, <1>9 DEF Backlog

\* A call goes on or ends.
LEMMA BacklogInCall ==
  ASSUME MailboxTypeOK, Backlog, NEW t \in Thread, CallStep(t) \/ SpuriousWake(t),
         UNCHANGED left
  PROVE  Backlog'
<1>. DEFINE l == ListOf[at[t].box]
<1>1. /\ CallsOf(Writer) \in Nat /\ CallsOf(Reader) \in Nat
      /\ Cardinality(Busy(Writer)) \in Nat /\ Cardinality(Busy(Reader)) \in Nat
      /\ \A k \in List : Len(queue[k]) \in Nat
      /\ Writer \in SUBSET Thread /\ Reader \in SUBSET Thread
  BY BacklogNumbers
<1>2. CallsOf(Writer)' = CallsOf(Writer) /\ CallsOf(Reader)' = CallsOf(Reader)
  BY DEF CallsOf
<1>3. /\ queue \in [List -> Seq(Message)] /\ at \in [Thread -> Call] /\ l \in List
      /\ links \in [List -> LinkStates]
  BY MailboxAssumption DEF MailboxTypeOK, Call
<1>4. /\ \A k \in List : /\ Len(queue[k]) + Cardinality(Busy(Writer)) <= CallsOf(Writer)
                         /\ Damage(links[k]) + Cardinality(Busy(Reader)) <= CallsOf(Reader)
                         /\ links[k] \in {"cut", "lost"} => CallsOf(Writer) >= 3
                         /\ Damage(links[k]) \in Nat
  BY DEF Backlog, Damage
<1>5. CASE LockAndPass(t) \/ LockAndWait(t) \/ SpuriousWake(t)
  <2>1. /\ UNCHANGED <<queue, links>> /\ at[t].pc # "out" /\ at'[t].pc # "out"
        /\ \A u \in Thread : at'[u].fn = at[u].fn
        /\ \A u \in Thread \ {t} : at'[u].pc = at[u].pc
    <3>1. PICK p \in {"lock", "waiting", "holding"} : at' = [at EXCEPT ![t].pc = p]
      BY <1>5 DEF LockAndPass, LockAndWait, SpuriousWake
    <3>2. at[t].pc # "out" /\ UNCHANGED <<queue, links>>
      BY <1>5 DEF LockAndPass, LockAndWait, SpuriousWake
    <3>. QED  BY <1>3, <3>1, <3>2 DEF Call
  <2>2. Busy(Writer)' = Busy(Writer) /\ Busy(Reader)' = Busy(Reader)
    BY <1>1, <2>1 DEF Busy
  <2>. QED  BY <1>2, <2>1, <2>2 DEF Backlog
<1>6. ASSUME Prepend(t) \/ Trim(t)
      PROVE  /\ \A u \in Thread : at'[u].fn = at[u].fn
             /\ Cardinality(Busy(Writer)')
                  = Cardinality(Busy(Writer)) - (IF t \in Writer THEN 1 ELSE 0)
             /\ Cardinality(Busy(Reader)')
                  = Cardinality(Busy(Reader)) - (IF t \in Reader THEN 1 ELSE 0)
  <2>1. /\ at[t].pc = "holding" /\ at'[t].pc = "out"
        /\ \A u \in Thread : SameCall(u)
        /\ \A u \in Thread \ {t} :
             at'[u].pc = at[u].pc \/ (at[u].pc = "waiting" /\ at'[u].pc = "lock")
    BY <1>6, ReleaseStep
  <2>2. ASSUME NEW S \in SUBSET Thread
        PROVE  Cardinality(Busy(S)') =
                 Cardinality(Busy(S)) - (IF t \in S THEN 1 ELSE 0)
    <3>1. \A u \in Thread \ {t} : at'[u].pc = "out" <=> at[u].pc = "out"
      BY <2>1
    <3>2. Cardinality(Busy(S)') =
             Cardinality(Busy(S))
               + (IF t \in S /\ at'[t].pc # "out" THEN 1 ELSE 0)
               - (IF t \in S /\ at[t].pc # "out" THEN 1 ELSE 0)
      BY <3>1, BusyStep
    <3>. QED  BY <2>1, <3>2, BusyIsFinite
  <2>. QED  BY <1>1, <2>1, <2>2 DEF SameCall
<1>7. CASE Prepend(t)
  <2>1. t \in Writer /\ t \notin Reader /\ links' = links
    BY <1>7 DEF Prepend, Backlog, Reader
  <2>2. /\ Cardinality(Busy(Writer)') = Cardinality(Busy(Writer)) - 1
        /\ Cardinality(Busy(Reader)') = Cardinality(Busy(Reader))
    BY <1>1, <1>6, <1>7, <2>1
  <2>3. ASSUME NEW k \in List
        PROVE  Len(queue'[k]) \in Nat /\ Len(queue'[k]) <= Len(queue[k]) + 1
    <3>1. \/ queue'[k] = queue[k]
          \/ queue'[k] = Append(queue[k], at[t].msg)
      BY <1>3, <1>7 DEF Prepend
    <3>2. queue[k] \in Seq(Message) /\ at[t].msg \in Message
      BY <1>3 DEF Call
    <3>. QED  BY <3>1, <3>2
  <2>4. ASSUME NEW k \in List
        PROVE  /\ (Len(queue[k]) + Cardinality(Busy(Writer)) <= CallsOf(Writer))'
               /\ (Damage(links[k]) + Cardinality(Busy(Reader)) <= CallsOf(Reader))'
               /\ (links[k] \in {"cut", "lost"} => CallsOf(Writer) >= 3)'
    BY <1>1, <1>2, <1>4, <2>1, <2>2, <2>3
  <2>. QED  BY <1>6, <1>7, <2>1, <2>4 DEF Backlog
<1>8. CASE Trim(t)
  <2>1. t \in Reader /\ t \notin Writer
    BY <1>8 DEF Trim, Backlog, Reader
  <2>2. /\ Cardinality(Busy(Writer)') = Cardinality(Busy(Writer))
        /\ Cardinality(Busy(Reader)') = Cardinality(Busy(Reader)) - 1
    BY <1>1, <1>6, <1>8, <2>1
  <2>3. \/ UNCHANGED <<queue, links>>
        \/ /\ queue[l] # <<>> /\ queue' = [queue EXCEPT ![l] = Tail(queue[l])]
           /\ links' = [links EXCEPT ![l] = Trimmed(links[l], queue[l])]
    BY <1>8 DEF Trim
  <2>4. ASSUME NEW k \in List
        PROVE  /\ Len(queue'[k]) \in Nat /\ Len(queue'[k]) <= Len(queue[k])
               /\ \/ links'[k] = links[k]
                  \/ links'[k] = Trimmed(links[k], queue[k])
    <3>1. \A s \in Seq(Message) :
            /\ Len(s) \in Nat
            /\ s # <<>> => Len(Tail(s)) \in Nat /\ Len(Tail(s)) <= Len(s)
      OBVIOUS
    <3>2. \/ queue'[k] = queue[k] /\ links'[k] = links[k]
          \/ /\ queue[k] # <<>> /\ queue'[k] = Tail(queue[k])
             /\ links'[k] = Trimmed(links[k], queue[k])
      BY <1>3, <2>3
    <3>3. queue[k] \in Seq(Message)
      BY <1>3
    <3>4. Len(queue'[k]) \in Nat /\ Len(queue'[k]) <= Len(queue[k])
      <4>1. CASE queue'[k] = queue[k]
        BY <3>1, <3>3, <4>1
      <4>2. CASE queue[k] # <<>> /\ queue'[k] = Tail(queue[k])
        BY <3>1, <3>3, <4>2
      <4>. QED  BY <3>2, <4>1, <4>2
    <3>. QED  BY <3>2, <3>4
  <2>5. ASSUME NEW k \in List
        PROVE  /\ Damage(links'[k]) <= Damage(links[k]) + 1
               /\ Damage(links'[k]) \in Nat
               /\ links'[k] \in {"cut", "lost"} =>
                    links[k] \in {"cut", "lost"} \/ Len(queue[k]) >= 3
               /\ links[k] = "sound" => links'[k] = "sound"
               /\ links[k] \in {"whole", "cut", "lost"} =>
                    links'[k] \in {"whole", "cut", "lost"}
    BY <2>4 DEF Damage, Trimmed
  <2>6. ASSUME NEW k \in List
        PROVE  /\ (Len(queue[k]) + Cardinality(Busy(Writer)) <= CallsOf(Writer))'
               /\ (Damage(links[k]) + Cardinality(Busy(Reader)) <= CallsOf(Reader))'
               /\ (links[k] \in {"cut", "lost"} => CallsOf(Writer) >= 3)'
    BY <1>1, <1>2, <1>4, <2>2, <2>4, <2>5
  <2>7. (links \in [List -> {"sound"}] \/ links \in [List -> {"whole", "cut", "lost"}])'
    <3>1. DOMAIN links' = List /\ links' = [k \in List |-> links'[k]]
      BY <1>3, <2>3
    <3>. QED  BY <2>5, <3>1 DEF Backlog
  <2>. QED  BY <1>6, <1>8, <2>6, <2>7 DEF Backlog
<1>. QED  BY <1>5, <1>7, <1>8 DEF CallStep

\* A thread that uses the null pointer is in its third call, at least.
LEMMA FaultTakesThree ==
  ASSUME MailboxTypeOK, Backlog, NEW t \in Thread, FaultingTrim(t)
  PROVE  /\ \A u \in Thread : links[ListOf[BoxOf[u]]] # "sound"
         /\ CallsOf(Writer) >= 3 /\ CallsOf(Thread \ Writer) >= 3
<1>. DEFINE l == ListOf[at[t].box]
<1>1. /\ l \in List /\ links[l] = "lost" /\ at[t].fn = "produce" /\ at[t].pc = "holding"
      /\ \A u \in Thread : ListOf[BoxOf[u]] \in List
  BY MailboxAssumption, ClientsAssumption DEF FaultingTrim, MailboxTypeOK, Call
<1>2. links \in [List -> {"whole", "cut", "lost"}]
  BY <1>1 DEF Backlog
<1>3. t \in Reader
  BY <1>1 DEF Backlog, Reader
<1>4. Cardinality(Busy(Reader)) >= 1
  <2>1. t \in Busy(Reader)
    BY <1>1, <1>3 DEF Busy
  <2>2. IsFiniteSet(Busy(Reader)) /\ Cardinality(Busy(Reader)) \in Nat
    BY BacklogNumbers, BusyIsFinite
  <2>. QED  BY <2>1, <2>2, FS_EmptySet
<1>5. Damage(links[l]) = 2
  BY <1>1 DEF Damage
<1>6. /\ Damage(links[l]) + Cardinality(Busy(Reader)) <= CallsOf(Reader)
      /\ CallsOf(Writer) >= 3
  BY <1>1 DEF Backlog
<1>. QED  BY <1>1, <1>2, <1>4, <1>5, <1>6, BacklogNumbers DEF Reader

\* With the newer library List_trim uses a null pointer only after three calls
\* of consume() and in the third of produce(), whoever makes them, over however
\* many mailboxes; the older library never does (list.c:375-377,
\* dump/list.c:396-398, dump/listMonitorTest.c:9).
THEOREM ThreeCallsToCrash == Spec => []CrashTakesThree
<1>. DEFINE Inv == program = "running" => Backlog
<1>1. Init => Inv /\ CrashTakesThree
  BY BacklogStarts DEF Init, CrashTakesThree
<1>2. MailboxTypeOK /\ Inv /\ CrashTakesThree /\ [Next]_vars
        => Inv' /\ CrashTakesThree'
  <2>1. CASE UNCHANGED vars
    BY <2>1 DEF vars, mboxVars, Backlog, Busy, CallsOf, CrashTakesThree
  <2>2. ASSUME MailboxTypeOK, Inv, Next PROVE Inv' /\ CrashTakesThree'
    <3>1. program = "running" /\ Backlog
      BY <2>2, NextIsMonitorStep
    <3>2. CASE main
      BY <3>2 DEF main, destroyMsgListPtr, CrashTakesThree
    <3>3. ASSUME NEW t \in Thread, testConsume(t) \/ testProduce(t)
          PROVE  Backlog' /\ program' = "running"
      BY <2>2, <3>1, <3>3, BacklogEntered DEF testConsume, testProduce
    <3>4. ASSUME NEW t \in Thread, CallStep(t) \/ SpuriousWake(t),
                 UNCHANGED <<left, program>>
          PROVE  Backlog' /\ program' = "running"
      BY <2>2, <3>1, <3>4, BacklogInCall
    <3>5. ASSUME NEW t \in Thread, Crash(t)
          PROVE  program' # "running" /\ CrashTakesThree'
      <4>1. FaultingTrim(t) /\ UNCHANGED <<links, left>> /\ program' = "trimCrashed"
        BY <3>5 DEF Crash, mboxVars
      <4>2. /\ \A u \in Thread : links[ListOf[BoxOf[u]]] # "sound"
            /\ CallsOf(Writer) >= 3 /\ CallsOf(Thread \ Writer) >= 3
        BY <2>2, <3>1, <4>1, FaultTakesThree
      <4>. QED  BY <4>1, <4>2 DEF CrashTakesThree, CallsOf
    <3>. QED  BY <2>2, <3>2, <3>3, <3>4, <3>5 DEF Next, Run, Wakeup, CrashTakesThree
  <2>. QED  BY <2>1, <2>2
<1>. QED  BY <1>1, <1>2, TypeCorrect, PTL DEF Spec
=============================================================================
