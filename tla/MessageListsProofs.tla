------------------------- MODULE MessageListsProofs -------------------------
(***************************************************************************)
(* What the steps of consume() and produce() preserve, for any number of   *)
(* threads and mailboxes, whichever lists the mailboxes point to.          *)
(*                                                                         *)
(* The lemmas speak of steps, so that they hold for whatever program makes *)
(* the calls: MailboxClients and STalk cite them for their own steps.      *)
(***************************************************************************)
EXTENDS MessageLists, FiniteSetTheorems, TLAPS

\* What a step does to the monitor: a thread enters a call, goes on in it or
\* is woken up.
MonitorStep(t) ==
  \/ \E fn \in Fn, m \in Mailbox, msg \in Message :
       Enter(t, fn, m, msg) /\ UNCHANGED <<queue, links, access>>
  \/ CallStep(t)
  \/ SpuriousWake(t)

\* A step leaves the function and the mailbox of u's call as they were.
SameCall(u) == at'[u].fn = at[u].fn /\ at'[u].box = at[u].box

\* The returning thread and the woken one are the only ones that move, and
\* the woken one was blocked.
LEMMA SignalMoves ==
  ASSUME MailboxTypeOK, NEW t \in Thread, NEW msg \in Message,
         at[t].pc = "holding", ReturnAndSignal(t, msg)
  PROVE  /\ at' \in [Thread -> Call]
         /\ at'[t].pc = "out" /\ at'[t].msg = msg
         /\ \A u \in Thread \ {t} : at'[u].msg = at[u].msg
         /\ \A u \in Thread : SameCall(u)
         /\ \A u \in Thread \ {t} :
              at'[u].pc = at[u].pc \/ (at[u].pc = "waiting" /\ at'[u].pc = "lock")
<1>. DEFINE woken == Waiters(at[t].box, Other(at[t].fn))
<1>. at \in [Thread -> Call]
  BY DEF MailboxTypeOK
<1>1. CASE woken = {}
  <2>1. at' = [at EXCEPT ![t].pc = "out", ![t].msg = msg]
    BY <1>1 DEF ReturnAndSignal
  <2>. QED  BY <2>1 DEF Call, SameCall
<1>2. CASE woken # {}
  <2>1. PICK w \in woken :
          at' = [at EXCEPT ![t].pc = "out", ![t].msg = msg, ![w].pc = "lock"]
    BY <1>2 DEF ReturnAndSignal
  <2>2. w \in Thread /\ w # t /\ at[w].pc = "waiting"
    BY <2>1 DEF Waiters
  <2>. QED  BY <2>1, <2>2 DEF Call, SameCall
<1>. QED  BY <1>1, <1>2

-----------------------------------------------------------------------------
\* What the two list operations do to the calls and the mutex of t's mailbox,
\* whatever they do to the list: t returns and the mutex is free.
LEMMA ReleaseStep ==
  ASSUME MailboxTypeOK, NEW t \in Thread, Prepend(t) \/ Trim(t)
  PROVE  /\ at' \in [Thread -> Call]
         /\ at[t].pc = "holding" /\ at'[t].pc = "out"
         /\ access' = [access EXCEPT ![at[t].box] = NoThread]
         /\ \A u \in Thread : SameCall(u)
         /\ \A u \in Thread \ {t} :
              at'[u].pc = at[u].pc \/ (at[u].pc = "waiting" /\ at'[u].pc = "lock")
<1>. USE MailboxAssumption DEF MailboxTypeOK
<1>1. CASE Prepend(t)
  <2>1. at[t].pc = "holding" /\ at[t].msg \in Message
        /\ ReturnAndSignal(t, at[t].msg)
    BY <1>1 DEF Prepend, Call
  <2>. QED  BY <1>1, <2>1, SignalMoves DEF Prepend
<1>2. CASE Trim(t)
  <2>1. at[t].pc = "holding" /\ at[t].msg \in Message /\ at[t].box \in Mailbox
    BY <1>2 DEF Trim, Call
  <2>. DEFINE l == ListOf[at[t].box]
  <2>2. queue[l] \in Seq(Message)
    BY <2>1
  <2>3. PICK text \in Message : ReturnAndSignal(t, text)
    <3>1. CASE queue[l] # <<>>
      <4>1. PICK text \in Reads[Head(queue[l])] : ReturnAndSignal(t, text)
        BY <1>2, <3>1 DEF Trim
      <4>2. text \in Message
        BY <2>2, <3>1
      <4>. QED  BY <4>1, <4>2
    <3>2. CASE queue[l] = <<>>
      BY <1>2, <2>1, <3>2 DEF Trim
    <3>. QED  BY <3>1, <3>2
  <2>. QED  BY <1>2, <2>1, <2>3, SignalMoves DEF Trim
<1>. QED  BY <1>1, <1>2

\* Every monitor step keeps the types of the lists, mutexes and calls: what is
\* put in a list or read out of it is a message, and a call keeps its function
\* and mailbox from its entry to its return (UDPthreads.c:16-57).
LEMMA TypeStep ==
  ASSUME MailboxTypeOK, NEW t \in Thread, MonitorStep(t)
  PROVE  MailboxTypeOK'
<1>. USE MailboxAssumption DEF MailboxTypeOK
<1>1. ASSUME NEW fn \in Fn, NEW m \in Mailbox, NEW msg \in Message,
             Enter(t, fn, m, msg), UNCHANGED <<queue, links, access>>
      PROVE  MailboxTypeOK'
  BY <1>1 DEF Enter, Call
<1>2. CASE LockAndPass(t)
  BY <1>2 DEF LockAndPass, Call
<1>3. CASE LockAndWait(t)
  BY <1>3 DEF LockAndWait, Call
<1>4. CASE SpuriousWake(t)
  BY <1>4 DEF SpuriousWake, Call
<1>5. CASE Prepend(t)
  <2>1. at[t].msg \in Message /\ ListOf[at[t].box] \in List
    BY DEF Call
  <2>2. queue' \in [List -> Seq(Message)] /\ links' = links
    BY <1>5, <2>1 DEF Prepend
  <2>. QED  BY <1>5, <2>2, ReleaseStep
<1>6. CASE Trim(t)
  <2>1. ListOf[at[t].box] \in List
    BY DEF Call
  <2>. DEFINE l == ListOf[at[t].box]
  <2>2. CASE queue[l] # <<>>
    <3>1. Tail(queue[l]) \in Seq(Message)
      BY <2>1, <2>2
    <3>2. /\ queue' = [queue EXCEPT ![l] = Tail(queue[l])]
          /\ links' = [links EXCEPT ![l] = Trimmed(links[l], queue[l])]
      BY <1>6, <2>2 DEF Trim
    <3>3. Trimmed(links[l], queue[l]) \in LinkStates
      BY <2>1 DEF Trimmed, LinkStates
    <3>. QED  BY <1>6, <3>1, <3>2, <3>3, ReleaseStep
  <2>3. CASE queue[l] = <<>>
    BY <1>6, <2>3, ReleaseStep DEF Trim
  <2>. QED  BY <2>2, <2>3
<1>. QED  BY <1>1, <1>2, <1>3, <1>4, <1>5, <1>6 DEF MonitorStep, CallStep

-----------------------------------------------------------------------------
\* Every monitor step keeps the mutexes and the program points in agreement.
LEMMA MutexStep ==
  ASSUME MailboxTypeOK, MutualExclusion, NEW t \in Thread, MonitorStep(t)
  PROVE  MutualExclusion'
<1>. USE MailboxAssumption DEF MailboxTypeOK, MutualExclusion
<1>1. ASSUME NEW fn \in Fn, NEW m \in Mailbox, NEW msg \in Message,
             Enter(t, fn, m, msg), UNCHANGED <<queue, links, access>>
      PROVE  MutualExclusion'
  BY <1>1 DEF Enter, Call
<1>2. CASE LockAndPass(t)
  BY <1>2 DEF LockAndPass, Call
<1>3. CASE LockAndWait(t)
  BY <1>3 DEF LockAndWait, Call
<1>4. CASE SpuriousWake(t)
  BY <1>4 DEF SpuriousWake, Call
<1>5. CASE Prepend(t) \/ Trim(t)
  <2>1. /\ at' \in [Thread -> Call]
        /\ at[t].pc = "holding" /\ at'[t].pc = "out"
        /\ access' = [access EXCEPT ![at[t].box] = NoThread]
    BY <1>5, ReleaseStep
  <2>2. ASSUME NEW u \in Thread, u # t
        PROVE  /\ at'[u].pc = "holding" <=> at[u].pc = "holding"
               /\ at'[u].box = at[u].box
    BY <1>5, <2>2, ReleaseStep DEF SameCall
  <2>3. access[at[t].box] = t
    BY <2>1
  <2>4. ASSUME NEW u \in Thread, at'[u].pc = "holding"
        PROVE  access'[at'[u].box] = u
    <3>1. u # t /\ at[u].pc = "holding" /\ at'[u].box = at[u].box
      BY <2>1, <2>2, <2>4
    <3>2. access[at[u].box] = u /\ at[u].box # at[t].box
      BY <2>3, <3>1
    <3>. QED  BY <2>1, <3>1, <3>2
  <2>5. ASSUME NEW m \in Mailbox, access'[m] # NoThread
        PROVE  at'[access'[m]].pc = "holding" /\ at'[access'[m]].box = m
    <3>1. m # at[t].box /\ access'[m] = access[m]
      BY <2>1, <2>5
    <3>2. /\ access[m] \in Thread
          /\ at[access[m]].pc = "holding" /\ at[access[m]].box = m
      BY <2>5, <3>1
    <3>3. access[m] # t
      BY <3>1, <3>2
    <3>. QED  BY <2>2, <3>1, <3>2, <3>3
  <2>. QED  BY <2>4, <2>5
<1>. QED  BY <1>1, <1>2, <1>3, <1>4, <1>5 DEF MonitorStep, CallStep

-----------------------------------------------------------------------------
\* The sets that Bounded counts are finite.
LEMMA CommittedIsFinite ==
  ASSUME NEW l \in List
  PROVE  /\ IsFiniteSet(Sharing(l)) /\ Cardinality(Sharing(l)) \in Nat
         /\ IsFiniteSet(Committed(l)) /\ Cardinality(Committed(l)) \in Nat
         /\ Cardinality(Committed(l)) <= Cardinality(Sharing(l))
<1>1. Sharing(l) \in SUBSET Mailbox /\ Committed(l) \in SUBSET Sharing(l)
  BY DEF Sharing, Committed
<1>2. IsFiniteSet(Sharing(l))
  BY <1>1, MailboxAssumption, FS_Subset
<1>3. IsFiniteSet(Committed(l)) /\ Cardinality(Committed(l)) <= Cardinality(Sharing(l))
  BY <1>1, <1>2, FS_Subset
<1>. QED  BY <1>2, <1>3, FS_CardinalityType

\* The same after a step.
LEMMA CommittedIsFinitePrime ==
  ASSUME NEW l \in List
  PROVE  /\ IsFiniteSet(Committed(l)') /\ Cardinality(Committed(l)') \in Nat
         /\ Cardinality(Committed(l)') <= Cardinality(Sharing(l))
<1>1. Sharing(l) \in SUBSET Mailbox /\ Committed(l)' \in SUBSET Sharing(l)
  BY DEF Sharing, Committed
<1>2. IsFiniteSet(Sharing(l))
  BY <1>1, MailboxAssumption, FS_Subset
<1>3. /\ IsFiniteSet(Committed(l)')
      /\ Cardinality(Committed(l)') <= Cardinality(Sharing(l))
  BY <1>1, <1>2, FS_Subset
<1>. QED  BY <1>3, FS_CardinalityType

\* Every monitor step keeps the bound.  A thread that passes the test for
\* space finds at most MAX_NUM_MESSAGES - 1 messages and at most every mailbox
\* of the list committed; putting a message in uses a commitment up.
LEMMA BoundedStep ==
  ASSUME MailboxTypeOK, MutualExclusion, Bounded, NEW t \in Thread,
         MonitorStep(t)
  PROVE  Bounded'
<1>. USE MailboxAssumption DEF MailboxTypeOK
<1>. SUFFICES ASSUME NEW l \in List, Sharing(l) # {}
              PROVE  Len(queue'[l]) + Cardinality(Committed(l)')
                       <= MAX_NUM_MESSAGES - 1 + Cardinality(Sharing(l))
  BY DEF Bounded, Sharing
<1>. DEFINE Limit == MAX_NUM_MESSAGES - 1 + Cardinality(Sharing(l))
<1>1. Len(queue[l]) + Cardinality(Committed(l)) <= Limit
  BY DEF Bounded
<1>2. queue[l] \in Seq(Message) /\ queue'[l] \in Seq(Message)
  BY TypeStep
<1>3. ASSUME queue' = queue, Committed(l)' = Committed(l)
      PROVE  Len(queue'[l]) + Cardinality(Committed(l)') <= Limit
  BY <1>1, <1>3
<1>4. ASSUME NEW fn \in Fn, NEW m \in Mailbox, NEW msg \in Message,
             Enter(t, fn, m, msg), UNCHANGED <<queue, links, access>>
      PROVE  Len(queue'[l]) + Cardinality(Committed(l)') <= Limit
  <2>1. \A n \in Mailbox : access[n] # NoThread => access[n] # t
    BY <1>4 DEF MutualExclusion, Enter
  <2>2. Committed(l)' = Committed(l)
    BY <1>4, <2>1 DEF Committed, Sharing, Enter
  <2>. QED  BY <1>3, <1>4, <2>2
<1>5. CASE LockAndWait(t) \/ SpuriousWake(t)
  <2>1. queue' = queue /\ access' = access /\ \A u \in Thread : at'[u].fn = at[u].fn
    <3>1. CASE LockAndWait(t)
      BY <3>1 DEF LockAndWait, Call
    <3>2. CASE SpuriousWake(t)
      BY <3>2 DEF SpuriousWake, Call
    <3>. QED  BY <1>5, <3>1, <3>2
  <2>2. Committed(l)' = Committed(l)
    BY <2>1 DEF Committed, Sharing
  <2>. QED  BY <1>3, <2>1, <2>2
<1>6. CASE LockAndPass(t)
  <2>. DEFINE b == at[t].box
  <2>1. /\ b \in Mailbox /\ access[b] = NoThread
        /\ access' = [access EXCEPT ![b] = t]
        /\ queue' = queue
        /\ \A u \in Thread : at'[u].fn = at[u].fn
    BY <1>6 DEF LockAndPass, Call
  <2>2. CASE at[t].fn = "consume" /\ ListOf[b] = l
    <3>1. Len(queue[l]) <= MAX_NUM_MESSAGES - 1
      BY <1>2, <1>6, <2>2 DEF LockAndPass, MustWait, num_nodes
    <3>. QED  BY <1>2, <2>1, <3>1, CommittedIsFinite, CommittedIsFinitePrime
  <2>3. CASE ~(at[t].fn = "consume" /\ ListOf[b] = l)
    <3>1. ASSUME NEW n \in Mailbox, ListOf[n] = l
          PROVE  access'[n] # NoThread /\ at'[access'[n]].fn = "consume"
                   <=> access[n] # NoThread /\ at[access[n]].fn = "consume"
      <4>1. CASE n = b
        BY <2>1, <2>3, <3>1, <4>1
      <4>2. CASE n # b
        BY <2>1, <4>2
      <4>. QED  BY <4>1, <4>2
    <3>2. Committed(l)' = Committed(l)
      BY <3>1 DEF Committed, Sharing
    <3>. QED  BY <1>3, <2>1, <3>2
  <2>. QED  BY <2>2, <2>3
<1>7. CASE Prepend(t) \/ Trim(t)
  <2>. DEFINE b == at[t].box
  <2>1. b \in Mailbox /\ at[t].pc = "holding" /\ access[b] = t
    BY <1>7, ReleaseStep DEF Call, MutualExclusion
  <2>2. access' = [access EXCEPT ![b] = NoThread]
    BY <1>7, ReleaseStep
  <2>3. \A u \in Thread : at'[u].fn = at[u].fn
    BY <1>7, ReleaseStep DEF SameCall
  <2>4. ASSUME NEW n \in Mailbox, n # b, access[n] # NoThread
        PROVE  access'[n] = access[n] /\ at'[access[n]].fn = at[access[n]].fn
    <3>1. access[n] \in Thread /\ access[n] # t
      BY <2>4 DEF MutualExclusion
    <3>. QED  BY <2>2, <2>3, <2>4, <3>1
  <2>5. Committed(l)' = Committed(l) \ {b}
    BY <2>1, <2>2, <2>4 DEF Committed, Sharing
  <2>. HIDE DEF b
  <2>6. /\ Cardinality(Committed(l) \ {b}) =
             IF b \in Committed(l) THEN Cardinality(Committed(l)) - 1
             ELSE Cardinality(Committed(l))
        /\ Cardinality(Committed(l)) \in Nat
    <3>1. IsFiniteSet(Committed(l)) /\ Cardinality(Committed(l)) \in Nat
      BY CommittedIsFinite
    <3>. QED  BY <3>1, FS_RemoveElement
  <2>. USE DEF b
  <2>7. CASE Trim(t) \/ ListOf[b] # l
    <3>1. Len(queue'[l]) <= Len(queue[l])
      <4>1. CASE queue'[l] = queue[l]
        BY <1>2, <4>1
      <4>2. CASE queue[l] # <<>> /\ queue'[l] = Tail(queue[l])
        BY <1>2, <4>2
      <4>3. CASE ListOf[b] # l
        <5>1. queue'[l] = queue[l]
          BY <1>7, <4>3 DEF Trim, Prepend
        <5>. QED  BY <4>1, <5>1
      <4>4. CASE Trim(t) /\ ListOf[b] = l
        <5>1. \/ queue' = queue
              \/ queue[l] # <<>> /\ queue' = [queue EXCEPT ![l] = Tail(@)]
          BY <4>4 DEF Trim
        <5>2. \/ queue'[l] = queue[l]
              \/ queue[l] # <<>> /\ queue'[l] = Tail(queue[l])
          BY <5>1
        <5>. QED  BY <4>1, <4>2, <5>2
      <4>. QED  BY <2>7, <4>3, <4>4
    <3>. QED  BY <1>1, <1>2, <2>5, <2>6, <3>1, CommittedIsFinite, CommittedIsFinitePrime
  <2>8. CASE Prepend(t) /\ ListOf[b] = l
    <3>1. b \in Committed(l)
      BY <2>1, <2>8 DEF Committed, Sharing, Prepend
    <3>2. Cardinality(Committed(l)') = Cardinality(Committed(l)) - 1
      BY <2>5, <2>6, <3>1
    <3>3. Len(queue'[l]) <= Len(queue[l]) + 1
      <4>1. at[t].msg \in Message
        BY DEF Call
      <4>. QED  BY <1>2, <2>8, <4>1 DEF Prepend
    <3>. QED  BY <1>1, <1>2, <3>2, <3>3, CommittedIsFinite, CommittedIsFinitePrime
  <2>. QED  BY <1>7, <2>7, <2>8
<1>. QED  BY <1>4, <1>5, <1>6, <1>7 DEF MonitorStep, CallStep

-----------------------------------------------------------------------------
\* What consume() and produce() are written for: a list for each mailbox.
OwnLists == \A m, n \in Mailbox : ListOf[m] = ListOf[n] => m = n

\* With a list for each mailbox a mutex guards its list: two threads between
\* lock and unlock are at different lists.
LEMMA OwnListsNoRace ==
  ASSUME OwnLists, MailboxTypeOK, MutualExclusion
  PROVE  NoDataRace
BY DEF OwnLists, MailboxTypeOK, MutualExclusion, NoDataRace, Call

\* With a list for each mailbox, no step of another thread undoes what the
\* while test of a thread inside its list operation has found.
LEMMA TestStep ==
  ASSUME OwnLists, MailboxTypeOK, MutualExclusion, TestStillHolds,
         NEW t \in Thread, MonitorStep(t)
  PROVE  TestStillHolds'
<1>. USE MailboxAssumption DEF MailboxTypeOK
<1>. SUFFICES ASSUME NEW u \in Thread, at'[u].pc = "holding"
              PROVE  ~MustWait(at[u].fn, at[u].box)'
  BY DEF TestStillHolds, MustWait, num_nodes
<1>1. ASSUME at[u].pc = "holding", SameCall(u),
             queue'[ListOf[at[u].box]] = queue[ListOf[at[u].box]]
      PROVE  ~MustWait(at[u].fn, at[u].box)'
  <2>1. ~MustWait(at[u].fn, at[u].box)
    BY <1>1 DEF TestStillHolds
  <2>. QED  BY <1>1, <2>1 DEF MustWait, num_nodes, SameCall
<1>2. ASSUME NEW fn \in Fn, NEW m \in Mailbox, NEW msg \in Message,
             Enter(t, fn, m, msg), UNCHANGED <<queue, links, access>>
      PROVE  ~MustWait(at[u].fn, at[u].box)'
  <2>1. u # t
    BY <1>2 DEF Enter
  <2>2. at'[u] = at[u]
    BY <1>2, <2>1 DEF Enter
  <2>. QED  BY <1>1, <1>2, <2>2 DEF SameCall
<1>3. CASE LockAndPass(t)
  <2>1. CASE u = t
    <3>1. ~MustWait(at[t].fn, at[t].box) /\ queue' = queue
      BY <1>3 DEF LockAndPass
    <3>2. at'[t].fn = at[t].fn /\ at'[t].box = at[t].box
      BY <1>3 DEF LockAndPass, Call
    <3>. QED  BY <2>1, <3>1, <3>2 DEF MustWait, num_nodes
  <2>2. CASE u # t
    <3>1. at'[u] = at[u] /\ queue' = queue
      BY <1>3, <2>2 DEF LockAndPass
    <3>. QED  BY <1>1, <3>1 DEF SameCall
  <2>. QED  BY <2>1, <2>2
<1>4. CASE LockAndWait(t)
  <2>1. u # t
    BY <1>4 DEF LockAndWait, Call
  <2>2. at'[u] = at[u] /\ queue' = queue
    BY <1>4, <2>1 DEF LockAndWait
  <2>. QED  BY <1>1, <2>2 DEF SameCall
<1>5. CASE SpuriousWake(t)
  <2>1. u # t
    BY <1>5 DEF SpuriousWake, Call
  <2>2. at'[u] = at[u] /\ queue' = queue
    BY <1>5, <2>1 DEF SpuriousWake
  <2>. QED  BY <1>1, <2>2 DEF SameCall
<1>6. CASE Prepend(t) \/ Trim(t)
  <2>1. /\ u # t /\ at[u].pc = "holding" /\ at[t].pc = "holding"
        /\ SameCall(u)
    BY <1>6, ReleaseStep
  <2>2. ListOf[at[u].box] # ListOf[at[t].box]
    BY <2>1, OwnListsNoRace DEF NoDataRace
  <2>3. ListOf[at[t].box] \in List /\ ListOf[at[u].box] \in List
    BY DEF Call
  <2>4. queue'[ListOf[at[u].box]] = queue[ListOf[at[u].box]]
    BY <1>6, <2>2, <2>3 DEF Prepend, Trim
  <2>. QED  BY <1>1, <2>1, <2>4
<1>. QED  BY <1>2, <1>3, <1>4, <1>5, <1>6 DEF MonitorStep, CallStep
-----------------------------------------------------------------------------
\* A node for every message a mailbox may hold.
EnoughNodes == MAX_NUM_MESSAGES <= LIST_MAX_NUM_NODES

\* How many more calls of fn mailbox m can serve.
Demand(m, fn) ==
  IF fn = "produce" THEN num_nodes(m) ELSE MAX_NUM_MESSAGES - num_nodes(m)

\* The threads on their way can be counted.
LEMMA OnTheirWayIsFinite ==
  ASSUME NEW m \in Mailbox, NEW fn \in Fn
  PROVE  /\ IsFiniteSet(OnTheirWay(m, fn)) /\ IsFiniteSet(OnTheirWay(m, fn)')
         /\ Cardinality(OnTheirWay(m, fn)) \in Nat
         /\ Cardinality(OnTheirWay(m, fn)') \in Nat
<1>1. OnTheirWay(m, fn) \in SUBSET Thread /\ OnTheirWay(m, fn)' \in SUBSET Thread
  BY DEF OnTheirWay
<1>2. IsFiniteSet(OnTheirWay(m, fn)) /\ IsFiniteSet(OnTheirWay(m, fn)')
  BY <1>1, MailboxAssumption, FS_Subset
<1>. QED  BY <1>2, FS_CardinalityType

\* A call that ends moves one blocked thread, if there is one, and no other.
LEMMA SignalWakesOne ==
  ASSUME MailboxTypeOK, NEW t \in Thread, Prepend(t) \/ Trim(t)
  PROVE  LET woken == Waiters(at[t].box, Other(at[t].fn))
         IN  \/ woken = {} /\ \A u \in Thread \ {t} : at'[u] = at[u]
             \/ \E w \in woken :
                  /\ at'[w].pc = "lock"
                  /\ \A u \in Thread \ {t, w} : at'[u] = at[u]
<1>. DEFINE woken == Waiters(at[t].box, Other(at[t].fn))
<1>1. at \in [Thread -> Call] /\ at[t].pc = "holding"
  BY DEF MailboxTypeOK, Prepend, Trim
<1>2. PICK msg : ReturnAndSignal(t, msg)
  BY DEF Prepend, Trim
<1>3. CASE woken = {}
  <2>1. at' = [at EXCEPT ![t].pc = "out", ![t].msg = msg]
    BY <1>2, <1>3 DEF ReturnAndSignal
  <2>. QED  BY <1>1, <1>3, <2>1
<1>4. CASE woken # {}
  <2>1. PICK w \in woken :
          at' = [at EXCEPT ![t].pc = "out", ![t].msg = msg, ![w].pc = "lock"]
    BY <1>2, <1>4 DEF ReturnAndSignal
  <2>2. w \in Thread /\ w # t
    BY <1>1 DEF Waiters
  <2>. QED  BY <1>1, <2>1, <2>2 DEF Call
<1>. QED  BY <1>3, <1>4

\* What a list operation does to the demand, when its while test still holds:
\* one call of its own function less, one of the other function more.
LEMMA DemandStep ==
  ASSUME OwnLists, EnoughNodes, MailboxTypeOK, TestStillHolds,
         NEW t \in Thread, Prepend(t) \/ Trim(t),
         NEW m \in Mailbox, NEW fn \in Fn
  PROVE  /\ Demand(m, fn) \in Int /\ Demand(m, fn)' \in Int
         /\ m # at[t].box => Demand(m, fn)' = Demand(m, fn)
         /\ m = at[t].box =>
              Demand(m, fn)' = IF fn = at[t].fn THEN Demand(m, fn) - 1
                               ELSE Demand(m, fn) + 1
<1>. USE MailboxAssumption DEF MailboxTypeOK, num_nodes, Fn
<1>. DEFINE b == at[t].box  l == ListOf[b]
<1>1. /\ b \in Mailbox /\ l \in List /\ at[t].msg \in Message
      /\ queue[l] \in Seq(Message) /\ queue[ListOf[m]] \in Seq(Message)
  BY DEF Call
<1>2. m # b => ListOf[m] # l
  BY <1>1 DEF OwnLists
<1>3. ~MustWait(at[t].fn, b)
  BY DEF TestStillHolds, Prepend, Trim
<1>4. CASE Prepend(t)
  <2>1. at[t].fn = "consume" /\ Len(queue[l]) < MAX_NUM_MESSAGES
    BY <1>1, <1>3, <1>4 DEF Prepend, MustWait
  <2>2. queue' = [queue EXCEPT ![l] = Append(queue[l], at[t].msg)]
    BY <1>1, <1>4, <2>1 DEF Prepend, EnoughNodes
  <2>3. queue'[ListOf[m]] = IF m = b THEN Append(queue[l], at[t].msg)
                            ELSE queue[ListOf[m]]
    BY <1>1, <1>2, <2>2
  <2>4. Len(queue'[ListOf[m]]) = IF m = b THEN Len(queue[l]) + 1
                                 ELSE Len(queue[ListOf[m]])
    BY <1>1, <2>3
  <2>. QED  BY <1>1, <2>1, <2>4 DEF Demand
<1>5. CASE Trim(t)
  <2>1. at[t].fn = "produce" /\ queue[l] # <<>>
    BY <1>1, <1>3, <1>5 DEF Trim, MustWait
  <2>2. queue' = [queue EXCEPT ![l] = Tail(queue[l])]
    BY <1>5, <2>1 DEF Trim
  <2>3. queue'[ListOf[m]] = IF m = b THEN Tail(queue[l]) ELSE queue[ListOf[m]]
    BY <1>1, <1>2, <2>2
  <2>4. Len(queue'[ListOf[m]]) = IF m = b THEN Len(queue[l]) - 1
                                 ELSE Len(queue[ListOf[m]])
    BY <1>1, <2>1, <2>3
  <2>5. Len(queue[l]) \in Nat /\ Len(queue[ListOf[m]]) \in Nat
    BY <1>1
  <2>6. CASE m = b
    <3>1. Len(queue'[ListOf[m]]) = Len(queue[ListOf[m]]) - 1
      BY <2>4, <2>6
    <3>2. Demand(m, "produce")' = Demand(m, "produce") - 1
      BY <3>1 DEF Demand
    <3>3. Demand(m, "consume")' = Demand(m, "consume") + 1
      BY <2>5, <3>1 DEF Demand
    <3>4. Demand(m, fn) \in Int /\ Demand(m, fn)' \in Int
      BY <2>5, <3>1 DEF Demand
    <3>. HIDE DEF num_nodes
    <3>. QED  BY <2>1, <2>6, <3>2, <3>3, <3>4
  <2>7. CASE m # b
    BY <2>1, <2>4, <2>5, <2>7 DEF Demand
  <2>. QED  BY <2>6, <2>7
<1>. QED  BY <1>4, <1>5

\* With a list of its own for each mailbox and enough nodes, no step loses a
\* wakeup.  A thread blocks only when there is nothing to serve; a list
\* operation that makes something to serve wakes a thread up to serve it; and
\* one that uses it up is itself a thread less on its way.
LEMMA WakeupStep ==
  ASSUME OwnLists, EnoughNodes, MailboxTypeOK, TestStillHolds, NoLostWakeup,
         NEW t \in Thread, MonitorStep(t)
  PROVE  NoLostWakeup'
<1>. USE MailboxAssumption DEF MailboxTypeOK
<1>. SUFFICES ASSUME NEW m \in Mailbox, NEW fn \in Fn, Waiters(m, fn)' # {}
              PROVE  Demand(m, fn)' <= Cardinality(OnTheirWay(m, fn)')
  BY DEF NoLostWakeup, Demand, num_nodes, Fn
<1>. DEFINE way == OnTheirWay(m, fn)  waiting == Waiters(m, fn)
<1>1. /\ waiting # {} => Demand(m, fn) <= Cardinality(way)
      /\ Demand(m, fn) \in Int
  BY DEF NoLostWakeup, Demand, num_nodes, Fn
<1>2. ASSUME waiting' \subseteq waiting, way \subseteq way',
             Demand(m, fn)' = Demand(m, fn)
      PROVE  Demand(m, fn)' <= Cardinality(way')
  <2>1. Cardinality(way) <= Cardinality(way')
    BY <1>2, OnTheirWayIsFinite, FS_Subset
  <2>. QED  BY <1>1, <1>2, <2>1, OnTheirWayIsFinite
<1>3. ASSUME UNCHANGED queue PROVE Demand(m, fn)' = Demand(m, fn)
  BY <1>3 DEF Demand, num_nodes
<1>4. ASSUME NEW g \in Fn, NEW n \in Mailbox, NEW msg \in Message,
             Enter(t, g, n, msg), UNCHANGED <<queue, links, access>>
      PROVE  Demand(m, fn)' <= Cardinality(way')
  <2>1. waiting' \subseteq waiting /\ way \subseteq way'
    BY <1>4 DEF Enter, Call, Waiters, OnTheirWay
  <2>. QED  BY <1>2, <1>3, <1>4, <2>1
<1>5. CASE LockAndPass(t) \/ SpuriousWake(t)
  <2>1. PICK p \in {"lock", "holding"} : at' = [at EXCEPT ![t].pc = p]
    BY <1>5 DEF LockAndPass, SpuriousWake
  <2>4. waiting' \subseteq waiting /\ way \subseteq way'
    BY <2>1 DEF Call, Waiters, OnTheirWay
  <2>2. UNCHANGED queue
    BY <1>5 DEF LockAndPass, SpuriousWake
  <2>. QED  BY <1>2, <1>3, <2>2, <2>4
<1>6. CASE LockAndWait(t)
  <2>1. UNCHANGED queue
    BY <1>6 DEF LockAndWait
  <2>2. CASE at[t].box = m /\ at[t].fn = fn
    <3>1. Demand(m, fn) <= 0
      BY <1>6, <2>2 DEF LockAndWait, MustWait, Demand, num_nodes, Fn
    <3>. QED  BY <1>1, <1>3, <2>1, <3>1, OnTheirWayIsFinite
  <2>3. CASE ~(at[t].box = m /\ at[t].fn = fn)
    <3>1. waiting' \subseteq waiting /\ way \subseteq way'
      BY <1>6, <2>3 DEF LockAndWait, Call, Waiters, OnTheirWay
    <3>. QED  BY <1>2, <1>3, <2>1, <3>1
  <2>. QED  BY <2>2, <2>3
<1>7. CASE Prepend(t) \/ Trim(t)
  <2>. DEFINE b == at[t].box  woken == Waiters(b, Other(at[t].fn))
  <2>1. /\ at[t].pc = "holding" /\ at'[t].pc = "out"
        /\ \A u \in Thread : SameCall(u)
        /\ at[t].fn \in Fn
    BY <1>7, ReleaseStep DEF Call
  <2>2. \/ woken = {} /\ \A u \in Thread \ {t} : at'[u] = at[u]
        \/ \E w \in woken :
             at'[w].pc = "lock" /\ \A u \in Thread \ {t, w} : at'[u] = at[u]
    BY <1>7, SignalWakesOne
  <2>3. CASE m # b
    <3>1. waiting' \subseteq waiting /\ way \subseteq way'
      BY <2>1, <2>2, <2>3 DEF SameCall, Waiters, OnTheirWay
    <3>. QED  BY <1>2, <1>7, <2>3, <3>1, DemandStep
  <2>4. CASE m = b /\ fn = at[t].fn
    <3>1. \A u \in Thread \ {t} : at[u].fn = fn => at'[u] = at[u]
      BY <2>2, <2>4 DEF Other, Fn, Waiters
    <3>2. waiting' \subseteq waiting /\ way' = way \ {t} /\ t \in way
      BY <2>1, <2>4, <3>1 DEF SameCall, Waiters, OnTheirWay
    <3>3. Cardinality(way \ {t}) = Cardinality(way) - 1
      BY <3>2, OnTheirWayIsFinite, FS_RemoveElement
    <3>6. Cardinality(way') = Cardinality(way) - 1
      BY <3>2, <3>3
    <3>4. Demand(m, fn)' = Demand(m, fn) - 1
      BY <1>7, <2>4, DemandStep
    <3>5. Demand(m, fn) <= Cardinality(way)
      BY <1>1, <3>2
    <3>. QED  BY <1>1, <3>4, <3>5, <3>6, OnTheirWayIsFinite
  <2>5. CASE m = b /\ fn # at[t].fn
    <3>1. woken = waiting
      BY <2>1, <2>5 DEF Other, Fn
    <3>2. waiting # {}
      <4>1. CASE woken = {} /\ \A u \in Thread \ {t} : at'[u] = at[u]
        BY <2>1, <3>1, <4>1 DEF Waiters, SameCall
      <4>. QED  BY <2>2, <3>1, <4>1
    <3>3. PICK w \in waiting :
            at'[w].pc = "lock" /\ \A u \in Thread \ {t, w} : at'[u] = at[u]
      BY <2>2, <3>1, <3>2
    <3>4. way' = way \union {w} /\ w \notin way
      BY <2>1, <2>5, <3>3 DEF SameCall, Waiters, OnTheirWay
    <3>5. Cardinality(way') = Cardinality(way) + 1
      BY <3>4, OnTheirWayIsFinite, FS_AddElement
    <3>6. Demand(m, fn)' = Demand(m, fn) + 1
      BY <1>7, <2>5, DemandStep
    <3>. QED  BY <1>1, <3>2, <3>5, <3>6, OnTheirWayIsFinite
  <2>. QED  BY <2>3, <2>4, <2>5
<1>. QED  BY <1>4, <1>5, <1>6, <1>7 DEF MonitorStep, CallStep
=============================================================================
