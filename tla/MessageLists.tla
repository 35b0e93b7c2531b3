---------------------------- MODULE MessageLists ----------------------------
(***************************************************************************)
(* The mailboxes of UDPthreads.c: consume() puts a message into a          *)
(* MessageList and produce() takes one out, each under the mailbox's mutex *)
(* and waiting on its condition variables.                                 *)
(*                                                                         *)
(* A mailbox points to a list (mList->messages).  ListOf says which one: a *)
(* mailbox of its own list is what the code of consume() and produce() is  *)
(* written for, while List_create gives the two mailboxes of s-talk the    *)
(* same list (see ListClientProofs).                                       *)
(*                                                                         *)
(* A call goes through these program points:                               *)
(*   "out"      no call in progress                                        *)
(*   "lock"     wants the mutex: at the entry, or woken up in a wait       *)
(*   "waiting"  blocked in pthread_cond_wait, mutex released               *)
(*   "holding"  holds the mutex, the while test has let it pass            *)
(***************************************************************************)
EXTENDS QueueLinks, Integers, FiniteSets

CONSTANTS
  Thread, Mailbox, List,
  ListOf,              \* the list each mailbox points to
  Message,             \* the contents of a message
  Reads,               \* what strncpy can read from each stored message
  MAX_NUM_MESSAGES,
  LIST_MAX_NUM_NODES,  \* the nodes list.c has for a list
  NoThread

ASSUME MailboxAssumption ==
  /\ IsFiniteSet(Thread) /\ NoThread \notin Thread
  /\ IsFiniteSet(Mailbox)
  /\ ListOf \in [Mailbox -> List]
  /\ Reads \in [Message -> (SUBSET Message) \ {{}}]
  /\ MAX_NUM_MESSAGES \in Nat \ {0}
  /\ LIST_MAX_NUM_NODES \in Nat

VARIABLES
  queue,    \* the messages of each list, oldest first
  links,    \* what List_trim has done to the links of each list
  access,   \* the holder of each mailbox's mutex
  at        \* each thread's call: program point, function, mailbox, buffer

mboxVars == <<queue, links, access, at>>

Fn == {"consume", "produce"}
Other(fn) == IF fn = "consume" THEN "produce" ELSE "consume"

Call == [pc : {"out", "lock", "waiting", "holding"}, fn : Fn,
         box : Mailbox, msg : Message]

\* New mailboxes, with lists of the library that new lists of this kind
\* belong to.
MailboxInit(kind) ==
  /\ queue = [l \in List |-> <<>>]
  /\ links = [l \in List |-> kind]
  /\ access = [m \in Mailbox |-> NoThread]

-----------------------------------------------------------------------------
num_nodes(m) == Len(queue[ListOf[m]])

\* Mutation: one message too many.
MustWaitLate(fn, m) ==
  IF fn = "consume" THEN num_nodes(m) > MAX_NUM_MESSAGES ELSE num_nodes(m) = 0

\* The condition of the while loop in front of the list operation.
MustWait(fn, m) ==
  IF fn = "consume" THEN num_nodes(m) >= MAX_NUM_MESSAGES
                    ELSE num_nodes(m) = 0

\* Threads blocked on mList->spaceAvailable ("consume") and on
\* mList->availableMessage ("produce").
Waiters(m, fn) ==
  {t \in Thread : at[t].pc = "waiting" /\ at[t].box = m /\ at[t].fn = fn}

\* Mutation: the call returns without its pthread_cond_signal.
ReturnOnly(t, msg) == at' = [at EXCEPT ![t].pc = "out", ![t].msg = msg]

\* Mutation: the signal goes to the condition variable the caller waits on.
ReturnAndSignalOwn(t, msg) ==
  LET woken == Waiters(at[t].box, at[t].fn)
  IN  /\ woken = {} => ReturnOnly(t, msg)
      /\ woken # {} =>
           \E w \in woken :
             at' = [at EXCEPT ![t].pc = "out", ![t].msg = msg, ![w].pc = "lock"]

\* The effect on the program points of a call of t that ends: t returns with
\* buffer msg and pthread_cond_signal wakes one thread blocked on the
\* condition variable of the other function, if there is one.
ReturnAndSignal(t, msg) ==
  LET woken == Waiters(at[t].box, Other(at[t].fn))
  IN  /\ woken = {} =>
           at' = [at EXCEPT ![t].pc = "out", ![t].msg = msg]
      /\ woken # {} =>
           \E w \in woken :
             at' = [at EXCEPT ![t].pc = "out", ![t].msg = msg, ![w].pc = "lock"]

-----------------------------------------------------------------------------
\* msg is the message to put in, or what the caller's buffer holds.
Enter(t, fn, m, msg) ==
  /\ at[t].pc = "out"
  /\ at' = [at EXCEPT ![t] = [pc |-> "lock", fn |-> fn, box |-> m, msg |-> msg]]

\* Mutation: the mutex is not taken.
PassUnlocked(t) ==
  /\ at[t].pc = "lock"
  /\ ~MustWait(at[t].fn, at[t].box)
  /\ access' = [access EXCEPT ![at[t].box] = t]
  /\ at' = [at EXCEPT ![t].pc = "holding"]
  /\ UNCHANGED <<queue, links>>

\* Mutation: "if" for "while": a thread that has been woken up goes on without
\* looking again.
LockAndPassUntested(t) ==
  /\ at[t].pc = "lock"
  /\ access[at[t].box] = NoThread
  /\ access' = [access EXCEPT ![at[t].box] = t]
  /\ at' = [at EXCEPT ![t].pc = "holding"]
  /\ UNCHANGED <<queue, links>>

\* pthread_mutex_lock, or its part in pthread_cond_wait, and the while test.
LockAndPass(t) ==
  /\ at[t].pc = "lock"
  /\ access[at[t].box] = NoThread
  /\ ~MustWait(at[t].fn, at[t].box)
  /\ access' = [access EXCEPT ![at[t].box] = t]
  /\ at' = [at EXCEPT ![t].pc = "holding"]
  /\ UNCHANGED <<queue, links>>

\* pthread_cond_wait releases the mutex as it blocks.
LockAndWait(t) ==
  /\ at[t].pc = "lock"
  /\ access[at[t].box] = NoThread
  /\ MustWait(at[t].fn, at[t].box)
  /\ at' = [at EXCEPT ![t].pc = "waiting"]
  /\ UNCHANGED <<queue, links, access>>

\* POSIX lets pthread_cond_wait return without a signal.
SpuriousWake(t) ==
  /\ at[t].pc = "waiting"
  /\ at' = [at EXCEPT ![t].pc = "lock"]
  /\ UNCHANGED <<queue, links, access>>

\* Mutation: the arguments message and threadId, both char pointers, swapped.
PrependThreadId(t) ==
  /\ at[t].pc = "holding" /\ at[t].fn = "consume"
  /\ queue' = [queue EXCEPT ![ListOf[at[t].box]] = Append(@, t)]
  /\ access' = [access EXCEPT ![at[t].box] = NoThread]
  /\ UNCHANGED links
  /\ ReturnAndSignal(t, at[t].msg)

\* Mutation: List_append for List_prepend.
PrependAtTail(t) ==
  /\ at[t].pc = "holding" /\ at[t].fn = "consume"
  /\ queue' = [queue EXCEPT ![ListOf[at[t].box]] = <<at[t].msg>> \o @]
  /\ access' = [access EXCEPT ![at[t].box] = NoThread]
  /\ UNCHANGED links
  /\ ReturnAndSignal(t, at[t].msg)

\* consume(): List_prepend, which drops the message when no node is left, then
\* signal and unlock.
Prepend(t) ==
  LET l == ListOf[at[t].box]
  IN  /\ at[t].pc = "holding" /\ at[t].fn = "consume"
      /\ queue' = IF Len(queue[l]) < LIST_MAX_NUM_NODES
                  THEN [queue EXCEPT ![l] = Append(@, at[t].msg)] ELSE queue
      /\ access' = [access EXCEPT ![at[t].box] = NoThread]
      /\ UNCHANGED links
      /\ ReturnAndSignal(t, at[t].msg)

\* produce(): List_trim and the copy into the buffer, which stays as it was
\* when the list turns out to be empty, then signal and unlock.
Trim(t) ==
  LET l == ListOf[at[t].box]
  IN  /\ at[t].pc = "holding" /\ at[t].fn = "produce"
      /\ access' = [access EXCEPT ![at[t].box] = NoThread]
      /\ \/ /\ queue[l] # <<>> /\ links[l] # "lost"
            /\ queue' = [queue EXCEPT ![l] = Tail(@)]
            /\ links' = [links EXCEPT ![l] = Trimmed(@, queue[l])]
            /\ \E text \in Reads[Head(queue[l])] : ReturnAndSignal(t, text)
         \/ /\ queue[l] = <<>>
            /\ UNCHANGED <<queue, links>>
            /\ ReturnAndSignal(t, at[t].msg)

\* List_trim of a list that has messages and no tail uses a null pointer: the
\* process dies there, whatever thread runs it.
FaultingTrim(t) ==
  /\ at[t].pc = "holding" /\ at[t].fn = "produce"
  /\ num_nodes(at[t].box) > 0 /\ links[ListOf[at[t].box]] = "lost"

\* List_free of a mailbox's list that still has messages: list.c follows a
\* pointer into memory it has given back (see ListClient), the older library
\* does not.
FaultingDestroy(m) == num_nodes(m) > 0 /\ links[ListOf[m]] # "sound"

CallStep(t) == LockAndPass(t) \/ LockAndWait(t) \/ Prepend(t) \/ Trim(t)

-----------------------------------------------------------------------------
MailboxTypeOK ==
  /\ queue \in [List -> Seq(Message)]
  /\ links \in [List -> LinkStates]
  /\ access \in [Mailbox -> Thread \union {NoThread}]
  /\ at \in [Thread -> Call]

\* A thread between lock and unlock is the one holder of that mailbox's mutex
\* and nobody holds a mutex outside of a call (UDPthreads.c:16-57: every path
\* through the waits takes and releases access exactly once).
MutualExclusion ==
  /\ \A t \in Thread : at[t].pc = "holding" => access[at[t].box] = t
  /\ \A m \in Mailbox : access[m] # NoThread =>
       at[access[m]].pc = "holding" /\ at[access[m]].box = m

\* The mailboxes that point to list l.
Sharing(l) == {m \in Mailbox : ListOf[m] = l}

\* Those through which a thread has passed the test for space and not yet
\* put its message in.
Committed(l) ==
  {m \in Sharing(l) : access[m] # NoThread /\ at[access[m]].fn = "consume"}

\* The space test is made under one mailbox's mutex only: a list overshoots
\* MAX_NUM_MESSAGES by at most one message for each further mailbox that
\* shares it, and not at all when none does (UDPthreads.c:20-28).
Bounded ==
  \A l \in List : Sharing(l) # {} =>
    Len(queue[l]) + Cardinality(Committed(l))
      <= MAX_NUM_MESSAGES - 1 + Cardinality(Sharing(l))

\* What the while tests found still holds when the list operation runs: there
\* is room for the message, and there is a message to take
\* (UDPthreads.c:20-28 and 41-46).
TestStillHolds ==
  \A t \in Thread : at[t].pc = "holding" => ~MustWait(at[t].fn, at[t].box)

\* No wakeup is lost: while threads are blocked for a message, every message
\* of their list has a thread on its way to take one, and while threads are
\* blocked for space, every free place has a thread on its way to fill it.
\* One pthread_cond_signal for each operation is enough (UDPthreads.c:33, 55).
OnTheirWay(m, fn) ==
  {t \in Thread : at[t].pc \in {"lock", "holding"} /\ at[t].box = m
                  /\ at[t].fn = fn}

NoLostWakeup ==
  \A m \in Mailbox :
    /\ Waiters(m, "produce") # {} =>
         num_nodes(m) <= Cardinality(OnTheirWay(m, "produce"))
    /\ Waiters(m, "consume") # {} =>
         MAX_NUM_MESSAGES - num_nodes(m) <= Cardinality(OnTheirWay(m, "consume"))

\* No two threads are in the list operations of one list at the same time.
NoDataRace ==
  \A t, u \in Thread :
    at[t].pc = "holding" /\ at[u].pc = "holding"
      /\ ListOf[at[t].box] = ListOf[at[u].box] => t = u
=============================================================================
