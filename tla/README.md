# A TLA+ model of s-talk

s-talk is a two-party chat over UDP. Each process runs four threads around two
mailboxes; the mailboxes keep their messages in a doubly linked list library
with statically allocated memory. This directory holds TLA+ modules of the list
library, of the mailboxes, of a whole process and of two processes with the
network between them, the TLC runs that check them on small instances, and
proofs that TLAPS checks for every value of the constants. The older copy of the
program under `src/dump/` is modelled beside the newer one: it uses the same
mailboxes over another list library.

## 1. Inventory

| Component | Code | State | Operations |
|---|---|---|---|
| list library | `src/list.c`, `src/list.h` | `lists[]`, `freeLists[]`, `flIndex`, `nodes[]`, `freeNodes`; per list head, tail, cursor, length, out-of-bounds status | the 16 functions of `list.h` |
| mailboxes | `src/UDPthreads.c`, `src/UDPthreads.h` | a list pointer, the mutex `access`, the condition variables `availableMessage` and `spaceAvailable` | `consume()` (put in), `produce()` (take out), creation, destruction |
| s-talk process | `src/main.c`, `src/UDPsockets.c` | `hostMsg`, `remoteMsg`, `shutdownFlag`, each thread's buffer, the sockets | the threads `readUserInput`, `sendData`, `recvData`, `writeUserInput`, and `main` |
| two peers | two processes and the network | datagrams under way | `sendto`, `recvfrom` |
| older list library | `src/dump/list.c` | as `list.c` | the functions of `list.h`, with other insertions, removal, trim, concatenation, freeing and search |
| older program | `src/dump/main.c`, `src/dump/listMonitor.c` | as `main.c`, `UDPsockets.c` and `UDPthreads.c` | the same threads; another use of buffers and lengths |
| mailbox test | `src/dump/listMonitorTest.c` | `messageList`, two threads of each kind | `testConsume`, `testProduce`, `main` |

How they interact. The reader puts the user's lines into `hostMsg`, the sender
takes them out and sends them. The receiver puts datagrams into `remoteMsg`, the
display takes them out and writes them. A message equal to `!` sets
`shutdownFlag`, which each thread looks at once per round; so that a thread
blocked in `produce()` gets to look, whoever sees `!` puts a bare `!` into the
mailbox of another thread. `main` joins the four threads and destroys the
mailboxes. (`consume` and `produce` are named from the mailbox's side: a writer
calls `consume`.)

The one fact that shapes everything above the library: **`List_create` starts
the library's memory afresh on every call and hands out the same head each
time**, so `hostMsg` and `remoteMsg` point to one list, each under its own mutex.

What is hard here:

* links, cursor, status flag and node pool must agree after any sequence of
  calls, and a wrong link shows only some calls later;
* two mutexes for one list: the while tests of `consume()` and `produce()` are
  stale when the list operation runs, two threads can be in the list at once,
  and the wakeup goes to the wrong condition variable;
* termination: which thread takes which escape character is open, and one that
  nobody takes is still in the list when it is destroyed;
* bytes nobody wrote: a bare `!` is stored without a terminator, buffers are read
  before they are written and are not always cleared.

What makes each component correct: for the *list library*, that it is a list (one
chain both ways, no node lost, each function does what `list.h` says) and, as the
mailboxes use it, a first-in first-out queue; for the *mailboxes*, that they are
blocking queues (mutual exclusion, the bound, no stale test, no lost wakeup,
calls that can be served are served); for the *process*, that messages are shown
once and in order, that it ends when and only when asked, and without a crash;
for *two peers*, that neither ends unasked and neither screen shows what nobody
typed, whatever the network does.

`PROJECT.json` lists the hazards at their lines with the properties that watch
them.

## 2. Modules

| Module | Models |
|---|---|
| `ListHeap` | `list.c` as operators on a heap; pointers are indices, `NULL` and `Wild`; using one of these as a node sets `fault` |
| `DumpHeap` | `dump/list.c` on the same heap |
| `ListClient` | a client that calls any function of one of the two libraries in any order; the properties of the libraries |
| `QueueLinks` | what repeated `List_trim` does to a list's links: whole, cut, lost; or always sound in `dump/list.c` |
| `ListQueue` | abstract: the FIFO queue that `List_prepend`/`List_trim` are, with its breaking |
| `MessageLists` | `consume()`/`produce()`: program points, mutexes, condition variables |
| `BlockingQueue` | abstract: put and get that take effect in one step |
| `MailboxClients` | the test program of `dump/listMonitorTest.c`: writers, readers, `main`, destruction |
| `TrimRace` | two threads in `produce()` on one list under two mutexes, `List_trim` in the steps of its code |
| `STalk` | a process: `MessageLists` with the four threads and `main` |
| `DumpTalk` | the older process, where it differs from `STalk`; either of the two |
| `Peer` | abstract: what a process does to messages, without threads, locks or lists |
| `Chat` | two `Peer`s and the network |
| `MCListClient`, `MCMailboxClients`, `MCTrimRace`, `MCSTalk`, `MCChat` | constants for TLC |
| `ListClientProofs`, `ListQueueProofs`, `MessageListsProofs`, `MailboxClientsProofs`, `STalkProofs`, `DumpTalkProofs`, `PeerProofs`, `ChatProofs` | theorems |

`ListClient` extends `ListHeap` and `DumpHeap`; `STalk` and `MailboxClients` extend
`MessageLists`, which takes the behaviour of the list from `QueueLinks`; `Chat` has
two instances of `Peer`. Each joint between two levels is checked: run *ListQueue*
shows that the detailed lists implement `ListQueue`, built from the same operator
`Trimmed`; run *MailboxOne* that the mailbox implements `BlockingQueue`; run
*STalkLive* that the process implements `Peer`; each is also proved (section 4). Run
*ListQueue* and theorem `AllListsAreOne` justify that `MCSTalk` gives both mailboxes one list.

State and actions against the code:

* `heap` is the static memory of the list library, `library` which of the two it is;
  `held` the client's `List*` variables; `call` the last call and its result.
* `queue[l]` is the list from its tail to its head, oldest message first; `links[l]`
  the state of its links; `access[m]` the holder of a mutex; `at[t]` the call of
  thread `t` with its buffer. `LockAndPass` and `LockAndWait` are
  `pthread_mutex_lock` with the while test; a woken thread starts there again.
  `Prepend` and `Trim` are the rest of the call up to the unlock. Between them the
  thread is "holding": where a second thread can come in by the other mutex.
* `pc[t]` is where a thread of `STalk` is outside of calls; `Check` is
  `while(!getShutdownFlag())`; `EscapeOrLoop` is `isEscapeChar` and what hangs on it.
* `typed`, `arrived`, `shown` and `sent` are history: what came in, what was written,
  what `sendto` took.
* `left[t]` of `MailboxClients` is the rest of a thread's loop, `program` how the
  program ended.
* `process` becomes "failed" (`exit(EXIT_FAILURE)` in a setup), "crashed" (a fault
  in `List_trim` or `List_free`), "undefined" (two threads tore the list, or
  `freeaddrinfo` got the pointer that a failing `getaddrinfo` has not set) or
  "exited".
* In `Peer`, `inside` counts each message between being read by its thread and being
  taken out of the list; `buffer` and `full` are the sender's and the display's.

### Abstractions

* A message is a model value. `Bang` is `!`; `RawBang` is the one byte that
  `consume(.., escapeChar, 1)` stores without a terminator: read back it is `Bang` or,
  with the bytes behind it, `Junk`. A buffer before its first message holds `Junk`,
  a cleared one `Blank`. Lengths are left out (lines of 1000 bytes and more are
  rejected by the reader: `ReadNothing`).
* A list operation is one step. When two threads are in the operations of one
  list, either they happen one after the other or `TearList` ends the run of
  the model: nothing is claimed about the process after that.
* `List_search` gets the set of items its comparator accepts. NULL lists, items
  and function pointers, which `list.h` leaves to the caller, are not passed.
* The sockets of `STalk` are reduced to "a datagram arrives" and "sendto succeeds or
  fails". In `Chat` a datagram that one process has sent may arrive at the other at
  any later time, any number of times, or never, in any order.
* `Peer` has no termination and does not say which thread takes what: it is what
  is left when the four threads may do anything their lists and locks allow. A
  thread that has seen `!` may go on putting escape characters inside. It promises
  nothing about a process that crashed or tore its list except that it stops.
* `TrimRace` goes by statements, a call of a helper being one step. The compiler and
  the memory order allow more than that; what it shows is possible already so.

### Conformance of ListHeap and DumpHeap

Independently of TLC's properties, the operators were compared with the compiled
libraries. For `list.c`: for every state of `ListClient` with two nodes (all
functions), and to depth nine with three, the set of (memory, held lists, call,
result, fault) reached by the C functions and by the operators was the same. For
`dump/list.c` the same holds of every state with two and with three nodes.

## 3. Runs

| Run | Question | Instance |
|---|---|---|
| ListCursor | do cursor, insertion, search and trim functions of either library keep links, pool and contents, and what does one `List_remove`, `List_concat` or `List_free` after them do to the memory? | 4 nodes, 2 items and one list by two names, both symmetric; 142 204 states |
| ListQueue | is what s-talk uses of either library a FIFO queue, one list for all, and when does `List_free` fault? | 4 nodes; 16 550 states |
| MailboxOne | is a mailbox with its own list a blocking queue, safe and live, over either library, and does the test program end? | 2 writers, 2 readers, 3 calls each, 3 messages; 314 380 states |
| STalkSafe | what do the newer and the older process do right in spite of the shared list? | 1 line, 2 datagrams (2 inputs for the older one, 1 fewer when it shuts down), 2 messages, texts symmetric; 973 968 states |
| STalkLive | are messages and `!` heard, and is the process a `Peer`? | 1 line, 1 datagram, 1 message; 347 479 states |
| Chat | what survives a network that loses, duplicates and reorders? | a line there and back (3 inputs in all), or 2 messages one way; 1 919 704 states |

Four nodes let a list hold three items, trim them one by one (cut, lost, fault)
and still have an unused node; with three the pool runs empty as well. A mailbox of
three messages meets empty, partly filled and full, with threads waiting on each
side; a second thread of each kind is what lost wakeups and stale tests need, and
three calls for each thread are enough to reach the crash of `list.c` that takes
three messages. In `STalk` the bounds `MaxTyped` and `MaxArrived` limit what comes in
from outside; no bound is on anything the program does. The
constraint `FewInputs` of `MCSTalk` allows the newer program all three inputs, and two
once it shuts down: these two and the escape characters they set off fill the two
places twice over. Of the older program two inputs, and one when it shuts down,
are enough for each of its differences: a first datagram read past its end, one after
it, and a list with messages in it when it is destroyed. What the theorems say has no
such bound.
In `Chat` the bounds of `Short` limit inputs and repetitions, in two ways. `ThereAndBack`:
one message sent by each and three inputs let a line travel to the other side, come
back by the sender that takes it out of the shared list, and meet a "!" of either
user. `TwiceOrSwapped`: two lines of one user, two messages sent and two datagrams
arriving on the other side let one of the messages arrive twice, the second arrive
first, or either be lost. The theorems on `Chat` have none of these bounds.

What the properties say, in short (the comments in the modules say it in full):

* list: the chain forwards is the chain backwards and as long as `num_nodes`
  (`ListsLinked`), no node is lost or in two places (`NodesConserved`), each call changes
  the contents as `list.h` says, but for the insertions that `Misled` names
  (`ContentsFollowCalls`), a search is exact and ends unless a stale status makes it go on
  for ever (`SearchIsExact`, `SearchEnds`);
* list as s-talk uses it: `IsListQueue`, a refinement of `ListQueue`;
* mailbox: `IsBlockingQueue` and, with fairness, `ServesItsCallers`, a refinement of
  `BlockingQueue`; under them `TestStillHolds`, `Bounded`, `NoLostWakeup`. `TestEnds`:
  the test program comes to its end or to the crash; `CrashTakesThree`: to the crash only
  with `list.c` and three messages, more than the test as it is written sends;
* process: `ShutdownIsAskedFor`, `EachGoesOneWay`, `ShownInOrder`, `Bounded`, `EveryMessageTaken`,
  `EscapeIsHeard`. They hold *with* the shared list, stale tests and races up to a torn
  list: they are what is left of the promises. `EachGoesOneWay` says that a message is
  shown or sent, not both, and once, but for the repetitions of the sender, whose
  buffer is never cleared;
* process from outside: `IsPeer`, a refinement of `Peer`;
* two processes: `ClosingWasAsked`, `ShownWasTyped`.

No run checks deadlock: every instance may stop, after a fault, after an ending
call, when a program has ended, or when nothing more comes in. That a program does
not stop before its end is said by the liveness properties instead (`TestEnds`,
`EveryMessageTaken`), and where it does by *STalkPeerBang*.

*ListCursor* has a careful client (`CarefulSpec`). It calls `List_trim` of `list.c` only on
lists of at most two items (`TrimsShort`): a longer list is broken by it, which
*ListQueue* describes and *ListTrimThree* shows. It does not call
`List_insert_before` of `list.c` when the cursor is on a node behind the first but the
status says that it is before the start (`HeedsStatus`): that loses nodes, as is
said below. This takes a cursor on the second of three items and a fourth node to insert,
and a run with three nodes does not meet it. In the list runs the client stops
after the first call that ends a list or breaks it in `List_remove` (`Ended`); only after
`List_free` it may call that once more (`FreesAgain`), as `main` does for the second
mailbox (`main.c:51-52`).

### Where the code does not do what it says

Each of these runs ends in a counterexample; `PROJECT.json` quotes the statement.

| Run | Shows |
|---|---|
| ListInsert | with the cursor beyond the end, `List_insert_before` inserts at the start (`list.h:88`: at the end) |
| ListTrimThree | three items, three `List_trim`: null pointer (the arguments of `unlinkNodes` are shifted by one) |
| TrimRace | two threads in `List_trim` free one message twice (`README.txt` item 6, "FIXED") |
| STalkOwnMessages | the second list is the first one, and the user's own line is shown to the user (`README.txt` item 5, "FIXED") |
| STalkPeerBang | after the peer's `!` and an Enter the process does not end |
| STalkCrash | ending the process crashes it (`README.txt` item 4, "IN PROGRESS") |

`ListHeap` and `DumpHeap` reproduce further departures from `list.h` that s-talk's
own calls do not meet and that have no run of their own. In `list.c`:
`List_insert_after` with the cursor
before the start uses the null cursor (`list.c:263`), and with the status still beyond the
end and the cursor on a node inserts at the end (`list.c:258`); after a re-entry
`List_next` stays at the first item, as the status is not reset (`list.c:199`);
with that stale status, and the cursor moved on by `List_insert_after`,
`List_insert_before` makes the new node the head wherever it puts it, so that the
nodes before it are neither on the list nor unused (`list.c:303`);
`List_remove` does not decrement `num_nodes` and loses items around the one it
removes (`list.c:347`); `List_free` of a list that is not empty always faults
(`list.c:348`; this one is part of *ListQueue*); `List_concat` does the work of
the empty and of the other case the wrong way round (`list.c:392`). In `dump/list.c`:
`List_remove` of the last item leaves the tail at a node of the pool (line 323);
`List_free` with the status out of bounds frees the first item again and again (line
371), and `List_search` then can look for ever (line 426); with a stale status `List_add` and
`List_insert` put the item on the other side of the cursor (lines 249 and 278).

`PromisedPosition` is where `list.h:76-98` puts the item of an insertion, whatever the code
does; `Misled` names the five states in which an insertion of one of the libraries
goes elsewhere. `ContentsFollowCalls` holds every other insertion to the promise, and
these to putting the item in somewhere and losing nothing.

A departure that depends on the limit: with `MAX_NUM_MESSAGES` 1 the reader can stay
blocked for space in `hostMsg` for ever beside an empty list, since the display makes
the space and signals `remoteMsg`'s condition variable (`UDPthreads.c:55`). With the code's
limit of 10 it does not come to that: the display alone cannot take the list below
the limit by more than two messages before `List_trim` crashes, and a message taken by
the sender wakes the reader. (`EscapeIsHeard` without its exception for a blocked
reader holds in an instance with limit 3 and four lines typed: 2 109 874 states.)

### Fairness

`MailboxClients`: weak fairness of each thread and of `main`, whose loops run to their
ends by themselves. A mutex is handed to anybody who wants it, so no single call is promised
to end: `Serves` promises that *some* pending put, or get, is served.
`STalk`: weak fairness of each thread and of `main`, which is what a preemptive
scheduler gives. The user typing and datagrams arriving are not fair. *STalkPeerBang*
adds one assumption, that the user goes on pressing Enter, because the message
of the program asks for it.

## 4. Proofs

All theorems hold for any number of threads, mailboxes, lists and messages and
any capacity, under the named assumptions on the constants
(`HeapAssumption`, `ClientAssumption`, `MailboxAssumption`, `ClientsAssumption`, `STalkAssumption`)
and those that a theorem names itself.

### The list libraries

* `AllListsAreOne`: every owner's list is head `LIST_MAX_NUM_HEADS - 1`, in either library. The
  invariant is that each owner holds that head or none.
* `ListClientTypeCorrect`: under any client that calls any functions in any order, also on
  lists that an earlier call has broken, the memory stays of the set `Heap`: no write is
  outside of `freeLists`, and a link, end or cursor is a node, `NULL` or `Wild`. One
  lemma for each helper and each function of either library says that it maps `Heap` to
  `Heap`. The loops of `List_free` and `List_search` and the chains of links are
  recursive functions. That such a function has the values its definition gives
  (`Iterated`), and that its rounds keep to a set (`LoopStays`), is shown without an
  induction rule: a least number of rounds for which it fails would have one before
  it (`Smallest`, from the library's theorem that the naturals are well founded).
  `ChainFollows` says what a chain is.
* `ListsStayLinked`, `NodesStayConserved` and `FreeGivesAllBack`, under `CarefulSpec`. The
  inductive invariant is `KeptSafely`: the memory is typed, the held list is the last
  head, `FreeReturnsEverything` holds, and as long as no fault and no ending call has
  happened the held list is `Whole`. That does not compute chains, as `Linked` does, but
  names them: there are nodes `u[1..n]` from head to tail, linked both ways and
  counted by `num_nodes`, and nodes `p[1..m]` in the order in which `freeNodes` gives
  them out, all different and together every node, with the cursor on `u` or null
  (`Intact(h, l, u, n, p, m)`). Each function then becomes an operation on two
  sequences: a pool without its first, `u` with a node put in at the cursor (`Into`), without its last,
  or without the cursor's (`Without`). For `dump/list.c` the invariant also holds that
  the status tells where the cursor is (`StatusFits`): its insertions go by the status
  alone. `list.c` has no such invariant, because of line 199, which is why `HeedsStatus` is
  assumed; the attempt to prove it without was what found `list.c:303`.
  `ListsLinked` itself is not inductive: it says nothing of the pool, from which
  the next insertion takes its node. The chains that `Linked` and `UnusedNodes`
  compute are `u` and `p` (`IntactChains`).
* `RemoveAlwaysFrees`, `SearchAlwaysExact` and `ContentsAlwaysFollow`: the three action
  properties of *ListCursor*, from the same invariant. `List_remove` of `list.c` does break the
  list, but what it gives back is first in the pool. For the searches, the loop is followed to the first match.
  The contents need one invariant more (`CursorKept`): a status "on the list" means
  that the cursor is not null. An insertion at the cursor is then `InsertAt` at the place
  where the code puts it (`PlaceTaken`; `InsertionsFollow`, `DumpInsertionsFollow`), and
  that is the `PromisedPosition` unless the insertion is `Misled` (`PlaceIsPromised`).

* `MailboxListIsQueue` (`ListQueueProofs`): a client that calls what s-talk calls (`Ops \subseteq MailboxOps`),
  and trims lists of any length, sees the queue `ListQueue`. `Put` is a `List_prepend` that
  succeeds, `Get` a `List_trim` that returns an item, `Count` and `Free` are the calls of that
  name, faults are faults, and `List_create` is a stutter. `Intact` does not describe a list
  of `list.c` after `List_trim` has cut it: a prev link is gone, later the tail, and the
  last node may point on into the pool. The inductive invariant is therefore
  `QueueKept`: the list is `Usable`, that is whole, or `Broken` and still `Strung`: its `num_nodes`
  nodes are linked forwards from the head, with no node before the first, and none of
  them is unused. `n + m = LIST_MAX_NUM_NODES` takes the place of `Cover`, so that
  `List_prepend` fails exactly when the queue is full. Queue and links, as the refinement
  computes them from the memory, follow from the names of the nodes (`QueueIs`,
  `LinksAre`). Each call has one lemma on what is seen of it (`PrependUsable`,
  `TrimUsable`, `CountUsable`, `FreeUsable`). The three trims are `TrimCuts`, `TrimLoses` and
  `TrimFaults`: the first two return the right item, which is why the damage shows so late.
  In `dump/list.c` the invariant also holds that the cursor is on a list that is not
  empty; without it `List_free` would turn for ever (`DumpFreeEmpties`).
* `MailboxFreeGivesAllBack`: for the same client, from the same invariant, what
  `FreeGivesAllBack` says for a careful one, and for `main`'s second `List_free` of the list
  (`FreedAgain`): what makes it harmless is that the list is empty by then and that
  `produceFreeList` looks at `flIndex` first.

So each joint between two levels that a run checks is proved as well, under the
assumptions its theorem names: `MailboxListIsQueue`, `MailboxIsBlockingQueue`, `STalkIsPeer`.
What connects the first two is that `ListQueue` and `MessageLists` take the damage from
the same operator `Trimmed`; that calls on one list do not overlap, as `ListQueue`
supposes, is `NoRace`, and where they do is the matter of `TrimRace`.

### The mailboxes

* `MessageListsProofs` proves that a *monitor step*, whatever program takes it,
  preserves in turn `MailboxTypeOK`, `MutualExclusion`, `Bounded`, `TestStillHolds` and
  `NoLostWakeup`. `Bounded` is stronger than a bound on the length: it also counts the
  mailboxes through which a thread has passed the space test and not yet put its
  message in (`Committed`); without them it would not be inductive.
* `TypeCorrect`, `MutexHolds`, `ListsBounded` apply this to `MailboxClients`, `STalkBounded` to the
  whole process, `BothBounded` to the older one as well, whichever lists the mailboxes
  point to: two mailboxes on one list overshoot the limit by one message and no more.
* `TestsHold`, `NoRace` and `NoWakeupIsLost` assume `OwnLists`, a list for each mailbox. That
  is the assumption the code of `consume()` and `produce()` makes and `List_create` breaks:
  `STalk` with one list violates both `TestStillHolds` and `NoDataRace`. `NoWakeupIsLost` also
  assumes a node for every message. It is inductive with `TestStillHolds`: a step changes
  what a mailbox can still serve (`Demand`) and who is on his way by one each, and the
  signal of a call that ends brings one sleeper of the other side on his way.
* `ThreeCallsToCrash`: the crash of `list.c` takes three calls of
  `consume()` and a third of `produce()`. The invariant `Backlog` counts: what is in a list
  was put in by calls that have ended, damage to its links (`Damage`) was done by calls
  that have ended, and before the first damage three messages were in it. A call that is
  still going on must not be counted, or the step that ends it would not keep the
  count.
* `MailboxIsBlockingQueue`: one mailbox with its own list and enough nodes implements
  `BlockingQueue`. `Prepend` maps to `Put`, `Trim` to `Get`, entering a call to `Invoke`, everything
  else (locks, waits, wakeups, the crash, `main`) to a stutter. `TestStillHolds` gives the
  guards of `Put` and `Get`.

### The process

* `STalkTypeCorrect`, and `BothTypeCorrect` for either program: the type invariant.
* `ShutdownAskedFor`, and `BothAskedFor` for either program: until somebody says `!`, no
  buffer and no list holds an escape character, terminated or not (`Quiet`), so nothing
  can set the flag. `ShutdownIsAskedFor` alone is not inductive: the flag follows from a
  buffer, the buffer from a list.
* `STalkIsPeer`: the process implements `Peer` (its safety part; `Peer` has no other). A step of a
  thread maps to what it does to messages: a line read to `Type`, a datagram received to
  `Arrive`, an escape character passed on to `Close`, `Trim` to `Take` or `TakeNothing`, writing to `Show`,
  `sendto` to `Send` or `SendFails`; calls, locks, waits, wakeups and `Prepend` to a stutter. It needs the number of copies of a message inside: those in calls of
  `consume()` and those in lists (`Found`). A message put at the end of a list adds
  one (`FoundAppended`), one taken out removes one (`FoundTail`), and `Prepend` moves one from the
  first to the second. `Roles` says which thread is in calls of which function.
  It is assumed that the list library has a node for each message the mailboxes let in
  (`RoomForAll`: `MAX_NUM_MESSAGES`, 10, below `LIST_MAX_NUM_NODES`, 100); without one
  `List_prepend` fails and `consume()` loses its message.
* `PeerGoesOneWay`: for each message, what is inside, in the buffers, shown, and sent
  (repetitions of the sender not counted) is together at most what came in (`NoCopies`).
  The message in the sender's buffer counts only as long as sending it would not be
  a repetition (`Owed`). `STalkGoesOneWay` follows through `STalkIsPeer`, as does
  `STalkMakesNothingUp` from `PeerMakesNothingUp`. The steps of the older program that are not
  steps of a `Peer`, a first datagram read past its end, keep the count too (`GarbledKeeps`):
  `BothGoOneWay`.
* `STalkShowsInOrder`, and `BothShowInOrder` for either program, need the order *in* the list as
  well. A message of the peer on its way to the screen is in the receiver's hand, in
  the list of `remoteMsg`, in the display's buffer, or shown; `Ways` and `Placed` say that it
  is nowhere else and came by the receiver, `LinedUp` that of two that arrived in order the
  later one is nowhere ahead. Each step of any thread does one of five things to that
  way (`Moves`: leaves it as it is, shows, puts in, takes out, or lets one arrive), and
  each of the five keeps the order. Neither enough nodes nor separate lists are
  assumed.

### Two processes

* `PeerMakesNothingUp`: what is inside a peer, in its buffers, sent or shown has come in,
  or is empty or unwritten; the bare escape characters follow a `!` that came in.
* `NobodyShutsDownUnasked` and `NothingIsMadeUp` rest on it for each side, and on `Delivered`: what
  has arrived at one side was sent by the other *and* was typed by one of the two
  users. Without the second part a message could be justified by the other side's
  screen and that one by this side's, in a circle.

### Only model-checked

* All liveness, which is out of the prover's reach: `ServesItsCallers`, `TestEnds`,
  `EveryMessageTaken`, `EscapeIsHeard`.
* `SearchEnds`, which search goes on for ever: the proofs follow a search that returns.

## 5. Not modelled, and the plan

Not modelled: allocation and its failures; message lengths, beyond a missing
terminator; the unused helpers `consumeFreeList` and the debugging output of `list.c`;
what a process does after its list has been torn (`TrimRace` shows one way it
is); removals from a list that `List_remove` has already broken.

Done: the list libraries, the mailboxes and their test, the process, the older
process, two processes and the network, the race in `List_trim`.

What is left, in the order of what it adds:

1. termination: which distributions of the escape characters let all four threads
   end, as a refinement of a small abstract protocol;
2. `List_prepend` against `List_trim` in the manner of `TrimRace`.
