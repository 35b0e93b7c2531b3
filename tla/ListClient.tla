----------------------------- MODULE ListClient -----------------------------
(***************************************************************************)
(* A sequential client of a list library, list.c or the older dump/list.c: *)
(* one action per function, on the lists that List_create has handed out.  *)
(*                                                                         *)
(* s-talk uses List_create, List_prepend, List_trim, List_free and reads   *)
(* num_nodes; the constant Ops chooses the functions a run lets the client *)
(* call.  As in main(), lists are created before they are used.            *)
(***************************************************************************)
EXTENDS DumpHeap, FiniteSets, SequencesExt

CONSTANTS
  Item,    \* the item pointers the client may store
  Owner,   \* the client's list variables (hostMsg and remoteMsg in main)
  Ops      \* the functions this client calls

VARIABLES
  library, \* "list.c" or "dump/list.c"
  heap,    \* the static memory of the library
  held,    \* the list each owner holds
  call     \* the last call: function, argument and result

vars == <<library, heap, held, call>>

OpNames ==
  {"List_create", "List_first", "List_last", "List_next", "List_prev",
   "List_curr", "List_count", "List_insert_after", "List_insert_before",
   "List_append", "List_prepend", "List_remove", "List_trim", "List_concat",
   "List_free", "List_search"}

ASSUME ClientAssumption ==
  /\ NoItem \notin Item
  /\ Ops \subseteq OpNames

NoCall == [fn |-> "none", arg |-> NoItem, ret |-> NoItem]

Init ==
  /\ library \in {"list.c", "dump/list.c"}
  /\ heap = StaticHeap
  /\ held = [o \in Owner |-> NoList]
  /\ call = NoCall

\* What the function in list.c does, or the one in dump/list.c.
OfLibrary(newer, older) == IF library = "list.c" THEN newer ELSE older

\* Lists are created before the first of them is used.
Create(o) ==
  /\ "List_create" \in Ops
  /\ held[o] = NoList
  /\ call.fn \in {"none", "List_create"}
  /\ LET r == OfLibrary(List_create(heap), DumpCreate(heap))
     IN  /\ heap' = r.heap
         /\ held' = [held EXCEPT ![o] = r.ret]
         /\ call' = [fn |-> "List_create", arg |-> NoItem, ret |-> r.ret]
  /\ UNCHANGED library

\* A function with a heap and a result; after a fault the program is gone.
Perform(fn, arg, r) ==
  /\ fn \in Ops
  /\ ~heap.fault
  /\ heap' = r.heap
  /\ call' = [fn |-> fn, arg |-> arg, ret |-> r.ret]
  /\ UNCHANGED <<library, held>>

Navigate(l) ==
  \/ Perform("List_first", <<>>, List_first(heap, l))
  \/ Perform("List_last", <<>>, List_last(heap, l))
  \/ Perform("List_next", <<>>, List_next(heap, l))
  \/ Perform("List_prev", <<>>, List_prev(heap, l))
  \/ Perform("List_curr", <<>>, List_curr(heap, l))
  \/ Perform("List_count", <<>>,
       [heap |-> heap, ret |-> OfLibrary(List_count(heap, l), DumpCount(heap, l))])

Insert(l, item) ==
  \/ Perform("List_insert_after", item,
       OfLibrary(List_insert_after(heap, l, item), List_add(heap, l, item)))
  \/ Perform("List_insert_before", item,
       OfLibrary(List_insert_before(heap, l, item), List_insert(heap, l, item)))
  \/ Perform("List_append", item,
       OfLibrary(List_append(heap, l, item), DumpAppend(heap, l, item)))
  \/ Perform("List_prepend", item,
       OfLibrary(List_prepend(heap, l, item), DumpPrepend(heap, l, item)))

TakeOut(l) ==
  \/ Perform("List_remove", <<>>,
       OfLibrary(List_remove(heap, l), DumpRemove(heap, l)))
  \/ Perform("List_trim", <<>>, OfLibrary(List_trim(heap, l), DumpTrim(heap, l)))

Search(l, match) ==
  Perform("List_search", match,
    OfLibrary(List_search(heap, l, match), DumpSearch(heap, l, match)))

\* The list of owner o ends here and its variable is not used again.
GiveUp(fn, o, h) ==
  /\ fn \in Ops
  /\ ~heap.fault
  /\ heap' = h
  /\ held' = [held EXCEPT ![o] = NoList]
  /\ call' = [fn |-> fn, arg |-> NoItem, ret |-> NoItem]
  /\ UNCHANGED library

Concat(o1, o2) ==
  GiveUp("List_concat", o2,
    OfLibrary(List_concat(heap, held[o1], held[o2]),
              DumpConcat(heap, held[o1], held[o2])))

Free(o) ==
  GiveUp("List_free", o,
    OfLibrary(List_free(heap, held[o]), DumpFree(heap, held[o])))

Holding == {o \in Owner : held[o] # NoList}

HeldLists == {held[o] : o \in Holding}

Next ==
  \/ \E o \in Owner : Create(o)
  \/ \E l \in HeldLists :
       \/ Navigate(l)
       \/ TakeOut(l)
       \/ \E item \in Item : Insert(l, item)
       \/ \E match \in SUBSET Item : Search(l, match)
  \/ \E o \in Holding :
       \/ Free(o)
       \/ \E o2 \in Holding \ {o} : Concat(o, o2)

Spec == Init /\ [][Next]_vars

-----------------------------------------------------------------------------
\* The nodes and the items of a list, from its head to its tail, and the
\* unused nodes in the order freeNodes gives them out.
NodesOf(h, l)  == Chain(h, h.list[l].head, "next")
UnusedNodes(h) == Chain(h, h.list[freeNodes].tail, "prev")

ItemsAlong(h, chain) == [i \in DOMAIN chain |-> h.node[chain[i]].item]
ItemsOf(h, l)  == ItemsAlong(h, NodesOf(h, l))

NodesIn(chain) == {chain[i] : i \in DOMAIN chain}

\* The last call has ended a list, or taken an item out of its middle in a way
\* that breaks it: List_remove of list.c always does, that of dump/list.c when
\* it takes the last item, because it leaves the tail where it is.
Ended ==
  \/ call.fn \in {"List_concat", "List_free"}
  \/ /\ call.fn = "List_remove"
     /\ \/ library = "list.c"
        \/ \E l \in HeldLists :
             heap.list[l].tail \notin NodesIn(NodesOf(heap, l)) \union {NULL}

\* main() ends both mailboxes and so frees the one list twice (main.c:51-52): the
\* second List_free gets a head that is free already.
FreesAgain == call.fn = "List_free" /\ call'.fn = "List_free"

\* The client stops after the first call that ends a list or breaks it in
\* List_remove, as later calls would work on what that one left behind, but for
\* the List_free of whoever else holds a list that is free.
EndSpec == Init /\ [][Next /\ (Ended => FreesAgain)]_vars

\* A client of list.c that trims lists of at most two items only: a longer one
\* is broken by it (QueueLinks).
TrimsShort ==
  call'.fn = "List_trim" /\ library = "list.c" =>
    \A l \in HeldLists : heap.list[l].num_nodes <= 2

\* One that does not insert before the cursor when the cursor is on a node behind
\* the first but the status, which List_next leaves alone when it comes back to
\* the list (list.c:199), still says that it is before the start: list.c then
\* makes the new node the head wherever it is (list.c:303) and loses those before.
HeedsStatus ==
  call'.fn = "List_insert_before" /\ library = "list.c" =>
    \A l \in HeldLists : heap.list[l].status = "LIST_OOB_START" =>
                            heap.list[l].curr \in {NULL, heap.list[l].head}

CarefulSpec == Init /\ [][Next /\ TrimsShort /\ HeedsStatus /\ ~Ended]_vars

\* The memory of list.c has the shape of its declarations.
TypeOK ==
  /\ heap.node \in [NodeId -> [item : Item \union {NoItem},
                               next : Pointer, prev : Pointer]]
  /\ heap.list \in [ListId \union {freeNodes} ->
                      [head : Pointer, tail : Pointer, curr : Pointer,
                       num_nodes : Int, status : Status]]
  /\ heap.freeLists \in [ListId -> ListId \union {NoList}]
  /\ heap.flIndex \in -1 .. LIST_MAX_NUM_HEADS - 1
  /\ heap.fault \in BOOLEAN
  /\ held \in [Owner -> ListId \union {NoList}]

\* Every list is one chain from head to tail whose prev links are its next
\* links backwards, num_nodes is its length, and the cursor is on it: the
\* pointer surgery of the insertions and of List_trim (list.c:248-385) leaves
\* no dangling, crossed or one-way link, nor does List_remove of dump/list.c as
\* long as it is not the last item that it takes.
Linked(h, l) ==
  LET forward  == NodesOf(h, l)
      backward == Chain(h, h.list[l].tail, "prev")
  IN  /\ ~Cyclic(forward)
      /\ Len(backward) = Len(forward)
      /\ \A i \in DOMAIN forward : backward[Len(forward) + 1 - i] = forward[i]
      /\ h.list[l].num_nodes = Len(forward)
      /\ h.list[l].curr \in NodesIn(forward) \union {NULL}

ListsLinked ==
  heap.fault \/ Ended \/ \A l \in HeldLists : Linked(heap, l)

\* No node is lost or used twice: a node is on the list, or unused, and the
\* counter of freeNodes agrees (list.c:22-51).
NodesConserved ==
  heap.fault \/ Ended \/
  \A l \in HeldLists :
    LET used == NodesOf(heap, l)  unused == UnusedNodes(heap)
    IN  /\ NodesIn(used) \intersect NodesIn(unused) = {}
        /\ NodesIn(used) \union NodesIn(unused) = NodeId
        /\ Len(unused) = heap.list[freeNodes].num_nodes

-----------------------------------------------------------------------------
Insertions == {"List_insert_after", "List_insert_before", "List_append",
               "List_prepend"}

\* Where in the contents the cursor is; 0 when it is on no node.
CursorIndex(h, l) ==
  LET chain == NodesOf(h, l)
  IN  IF h.list[l].curr \in NodesIn(chain)
      THEN CHOOSE i \in DOMAIN chain : chain[i] = h.list[l].curr ELSE 0

\* Where list.h:76-98 says that an insertion puts its item: at an end of the
\* list, beside the cursor, or at the end that the cursor is beyond.
PromisedPosition(h, l, fn) ==
  LET cursor == CursorIndex(h, l)
      last   == Len(NodesOf(h, l)) + 1
      beyond == IF h.list[l].status = "LIST_OOB_START" THEN 1 ELSE last
  IN  CASE fn = "List_prepend"       -> 1
        [] fn = "List_append"        -> last
        [] fn = "List_insert_after"  -> IF cursor = 0 THEN beyond ELSE cursor + 1
        [] fn = "List_insert_before" -> IF cursor = 0 THEN beyond ELSE cursor

\* The insertions that end up elsewhere.  The cursor is beyond an end and list.c
\* uses it as a null pointer (list.c:263) or takes the other end (list.c:294); or
\* it has come back from beyond an end and the status, which still says that it
\* is there, sends the item to that end (list.c:258) or to the cursor's other
\* side (dump/list.c:249, 278).
Misled(h, l, fn) ==
  LET status == h.list[l].status
      cursor == CursorIndex(h, l)
      length == Len(NodesOf(h, l))
  IN  /\ length > 0
      /\ IF library = "list.c"
         THEN \/ fn = "List_insert_after" /\ status = "LIST_OOB_START" /\ cursor = 0
              \/ fn = "List_insert_after" /\ status = "LIST_OOB_END"
                                          /\ cursor \in 1 .. length - 1
              \/ fn = "List_insert_before" /\ status = "LIST_OOB_END" /\ cursor = 0
         ELSE \/ fn = "List_insert_after" /\ status = "LIST_OOB_START" /\ cursor > 0
              \/ fn = "List_insert_before" /\ status = "LIST_OOB_END" /\ cursor > 0

\* An insertion that nothing misleads puts its item where list.h says, and no
\* insertion puts it anywhere but into the contents as they were, with the cursor
\* on it; it fails exactly when no node is unused.  List_trim takes the last item
\* and returns it; List_remove of dump/list.c takes the cursor's and leaves the
\* cursor on the next; no other function, moving the cursor in whatever way,
\* changes the contents (list.c:248-385, dump/list.c:248-406).
ContentsFollow ==
  \A l \in HeldLists :
     LET old  == ItemsOf(heap, l)  new == ItemsOf(heap', l)
         fn   == call'.fn
         at   == CursorIndex(heap', l)
         lost == CursorIndex(heap, l)
     IN  /\ fn \in Insertions /\ ~Misled(heap, l, fn) => ~heap'.fault
         /\ ~heap'.fault /\ ~Ended' /\ fn # "List_create" =>
              CASE fn \in Insertions /\ UnusedNodes(heap) # <<>> ->
                     /\ call'.ret = "LIST_SUCCESS"
                     /\ at > 0 /\ new = InsertAt(old, at, call'.arg)
                     /\ ~Misled(heap, l, fn) => at = PromisedPosition(heap, l, fn)
                [] fn \in Insertions /\ UnusedNodes(heap) = <<>> ->
                     call'.ret = "LIST_FAIL" /\ new = old
                [] fn = "List_trim" /\ old # <<>> ->
                     call'.ret = Last(old) /\ new = Front(old)
                [] fn = "List_remove" /\ ~isListOOB(heap, l) /\ lost > 0 ->
                     /\ call'.ret = old[lost]
                     /\ new = RemoveAt(old, lost)
                     /\ CursorIndex(heap', l) = lost
                [] OTHER -> new = old

ContentsFollowCalls == [][ContentsFollow]_vars

\* A found item is one the comparator matches and the cursor is left on it; a
\* search that finds nothing has passed over no match from the cursor, or in
\* dump/list.c from the head when there is none, to the end of the list
\* (list.c:464-487, dump/list.c:409-432).
FoundExactly ==
  \A l \in HeldLists :
     LET from == CursorIndex(heap, l)
         rest == {i \in DOMAIN ItemsOf(heap, l) : i >= from}
         within == heap.list[l].status = "LIST_OOB_NONE" /\ from > 0
     IN  call'.fn = "List_search" /\ ~heap'.fault =>
           IF call'.ret # NoItem
           THEN /\ call'.ret \in call'.arg
                /\ heap'.node[heap'.list[l].curr].item = call'.ret
           ELSE OfLibrary(within, TRUE) =>
                  \A i \in rest : ItemsOf(heap, l)[i] \notin call'.arg

SearchIsExact == [][FoundExactly]_vars

\* A search comes to its end, except for one of dump/list.c that starts at a cursor
\* which has come back from beyond an end, on an item that is no match: for the
\* status it is still out there, and List_next takes it to the same end again and
\* again (list.c:464-487, dump/list.c:199-211, 419-427).
EndsUnlessStale ==
  \A l \in HeldLists :
     LET cursor == CursorIndex(heap, l)
     IN  call'.fn = "List_search" =>
           (heap'.fault <=> /\ library = "dump/list.c"
                            /\ heap.list[l].status # "LIST_OOB_NONE" /\ cursor > 0
                            /\ ItemsOf(heap, l)[cursor] \notin call'.arg)

SearchEnds == [][EndsUnlessStale]_vars

-----------------------------------------------------------------------------
\* The mailboxes of s-talk use three functions: consume() prepends, produce()
\* trims, both read num_nodes.
Result ==
  CASE heap.fault -> <<"fault">>
    [] ~heap.fault /\ call.fn = "List_prepend" ->
         IF call.ret = "LIST_SUCCESS" THEN <<"put">> ELSE <<"full">>
    [] ~heap.fault /\ call.fn = "List_trim" ->
         IF call.ret = NoItem THEN <<"empty">> ELSE <<"got", call.ret>>
    [] ~heap.fault /\ call.fn = "List_count" -> <<"count", call.ret>>
    [] ~heap.fault /\ call.fn = "List_free" -> <<"freed">>
    [] OTHER -> <<"none">>

TheList == LIST_MAX_NUM_HEADS - 1

\* The items, oldest first, are the first num_nodes ones from the head,
\* backwards.  (Behind them a broken list may go on into unused nodes.)
Queue ==
  LET chain == NodesOf(heap, TheList)  n == heap.list[TheList].num_nodes
  IN  [i \in 1 .. n |-> heap.node[chain[n + 1 - i]].item]

Links ==
  LET list == heap.list[TheList]
  IN  CASE library = "dump/list.c" -> "sound"
        [] list.head # NULL /\ list.tail = NULL -> "lost"
        [] library = "list.c" /\ list.head # list.tail /\ list.tail # NULL
             /\ heap.node[list.tail].prev = NULL -> "cut"
        [] OTHER -> "whole"

AbstractQueue == INSTANCE ListQueue WITH
  Message <- Item, Capacity <- LIST_MAX_NUM_NODES,
  q <- Queue, links <- Links, out <- Result

\* List_prepend, List_trim and num_nodes are a first-in first-out queue with
\* room for every node.  In list.c it loses its links and then its tail exactly
\* as QueueLinks says, and List_free faults exactly when it is not empty: its
\* loop ends at a null cursor, which List_remove, decrementing it, never leaves
\* (list.c:325-450 as UDPthreads.c:16-84 uses it).  In dump/list.c neither ever
\* happens (dump/list.c:311-406 as dump/listMonitor.c:8-79 uses it).
IsListQueue == AbstractQueue!Spec

\* Every owner of a list holds the same one: List_create starts the library's
\* memory afresh on each call and then hands out its last head
\* (list.c:106-143).  It is why the two mailboxes of STalk share a list.
OneListForAll ==
  \A o1, o2 \in Owner : held[o1] # NoList /\ held[o2] # NoList
                         => held[o1] = held[o2]

-----------------------------------------------------------------------------
(* What list.h says and list.c does not do.                                *)

\* list.h:104-105 - List_trim returns the last item and takes it out; it does
\* not end in an invalid memory access.
TrimNeverFaults == call.fn = "List_trim" => ~heap.fault

\* list.h:86-88 - List_insert_before puts its item before the cursor's, at the
\* start when the cursor is before the start, and "If the current pointer is
\* beyond the end of the pList, the item is added at the end".
InsertsBeforeAsPromised ==
  \A l \in HeldLists :
     call'.fn = "List_insert_before" /\ ~heap'.fault /\ call'.ret = "LIST_SUCCESS" =>
       ItemsOf(heap', l) = InsertAt(ItemsOf(heap, l),
                                    PromisedPosition(heap, l, "List_insert_before"),
                                    call'.arg)

InsertBeforeAsPromised == [][InsertsBeforeAsPromised]_vars

-----------------------------------------------------------------------------
(* The functions that end a list or take an item out of its middle.        *)

\* Whatever List_remove does to the links, it returns the cursor's item and
\* its node becomes the next unused one, ahead of all the others
\* (list.c:333-354).
CursorNodeFreed ==
  \A l \in HeldLists :
     LET at == CursorIndex(heap, l)
     IN  call'.fn = "List_remove" /\ ~heap'.fault =>
           IF isListOOB(heap, l) \/ at = 0
           THEN heap' = heap /\ call'.ret = NoItem
           ELSE /\ call'.ret = ItemsOf(heap, l)[at]
                /\ UnusedNodes(heap') = <<NodesOf(heap, l)[at]>>
                                           \o UnusedNodes(heap)

RemoveFreesCursorNode == [][CursorNodeFreed]_vars

\* When List_free returns, every node is unused again and freeLists has every
\* head to hand out, the freed one among them and once only, however often it is
\* freed (list.c:426-450).
FreeReturnsEverything ==
  call.fn = "List_free" /\ ~heap.fault =>
    /\ NodesIn(UnusedNodes(heap)) = NodeId
    /\ heap.flIndex = LIST_MAX_NUM_HEADS - 1
    /\ {heap.freeLists[i] : i \in 0 .. heap.flIndex} = ListId
=============================================================================
