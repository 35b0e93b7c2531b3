------------------------------ MODULE ListHeap ------------------------------
(***************************************************************************)
(* The doubly linked list library of list.c, as pure operators on a heap.  *)
(*                                                                         *)
(* All memory of list.c is static: LIST_MAX_NUM_NODES nodes, and           *)
(* LIST_MAX_NUM_HEADS list heads followed by one more head, freeNodes,     *)
(* that holds the unused nodes.  A node pointer is the node's index in the *)
(* array nodes[], NULL, or Wild: an address outside nodes[] that pointer   *)
(* arithmetic can produce.  Using NULL or Wild as a node sets "fault": the *)
(* C program has no defined behaviour from there on (in the build of the   *)
(* Makefile it is a segmentation fault).                                   *)
(*                                                                         *)
(* Every operator takes a heap and gives either a heap or, for the         *)
(* functions that return a value, a record [heap, ret].                    *)
(***************************************************************************)
EXTENDS Integers, Sequences

CONSTANTS
  LIST_MAX_NUM_HEADS,  \* number of list heads a client can be given
  LIST_MAX_NUM_NODES,  \* number of nodes shared by all lists
  NoItem               \* the NULL item pointer

ASSUME HeapAssumption ==
  /\ LIST_MAX_NUM_HEADS \in Nat \ {0}
  /\ LIST_MAX_NUM_NODES \in Nat \ {0}

NodeId == 0 .. LIST_MAX_NUM_NODES - 1
NULL   == LIST_MAX_NUM_NODES
Wild   == LIST_MAX_NUM_NODES + 1
Pointer == NodeId \union {NULL, Wild}

\* p-- on a Node pointer: the neighbour in the array nodes[], whatever list
\* it is in; one before nodes[0] and one before NULL are not nodes.
Decrement(p) == IF p \in NodeId \ {0} THEN p - 1 ELSE Wild

ListId    == 0 .. LIST_MAX_NUM_HEADS - 1
freeNodes == LIST_MAX_NUM_HEADS

Status == {"LIST_OOB_START", "LIST_OOB_END", "LIST_OOB_NONE"}

EmptyHead(status) ==
  [head |-> NULL, tail |-> NULL, curr |-> NULL, num_nodes |-> 0,
   status |-> status]

-----------------------------------------------------------------------------
(* Dereferencing.                                                          *)

Fault(h) == [h EXCEPT !.fault = TRUE]

\* The item a returned pointer stands for; reading it through a bad pointer
\* faults.
ItemAt(h, p) ==
  IF p \in NodeId THEN [heap |-> h, ret |-> h.node[p].item]
                  ELSE [heap |-> Fault(h), ret |-> NoItem]

Set(h, l, field, value) == [h EXCEPT !.list[l][field] = value]

-----------------------------------------------------------------------------
(* The helpers of list.c.                                                  *)

emptyList(h, l) ==
  LET pList == h.list[l]
  IN  /\ pList.head = NULL /\ pList.tail = NULL /\ pList.curr = NULL
      /\ pList.num_nodes = 0

isListOOB(h, l) == h.list[l].status \in {"LIST_OOB_START", "LIST_OOB_END"}

\* Takes the tail of freeNodes.  The new tail keeps its stale next pointer.
\* A pool tail is dereferenced, so a pool chain that ends in Wild faults.
consumeFreeNode(h, item) ==
  LET temp == h.list[freeNodes].tail
  IN  CASE temp = NULL -> [heap |-> h, ret |-> NULL]
        [] temp \in NodeId ->
             [heap |->
               [h EXCEPT !.list[freeNodes].tail = h.node[temp].prev,
                         !.list[freeNodes].num_nodes = @ - 1,
                         !.node[temp] = [item |-> item, next |-> NULL,
                                         prev |-> NULL]],
              ret |-> temp]
        [] OTHER -> [heap |-> Fault(h), ret |-> NULL]

\* Mutation: the old tail is not kept as the predecessor of the new one.
produceFreeNodeUnlinked(h, n) ==
  [h EXCEPT !.node[n] = [item |-> NoItem, next |-> NULL, prev |-> NULL],
            !.list[freeNodes].tail = n,
            !.list[freeNodes].num_nodes = @ + 1]

\* Puts a node at the tail of freeNodes.  When the node already is that tail
\* (freed twice) it becomes its own neighbour, as in the code.
produceFreeNode(h, n) ==
  LET temp == h.list[freeNodes].tail
      cleared ==
        [h EXCEPT !.node[n] = [item |-> NoItem, next |-> NULL, prev |-> NULL],
                  !.list[freeNodes].tail = n,
                  !.list[freeNodes].num_nodes = @ + 1]
  IN  IF temp = NULL THEN cleared
      ELSE [cleared EXCEPT !.node[temp].next = n, !.node[n].prev = temp]

\* Mutation: the index is advanced after the write instead of before it.
produceFreeListLate(h, l) ==
  [h EXCEPT !.list[l] = EmptyHead("LIST_OOB_START"),
            !.freeLists[h.flIndex] = l, !.flIndex = @ + 1]

\* Mutation: whether there is room is not looked at.
produceFreeListUnguarded(h, l) ==
  [h EXCEPT !.list[l] = EmptyHead("LIST_OOB_START"),
            !.flIndex = @ + 1,
            !.freeLists = [i \in DOMAIN @ \union {h.flIndex + 1} |->
                             IF i = h.flIndex + 1 THEN l ELSE @[i]]]

\* Resets a head and gives it back to freeLists if there is room for it.
produceFreeList(h, l) ==
  LET reset == [h EXCEPT !.list[l] = EmptyHead("LIST_OOB_START")]
  IN  IF h.flIndex < LIST_MAX_NUM_HEADS - 1
      THEN [reset EXCEPT !.flIndex = @ + 1, !.freeLists[h.flIndex + 1] = l]
      ELSE reset

\* Writes one link field of a node; NULL is skipped by the callers' tests.
SetLink(h, n, field, value) ==
  IF n = NULL THEN h
  ELSE IF n \in NodeId THEN [h EXCEPT !.node[n][field] = value] ELSE Fault(h)

\* As it is written: "node" is cut loose and its neighbours linked.
unlinkNodes(h, prev, node, next) ==
  LET cut == [h EXCEPT !.node[node].next = NULL, !.node[node].prev = NULL]
  IN  IF node = NULL THEN h
      ELSE SetLink(SetLink(cut, prev, "next", next), next, "prev", prev)

\* Mutation: only the forward link is set.
linkNodesOneWay(h, first, second) ==
  IF NULL \in {first, second} THEN h ELSE SetLink(h, first, "next", second)

linkNodes(h, first, second) ==
  IF NULL \in {first, second} THEN h
  ELSE SetLink(SetLink(h, first, "next", second), second, "prev", first)

-----------------------------------------------------------------------------
(* Following one link field from a pointer: the nodes met until a pointer  *)
(* that is no node.  A chain longer than LIST_MAX_NUM_NODES is cyclic.     *)

Chain(h, p, field) ==
  LET at[k \in 0 .. LIST_MAX_NUM_NODES] ==
        IF k = 0 THEN p
        ELSE LET before == at[k - 1]
             IN  IF before \in NodeId THEN h.node[before][field] ELSE before
      length == CHOOSE k \in 0 .. LIST_MAX_NUM_NODES + 1 :
                  /\ \A i \in 0 .. k - 1 : at[i] \in NodeId
                  /\ k <= LIST_MAX_NUM_NODES => at[k] \notin NodeId
  IN  [i \in 1 .. length |-> at[i - 1]]

Cyclic(chain) == Len(chain) > LIST_MAX_NUM_NODES

-----------------------------------------------------------------------------
(* List_create: every call starts all memory of the library afresh.        *)

NoList == -1

\* The static storage before the first call: all bytes are zero.
StaticHeap ==
  [node |-> [n \in NodeId |-> [item |-> NoItem, next |-> NULL, prev |-> NULL]],
   list |-> [l \in ListId \union {freeNodes} |-> EmptyHead("LIST_OOB_START")],
   freeLists |-> [i \in ListId |-> NoList],
   flIndex |-> 0,
   fault |-> FALSE]

\* Mutation: the first loop of List_create goes over all of lists[], which has
\* one head more than freeLists.
CreatedHeapAllHeads ==
  [node |-> [n \in NodeId |->
               [item |-> NoItem,
                next |-> IF n = LIST_MAX_NUM_NODES - 1 THEN NULL ELSE n + 1,
                prev |-> IF n = 0 THEN NULL ELSE n - 1]],
   list |-> [l \in ListId \union {freeNodes} |->
               IF l \in ListId THEN EmptyHead("LIST_OOB_START")
               ELSE [head |-> 0, tail |-> LIST_MAX_NUM_NODES - 1, curr |-> NULL,
                     num_nodes |-> LIST_MAX_NUM_NODES,
                     status |-> "LIST_OOB_NONE"]],
   freeLists |-> [i \in ListId \union {freeNodes} |-> i],
   flIndex |-> LIST_MAX_NUM_HEADS - 2,
   fault |-> FALSE]

CreatedHeap ==
  [node |-> [n \in NodeId |->
               [item |-> NoItem,
                next |-> IF n = LIST_MAX_NUM_NODES - 1 THEN NULL ELSE n + 1,
                prev |-> IF n = 0 THEN NULL ELSE n - 1]],
   list |-> [l \in ListId \union {freeNodes} |->
               IF l \in ListId THEN EmptyHead("LIST_OOB_START")
               ELSE [head |-> 0, tail |-> LIST_MAX_NUM_NODES - 1, curr |-> NULL,
                     num_nodes |-> LIST_MAX_NUM_NODES,
                     status |-> "LIST_OOB_NONE"]],
   freeLists |-> [i \in ListId |-> i],
   flIndex |-> LIST_MAX_NUM_HEADS - 2,
   fault |-> FALSE]

\* Mutation: the memory is set up by the first call only.
List_createOnce(h) ==
  LET ready == IF h.freeLists[0] = NoList THEN CreatedHeap ELSE h
      index == IF h.freeLists[0] = NoList THEN LIST_MAX_NUM_HEADS - 1
               ELSE h.flIndex
  IN  [heap |-> [ready EXCEPT !.flIndex = index - 1],
       ret  |-> ready.freeLists[index]]

\* The head returned is freeLists[flIndex--] right after the reset, so the
\* last one, whatever was created before.
List_create(h) ==
  [heap |-> [CreatedHeap EXCEPT !.fault = h.fault],
   ret  |-> LIST_MAX_NUM_HEADS - 1]

-----------------------------------------------------------------------------
(* Moving the cursor.                                                      *)

\* Mutation: the status is left as it was.
MoveToKeepingStatus(h, l, end) ==
  IF emptyList(h, l)
  THEN [heap |-> Set(h, l, "curr", NULL), ret |-> NoItem]
  ELSE LET p == h.list[l][end] IN ItemAt(Set(h, l, "curr", p), p)

\* List_first and List_last differ in the end of the list they move to.
MoveTo(h, l, end) ==
  IF emptyList(h, l)
  THEN [heap |-> Set(h, l, "curr", NULL), ret |-> NoItem]
  ELSE LET p == h.list[l][end]
       IN  ItemAt(Set(Set(h, l, "curr", p), l, "status", "LIST_OOB_NONE"), p)

List_first(h, l) == MoveTo(h, l, "head")
List_last(h, l)  == MoveTo(h, l, "tail")

List_curr(h, l) ==
  IF h.list[l].curr = NULL THEN [heap |-> h, ret |-> NoItem]
                           ELSE ItemAt(h, h.list[l].curr)

\* Out of bounds, List_next and List_prev call each other until the one that
\* sets the cursor to the near end is reached; neither resets the status.
ReEnter(h, l) ==
  LET end == IF h.list[l].status = "LIST_OOB_START" THEN "head" ELSE "tail"
  IN  List_curr(Set(h, l, "curr", h.list[l][end]), l)

Advance(h, l, field, beyond) ==
  LET curr == h.list[l].curr
      p    == h.node[curr][field]
      moved == Set(h, l, "curr", p)
  IN  CASE isListOOB(h, l)  -> ReEnter(h, l)
        [] ~isListOOB(h, l) /\ curr \notin NodeId ->
             [heap |-> Fault(h), ret |-> NoItem]
        [] ~isListOOB(h, l) /\ curr \in NodeId ->
             IF p = NULL
             THEN [heap |-> Set(moved, l, "status", beyond), ret |-> NoItem]
             ELSE ItemAt(moved, p)

List_next(h, l) == Advance(h, l, "next", "LIST_OOB_END")
List_prev(h, l) == Advance(h, l, "prev", "LIST_OOB_START")

List_count(h, l) == h.list[l].num_nodes

-----------------------------------------------------------------------------
(* Adding items.                                                           *)

\* Mutation: the new item is not counted.
InsertedUncounted(h, l, n) ==
  [heap |-> [h EXCEPT !.list[l].curr = n], ret |-> "LIST_SUCCESS"]

\* What both insertions end with.
Inserted(h, l, n) ==
  [heap |-> [h EXCEPT !.list[l].curr = n, !.list[l].num_nodes = @ + 1],
   ret  |-> "LIST_SUCCESS"]

InsertIntoEmpty(h, l, n) ==
  Inserted([h EXCEPT !.list[l].head = n, !.list[l].tail = n,
                     !.list[l].status = "LIST_OOB_NONE"], l, n)

Failed(h) == [heap |-> h, ret |-> "LIST_FAIL"]

List_insert_after(h, l, item) ==
  LET new   == consumeFreeNode(h, item)
      g     == new.heap
      pList == g.list[l]
      temp  == IF pList.status = "LIST_OOB_END" THEN pList.tail ELSE pList.curr
      linked == linkNodes(linkNodes(g, temp, new.ret), new.ret, g.node[temp].next)
  IN  CASE new.ret = NULL -> Failed(g)
        [] new.ret # NULL /\ emptyList(g, l) -> InsertIntoEmpty(g, l, new.ret)
        [] new.ret # NULL /\ ~emptyList(g, l) ->
             IF temp \notin NodeId THEN Failed(Fault(g))
             ELSE IF temp = pList.tail \/ pList.status = "LIST_OOB_END"
             THEN Inserted([linked EXCEPT !.list[l].status = "LIST_OOB_NONE",
                                          !.list[l].tail = new.ret], l, new.ret)
             ELSE Inserted(linked, l, new.ret)

List_insert_before(h, l, item) ==
  LET new   == consumeFreeNode(h, item)
      g     == new.heap
      pList == g.list[l]
      temp  == IF pList.curr # NULL THEN pList.curr ELSE pList.head
      linked == linkNodes(linkNodes(g, g.node[temp].prev, new.ret), new.ret, temp)
  IN  CASE new.ret = NULL -> Failed(g)
        [] new.ret # NULL /\ emptyList(g, l) -> InsertIntoEmpty(g, l, new.ret)
        [] new.ret # NULL /\ ~emptyList(g, l) ->
             IF temp \notin NodeId THEN Failed(Fault(g))
             ELSE IF temp = pList.head \/ pList.status = "LIST_OOB_START"
             THEN Inserted([linked EXCEPT !.list[l].status = "LIST_OOB_NONE",
                                          !.list[l].head = new.ret], l, new.ret)
             ELSE Inserted(linked, l, new.ret)

\* Mutation: the cursor is not moved to the first item before the insertion.
List_prependAtCursor(h, l, item) == List_insert_before(h, l, item)

List_append(h, l, item)  == List_insert_after(List_last(h, l).heap, l, item)
List_prepend(h, l, item) == List_insert_before(List_first(h, l).heap, l, item)

-----------------------------------------------------------------------------
(* Taking items out.                                                       *)

\* Both functions call unlinkNodes(current, prev, next), though its parameters
\* are (prev, node, next): it is the node before the current one that is cut
\* loose, and the node after it that is linked back to the current one.

\* The tail of the list is not updated, num_nodes is not decremented, and the
\* cursor is decremented as a pointer.
List_remove(h, l) ==
  LET current == h.list[l].curr
      gone    == h.node[current]
      moved   == List_next(h, l).heap
      headed  == IF current = moved.list[l].head
                 THEN Set(moved, l, "head", moved.list[l].curr) ELSE moved
      cut     == unlinkNodes(headed, current, gone.prev, gone.next)
      stepped == Set(cut, l, "curr", Decrement(cut.list[l].curr))
  IN  CASE isListOOB(h, l) \/ current = NULL -> [heap |-> h, ret |-> NoItem]
        [] ~isListOOB(h, l) /\ current = Wild ->
             [heap |-> Fault(h), ret |-> NoItem]
        [] ~isListOOB(h, l) /\ current \in NodeId ->
             [heap |-> produceFreeNode(stepped, current), ret |-> gone.item]

List_trim(h, l) ==
  LET last    == List_last(h, l).heap
      current == last.list[l].curr
      gone    == last.node[current]
      moved   == List_prev(last, l).heap
      before  == moved.list[l].curr
      tailed  == Set(moved, l, "tail", before)
      headed  == IF current = tailed.list[l].head
                 THEN Set(tailed, l, "head", before) ELSE tailed
      cut     == unlinkNodes(headed, current, gone.prev, gone.next)
      counted == [cut EXCEPT !.list[l].num_nodes = @ - 1]
  IN  CASE emptyList(h, l) -> [heap |-> h, ret |-> NoItem]
        [] ~emptyList(h, l) /\ current \notin NodeId ->
             [heap |-> Fault(h), ret |-> NoItem]
        [] ~emptyList(h, l) /\ current \in NodeId ->
             [heap |-> produceFreeNode(counted, current), ret |-> gone.item]

\* Nothing is linked: a list that is not empty is overwritten by the head of
\* the second, with its first node already lost.
List_concat(h, l1, l2) ==
  LET two == h.list[l2]
      overwritten == [h EXCEPT !.list[l1] = [two EXCEPT !.head = two.tail]]
      added == [linkNodes(h, h.list[l1].tail, two.head) EXCEPT
                  !.list[l1].tail = two.tail,
                  !.list[l1].num_nodes = @ + two.num_nodes,
                  !.list[l1].curr = IF h.list[l1].status = "LIST_OOB_END"
                                    THEN two.head ELSE @]
  IN  produceFreeList(CASE emptyList(h, l2) -> h
                        [] ~emptyList(h, l2) /\ ~emptyList(h, l1) -> overwritten
                        [] ~emptyList(h, l2) /\ emptyList(h, l1) -> added, l2)

\* One round of the loop of List_free: the item of the cursor's node is freed
\* after List_remove.  Out of bounds List_remove removes nothing, so the next
\* round would free the same item again.
FreeRound(h, l) ==
  IF h.list[l].curr \notin NodeId \/ isListOOB(h, l) THEN Fault(h)
  ELSE List_remove(h, l).heap

\* The loop, with more rounds than nodes; a loop still running then is taken
\* for one that never ends, and counts as a fault.
List_free(h, l) ==
  LET loop[k \in 0 .. LIST_MAX_NUM_NODES + 2] ==
        IF k = 0 THEN Set(h, l, "curr", h.list[l].head)
        ELSE LET g == loop[k - 1]
             IN  IF g.fault \/ g.list[l].curr = NULL THEN g ELSE FreeRound(g, l)
      done == loop[LIST_MAX_NUM_NODES + 2]
  IN  CASE emptyList(h, l) -> produceFreeList(h, l)
        [] ~emptyList(h, l) /\ ~done.fault /\ done.list[l].curr = NULL ->
             produceFreeList(done, l)
        [] OTHER -> Fault(h)

\* Mutation: the comparison starts after the cursor's node.
List_searchBeyond(h, l, match) ==
  LET chain == Chain(h, h.list[l].curr, "next")
      hits  == {i \in DOMAIN chain \ {1} : h.node[chain[i]].item \in match}
      first == CHOOSE i \in hits : \A j \in hits : i <= j
  IN  IF hits = {}
      THEN [heap |-> Set(Set(h, l, "curr", NULL), l, "status", "LIST_OOB_END"),
            ret |-> NoItem]
      ELSE [heap |-> Set(h, l, "curr", chain[first]),
            ret |-> h.node[chain[first]].item]

\* "match" is the set of items for which pComparator gives 1.
List_search(h, l, match) ==
  LET start == CASE h.list[l].status = "LIST_OOB_START" -> List_first(h, l).heap
                 [] h.list[l].status = "LIST_OOB_END"   -> List_last(h, l).heap
                 [] h.list[l].status = "LIST_OOB_NONE"  -> h
      chain == Chain(start, start.list[l].curr, "next")
      hits  == {i \in DOMAIN chain : start.node[chain[i]].item \in match}
      first == CHOOSE i \in hits : \A j \in hits : i <= j
  IN  CASE emptyList(h, l) \/ start.list[l].curr = NULL ->
             [heap |-> start, ret |-> NoItem]
        [] ~emptyList(h, l) /\ hits # {} ->
             [heap |-> Set(start, l, "curr", chain[first]),
              ret  |-> start.node[chain[first]].item]
        [] ~emptyList(h, l) /\ chain # <<>> /\ hits = {} /\ ~Cyclic(chain) ->
             [heap |-> Set(Set(start, l, "curr", NULL), l, "status",
                           "LIST_OOB_END"), ret |-> NoItem]
        [] OTHER -> [heap |-> Fault(h), ret |-> NoItem]
=============================================================================
