------------------------------ MODULE DumpHeap ------------------------------
(***************************************************************************)
(* The older list library, dump/list.c, on the heap of ListHeap.           *)
(*                                                                         *)
(* Its memory is the same, its helpers and the functions that only move    *)
(* the cursor are those of list.c under other names.  It differs in where  *)
(* insertions go when the cursor is outside of the list, in what List_trim *)
(* and List_remove do to the links, in List_concat, List_free and          *)
(* List_search.  LIST_NOT_OOB is called LIST_OOB_NONE here, List_add and   *)
(* List_insert answer for List_insert_after and List_insert_before.        *)
(***************************************************************************)
EXTENDS ListHeap

isListEmpty(h, l)             == emptyList(h, l)
getFreeNode(h, item)          == consumeFreeNode(h, item)
returnFreeNode(h, n)          == produceFreeNode(h, n)
returnFreeList(h, l)          == produceFreeList(h, l)
Link_2_nodes(h, first, second) == linkNodes(h, first, second)
Link_3_nodes(h, first, second, third) ==
  Link_2_nodes(Link_2_nodes(h, first, second), second, third)

\* Mutation: the arguments in the order of list.c.
Unlink_nodeShifted(h, node, prev, next) == unlinkNodes(h, node, prev, next)

\* Here the arguments are the ones the code means.
Unlink_node(h, node, prev, next) == unlinkNodes(h, prev, node, next)

List_add_on_empty(h, l, n) ==
  [h EXCEPT !.list[l].head = n, !.list[l].tail = n,
            !.list[l].status = "LIST_OOB_NONE"]

\* The initialisers of a list head are two fields out of order: the status of
\* freeNodes goes to its count, which is set again later.
DumpCreate(h) ==
  LET created == List_create(h)
  IN  [created EXCEPT
         !.heap.list[freeNodes].status = "LIST_OOB_START"]

DumpCount(h, l) == IF isListEmpty(h, l) THEN 0 ELSE h.list[l].num_nodes

-----------------------------------------------------------------------------
(* Adding items.                                                           *)

\* The two insertions, once they know that they are to insert: next to the
\* cursor, or to the given end of the list when the cursor is null.
AddBeside(h, l, item, end, beyond) ==
  LET new    == getFreeNode(h, item)
      g      == new.heap
      pList  == g.list[l]
      beside == IF pList.curr # NULL THEN pList.curr ELSE pList[end]
      linked ==
        IF end = "tail" THEN Link_3_nodes(g, beside, new.ret, g.node[beside].next)
        ELSE Link_3_nodes(g, g.node[beside].prev, new.ret, beside)
  IN  CASE new.ret = NULL -> Failed(g)
        [] new.ret # NULL /\ isListEmpty(g, l) ->
             Inserted(List_add_on_empty(g, l, new.ret), l, new.ret)
        [] new.ret # NULL /\ ~isListEmpty(g, l) ->
             IF beside \notin NodeId THEN Failed(Fault(g))
             ELSE IF beside = pList[end] \/ pList.status = beyond
             THEN Inserted([linked EXCEPT !.list[l].status = "LIST_OOB_NONE",
                                          !.list[l][end] = new.ret], l, new.ret)
             ELSE Inserted(linked, l, new.ret)

AddAfter(h, l, item)   == AddBeside(h, l, item, "tail", "LIST_OOB_END")
AddBefore(h, l, item)  == AddBeside(h, l, item, "head", "LIST_OOB_START")

\* Each hands over to the other when the cursor is beyond the other's end.
List_add(h, l, item) ==
  IF h.list[l].status = "LIST_OOB_START" THEN AddBefore(h, l, item)
                                         ELSE AddAfter(h, l, item)

List_insert(h, l, item) ==
  IF h.list[l].status = "LIST_OOB_END" THEN AddAfter(h, l, item)
                                       ELSE AddBefore(h, l, item)

DumpAppend(h, l, item)  == List_add(List_last(h, l).heap, l, item)
DumpPrepend(h, l, item) == List_insert(List_first(h, l).heap, l, item)

-----------------------------------------------------------------------------
(* Taking items out.                                                       *)

\* What List_remove and List_trim end with, after the cursor has moved on from
\* current.
Unlinked(h, l, current) ==
  LET gone == h.node[current]
      cut  == Unlink_node(h, current, gone.prev, gone.next)
  IN  [heap |-> returnFreeNode([cut EXCEPT !.list[l].num_nodes = @ - 1], current),
       ret  |-> gone.item]

\* The tail of the list is not updated.
DumpRemove(h, l) ==
  LET current == h.list[l].curr
      moved   == List_next(h, l).heap
      headed  == IF current = moved.list[l].head
                 THEN Set(moved, l, "head", moved.list[l].curr) ELSE moved
  IN  CASE isListOOB(h, l) \/ current = NULL -> [heap |-> h, ret |-> NoItem]
        [] ~isListOOB(h, l) /\ current = Wild -> [heap |-> Fault(h), ret |-> NoItem]
        [] ~isListOOB(h, l) /\ current \in NodeId -> Unlinked(headed, l, current)

DumpTrim(h, l) ==
  LET last    == List_last(h, l).heap
      current == last.list[l].curr
      moved   == List_prev(last, l).heap
      before  == moved.list[l].curr
      tailed  == Set(moved, l, "tail", before)
      headed  == IF current = tailed.list[l].head
                 THEN Set(tailed, l, "head", before) ELSE tailed
  IN  CASE isListEmpty(h, l) -> [heap |-> h, ret |-> NoItem]
        [] ~isListEmpty(h, l) /\ current \notin NodeId ->
             [heap |-> Fault(h), ret |-> NoItem]
        [] ~isListEmpty(h, l) /\ current \in NodeId -> Unlinked(headed, l, current)

DumpConcat(h, l1, l2) ==
  LET two == h.list[l2]
      added == [Link_2_nodes(h, h.list[l1].tail, two.head) EXCEPT
                  !.list[l1].num_nodes = @ + two.num_nodes,
                  !.list[l1].tail = two.tail,
                  !.list[l1].curr = IF h.list[l1].status = "LIST_OOB_END"
                                    THEN two.head ELSE @]
  IN  returnFreeList(CASE isListEmpty(h, l2) -> h
                       [] ~isListEmpty(h, l2) /\ isListEmpty(h, l1) ->
                            [h EXCEPT !.list[l1] = two]
                       [] ~isListEmpty(h, l2) /\ ~isListEmpty(h, l1) -> added, l2)

\* One round of the loop of List_free.  Out of bounds List_remove takes nothing
\* out, and the loop would free the same item for ever.
DumpFreeRound(h, l) ==
  IF h.list[l].curr \notin NodeId \/ isListOOB(h, l) THEN Fault(h)
  ELSE DumpRemove(h, l).heap

\* Its loop, in as many rounds as there are nodes.
DumpFree(h, l) ==
  LET loop[k \in 0 .. LIST_MAX_NUM_NODES] ==
        IF k = 0 THEN Set(h, l, "curr", h.list[l].head)
        ELSE LET g == loop[k - 1]
             IN  IF g.fault \/ g.list[l].curr = NULL THEN g ELSE DumpFreeRound(g, l)
      done == loop[LIST_MAX_NUM_NODES]
  IN  CASE isListEmpty(h, l) -> returnFreeList(h, l)
        [] ~isListEmpty(h, l) /\ ~done.fault /\ done.list[l].curr = NULL ->
             returnFreeList(done, l)
        [] OTHER -> Fault(h)

\* "match" is the set of items for which pComparator gives 1.  Out of bounds
\* List_next does not get away from the end of the list that the cursor is on:
\* a search still looking after as many rounds as there are nodes looks for
\* ever, and counts as a fault.
DumpSearch(h, l, match) ==
  LET Found(g) == g.list[l].curr # NULL /\ List_curr(g, l).ret \in match
      loop[k \in 0 .. LIST_MAX_NUM_NODES] ==
        IF k = 0 THEN IF h.list[l].curr = NULL THEN List_first(h, l).heap ELSE h
        ELSE LET g == loop[k - 1]
             IN  IF g.fault \/ g.list[l].curr = NULL \/ Found(g) THEN g
                 ELSE List_next(g, l).heap
      done == loop[LIST_MAX_NUM_NODES]
  IN  CASE isListEmpty(h, l) -> [heap |-> h, ret |-> NoItem]
        [] ~isListEmpty(h, l) /\ ~done.fault /\ done.list[l].curr = NULL ->
             [heap |-> done, ret |-> NoItem]
        [] ~isListEmpty(h, l) /\ ~done.fault /\ Found(done) ->
             [heap |-> done, ret |-> List_curr(done, l).ret]
        [] OTHER -> [heap |-> Fault(done), ret |-> NoItem]
=============================================================================
