-------------------------- MODULE ListClientProofs --------------------------
(***************************************************************************)
(* Theorems on the list libraries under any client, for every value of the *)
(* constants: all the lists are one, the memory keeps its shape, and as    *)
(* long as the client is careful the list stays linked, no node is lost,   *)
(* List_free gives everything back, and every call does to the contents    *)
(* what list.h says of it.                                                  *)
(*                                                                         *)
(* The loops of List_free and List_search and the chains of links are      *)
(* recursive functions; what they give is shown by taking the first round  *)
(* that would be wrong.  A list is described by naming its nodes: u[1] to  *)
(* u[n] from head to tail, and the unused ones p[1] to p[m] in the order   *)
(* freeNodes gives them out.                                               *)
(***************************************************************************)
EXTENDS ListClient, FiniteSetTheorems, SequenceTheorems, WellFoundedInduction, TLAPS

-----------------------------------------------------------------------------
(* All the lists are one.                                                  *)

\* What an owner can hold: nothing, or the last of the heads.
HeldIsLast == held \in [Owner -> {NoList, LIST_MAX_NUM_HEADS - 1}]

\* Only List_create hands out a list and only List_concat and List_free take
\* one back.
LEMMA HeldStep ==
  ASSUME HeldIsLast, Next
  PROVE  HeldIsLast'
<1>. USE DEF HeldIsLast
<1>1. ASSUME NEW o \in Owner, Create(o)
      PROVE  HeldIsLast'
  BY <1>1 DEF Create, OfLibrary, List_create, DumpCreate
<1>2. ASSUME NEW l,
             \/ Navigate(l) \/ TakeOut(l)
             \/ \E item \in Item : Insert(l, item)
             \/ \E match \in SUBSET Item : Search(l, match)
      PROVE  HeldIsLast'
  <2>1. held' = held
    BY <1>2 DEF Navigate, TakeOut, Insert, Search, Perform
  <2>. QED  BY <2>1
<1>3. ASSUME NEW o \in Owner, Free(o)
      PROVE  HeldIsLast'
  BY <1>3 DEF Free, GiveUp
<1>4. ASSUME NEW o \in Owner, NEW o2 \in Owner, Concat(o, o2)
      PROVE  HeldIsLast'
  BY <1>4 DEF Concat, GiveUp
<1>. QED  BY <1>1, <1>2, <1>3, <1>4 DEF Next, Holding

\* However many lists the program creates, it has one: two variables that hold
\* a list hold the same list (list.c:106-143, main.c:23-24).
THEOREM AllListsAreOne == Spec => []OneListForAll
<1>1. Init => HeldIsLast
  BY DEF Init, HeldIsLast
<1>2. HeldIsLast /\ [Next]_vars => HeldIsLast'
  <2>1. CASE UNCHANGED vars
    BY <2>1 DEF vars, HeldIsLast
  <2>. QED  BY <2>1, HeldStep
<1>3. HeldIsLast => OneListForAll
  BY DEF HeldIsLast, OneListForAll
<1>. QED  BY <1>1, <1>2, <1>3, PTL DEF Spec

-----------------------------------------------------------------------------
(* Loops.                                                                  *)

\* A set of naturals that is not empty has a least element.  An induction over
\* rounds or nodes below takes the smallest counterexample by it.
LEMMA Smallest ==
  ASSUME NEW T \in SUBSET Nat, T # {}
  PROVE  \E x \in T : \A y \in T : x <= y
<1>1. PICK R : R = OpToRel(<, Nat)
  OBVIOUS
<1>2. IsWellFoundedOn(R, Nat)
  BY <1>1, NatLessThanWellFounded
<1>3. \A x, y \in Nat : x < y => <<x, y>> \in R
  BY <1>1 DEF OpToRel
<1>4. \E x \in T : \A y \in T : ~ (<<y, x>> \in R)
  BY <1>2, WFMin
<1>5. PICK x \in T : \A y \in T : ~ (<<y, x>> \in R)
  BY <1>4
<1>6. ASSUME NEW y \in T PROVE x <= y
  <2>1. ~ (y < x)
    BY <1>3, <1>5
  <2>. QED  BY <2>1
<1>. QED  BY <1>6

\* f is what a loop that does F in each round goes through from start on.
Rounds(f, n, start, F) ==
  \A k \in 0 .. n : f[k] = IF k = 0 THEN start ELSE F[f[k - 1]]

\* There is such an f: the loops of the model, defined by recursion, have the
\* values that their definitions give.
LEMMA Iterated ==
  ASSUME NEW D, NEW N \in Nat, NEW start \in D, NEW F \in [D -> D]
  PROVE  \E f \in [0 .. N -> D] : Rounds(f, N, start, F)
<1>. DEFINE Bad == {n \in Nat : ~ \E f \in [0 .. n -> D] : Rounds(f, n, start, F)}
<1>1. SUFFICES ASSUME Bad # {} PROVE FALSE
  OBVIOUS
<1>2. PICK n \in Bad : \A m \in Bad : n <= m
  BY <1>1, Smallest
<1>3. CASE n = 0
  <2>1. [k \in 0 .. 0 |-> start] \in [0 .. 0 -> D]
        /\ Rounds([k \in 0 .. 0 |-> start], 0, start, F)
    BY DEF Rounds
  <2>. QED  BY <1>3, <2>1
<1>4. CASE n # 0
  <2>1. n - 1 \in Nat /\ n - 1 \notin Bad
    <3>1. n \in Nat
      BY <1>2
    <3>2. \A m \in Bad : n <= m
      BY <1>2
    <3>. HIDE DEF Bad
    <3>. QED  BY <1>4, <3>1, <3>2
  <2>2. PICK f \in [0 .. n - 1 -> D] : Rounds(f, n - 1, start, F)
    BY <2>1
  <2>3. PICK g : g = [k \in 0 .. n |-> IF k = n THEN F[f[n - 1]] ELSE f[k]]
    OBVIOUS
  <2>4. g \in [0 .. n -> D]
    BY <2>1, <2>2, <2>3
  <2>5. Rounds(g, n, start, F)
    BY <2>1, <2>2, <2>3 DEF Rounds
  <2>. QED  BY <2>4, <2>5
<1>. QED  BY <1>3, <1>4

\* A loop whose rounds keep to D is in D after each of them.
LEMMA LoopStays ==
  ASSUME NEW D, NEW N \in Nat, NEW loop, loop[0] \in D,
         \A k \in 1 .. N : loop[k - 1] \in D => loop[k] \in D
  PROVE  \A k \in 0 .. N : loop[k] \in D
<1>. DEFINE Out == {k \in 0 .. N : loop[k] \notin D}
<1>1. SUFFICES ASSUME Out # {} PROVE FALSE
  OBVIOUS
<1>2. Out \in SUBSET Nat
  OBVIOUS
<1>3. PICK k \in Out : \A j \in Out : k <= j
  BY <1>1, <1>2, Smallest
<1>4. k \in 1 .. N /\ loop[k] \notin D
  BY <1>3
<1>5. k - 1 \in 0 .. N /\ ~ (k <= k - 1)
  BY <1>4
<1>6. loop[k - 1] \in D
  BY <1>3, <1>5
<1>. QED  BY <1>4, <1>6

-----------------------------------------------------------------------------
(* The memory and the writes to it.                                        *)

\* The declarations of the library's memory.
Node == [item : Item \union {NoItem}, next : Pointer, prev : Pointer]

ListHead == [head : Pointer, tail : Pointer, curr : Pointer,
             num_nodes : Int, status : Status]

AnyList == ListId \union {freeNodes}

Heap ==
  [node : [NodeId -> Node], list : [AnyList -> ListHead],
   freeLists : [ListId -> ListId \union {NoList}],
   flIndex : -1 .. LIST_MAX_NUM_HEADS - 1, fault : BOOLEAN]

\* NULL and Wild are pointers and no nodes; freeNodes is a head as the others.
LEMMA Pointers ==
  /\ NULL \notin NodeId /\ Wild \notin NodeId /\ NULL # Wild
  /\ NodeId \subseteq Pointer /\ NULL \in Pointer /\ Wild \in Pointer
  /\ freeNodes \in AnyList /\ ListId \subseteq AnyList
BY HeapAssumption DEF NodeId, NULL, Wild, Pointer, AnyList

\* Overwriting a head with a head leaves the memory as it is declared,
LEMMA ListUpdated ==
  ASSUME NEW h \in Heap, NEW l \in AnyList, NEW head \in ListHead
  PROVE  [h EXCEPT !.list[l] = head] \in Heap
BY DEF Heap

\* and so does writing one field of a head,
LEMMA HeadUpdated ==
  ASSUME NEW h \in Heap, NEW l \in AnyList
  PROVE  /\ \A p \in Pointer : [h EXCEPT !.list[l].head = p] \in Heap
         /\ \A p \in Pointer : [h EXCEPT !.list[l].tail = p] \in Heap
         /\ \A p \in Pointer : [h EXCEPT !.list[l].curr = p] \in Heap
         /\ \A i \in Int : [h EXCEPT !.list[l].num_nodes = i] \in Heap
         /\ \A s \in Status : [h EXCEPT !.list[l].status = s] \in Heap
<1>1. h.list[l] \in ListHead
  BY DEF Heap
<1>2. ASSUME NEW p \in Pointer PROVE [h EXCEPT !.list[l].head = p] \in Heap
  <2>1. [h.list[l] EXCEPT !.head = p] \in ListHead
    BY <1>1 DEF ListHead
  <2>. QED  BY <2>1, ListUpdated
<1>3. ASSUME NEW p \in Pointer PROVE [h EXCEPT !.list[l].tail = p] \in Heap
  <2>1. [h.list[l] EXCEPT !.tail = p] \in ListHead
    BY <1>1 DEF ListHead
  <2>. QED  BY <2>1, ListUpdated
<1>4. ASSUME NEW p \in Pointer PROVE [h EXCEPT !.list[l].curr = p] \in Heap
  <2>1. [h.list[l] EXCEPT !.curr = p] \in ListHead
    BY <1>1 DEF ListHead
  <2>. QED  BY <2>1, ListUpdated
<1>5. ASSUME NEW i \in Int PROVE [h EXCEPT !.list[l].num_nodes = i] \in Heap
  <2>1. [h.list[l] EXCEPT !.num_nodes = i] \in ListHead
    BY <1>1 DEF ListHead
  <2>. QED  BY <2>1, ListUpdated
<1>6. ASSUME NEW s \in Status PROVE [h EXCEPT !.list[l].status = s] \in Heap
  <2>1. [h.list[l] EXCEPT !.status = s] \in ListHead
    BY <1>1 DEF ListHead
  <2>. QED  BY <2>1, ListUpdated
<1>. QED  BY <1>2, <1>3, <1>4, <1>5, <1>6

\* a fault,
LEMMA FaultTyped == ASSUME NEW h \in Heap PROVE Fault(h) \in Heap
BY DEF Fault, Heap

\* and writing to a node; n need not be one.
LEMMA NodeUpdated ==
  ASSUME NEW h \in Heap, NEW n
  PROVE  /\ \A node \in Node : [h EXCEPT !.node[n] = node] \in Heap
         /\ \A p \in Pointer : [h EXCEPT !.node[n].next = p] \in Heap
         /\ \A p \in Pointer : [h EXCEPT !.node[n].prev = p] \in Heap
<1>1. ASSUME NEW node \in Node PROVE [h EXCEPT !.node[n] = node] \in Heap
  BY DEF Heap
<1>2. CASE n \in NodeId
  <2>1. h.node[n] \in Node
    BY <1>2 DEF Heap
  <2>2. ASSUME NEW p \in Pointer PROVE [h EXCEPT !.node[n].next = p] \in Heap
    <3>1. [h.node[n] EXCEPT !.next = p] \in Node
      BY <2>1 DEF Node
    <3>. QED  BY <1>1, <3>1
  <2>3. ASSUME NEW p \in Pointer PROVE [h EXCEPT !.node[n].prev = p] \in Heap
    <3>1. [h.node[n] EXCEPT !.prev = p] \in Node
      BY <2>1 DEF Node
    <3>. QED  BY <1>1, <3>1
  <2>. QED  BY <1>1, <2>2, <2>3
<1>3. CASE n \notin NodeId
  <2>1. \A x : [h.node EXCEPT ![n] = x] = h.node
    BY <1>3 DEF Heap
  <2>2. [h EXCEPT !.node = h.node] \in Heap
    BY DEF Heap
  <2>. QED  BY <1>1, <2>1, <2>2
<1>. QED  BY <1>2, <1>3

\* What is read from the memory is what its declarations say.
LEMMA Fields ==
  ASSUME NEW h \in Heap
  PROVE /\ \A l \in AnyList : /\ h.list[l] \in ListHead
                              /\ h.list[l].head \in Pointer /\ h.list[l].tail \in Pointer
                              /\ h.list[l].curr \in Pointer /\ h.list[l].num_nodes \in Int
                              /\ h.list[l].status \in Status
        /\ \A n \in NodeId : /\ h.node[n] \in Node /\ h.node[n].item \in Item \union {NoItem}
                             /\ h.node[n].next \in Pointer /\ h.node[n].prev \in Pointer
        /\ h.flIndex \in -1 .. LIST_MAX_NUM_HEADS - 1
BY DEF Heap, ListHead, Node

-----------------------------------------------------------------------------
(* The helpers.                                                            *)

\* The helpers of list.c keep the memory as it is declared (list.c:22-104):
\* consumeFreeNode() and what it returns,
LEMMA ConsumeTyped ==
  ASSUME NEW h \in Heap, NEW item \in Item
  PROVE  /\ consumeFreeNode(h, item).heap \in Heap
         /\ consumeFreeNode(h, item).ret \in NodeId \union {NULL}
<1>1. PICK temp : temp = h.list[freeNodes].tail
  OBVIOUS
<1>2. temp \in Pointer
  BY <1>1, Pointers, Fields
<1>3. CASE temp = NULL
  <2>1. consumeFreeNode(h, item) = [heap |-> h, ret |-> NULL]
    BY <1>1, <1>3, Pointers DEF consumeFreeNode
  <2>. QED BY <2>1
<1>4. CASE temp \in NodeId
  <2>2. PICK new \in Node : new = [item |-> item, next |-> NULL, prev |-> NULL]
    BY Pointers DEF Node
  <2>3. PICK g \in Heap : g = [h EXCEPT !.list[freeNodes].tail = h.node[temp].prev]
    BY <1>4, Pointers, Fields, HeadUpdated
  <2>4. PICK i \in Int : i = h.list[freeNodes].num_nodes - 1
    BY Fields, Pointers
  <2>5. PICK f \in Heap : f = [g EXCEPT !.list[freeNodes].num_nodes = i]
    BY Pointers, HeadUpdated
  <2>7. PICK e \in Heap : e = [f EXCEPT !.node[temp] = new]
    BY NodeUpdated, Pointers
  <2>9. consumeFreeNode(h, item) = [heap |-> e, ret |-> temp]
    BY <1>1, <1>4, Pointers, <2>2, <2>3, <2>4, <2>5, <2>7, ZenonT(30) DEF consumeFreeNode
  <2>. QED  BY <1>4, <2>9
<1>5. CASE temp = Wild
  <2>1. consumeFreeNode(h, item) = [heap |-> Fault(h), ret |-> NULL]
    BY <1>1, <1>5, Pointers DEF consumeFreeNode
  <2>. QED BY <2>1, FaultTyped
<1>. QED  BY <1>2, <1>3, <1>4, <1>5 DEF Pointer

\* produceFreeNode(),
LEMMA ProduceTyped ==
  ASSUME NEW h \in Heap, NEW n \in NodeId
  PROVE  produceFreeNode(h, n) \in Heap
<1>1. PICK temp \in Pointer : temp = h.list[freeNodes].tail
  BY Pointers, Fields
<1>3. PICK new \in Node : new = [item |-> NoItem, next |-> NULL, prev |-> NULL]
  BY Pointers DEF Node
<1>4. PICK g \in Heap : g = [h EXCEPT !.node[n] = new]
  BY NodeUpdated, Pointers
<1>5. PICK g2 \in Heap : g2 = [g EXCEPT !.list[freeNodes].tail = n]
  BY HeadUpdated, Pointers
<1>6. PICK i \in Int : i = h.list[freeNodes].num_nodes + 1
  BY Fields, Pointers
<1>7. PICK f \in Heap : f = [g2 EXCEPT !.list[freeNodes].num_nodes = i]
  BY HeadUpdated, Pointers
<1>8. PICK e1 \in Heap : e1 = [f EXCEPT !.node[temp].next = n]
  BY NodeUpdated, Pointers
<1>9. PICK e \in Heap : e = [e1 EXCEPT !.node[n].prev = temp]
  BY NodeUpdated, Pointers
<1>10. CASE temp = NULL
  <2>1. produceFreeNode(h, n) = f
    BY <1>1, <1>3, <1>4, <1>5, <1>6, <1>7, <1>10 DEF produceFreeNode
  <2>. QED BY <2>1
<1>11. CASE temp # NULL
  <2>1. produceFreeNode(h, n) = e
    <3>1. f = [h EXCEPT !.node[n] = [item |-> NoItem, next |-> NULL, prev |-> NULL],
                        !.list[freeNodes].tail = n,
                        !.list[freeNodes].num_nodes = @ + 1]
      BY <1>3, <1>4, <1>5, <1>6, <1>7
    <3>2. e = [f EXCEPT !.node[temp].next = n, !.node[n].prev = temp]
      BY <1>8, <1>9
    <3>. QED  BY <1>1, <1>11, <3>1, <3>2 DEF produceFreeNode
  <2>. QED BY <2>1
<1>. QED  BY <1>10, <1>11

\* produceFreeList(): flIndex stays within freeLists,
LEMMA FreeListTyped ==
  ASSUME NEW h \in Heap, NEW l \in ListId
  PROVE  produceFreeList(h, l) \in Heap
<1>1. PICK head \in ListHead : head = EmptyHead("LIST_OOB_START")
  <2>1. [head |-> NULL, tail |-> NULL, curr |-> NULL, num_nodes |-> 0,
         status |-> "LIST_OOB_START"] \in ListHead
    BY Pointers DEF ListHead, Status
  <2>. QED  BY <2>1 DEF EmptyHead
<1>2. PICK g \in Heap : g = [h EXCEPT !.list[l] = head]
  BY ListUpdated, Pointers
<1>3. CASE h.flIndex < LIST_MAX_NUM_HEADS - 1
  <2>1. [g EXCEPT !.flIndex = @ + 1, !.freeLists[h.flIndex + 1] = l] \in Heap
    <3>1. /\ g.flIndex = h.flIndex /\ h.flIndex \in -1 .. LIST_MAX_NUM_HEADS - 1
          /\ LIST_MAX_NUM_HEADS \in Nat
      BY <1>2, Fields, HeapAssumption DEF Heap
    <3>2. g.flIndex + 1 \in -1 .. LIST_MAX_NUM_HEADS - 1
      BY <1>3, <3>1
    <3>. QED  BY <3>2 DEF Heap
  <2>. QED  BY <1>1, <1>2, <1>3, <2>1 DEF produceFreeList
<1>. QED  BY <1>1, <1>2, <1>3 DEF produceFreeList

\* one write to a link,
LEMMA SetLinkTyped ==
  ASSUME NEW h \in Heap, NEW n, NEW p \in Pointer
  PROVE  SetLink(h, n, "next", p) \in Heap /\ SetLink(h, n, "prev", p) \in Heap
BY NodeUpdated, FaultTyped DEF SetLink

\* unlinkNodes() with whatever arguments it is called,
LEMMA UnlinkTyped ==
  ASSUME NEW h \in Heap, NEW prev \in Pointer, NEW node, NEW next \in Pointer
  PROVE  unlinkNodes(h, prev, node, next) \in Heap
<1>1. PICK g \in Heap : g = [h EXCEPT !.node[node].next = NULL]
  BY NodeUpdated, Pointers
<1>2. PICK cut \in Heap : cut = [g EXCEPT !.node[node].prev = NULL]
  BY NodeUpdated, Pointers
<1>3. cut = [h EXCEPT !.node[node].next = NULL, !.node[node].prev = NULL]
  BY <1>1, <1>2
<1>4. PICK f \in Heap : f = SetLink(cut, prev, "next", next)
  BY SetLinkTyped
<1>5. PICK e \in Heap : e = SetLink(f, next, "prev", prev)
  BY SetLinkTyped
<1>. QED  BY <1>3, <1>4, <1>5 DEF unlinkNodes

\* linkNodes(),
LEMMA LinkTyped ==
  ASSUME NEW h \in Heap, NEW first \in Pointer, NEW second \in Pointer
  PROVE  linkNodes(h, first, second) \in Heap
BY SetLinkTyped DEF linkNodes

\* one write to a head,
LEMMA SetTyped ==
  ASSUME NEW h \in Heap, NEW l \in AnyList
  PROVE  /\ \A p \in Pointer : /\ Set(h, l, "head", p) \in Heap
                               /\ Set(h, l, "tail", p) \in Heap
                               /\ Set(h, l, "curr", p) \in Heap
         /\ \A s \in Status : Set(h, l, "status", s) \in Heap
BY HeadUpdated DEF Set

\* and a read through a pointer, good or bad.
LEMMA ItemAtTyped ==
  ASSUME NEW h \in Heap, NEW p
  PROVE  ItemAt(h, p).heap \in Heap
BY FaultTyped DEF ItemAt

-----------------------------------------------------------------------------
(* The functions of list.c.                                                *)

\* The static storage before the first call.
LEMMA StaticTyped == StaticHeap \in Heap
<1>1. EmptyHead("LIST_OOB_START") \in ListHead
  BY Pointers DEF EmptyHead, ListHead, Status
<1>2. StaticHeap.node \in [NodeId -> Node]
  BY Pointers DEF StaticHeap, Node
<1>3. StaticHeap.list \in [AnyList -> ListHead]
  BY <1>1 DEF StaticHeap, AnyList
<1>4. StaticHeap.flIndex \in -1 .. LIST_MAX_NUM_HEADS - 1
  BY HeapAssumption DEF StaticHeap
<1>. QED  BY <1>2, <1>3, <1>4 DEF StaticHeap, Heap

\* List_create of both libraries: the memory it sets up, and that the list it
\* hands out is one (list.c:106-143, dump/list.c).
LEMMA CreatedTyped ==
  ASSUME NEW h \in Heap
  PROVE  /\ List_create(h).heap \in Heap /\ List_create(h).ret \in ListId
         /\ DumpCreate(h).heap \in Heap /\ DumpCreate(h).ret \in ListId
<1>1. /\ EmptyHead("LIST_OOB_START") \in ListHead
      /\ [head |-> 0, tail |-> LIST_MAX_NUM_NODES - 1, curr |-> NULL,
          num_nodes |-> LIST_MAX_NUM_NODES, status |-> "LIST_OOB_NONE"] \in ListHead
  BY HeapAssumption DEF EmptyHead, ListHead, Status, Pointer, NodeId, NULL
<1>2. CreatedHeap \in Heap
  <2>1. CreatedHeap.node \in [NodeId -> Node]
    <3>1. ASSUME NEW n \in NodeId
          PROVE  /\ (IF n = LIST_MAX_NUM_NODES - 1 THEN NULL ELSE n + 1) \in Pointer
                 /\ (IF n = 0 THEN NULL ELSE n - 1) \in Pointer
      BY HeapAssumption DEF NodeId, Pointer, NULL
    <3>. QED  BY <3>1 DEF CreatedHeap, Node
  <2>2. CreatedHeap.list \in [AnyList -> ListHead]
    BY <1>1 DEF CreatedHeap, AnyList
  <2>3. CreatedHeap.flIndex \in -1 .. LIST_MAX_NUM_HEADS - 1
    BY HeapAssumption DEF CreatedHeap
  <2>. QED  BY <2>1, <2>2, <2>3 DEF CreatedHeap, Heap
<1>3. [CreatedHeap EXCEPT !.fault = h.fault] \in Heap
  BY <1>2 DEF Heap
<1>4. LIST_MAX_NUM_HEADS - 1 \in ListId
  BY HeapAssumption DEF ListId
<1>5. List_create(h).heap \in Heap /\ List_create(h).ret \in ListId
  BY <1>3, <1>4 DEF List_create
<1>6. DumpCreate(h).heap \in Heap /\ DumpCreate(h).ret \in ListId
  <2>1. PICK created : created = List_create(h)
    OBVIOUS
  <2>2. created.heap \in Heap /\ created.ret \in ListId
    BY <1>5, <2>1
  <2>3. [created.heap EXCEPT !.list[freeNodes].status = "LIST_OOB_START"] \in Heap
    BY <2>2, HeadUpdated, Pointers DEF Status
  <2>4. created = [heap |-> created.heap, ret |-> created.ret]
    BY <2>1 DEF List_create
  <2>5. DumpCreate(h) =
          [heap |-> [created.heap EXCEPT !.list[freeNodes].status = "LIST_OOB_START"],
           ret |-> created.ret]
    BY <2>1, <2>4 DEF DumpCreate
  <2>. QED  BY <2>2, <2>3, <2>5
<1>. QED  BY <1>5, <1>6

\* List_first and List_last (list.c:155-187).
LEMMA MoveToTyped ==
  ASSUME NEW h \in Heap, NEW l \in AnyList
  PROVE  List_first(h, l).heap \in Heap /\ List_last(h, l).heap \in Heap
<1>1. ASSUME NEW end \in {"head", "tail"} PROVE MoveTo(h, l, end).heap \in Heap
  <2>1. PICK p \in Pointer : p = h.list[l][end]
    BY Fields
  <2>2. PICK g \in Heap : g = Set(h, l, "curr", p)
    BY SetTyped
  <2>3. PICK f \in Heap : f = Set(g, l, "status", "LIST_OOB_NONE")
    BY SetTyped DEF Status
  <2>4. PICK e \in Heap : e = Set(h, l, "curr", NULL)
    BY SetTyped, Pointers
  <2>. QED  BY <2>1, <2>2, <2>3, <2>4, ItemAtTyped DEF MoveTo
<1>. QED  BY <1>1 DEF List_first, List_last

\* List_next and List_prev, in bounds and out of them (list.c:189-235).
LEMMA AdvanceTyped ==
  ASSUME NEW h \in Heap, NEW l \in AnyList
  PROVE  List_next(h, l).heap \in Heap /\ List_prev(h, l).heap \in Heap
<1>1. ReEnter(h, l).heap \in Heap
  <2>1. \A end \in {"head", "tail"} : h.list[l][end] \in Pointer
    BY Fields
  <2>2. PICK g \in Heap :
          g = Set(h, l, "curr", h.list[l][IF h.list[l].status = "LIST_OOB_START"
                                           THEN "head" ELSE "tail"])
    BY <2>1, SetTyped
  <2>. QED  BY <2>2, ItemAtTyped DEF ReEnter, List_curr
<1>2. ASSUME NEW field \in {"next", "prev"}, NEW beyond \in Status
      PROVE  Advance(h, l, field, beyond).heap \in Heap
  <2>1. CASE isListOOB(h, l)
    BY <1>1, <2>1 DEF Advance
  <2>2. CASE ~isListOOB(h, l) /\ h.list[l].curr \notin NodeId
    BY <2>2, FaultTyped DEF Advance
  <2>3. CASE ~isListOOB(h, l) /\ h.list[l].curr \in NodeId
    <3>1. PICK p \in Pointer : p = h.node[h.list[l].curr][field]
      BY <2>3, Fields
    <3>2. PICK g \in Heap : g = Set(h, l, "curr", p)
      BY SetTyped
    <3>3. PICK f \in Heap : f = Set(g, l, "status", beyond)
      BY SetTyped
    <3>. QED  BY <2>3, <3>1, <3>2, <3>3, ItemAtTyped, ZenonT(30) DEF Advance
  <2>. QED  BY <2>1, <2>2, <2>3
<1>. QED  BY <1>2 DEF List_next, List_prev, Status

\* What the insertions end with, in a list or in an empty one.
LEMMA InsertedTyped ==
  ASSUME NEW h \in Heap, NEW l \in AnyList, NEW n \in Pointer
  PROVE  Inserted(h, l, n).heap \in Heap /\ InsertIntoEmpty(h, l, n).heap \in Heap
<1>1. ASSUME NEW g \in Heap PROVE Inserted(g, l, n).heap \in Heap
  <2>1. PICK f \in Heap : f = [g EXCEPT !.list[l].curr = n]
    BY HeadUpdated
  <2>2. PICK i \in Int : i = g.list[l].num_nodes + 1
    BY Fields
  <2>3. PICK e \in Heap : e = [f EXCEPT !.list[l].num_nodes = i]
    BY HeadUpdated
  <2>4. e = [g EXCEPT !.list[l].curr = n, !.list[l].num_nodes = @ + 1]
    BY <2>1, <2>2, <2>3
  <2>. QED  BY <2>4 DEF Inserted
<1>2. PICK f \in Heap : f = [h EXCEPT !.list[l].head = n]
  BY HeadUpdated
<1>3. PICK e \in Heap : e = [f EXCEPT !.list[l].tail = n]
  BY HeadUpdated
<1>4. PICK d \in Heap : d = [e EXCEPT !.list[l].status = "LIST_OOB_NONE"]
  BY HeadUpdated DEF Status
<1>5. d = [h EXCEPT !.list[l].head = n, !.list[l].tail = n,
                    !.list[l].status = "LIST_OOB_NONE"]
  BY <1>2, <1>3, <1>4
<1>. QED  BY <1>1, <1>5 DEF InsertIntoEmpty

\* A node is put between two others; at an end of the list, the end moves to it.
LEMMA PutBetweenTyped ==
  ASSUME NEW g \in Heap, NEW l \in AnyList, NEW n \in Pointer,
         NEW first \in Pointer, NEW second \in Pointer
  PROVE  LET linked == linkNodes(linkNodes(g, first, n), n, second)
         IN  /\ Inserted(linked, l, n).heap \in Heap
             /\ Inserted([linked EXCEPT !.list[l].status = "LIST_OOB_NONE",
                                        !.list[l].tail = n], l, n).heap \in Heap
             /\ Inserted([linked EXCEPT !.list[l].status = "LIST_OOB_NONE",
                                        !.list[l].head = n], l, n).heap \in Heap
<1>1. PICK f \in Heap : f = linkNodes(g, first, n)
  BY LinkTyped
<1>2. PICK linked \in Heap : linked = linkNodes(f, n, second)
  BY LinkTyped
<1>3. PICK d \in Heap : d = [linked EXCEPT !.list[l].status = "LIST_OOB_NONE"]
  BY HeadUpdated DEF Status
<1>4. PICK e \in Heap : e = [d EXCEPT !.list[l].tail = n]
  BY HeadUpdated
<1>5. PICK c \in Heap : c = [d EXCEPT !.list[l].head = n]
  BY HeadUpdated
<1>6. /\ e = [linked EXCEPT !.list[l].status = "LIST_OOB_NONE", !.list[l].tail = n]
      /\ c = [linked EXCEPT !.list[l].status = "LIST_OOB_NONE", !.list[l].head = n]
  BY <1>3, <1>4, <1>5
<1>. QED  BY <1>1, <1>2, <1>6, InsertedTyped

\* List_insert_after and List_insert_before (list.c:248-316).
LEMMA InsertTyped ==
  ASSUME NEW h \in Heap, NEW l \in AnyList, NEW item \in Item
  PROVE  /\ List_insert_after(h, l, item).heap \in Heap
         /\ List_insert_before(h, l, item).heap \in Heap
<1>1. PICK g \in Heap : g = consumeFreeNode(h, item).heap
  BY ConsumeTyped
<1>2. PICK n \in NodeId \union {NULL} : n = consumeFreeNode(h, item).ret
  BY ConsumeTyped
<1>3. \A f : Failed(f).heap = f
  BY DEF Failed
<1>4. CASE n = NULL
  BY <1>1, <1>2, <1>3, <1>4 DEF List_insert_after, List_insert_before
<1>5. CASE n # NULL /\ emptyList(g, l)
  BY <1>1, <1>2, <1>5, InsertedTyped, Pointers, ZenonT(30) DEF List_insert_after, List_insert_before
<1>6. CASE n # NULL /\ ~emptyList(g, l)
  <2>1. n \in Pointer
    BY <1>2, <1>6, Pointers
  <2>2. List_insert_after(h, l, item).heap \in Heap
    <3>1. PICK temp \in Pointer : temp = IF g.list[l].status = "LIST_OOB_END"
                                         THEN g.list[l].tail ELSE g.list[l].curr
      BY Fields
    <3>2. CASE temp \notin NodeId
      BY <1>1, <1>2, <1>3, <1>6, <3>1, <3>2, FaultTyped, ZenonT(30) DEF List_insert_after
    <3>3. CASE temp \in NodeId
      <4>1. PICK next \in Pointer : next = g.node[temp].next
        BY <3>3, Fields
      <4>2. PICK linked : linked = linkNodes(linkNodes(g, temp, n), n, next)
        OBVIOUS
      <4>3. PICK ended : ended = [linked EXCEPT !.list[l].status = "LIST_OOB_NONE",
                                                !.list[l].tail = n]
        OBVIOUS
      <4>4. /\ Inserted(linked, l, n).heap \in Heap
            /\ Inserted(ended, l, n).heap \in Heap
        BY <2>1, <4>2, <4>3, PutBetweenTyped, ZenonT(30)
      <4>5. List_insert_after(h, l, item) \in
              {Inserted(linked, l, n), Inserted(ended, l, n)}
        BY <1>1, <1>2, <1>6, <3>1, <3>3, <4>1, <4>2, <4>3, ZenonT(30) DEF List_insert_after
      <4>. QED  BY <4>4, <4>5
    <3>. QED  BY <3>2, <3>3
  <2>3. List_insert_before(h, l, item).heap \in Heap
    <3>1. PICK temp \in Pointer : temp = IF g.list[l].curr # NULL
                                         THEN g.list[l].curr ELSE g.list[l].head
      BY Fields
    <3>2. CASE temp \notin NodeId
      BY <1>1, <1>2, <1>3, <1>6, <3>1, <3>2, FaultTyped, ZenonT(30) DEF List_insert_before
    <3>3. CASE temp \in NodeId
      <4>1. PICK prev \in Pointer : prev = g.node[temp].prev
        BY <3>3, Fields
      <4>2. PICK linked : linked = linkNodes(linkNodes(g, prev, n), n, temp)
        OBVIOUS
      <4>3. PICK ended : ended = [linked EXCEPT !.list[l].status = "LIST_OOB_NONE",
                                                !.list[l].head = n]
        OBVIOUS
      <4>4. /\ Inserted(linked, l, n).heap \in Heap
            /\ Inserted(ended, l, n).heap \in Heap
        BY <2>1, <4>2, <4>3, PutBetweenTyped, ZenonT(30)
      <4>5. List_insert_before(h, l, item) \in
              {Inserted(linked, l, n), Inserted(ended, l, n)}
        BY <1>1, <1>2, <1>6, <3>1, <3>3, <4>1, <4>2, <4>3, ZenonT(30) DEF List_insert_before
      <4>. QED  BY <4>4, <4>5
    <3>. QED  BY <3>2, <3>3
  <2>. QED  BY <2>2, <2>3
<1>. QED  BY <1>4, <1>5, <1>6

\* List_append and List_prepend (list.c:318-331).
LEMMA EndInsertTyped ==
  ASSUME NEW h \in Heap, NEW l \in AnyList, NEW item \in Item
  PROVE  List_append(h, l, item).heap \in Heap /\ List_prepend(h, l, item).heap \in Heap
BY InsertTyped, MoveToTyped DEF List_append, List_prepend

\* List_remove: the decremented cursor is a node, or Wild (list.c:333-356).
LEMMA RemoveTyped ==
  ASSUME NEW h \in Heap, NEW l \in AnyList
  PROVE  List_remove(h, l).heap \in Heap
<1>1. PICK current \in Pointer : current = h.list[l].curr
  BY Fields
<1>2. CASE isListOOB(h, l) \/ current = NULL
  BY <1>1, <1>2, Pointers, ZenonT(30) DEF List_remove
<1>3. CASE ~isListOOB(h, l) /\ current = Wild
  BY <1>1, <1>3, Pointers, FaultTyped DEF List_remove
<1>4. CASE ~isListOOB(h, l) /\ current \in NodeId
  <2>1. PICK moved \in Heap : moved = List_next(h, l).heap
    BY AdvanceTyped
  <2>2. PICK headed \in Heap : headed = IF current = moved.list[l].head
                 THEN Set(moved, l, "head", moved.list[l].curr) ELSE moved
    BY SetTyped, Fields
  <2>3. PICK gone \in Node : gone = h.node[current]
    BY <1>4, Fields
  <2>4. PICK cut \in Heap : cut = unlinkNodes(headed, current, gone.prev, gone.next)
    BY UnlinkTyped DEF Node
  <2>5. Decrement(cut.list[l].curr) \in Pointer
    BY Pointers, HeapAssumption DEF Decrement, NodeId, Pointer
  <2>6. PICK stepped \in Heap : stepped = Set(cut, l, "curr", Decrement(cut.list[l].curr))
    BY <2>5, SetTyped
  <2>7. List_remove(h, l) = [heap |-> produceFreeNode(stepped, current), ret |-> gone.item]
    BY <1>1, <1>4, <2>1, <2>2, <2>3, <2>4, <2>6, Pointers, ZenonT(30) DEF List_remove
  <2>. QED  BY <1>4, <2>7, ProduceTyped
<1>. QED  BY <1>1, <1>2, <1>3, <1>4 DEF Pointer

\* List_trim (list.c:358-388).
LEMMA TrimTyped ==
  ASSUME NEW h \in Heap, NEW l \in AnyList
  PROVE  List_trim(h, l).heap \in Heap
<1>1. PICK last \in Heap : last = List_last(h, l).heap
  BY MoveToTyped
<1>2. PICK current \in Pointer : current = last.list[l].curr
  BY Fields
<1>3. CASE emptyList(h, l)
  BY <1>3, ZenonT(30) DEF List_trim
<1>4. CASE ~emptyList(h, l) /\ current \notin NodeId
  BY <1>1, <1>2, <1>4, FaultTyped, ZenonT(30) DEF List_trim
<1>5. CASE ~emptyList(h, l) /\ current \in NodeId
  <2>1. PICK moved \in Heap : moved = List_prev(last, l).heap
    BY AdvanceTyped
  <2>2. PICK before \in Pointer : before = moved.list[l].curr
    BY Fields
  <2>3. PICK tailed \in Heap : tailed = Set(moved, l, "tail", before)
    BY SetTyped
  <2>4. PICK headed \in Heap : headed = IF current = tailed.list[l].head
                 THEN Set(tailed, l, "head", before) ELSE tailed
    BY SetTyped
  <2>5. PICK gone \in Node : gone = last.node[current]
    BY <1>5, Fields
  <2>6. PICK cut \in Heap : cut = unlinkNodes(headed, current, gone.prev, gone.next)
    BY UnlinkTyped DEF Node
  <2>7. PICK i \in Int : i = cut.list[l].num_nodes - 1
    BY Fields
  <2>8. PICK counted \in Heap : counted = [cut EXCEPT !.list[l].num_nodes = i]
    BY HeadUpdated
  <2>9. List_trim(h, l) = [heap |-> produceFreeNode(counted, current), ret |-> gone.item]
    <3>1. counted = [cut EXCEPT !.list[l].num_nodes = @ - 1]
      BY <2>7, <2>8
    <3>2. List_trim(h, l) =
            LET c == unlinkNodes(headed, current, gone.prev, gone.next)
            IN  [heap |-> produceFreeNode([c EXCEPT !.list[l].num_nodes = @ - 1], current),
                 ret |-> gone.item]
      BY <1>1, <1>2, <1>5, <2>1, <2>2, <2>3, <2>4, <2>5, ZenonT(30) DEF List_trim
    <3>. QED  BY <2>6, <3>1, <3>2
  <2>. QED  BY <1>5, <2>9, ProduceTyped
<1>. QED  BY <1>3, <1>4, <1>5

\* List_concat of both libraries.
LEMMA ConcatTyped ==
  ASSUME NEW h \in Heap, NEW l1 \in ListId, NEW l2 \in ListId
  PROVE  List_concat(h, l1, l2) \in Heap /\ DumpConcat(h, l1, l2) \in Heap
<1>1. l1 \in AnyList /\ l2 \in AnyList
  BY Pointers
<1>2. PICK two \in ListHead : two = h.list[l2]
  BY <1>1, Fields
<1>3. PICK g \in Heap : g = linkNodes(h, h.list[l1].tail, two.head)
  BY <1>1, Fields, LinkTyped DEF ListHead
<1>4. PICK i \in Int : i = g.list[l1].num_nodes + two.num_nodes
  BY <1>1, Fields DEF ListHead
<1>5. PICK curr \in Pointer : curr = IF h.list[l1].status = "LIST_OOB_END"
                                     THEN two.head ELSE g.list[l1].curr
  BY <1>1, Fields DEF ListHead
<1>6. PICK g1 \in Heap : g1 = [g EXCEPT !.list[l1].tail = two.tail]
  BY <1>1, HeadUpdated DEF ListHead
<1>7. PICK g2 \in Heap : g2 = [g1 EXCEPT !.list[l1].num_nodes = i]
  BY <1>1, HeadUpdated
<1>8. PICK g3 \in Heap : g3 = [g2 EXCEPT !.list[l1].curr = curr]
  BY <1>1, HeadUpdated
<1>9. List_concat(h, l1, l2) \in Heap
  <2>1. g3 = [g EXCEPT !.list[l1].tail = two.tail,
                  !.list[l1].num_nodes = @ + two.num_nodes,
                  !.list[l1].curr = IF h.list[l1].status = "LIST_OOB_END"
                                    THEN two.head ELSE @]
    BY <1>1, <1>4, <1>5, <1>6, <1>7, <1>8, ZenonT(30) DEF Heap, ListHead
  <2>2. PICK head \in ListHead : head = [two EXCEPT !.head = two.tail]
    BY DEF ListHead
  <2>3. PICK overwritten \in Heap : overwritten = [h EXCEPT !.list[l1] = head]
    BY <1>1, ListUpdated
  <2>4. PICK e \in Heap :
          e = CASE emptyList(h, l2) -> h
                [] ~emptyList(h, l2) /\ ~emptyList(h, l1) -> overwritten
                [] ~emptyList(h, l2) /\ emptyList(h, l1) -> g3
    OBVIOUS
  <2>5. List_concat(h, l1, l2) = produceFreeList(e, l2)
    BY <1>2, <1>3, <2>1, <2>2, <2>3, <2>4, ZenonT(30) DEF List_concat
  <2>. QED  BY <2>5, FreeListTyped
<1>10. DumpConcat(h, l1, l2) \in Heap
  <2>1. PICK f1 \in Heap : f1 = [g EXCEPT !.list[l1].num_nodes = i]
    BY <1>1, HeadUpdated
  <2>2. PICK f2 \in Heap : f2 = [f1 EXCEPT !.list[l1].tail = two.tail]
    BY <1>1, HeadUpdated DEF ListHead
  <2>3. PICK f3 \in Heap : f3 = [f2 EXCEPT !.list[l1].curr = curr]
    BY <1>1, HeadUpdated
  <2>4. f3 = [g EXCEPT !.list[l1].num_nodes = @ + two.num_nodes,
                  !.list[l1].tail = two.tail,
                  !.list[l1].curr = IF h.list[l1].status = "LIST_OOB_END"
                                    THEN two.head ELSE @]
    BY <1>1, <1>4, <1>5, <2>1, <2>2, <2>3, ZenonT(30) DEF Heap, ListHead
  <2>5. PICK taken \in Heap : taken = [h EXCEPT !.list[l1] = two]
    BY <1>1, ListUpdated
  <2>6. PICK e \in Heap :
          e = CASE isListEmpty(h, l2) -> h
                [] ~isListEmpty(h, l2) /\ isListEmpty(h, l1) -> taken
                [] ~isListEmpty(h, l2) /\ ~isListEmpty(h, l1) -> f3
    OBVIOUS
  <2>7. DumpConcat(h, l1, l2) = produceFreeList(e, l2)
    BY <1>2, <1>3, <2>4, <2>5, <2>6, ZenonT(30) DEF DumpConcat, Link_2_nodes, returnFreeList
  <2>. QED  BY <2>7, FreeListTyped
<1>. QED  BY <1>9, <1>10

\* What the loop of List_free ends with: something that holds where it starts and
\* that its rounds keep.
FreeStart(h, l) == Set(h, l, "curr", h.list[l].head)

LEMMA FreeEnds ==
  ASSUME NEW h \in Heap, NEW l \in ListId, NEW D, FreeStart(h, l) \in D,
         \A g \in D : ~g.fault /\ g.list[l].curr # NULL => FreeRound(g, l) \in D
  PROVE  \E done \in D : List_free(h, l) =
           CASE emptyList(h, l) -> produceFreeList(h, l)
             [] ~emptyList(h, l) /\ ~done.fault /\ done.list[l].curr = NULL ->
                  produceFreeList(done, l)
             [] OTHER -> Fault(h)
<1>. DEFINE N == LIST_MAX_NUM_NODES + 2
            start == Set(h, l, "curr", h.list[l].head)
            round(g) == IF g.fault \/ g.list[l].curr = NULL THEN g ELSE FreeRound(g, l)
            loop[k \in 0 .. N] ==
              IF k = 0 THEN start
              ELSE LET g == loop[k - 1]
                   IN  IF g.fault \/ g.list[l].curr = NULL THEN g ELSE FreeRound(g, l)
<1>1. N \in Nat
  BY HeapAssumption
<1>2. start \in D
  BY DEF FreeStart
<1>3. \A g \in D : round(g) \in D
  OBVIOUS
<1>4. loop = [k \in 0 .. N |-> IF k = 0 THEN start
               ELSE LET g == loop[k - 1]
                    IN  IF g.fault \/ g.list[l].curr = NULL THEN g ELSE FreeRound(g, l)]
  <2>1. PICK F \in [D -> D] : F = [g \in D |-> round(g)]
    BY <1>3
  <2>. HIDE DEF N, start, loop
  <2>2. PICK f \in [0 .. N -> D] : Rounds(f, N, start, F)
    BY <1>1, <1>2, Iterated
  <2>3. f = [k \in 0 .. N |-> IF k = 0 THEN start
               ELSE LET g == f[k - 1]
                    IN  IF g.fault \/ g.list[l].curr = NULL THEN g ELSE FreeRound(g, l)]
    BY <1>1, <2>1, <2>2 DEF Rounds
  <2>. USE DEF loop
  <2>. QED  BY <2>3
<1>5. loop[N] \in D
  <2>. HIDE DEF N, start, loop
  <2>1. loop[0] = start
    BY <1>1, <1>4
  <2>2. \A k \in 1 .. N : loop[k] = round(loop[k - 1])
    BY <1>1, <1>4
  <2>. HIDE DEF round
  <2>3. \A k \in 1 .. N : loop[k - 1] \in D => loop[k] \in D
    BY <1>3, <2>2
  <2>4. \A k \in 0 .. N : loop[k] \in D
    BY <1>1, <1>2, <2>1, <2>3, LoopStays
  <2>. QED  BY <1>1, <2>4
<1>6. List_free(h, l) =
        CASE emptyList(h, l) -> produceFreeList(h, l)
          [] ~emptyList(h, l) /\ ~loop[N].fault /\ loop[N].list[l].curr = NULL ->
               produceFreeList(loop[N], l)
          [] OTHER -> Fault(h)
  BY DEF List_free
<1>. HIDE DEF N, start, loop
<1>. QED  BY <1>5, <1>6

\* List_free (list.c:426-450).
LEMMA FreeTyped ==
  ASSUME NEW h \in Heap, NEW l \in ListId
  PROVE  List_free(h, l) \in Heap
<1>1. l \in AnyList
  BY Pointers
<1>2. FreeStart(h, l) \in Heap
  BY <1>1, SetTyped, Fields DEF FreeStart
<1>3. \A g \in Heap : FreeRound(g, l) \in Heap
  BY <1>1, RemoveTyped, FaultTyped DEF FreeRound
<1>4. PICK done \in Heap : List_free(h, l) =
           CASE emptyList(h, l) -> produceFreeList(h, l)
             [] ~emptyList(h, l) /\ ~done.fault /\ done.list[l].curr = NULL ->
                  produceFreeList(done, l)
             [] OTHER -> Fault(h)
  BY <1>2, <1>3, FreeEnds
<1>. QED  BY <1>4, FreeListTyped, FaultTyped

\* What following a link yields: the nodes from p on, each the linked one of the
\* one before, up to a pointer that is no node, or too many of them.
LEMMA ChainFollows ==
  ASSUME NEW h \in Heap, NEW p \in Pointer, NEW field \in {"next", "prev"}
  PROVE  LET c == Chain(h, p, field)
         IN  /\ c \in Seq(NodeId) /\ Len(c) <= LIST_MAX_NUM_NODES + 1
             /\ p \in NodeId => c # <<>> /\ c[1] = p
             /\ \A i \in 1 .. Len(c) - 1 : c[i + 1] = h.node[c[i]][field]
             /\ p \in NodeId /\ ~Cyclic(c) => h.node[c[Len(c)]][field] \notin NodeId
             /\ p \notin NodeId => c = <<>>
<1>. DEFINE N == LIST_MAX_NUM_NODES
            follow(q) == IF q \in NodeId THEN h.node[q][field] ELSE q
            at[k \in 0 .. N] ==
              IF k = 0 THEN p
              ELSE LET before == at[k - 1]
                   IN  IF before \in NodeId THEN h.node[before][field] ELSE before
            IsLength(k) == /\ \A i \in 0 .. k - 1 : at[i] \in NodeId
                           /\ k <= N => at[k] \notin NodeId
            length == CHOOSE k \in 0 .. N + 1 : IsLength(k)
<1>1. N \in Nat \ {0} /\ NodeId \subseteq Pointer
  BY HeapAssumption, Pointers
<1>2. \A q \in Pointer : follow(q) \in Pointer
  BY Fields
<1>3. at = [k \in 0 .. N |-> IF k = 0 THEN p
              ELSE LET before == at[k - 1]
                   IN  IF before \in NodeId THEN h.node[before][field] ELSE before]
  <2>1. PICK F \in [Pointer -> Pointer] : F = [q \in Pointer |-> follow(q)]
    BY <1>2
  <2>. HIDE DEF N, at
  <2>2. PICK f \in [0 .. N -> Pointer] : Rounds(f, N, p, F)
    BY <1>1, Iterated
  <2>3. f = [k \in 0 .. N |-> IF k = 0 THEN p
              ELSE LET before == f[k - 1]
                   IN  IF before \in NodeId THEN h.node[before][field] ELSE before]
    BY <1>1, <2>1, <2>2 DEF Rounds
  <2>. USE DEF at
  <2>. QED  BY <2>3
<1>4. /\ at[0] = p
      /\ \A k \in 1 .. N : at[k] = follow(at[k - 1])
  <2>. HIDE DEF N, at
  <2>. QED  BY <1>1, <1>3
<1>5. Chain(h, p, field) = [i \in 1 .. length |-> at[i - 1]]
  BY DEF Chain
<1>. HIDE DEF N, at, follow
<1>6. \E k \in 0 .. N + 1 : IsLength(k)
  <2>. DEFINE Out == {k \in 0 .. N : at[k] \notin NodeId}
  <2>1. CASE Out = {}
    <3>1. IsLength(N + 1)
      BY <1>1, <2>1
    <3>. QED  BY <1>1, <3>1
  <2>2. CASE Out # {}
    <3>1. PICK k \in Out : \A j \in Out : k <= j
      <4>1. Out \in SUBSET Nat
        BY <1>1
      <4>. QED  BY <2>2, <4>1, Smallest
    <3>2. k \in 0 .. N /\ \A i \in 0 .. k - 1 : at[i] \in NodeId
      <4>1. k \in 0 .. N
        BY <3>1
      <4>2. ASSUME NEW i \in 0 .. k - 1 PROVE at[i] \in NodeId
        <5>1. i \in 0 .. N /\ ~ (k <= i)
          BY <1>1, <4>1
        <5>. QED  BY <3>1, <5>1
      <4>. QED  BY <4>1, <4>2
    <3>3. IsLength(k)
      BY <3>1, <3>2
    <3>. QED  BY <1>1, <3>2, <3>3
  <2>. QED  BY <2>1, <2>2
<1>. HIDE DEF IsLength
<1>7. length \in 0 .. N + 1 /\ IsLength(length)
  BY <1>6
<1>. HIDE DEF length
<1>8. PICK c : c = Chain(h, p, field)
  OBVIOUS
<1>9. /\ length \in Nat /\ length <= N + 1
      /\ \A i \in 1 .. length : at[i - 1] \in NodeId
      /\ length <= N => at[length] \notin NodeId
  BY <1>1, <1>7 DEF IsLength
<1>10. c = [i \in 1 .. length |-> at[i - 1]] /\ c \in Seq(NodeId) /\ Len(c) = length
  <2>1. c = [i \in 1 .. length |-> at[i - 1]]
    BY <1>5, <1>8
  <2>2. c \in [1 .. length -> NodeId]
    BY <1>9, <2>1
  <2>. QED  BY <1>9, <2>1, <2>2
<1>11. p \in NodeId => length # 0
  BY <1>1, <1>4, <1>9
<1>12. p \notin NodeId => length = 0
  <2>1. length # 0 => 1 \in 1 .. length
    BY <1>9
  <2>. QED  BY <1>4, <1>9, <2>1
<1>13. ASSUME NEW i \in 1 .. length - 1 PROVE c[i + 1] = h.node[c[i]][field]
  <2>1. i \in 1 .. N /\ i \in 1 .. length /\ i + 1 \in 1 .. length /\ (i + 1) - 1 = i
    BY <1>1, <1>9
  <2>2. at[i] = follow(at[i - 1]) /\ at[i - 1] \in NodeId
    BY <1>4, <1>9, <2>1
  <2>3. c[i] = at[i - 1] /\ c[i + 1] = at[i]
    BY <1>10, <2>1
  <2>. QED  BY <2>2, <2>3 DEF follow
<1>14. ASSUME length # 0, length <= N
       PROVE  h.node[c[length]][field] \notin NodeId
  <2>1. length \in 1 .. N /\ length \in 1 .. length
    BY <1>1, <1>9, <1>14
  <2>2. at[length] = follow(at[length - 1]) /\ at[length - 1] \in NodeId
    BY <1>4, <1>9, <2>1
  <2>3. c[length] = at[length - 1]
    BY <1>10, <2>1
  <2>. QED  BY <1>9, <1>14, <2>2, <2>3 DEF follow
<1>15. length # 0 => c # <<>> /\ c[1] = p
  <2>1. length # 0 => 1 \in 1 .. length /\ 1 - 1 = 0
    BY <1>9
  <2>. QED  BY <1>4, <1>10, <2>1
<1>16. Cyclic(c) <=> length > N
  BY <1>10 DEF Cyclic, N
<1>. QED
  <2>1. c \in Seq(NodeId) /\ Len(c) <= LIST_MAX_NUM_NODES + 1
    BY <1>9, <1>10 DEF N
  <2>2. p \in NodeId => c # <<>> /\ c[1] = p
    BY <1>11, <1>15
  <2>3. \A i \in 1 .. Len(c) - 1 : c[i + 1] = h.node[c[i]][field]
    BY <1>10, <1>13
  <2>4. p \in NodeId /\ ~Cyclic(c) => h.node[c[Len(c)]][field] \notin NodeId
    BY <1>1, <1>9, <1>10, <1>11, <1>14, <1>16
  <2>5. p \notin NodeId => c = <<>>
    BY <1>10, <1>12
  <2>. QED  BY <1>8, <2>1, <2>2, <2>3, <2>4, <2>5

\* List_search: the cursor goes to a node of the chain or to NULL
\* (list.c:464-487).
LEMMA SearchTyped ==
  ASSUME NEW h \in Heap, NEW l \in AnyList, NEW match
  PROVE  List_search(h, l, match).heap \in Heap
<1>1. PICK start \in Heap :
        start = CASE h.list[l].status = "LIST_OOB_START" -> List_first(h, l).heap
                  [] h.list[l].status = "LIST_OOB_END"   -> List_last(h, l).heap
                  [] h.list[l].status = "LIST_OOB_NONE"  -> h
  <2>1. h.list[l].status \in Status
    BY Fields
  <2>. QED  BY <2>1, MoveToTyped DEF Status
<1>2. PICK chain : chain = Chain(start, start.list[l].curr, "next")
  OBVIOUS
<1>3. chain \in Seq(NodeId)
  BY <1>2, Fields, ChainFollows
<1>4. PICK hits : hits = {i \in DOMAIN chain : start.node[chain[i]].item \in match}
  OBVIOUS
<1>5. PICK first : first = CHOOSE i \in hits : \A j \in hits : i <= j
  OBVIOUS
<1>6. hits # {} => Set(start, l, "curr", chain[first]) \in Heap
  <2>1. SUFFICES ASSUME hits # {} PROVE chain[first] \in NodeId
    BY SetTyped, Pointers
  <2>2. hits \in SUBSET Nat /\ hits \subseteq DOMAIN chain
    BY <1>3, <1>4
  <2>3. \E i \in hits : \A j \in hits : i <= j
    BY <2>1, <2>2, Smallest
  <2>4. first \in hits
    BY <1>5, <2>3
  <2>. QED  BY <1>3, <2>2, <2>4
<1>7. PICK f \in Heap : f = Set(start, l, "curr", NULL)
  BY SetTyped, Pointers
<1>8. PICK e \in Heap : e = Set(f, l, "status", "LIST_OOB_END")
  BY SetTyped DEF Status
<1>9. List_search(h, l, match) =
         CASE emptyList(h, l) \/ start.list[l].curr = NULL ->
                [heap |-> start, ret |-> NoItem]
           [] ~emptyList(h, l) /\ hits # {} ->
                [heap |-> Set(start, l, "curr", chain[first]),
                 ret  |-> start.node[chain[first]].item]
           [] ~emptyList(h, l) /\ chain # <<>> /\ hits = {} /\ ~Cyclic(chain) ->
                [heap |-> e, ret |-> NoItem]
           [] OTHER -> [heap |-> Fault(h), ret |-> NoItem]
  BY <1>1, <1>2, <1>4, <1>5, <1>7, <1>8 DEF List_search
<1>. QED  BY <1>6, <1>9, FaultTyped

-----------------------------------------------------------------------------
(* The functions of dump/list.c.                                           *)

\* The insertions of dump/list.c.
LEMMA DumpInsertTyped ==
  ASSUME NEW h \in Heap, NEW l \in AnyList, NEW item \in Item
  PROVE  /\ List_add(h, l, item).heap \in Heap
         /\ List_insert(h, l, item).heap \in Heap
         /\ DumpAppend(h, l, item).heap \in Heap
         /\ DumpPrepend(h, l, item).heap \in Heap
<1>1. ASSUME NEW f \in Heap, NEW end \in {"head", "tail"}, NEW beyond
      PROVE  AddBeside(f, l, item, end, beyond).heap \in Heap
  <2>1. PICK g \in Heap : g = getFreeNode(f, item).heap
    BY ConsumeTyped DEF getFreeNode
  <2>2. PICK n \in NodeId \union {NULL} : n = getFreeNode(f, item).ret
    BY ConsumeTyped DEF getFreeNode
  <2>3. \A e : Failed(e).heap = e
    BY DEF Failed
  <2>4. CASE n = NULL
    BY <2>1, <2>2, <2>3, <2>4 DEF AddBeside
  <2>5. CASE n # NULL /\ isListEmpty(g, l)
    BY <2>1, <2>2, <2>5, InsertedTyped, Pointers, ZenonT(30)
    DEF AddBeside, List_add_on_empty, InsertIntoEmpty
  <2>6. CASE n # NULL /\ ~isListEmpty(g, l)
    <3>1. n \in Pointer
      BY <2>2, <2>6, Pointers
    <3>2. PICK beside \in Pointer : beside = IF g.list[l].curr # NULL
                                             THEN g.list[l].curr ELSE g.list[l][end]
      BY Fields
    <3>3. CASE beside \notin NodeId
      BY <2>1, <2>2, <2>3, <2>6, <3>2, <3>3, FaultTyped, ZenonT(30) DEF AddBeside
    <3>4. CASE beside \in NodeId /\ end = "tail"
      <4>1. PICK next \in Pointer : next = g.node[beside].next
        BY <3>4, Fields
      <4>2. PICK linked : linked = Link_3_nodes(g, beside, n, next)
        OBVIOUS
      <4>3. PICK ended : ended = [linked EXCEPT !.list[l].status = "LIST_OOB_NONE",
                                                !.list[l].tail = n]
        OBVIOUS
      <4>4. /\ Inserted(linked, l, n).heap \in Heap
            /\ Inserted(ended, l, n).heap \in Heap
        BY <3>1, <4>2, <4>3, PutBetweenTyped, ZenonT(30) DEF Link_3_nodes, Link_2_nodes
      <4>5. AddBeside(f, l, item, end, beyond) \in
              {Inserted(linked, l, n), Inserted(ended, l, n)}
        BY <2>1, <2>2, <2>6, <3>2, <3>4, <4>1, <4>2, <4>3, ZenonT(30) DEF AddBeside
      <4>. QED  BY <4>4, <4>5
    <3>5. CASE beside \in NodeId /\ end = "head"
      <4>1. PICK prev \in Pointer : prev = g.node[beside].prev
        BY <3>5, Fields
      <4>2. PICK linked : linked = Link_3_nodes(g, prev, n, beside)
        OBVIOUS
      <4>3. PICK ended : ended = [linked EXCEPT !.list[l].status = "LIST_OOB_NONE",
                                                !.list[l].head = n]
        OBVIOUS
      <4>4. /\ Inserted(linked, l, n).heap \in Heap
            /\ Inserted(ended, l, n).heap \in Heap
        BY <3>1, <4>2, <4>3, PutBetweenTyped, ZenonT(30) DEF Link_3_nodes, Link_2_nodes
      <4>5. AddBeside(f, l, item, end, beyond) \in
              {Inserted(linked, l, n), Inserted(ended, l, n)}
        BY <2>1, <2>2, <2>6, <3>2, <3>5, <4>1, <4>2, <4>3, ZenonT(30) DEF AddBeside
      <4>. QED  BY <4>4, <4>5
    <3>. QED  BY <3>3, <3>4, <3>5
  <2>. QED  BY <2>4, <2>5, <2>6
<1>2. ASSUME NEW f \in Heap
      PROVE  AddAfter(f, l, item).heap \in Heap /\ AddBefore(f, l, item).heap \in Heap
  BY <1>1 DEF AddAfter, AddBefore
<1>3. ASSUME NEW f \in Heap
      PROVE  List_add(f, l, item).heap \in Heap /\ List_insert(f, l, item).heap \in Heap
  BY <1>2 DEF List_add, List_insert
<1>4. List_last(h, l).heap \in Heap /\ List_first(h, l).heap \in Heap
  BY MoveToTyped
<1>. QED  BY <1>3, <1>4 DEF DumpAppend, DumpPrepend

\* What List_remove and List_trim of dump/list.c end with,
LEMMA UnlinkedTyped ==
  ASSUME NEW h \in Heap, NEW l \in AnyList, NEW current \in NodeId
  PROVE  Unlinked(h, l, current).heap \in Heap
<1>1. PICK gone \in Node : gone = h.node[current]
  BY Fields
<1>2. PICK cut \in Heap : cut = Unlink_node(h, current, gone.prev, gone.next)
  BY UnlinkTyped DEF Unlink_node, Node
<1>3. PICK i \in Int : i = cut.list[l].num_nodes - 1
  BY Fields
<1>4. PICK counted \in Heap : counted = [cut EXCEPT !.list[l].num_nodes = i]
  BY HeadUpdated
<1>5. counted = [cut EXCEPT !.list[l].num_nodes = @ - 1]
  BY <1>3, <1>4
<1>6. Unlinked(h, l, current).heap = returnFreeNode(counted, current)
  BY <1>1, <1>2, <1>5, ZenonT(30) DEF Unlinked
<1>. QED  BY <1>6, ProduceTyped DEF returnFreeNode

\* and both of them.
LEMMA DumpTakeOutTyped ==
  ASSUME NEW h \in Heap, NEW l \in AnyList
  PROVE  DumpRemove(h, l).heap \in Heap /\ DumpTrim(h, l).heap \in Heap
<1>1. DumpRemove(h, l).heap \in Heap
  <2>1. PICK current \in Pointer : current = h.list[l].curr
    BY Fields
  <2>2. PICK moved \in Heap : moved = List_next(h, l).heap
    BY AdvanceTyped
  <2>3. PICK headed \in Heap : headed = IF current = moved.list[l].head
                 THEN Set(moved, l, "head", moved.list[l].curr) ELSE moved
    BY SetTyped, Fields
  <2>4. CASE isListOOB(h, l) \/ current = NULL
    BY <2>1, <2>4, Pointers DEF DumpRemove
  <2>5. CASE ~isListOOB(h, l) /\ current = Wild
    BY <2>1, <2>5, Pointers, FaultTyped DEF DumpRemove
  <2>6. CASE ~isListOOB(h, l) /\ current \in NodeId
    <3>1. DumpRemove(h, l) = Unlinked(headed, l, current)
      BY <2>1, <2>2, <2>3, <2>6, Pointers DEF DumpRemove
    <3>. QED  BY <2>6, <3>1, UnlinkedTyped
  <2>. QED  BY <2>1, <2>4, <2>5, <2>6 DEF Pointer
<1>2. DumpTrim(h, l).heap \in Heap
  <2>1. PICK last \in Heap : last = List_last(h, l).heap
    BY MoveToTyped
  <2>2. PICK current \in Pointer : current = last.list[l].curr
    BY Fields
  <2>3. PICK moved \in Heap : moved = List_prev(last, l).heap
    BY AdvanceTyped
  <2>4. PICK before \in Pointer : before = moved.list[l].curr
    BY Fields
  <2>5. PICK tailed \in Heap : tailed = Set(moved, l, "tail", before)
    BY SetTyped
  <2>6. PICK headed \in Heap : headed = IF current = tailed.list[l].head
                 THEN Set(tailed, l, "head", before) ELSE tailed
    BY SetTyped
  <2>7. CASE isListEmpty(h, l)
    BY <2>7 DEF DumpTrim
  <2>8. CASE ~isListEmpty(h, l) /\ current \notin NodeId
    BY <2>1, <2>2, <2>8, FaultTyped DEF DumpTrim
  <2>9. CASE ~isListEmpty(h, l) /\ current \in NodeId
    <3>1. DumpTrim(h, l) = Unlinked(headed, l, current)
      BY <2>1, <2>2, <2>3, <2>4, <2>5, <2>6, <2>9, ZenonT(30) DEF DumpTrim
    <3>. QED  BY <2>9, <3>1, UnlinkedTyped
  <2>. QED  BY <2>7, <2>8, <2>9
<1>. QED  BY <1>1, <1>2

\* The loop of List_free in dump/list.c.
LEMMA DumpFreeLoops ==
  ASSUME NEW h \in Heap, NEW l \in ListId
  PROVE  \E loop \in [0 .. LIST_MAX_NUM_NODES -> Heap] :
           /\ loop[0] = FreeStart(h, l)
           /\ \A k \in 1 .. LIST_MAX_NUM_NODES :
                loop[k] = IF loop[k - 1].fault \/ loop[k - 1].list[l].curr = NULL
                          THEN loop[k - 1] ELSE DumpFreeRound(loop[k - 1], l)
           /\ DumpFree(h, l) =
                LET done == loop[LIST_MAX_NUM_NODES]
                IN  CASE isListEmpty(h, l) -> returnFreeList(h, l)
                      [] ~isListEmpty(h, l) /\ ~done.fault /\ done.list[l].curr = NULL ->
                           returnFreeList(done, l)
                      [] OTHER -> Fault(h)
<1>. DEFINE N == LIST_MAX_NUM_NODES
            start == Set(h, l, "curr", h.list[l].head)
            round(g) == IF g.fault \/ g.list[l].curr = NULL THEN g ELSE DumpFreeRound(g, l)
            loop[k \in 0 .. N] ==
              IF k = 0 THEN start
              ELSE LET g == loop[k - 1]
                   IN  IF g.fault \/ g.list[l].curr = NULL THEN g ELSE DumpFreeRound(g, l)
<1>1. N \in Nat /\ l \in AnyList
  BY HeapAssumption, Pointers
<1>2. start \in Heap
  BY <1>1, SetTyped, Fields
<1>3. \A g \in Heap : round(g) \in Heap
  BY <1>1, DumpTakeOutTyped, FaultTyped DEF DumpFreeRound
<1>4. PICK F \in [Heap -> Heap] : F = [g \in Heap |-> round(g)]
  BY <1>3
<1>5. PICK f \in [0 .. N -> Heap] : Rounds(f, N, start, F)
  <2>. HIDE DEF N, start, loop
  <2>. QED  BY <1>1, <1>2, <1>4, Iterated
<1>6. f = [k \in 0 .. N |-> IF k = 0 THEN start
             ELSE LET g == f[k - 1]
                  IN  IF g.fault \/ g.list[l].curr = NULL THEN g ELSE DumpFreeRound(g, l)]
  <2>. HIDE DEF N, start, loop
  <2>. QED  BY <1>1, <1>4, <1>5 DEF Rounds
<1>7. loop = [k \in 0 .. N |-> IF k = 0 THEN start
               ELSE LET g == loop[k - 1]
                    IN  IF g.fault \/ g.list[l].curr = NULL THEN g ELSE DumpFreeRound(g, l)]
  <2>. HIDE DEF N, start, loop
  <2>. USE DEF loop
  <2>. QED  BY <1>6
<1>8. loop \in [0 .. N -> Heap]
  <2>. HIDE DEF N, start, loop
  <2>1. loop[0] = start
    BY <1>1, <1>7
  <2>2. \A k \in 1 .. N : loop[k] = round(loop[k - 1])
    BY <1>1, <1>7
  <2>. HIDE DEF round
  <2>3. \A k \in 1 .. N : loop[k - 1] \in Heap => loop[k] \in Heap
    BY <1>3, <2>2
  <2>4. \A k \in 0 .. N : loop[k] \in Heap
    BY <1>1, <1>2, <2>1, <2>3, LoopStays
  <2>. QED  BY <1>7, <2>4
<1>9. DumpFree(h, l) =
        CASE isListEmpty(h, l) -> returnFreeList(h, l)
          [] ~isListEmpty(h, l) /\ ~loop[N].fault /\ loop[N].list[l].curr = NULL ->
               returnFreeList(loop[N], l)
          [] OTHER -> Fault(h)
  BY DEF DumpFree
<1>10. loop[0] = start /\ \A k \in 1 .. N : loop[k] = round(loop[k - 1])
  <2>. HIDE DEF N, start, loop
  <2>. QED  BY <1>1, <1>7
<1>11. start = FreeStart(h, l)
  BY DEF FreeStart
<1>. HIDE DEF start, loop
<1>. QED  BY <1>8, <1>9, <1>10, <1>11

\* So it ends, too, where its rounds keep it.
LEMMA DumpFreeEnds ==
  ASSUME NEW h \in Heap, NEW l \in ListId, NEW D, FreeStart(h, l) \in D,
         \A g \in D : ~g.fault /\ g.list[l].curr # NULL => DumpFreeRound(g, l) \in D
  PROVE  \E done \in D : DumpFree(h, l) =
           CASE isListEmpty(h, l) -> returnFreeList(h, l)
             [] ~isListEmpty(h, l) /\ ~done.fault /\ done.list[l].curr = NULL ->
                  returnFreeList(done, l)
             [] OTHER -> Fault(h)
<1>1. PICK loop \in [0 .. LIST_MAX_NUM_NODES -> Heap] :
        /\ loop[0] = FreeStart(h, l)
        /\ \A k \in 1 .. LIST_MAX_NUM_NODES :
             loop[k] = IF loop[k - 1].fault \/ loop[k - 1].list[l].curr = NULL
                       THEN loop[k - 1] ELSE DumpFreeRound(loop[k - 1], l)
        /\ DumpFree(h, l) =
             LET done == loop[LIST_MAX_NUM_NODES]
             IN  CASE isListEmpty(h, l) -> returnFreeList(h, l)
                   [] ~isListEmpty(h, l) /\ ~done.fault /\ done.list[l].curr = NULL ->
                        returnFreeList(done, l)
                   [] OTHER -> Fault(h)
  BY DumpFreeLoops
<1>2. \A k \in 1 .. LIST_MAX_NUM_NODES : loop[k - 1] \in D => loop[k] \in D
  BY <1>1
<1>3. LIST_MAX_NUM_NODES \in Nat /\ LIST_MAX_NUM_NODES \in 0 .. LIST_MAX_NUM_NODES
  BY HeapAssumption
<1>4. \A k \in 0 .. LIST_MAX_NUM_NODES : loop[k] \in D
  BY <1>1, <1>2, <1>3, LoopStays
<1>5. loop[LIST_MAX_NUM_NODES] \in D
  BY <1>3, <1>4
<1>. QED  BY <1>1, <1>5

\* List_free of dump/list.c,
LEMMA DumpFreeTyped ==
  ASSUME NEW h \in Heap, NEW l \in ListId
  PROVE  DumpFree(h, l) \in Heap
<1>1. l \in AnyList
  BY Pointers
<1>2. FreeStart(h, l) \in Heap
  BY <1>1, SetTyped, Fields DEF FreeStart
<1>3. \A g \in Heap : DumpFreeRound(g, l) \in Heap
  BY <1>1, DumpTakeOutTyped, FaultTyped DEF DumpFreeRound
<1>4. PICK done \in Heap : DumpFree(h, l) =
           CASE isListEmpty(h, l) -> returnFreeList(h, l)
             [] ~isListEmpty(h, l) /\ ~done.fault /\ done.list[l].curr = NULL ->
                  returnFreeList(done, l)
             [] OTHER -> Fault(h)
  BY <1>2, <1>3, DumpFreeEnds
<1>. QED  BY <1>4, FreeListTyped, FaultTyped DEF returnFreeList

\* Its List_search stops looking at something that holds where it starts and that
\* its rounds keep.
DumpFound(g, l, match) == g.list[l].curr # NULL /\ List_curr(g, l).ret \in match

\* Where that search starts.
DumpSearchStart(h, l) == IF h.list[l].curr = NULL THEN List_first(h, l).heap ELSE h

\* It ends with one of them, at the end of the list or on a match.
LEMMA DumpSearchEnds ==
  ASSUME NEW h \in Heap, NEW l \in AnyList, NEW match, NEW D, DumpSearchStart(h, l) \in D,
         \A g \in D : ~g.fault /\ g.list[l].curr # NULL /\ ~DumpFound(g, l, match)
                       => List_next(g, l).heap \in D
  PROVE  \E done \in D : DumpSearch(h, l, match) =
           CASE isListEmpty(h, l) -> [heap |-> h, ret |-> NoItem]
             [] ~isListEmpty(h, l) /\ ~done.fault /\ done.list[l].curr = NULL ->
                  [heap |-> done, ret |-> NoItem]
             [] ~isListEmpty(h, l) /\ ~done.fault /\ DumpFound(done, l, match) ->
                  [heap |-> done, ret |-> List_curr(done, l).ret]
             [] OTHER -> [heap |-> Fault(done), ret |-> NoItem]
<1>. DEFINE N == LIST_MAX_NUM_NODES
            Found(g) == g.list[l].curr # NULL /\ List_curr(g, l).ret \in match
            start == IF h.list[l].curr = NULL THEN List_first(h, l).heap ELSE h
            round(g) == IF g.fault \/ g.list[l].curr = NULL \/ Found(g) THEN g
                        ELSE List_next(g, l).heap
            loop[k \in 0 .. N] ==
              IF k = 0 THEN IF h.list[l].curr = NULL THEN List_first(h, l).heap ELSE h
              ELSE LET g == loop[k - 1]
                   IN  IF g.fault \/ g.list[l].curr = NULL \/ Found(g) THEN g
                       ELSE List_next(g, l).heap
<1>1. N \in Nat
  BY HeapAssumption
<1>2. start \in D
  BY DEF DumpSearchStart
<1>3. \A g \in D : round(g) \in D
  BY DEF DumpFound
<1>4. loop = [k \in 0 .. N |->
               IF k = 0 THEN IF h.list[l].curr = NULL THEN List_first(h, l).heap ELSE h
               ELSE LET g == loop[k - 1]
                    IN  IF g.fault \/ g.list[l].curr = NULL \/ Found(g) THEN g
                        ELSE List_next(g, l).heap]
  <2>. HIDE DEF Found
  <2>1. PICK F \in [D -> D] : F = [g \in D |-> round(g)]
    BY <1>3
  <2>. HIDE DEF N, loop
  <2>2. PICK f \in [0 .. N -> D] : Rounds(f, N, start, F)
    <3>. HIDE DEF start
    <3>. QED  BY <1>1, <1>2, Iterated
  <2>3. f = [k \in 0 .. N |->
               IF k = 0 THEN IF h.list[l].curr = NULL THEN List_first(h, l).heap ELSE h
               ELSE LET g == f[k - 1]
                    IN  IF g.fault \/ g.list[l].curr = NULL \/ Found(g) THEN g
                        ELSE List_next(g, l).heap]
    BY <1>1, <2>1, <2>2 DEF Rounds
  <2>. USE DEF loop
  <2>. QED  BY <2>3
<1>5. loop[N] \in D
  <2>. HIDE DEF N, loop, Found
  <2>1. loop[0] = start
    BY <1>1, <1>4
  <2>2. ASSUME NEW k \in 1 .. N PROVE loop[k] = round(loop[k - 1])
    <3>1. k \in 0 .. N /\ k # 0
      BY <1>1
    <3>2. PICK g : g = loop[k - 1]
      OBVIOUS
    <3>3. loop[k] = IF g.fault \/ g.list[l].curr = NULL \/ Found(g) THEN g
                    ELSE List_next(g, l).heap
      BY <1>4, <3>1, <3>2
    <3>. QED  BY <3>2, <3>3
  <2>. HIDE DEF round, start
  <2>3. \A k \in 1 .. N : loop[k - 1] \in D => loop[k] \in D
    BY <1>3, <2>2
  <2>4. \A k \in 0 .. N : loop[k] \in D
    BY <1>1, <1>2, <2>1, <2>3, LoopStays
  <2>. QED  BY <1>1, <2>4
<1>6. DumpSearch(h, l, match) =
        CASE isListEmpty(h, l) -> [heap |-> h, ret |-> NoItem]
          [] ~isListEmpty(h, l) /\ ~loop[N].fault /\ loop[N].list[l].curr = NULL ->
               [heap |-> loop[N], ret |-> NoItem]
          [] ~isListEmpty(h, l) /\ ~loop[N].fault /\ Found(loop[N]) ->
               [heap |-> loop[N], ret |-> List_curr(loop[N], l).ret]
          [] OTHER -> [heap |-> Fault(loop[N]), ret |-> NoItem]
  BY DEF DumpSearch
<1>7. Found(loop[N]) <=> DumpFound(loop[N], l, match)
  BY DEF DumpFound
<1>. HIDE DEF N, loop, Found
<1>. QED  BY <1>5, <1>6, <1>7

\* and its List_search.
LEMMA DumpSearchTyped ==
  ASSUME NEW h \in Heap, NEW l \in AnyList, NEW match
  PROVE  DumpSearch(h, l, match).heap \in Heap
<1>1. DumpSearchStart(h, l) \in Heap
  BY MoveToTyped DEF DumpSearchStart
<1>2. \A g \in Heap : List_next(g, l).heap \in Heap
  BY AdvanceTyped
<1>3. PICK done \in Heap : DumpSearch(h, l, match) =
           CASE isListEmpty(h, l) -> [heap |-> h, ret |-> NoItem]
             [] ~isListEmpty(h, l) /\ ~done.fault /\ done.list[l].curr = NULL ->
                  [heap |-> done, ret |-> NoItem]
             [] ~isListEmpty(h, l) /\ ~done.fault /\ DumpFound(done, l, match) ->
                  [heap |-> done, ret |-> List_curr(done, l).ret]
             [] OTHER -> [heap |-> Fault(done), ret |-> NoItem]
  BY <1>1, <1>2, DumpSearchEnds
<1>. QED  BY <1>3, FaultTyped

-----------------------------------------------------------------------------
(* The memory keeps its shape.                                             *)

\* TypeOK, with a memory of no other fields.
WellTyped == /\ heap \in Heap
             /\ held \in [Owner -> ListId \union {NoList}]

\* It says what TypeOK says.
LEMMA WellTypedSays == WellTyped => TypeOK
BY DEF WellTyped, TypeOK, Heap, Node, ListHead, AnyList

\* No call takes it away.
LEMMA WellTypedStep == WellTyped /\ [Next]_vars => WellTyped'
<1>1. SUFFICES ASSUME WellTyped, [Next]_vars PROVE WellTyped'
  OBVIOUS
<1>2. heap \in Heap /\ held \in [Owner -> ListId \union {NoList}]
  BY <1>1 DEF WellTyped
<1>3. \A newer, older : OfLibrary(newer, older) \in {newer, older}
  BY DEF OfLibrary
<1>4. CASE UNCHANGED vars
  BY <1>1, <1>4 DEF vars, WellTyped
<1>5. ASSUME NEW o \in Owner, Create(o) PROVE WellTyped'
  <2>1. PICK r : /\ r = OfLibrary(List_create(heap), DumpCreate(heap))
                 /\ heap' = r.heap /\ held' = [held EXCEPT ![o] = r.ret]
    BY <1>5 DEF Create
  <2>2. r = List_create(heap) \/ r = DumpCreate(heap)
    BY <1>3, <2>1
  <2>3. r.heap \in Heap /\ r.ret \in ListId
    BY <1>2, <2>2, CreatedTyped
  <2>. QED  BY <1>2, <2>1, <2>3 DEF WellTyped
<1>6. ASSUME NEW fn, NEW arg, NEW r, Perform(fn, arg, r), r.heap \in Heap
      PROVE  WellTyped'
  BY <1>2, <1>6 DEF Perform, WellTyped
<1>7. ASSUME NEW fn, NEW o \in Owner, NEW h \in Heap, GiveUp(fn, o, h)
      PROVE  WellTyped'
  BY <1>2, <1>7 DEF GiveUp, WellTyped
<1>0. \A o \in Holding : o \in Owner /\ held[o] \in ListId
  BY <1>2 DEF Holding
<1>8. ASSUME NEW l \in HeldLists,
             \/ Navigate(l)
             \/ TakeOut(l)
             \/ \E item \in Item : Insert(l, item)
             \/ \E match \in SUBSET Item : Search(l, match)
      PROVE  WellTyped'
  <2>3. l \in AnyList
    BY <1>0, Pointers DEF HeldLists
  <2>4. CASE Navigate(l)
    <3>1. /\ List_first(heap, l).heap \in Heap /\ List_last(heap, l).heap \in Heap
          /\ List_next(heap, l).heap \in Heap /\ List_prev(heap, l).heap \in Heap
      BY <1>2, <2>3, MoveToTyped, AdvanceTyped
    <3>2. List_curr(heap, l).heap \in Heap
      BY <1>2, ItemAtTyped DEF List_curr
    <3>3. \A i : [heap |-> heap, ret |-> i].heap \in Heap
      BY <1>2
    <3>. QED  BY <1>6, <2>4, <3>1, <3>2, <3>3 DEF Navigate
  <2>5. CASE TakeOut(l)
    <3>1. /\ List_remove(heap, l).heap \in Heap /\ DumpRemove(heap, l).heap \in Heap
          /\ List_trim(heap, l).heap \in Heap /\ DumpTrim(heap, l).heap \in Heap
      BY <1>2, <2>3, RemoveTyped, TrimTyped, DumpTakeOutTyped
    <3>2. /\ OfLibrary(List_remove(heap, l), DumpRemove(heap, l)).heap \in Heap
          /\ OfLibrary(List_trim(heap, l), DumpTrim(heap, l)).heap \in Heap
      BY <3>1 DEF OfLibrary
    <3>. QED  BY <1>6, <2>5, <3>2 DEF TakeOut
  <2>7. ASSUME NEW item \in Item, Insert(l, item) PROVE WellTyped'
    <3>1. /\ List_insert_after(heap, l, item).heap \in Heap
          /\ List_insert_before(heap, l, item).heap \in Heap
          /\ List_append(heap, l, item).heap \in Heap
          /\ List_prepend(heap, l, item).heap \in Heap
      BY <1>2, <2>3, InsertTyped, EndInsertTyped
    <3>2. /\ List_add(heap, l, item).heap \in Heap
          /\ List_insert(heap, l, item).heap \in Heap
          /\ DumpAppend(heap, l, item).heap \in Heap
          /\ DumpPrepend(heap, l, item).heap \in Heap
      BY <1>2, <2>3, DumpInsertTyped
    <3>3. /\ OfLibrary(List_insert_after(heap, l, item),
                       List_add(heap, l, item)).heap \in Heap
          /\ OfLibrary(List_insert_before(heap, l, item),
                       List_insert(heap, l, item)).heap \in Heap
          /\ OfLibrary(List_append(heap, l, item),
                       DumpAppend(heap, l, item)).heap \in Heap
          /\ OfLibrary(List_prepend(heap, l, item),
                       DumpPrepend(heap, l, item)).heap \in Heap
      BY <3>1, <3>2 DEF OfLibrary
    <3>. QED  BY <1>6, <2>7, <3>3 DEF Insert
  <2>8. ASSUME NEW match \in SUBSET Item, Search(l, match) PROVE WellTyped'
    <3>1. /\ List_search(heap, l, match).heap \in Heap
          /\ DumpSearch(heap, l, match).heap \in Heap
      BY <1>2, <2>3, SearchTyped, DumpSearchTyped
    <3>2. OfLibrary(List_search(heap, l, match),
                    DumpSearch(heap, l, match)).heap \in Heap
      BY <3>1 DEF OfLibrary
    <3>. QED  BY <1>6, <2>8, <3>2 DEF Search
  <2>. QED  BY <1>8, <2>4, <2>5, <2>7, <2>8
<1>9. ASSUME NEW o \in Holding,
             Free(o) \/ \E o2 \in Holding \ {o} : Concat(o, o2)
      PROVE  WellTyped'
  <2>1. PICK l \in ListId : l = held[o]
    BY <1>0
  <2>6. CASE Free(o)
    <3>1. List_free(heap, l) \in Heap /\ DumpFree(heap, l) \in Heap
      BY <1>2, FreeTyped, DumpFreeTyped
    <3>2. OfLibrary(List_free(heap, l), DumpFree(heap, l)) \in Heap
      BY <1>3, <3>1
    <3>. QED  BY <1>7, <1>0, <2>1, <2>6, <3>2 DEF Free
  <2>9. ASSUME NEW o2 \in Holding \ {o}, Concat(o, o2) PROVE WellTyped'
    <3>1. o2 \in Owner /\ held[o2] \in ListId
      BY <1>0
    <3>2. List_concat(heap, l, held[o2]) \in Heap /\ DumpConcat(heap, l, held[o2]) \in Heap
      BY <1>2, <3>1, ConcatTyped
    <3>3. OfLibrary(List_concat(heap, l, held[o2]),
                    DumpConcat(heap, l, held[o2])) \in Heap
      BY <1>3, <3>2
    <3>. QED  BY <1>7, <2>1, <2>9, <3>1, <3>3 DEF Concat
  <2>. QED  BY <1>9, <2>6, <2>9
<1>. QED  BY <1>1, <1>4, <1>5, <1>8, <1>9 DEF Next

\* Whatever functions a client of either library calls, in whatever order and
\* even after a call that has broken a list: flIndex stays within freeLists, and
\* the links, ends and cursors hold nodes, NULL or an address that faults when it
\* is used (list.c:6-20, 53-104).
THEOREM ListClientTypeCorrect == Spec => []TypeOK
<1>1. Init => WellTyped
  BY StaticTyped DEF Init, WellTyped
<1>2. WellTyped /\ [Next]_vars => WellTyped'
  BY WellTypedStep
<1>. QED  BY <1>1, <1>2, WellTypedSays, PTL DEF Spec

-----------------------------------------------------------------------------
(* The list and the unused nodes with their nodes named.                   *)

\* A list of n nodes u[1], .., u[n], linked both ways, between its two ends.
Threaded(h, u, n) ==
  /\ n \in Nat /\ u \in [1 .. n -> NodeId]
  /\ \A i, j \in 1 .. n : u[i] = u[j] => i = j
  /\ \A i \in 1 .. n :
       /\ h.node[u[i]].next = IF i = n THEN NULL ELSE u[i + 1]
       /\ h.node[u[i]].prev = IF i = 1 THEN NULL ELSE u[i - 1]

\* The head of the list says so.
Ends(h, l, u, n) ==
  /\ h.list[l].num_nodes = n
  /\ h.list[l].head = IF n = 0 THEN NULL ELSE u[1]
  /\ h.list[l].tail = IF n = 0 THEN NULL ELSE u[n]
  /\ h.list[l].curr = NULL \/ \E i \in 1 .. n : h.list[l].curr = u[i]

\* The unused nodes p[1], .., p[m], in the order freeNodes gives them out.
Pooled(h, p, m) ==
  /\ m \in Nat /\ p \in [1 .. m -> NodeId]
  /\ \A i, j \in 1 .. m : p[i] = p[j] => i = j
  /\ h.list[freeNodes].num_nodes = m
  /\ h.list[freeNodes].tail = IF m = 0 THEN NULL ELSE p[1]
  /\ \A i \in 1 .. m : h.node[p[i]].prev = IF i = m THEN NULL ELSE p[i + 1]

\* No node is in both.
Apart(u, n, p, m) == \A i \in 1 .. n : \A j \in 1 .. m : u[i] # p[j]

\* Every node is in one of them.
Cover(u, n, p, m) ==
  \A x \in NodeId : (\E i \in 1 .. n : u[i] = x) \/ (\E j \in 1 .. m : p[j] = x)

\* Distinct nodes are at most all nodes.
LEMMA Fits ==
  ASSUME NEW n \in Nat, NEW u \in [1 .. n -> NodeId],
         \A i, j \in 1 .. n : u[i] = u[j] => i = j
  PROVE  n <= LIST_MAX_NUM_NODES
<1>1. IsFiniteSet(NodeId) /\ Cardinality(NodeId) = LIST_MAX_NUM_NODES
  BY HeapAssumption, FS_Interval DEF NodeId
<1>2. u \in Injection(1 .. n, NodeId)
  BY DEF Injection, IsInjective
<1>3. Cardinality(1 .. n) = n
  BY FS_Interval
<1>. QED  BY <1>1, <1>2, <1>3, FS_Injection

\* A chain is known by its nodes: the ones that follow one another.
LEMMA ChainIs ==
  ASSUME NEW h \in Heap, NEW p \in Pointer, NEW field \in {"next", "prev"},
         NEW n \in Nat, NEW c \in [1 .. n -> NodeId], n <= LIST_MAX_NUM_NODES,
         p = IF n = 0 THEN NULL ELSE c[1],
         \A i \in 1 .. n : h.node[c[i]][field] = IF i = n THEN NULL ELSE c[i + 1]
  PROVE  Chain(h, p, field) = c
<1>1. PICK d : d = Chain(h, p, field)
  OBVIOUS
<1>2. /\ d \in Seq(NodeId) /\ Len(d) <= LIST_MAX_NUM_NODES + 1
      /\ p \in NodeId => d # <<>> /\ d[1] = p
      /\ \A i \in 1 .. Len(d) - 1 : d[i + 1] = h.node[d[i]][field]
      /\ p \in NodeId /\ ~Cyclic(d) => h.node[d[Len(d)]][field] \notin NodeId
      /\ p \notin NodeId => d = <<>>
  BY <1>1, ChainFollows
<1>3. PICK k \in Nat : k = Len(d) /\ DOMAIN d = 1 .. k /\ d = [i \in 1 .. k |-> d[i]]
  BY <1>2
<1>4. NULL \notin NodeId
  BY Pointers
<1>7. \A i \in 1 .. k : d[i] \in NodeId
  BY <1>2, <1>3
<1>5. CASE n = 0
  <2>1. d = <<>>
    BY <1>2, <1>4, <1>5
  <2>. QED  BY <1>1, <1>5, <2>1
<1>6. CASE n # 0
  <2>1. 1 \in 1 .. n /\ p = c[1] /\ p \in NodeId /\ d # <<>> /\ d[1] = c[1] /\ k >= 1
    BY <1>2, <1>3, <1>6
  <2>2. \A i \in 1 .. n : i <= k => d[i] = c[i]
    <3>. DEFINE Bad == {i \in 1 .. n : i <= k /\ d[i] # c[i]}
    <3>1. SUFFICES ASSUME Bad # {} PROVE FALSE
      OBVIOUS
    <3>2. PICK i \in Bad : \A j \in Bad : i <= j
      <4>1. Bad \in SUBSET Nat
        OBVIOUS
      <4>. QED  BY <3>1, <4>1, Smallest
    <3>3. i \in 1 .. n /\ i <= k /\ d[i] # c[i] /\ i # 1
      BY <2>1, <3>2
    <3>4. i - 1 \in 1 .. n /\ i - 1 \in 1 .. k - 1 /\ ~ (i <= i - 1) /\ (i - 1) + 1 = i
          /\ i - 1 # n
      BY <3>3
    <3>5. d[i - 1] = c[i - 1]
      BY <3>2, <3>4
    <3>6. d[i] = h.node[d[i - 1]][field]
      BY <1>2, <1>3, <3>4
    <3>7. h.node[c[i - 1]][field] = c[i]
      BY <3>4
    <3>. QED  BY <3>3, <3>5, <3>6, <3>7
  <2>3. k >= n
    <3>1. SUFFICES ASSUME k < n PROVE FALSE
      BY <1>3
    <3>0. k \in 1 .. n /\ k + 1 \in 1 .. n /\ k <= k
      BY <2>1, <3>1
    <3>2. k \in 1 .. n /\ d[k] = c[k] /\ k + 1 \in 1 .. n
      BY <2>2, <3>0
    <3>3. ~Cyclic(d)
      BY <1>3, <3>1, HeapAssumption DEF Cyclic
    <3>4. h.node[d[k]][field] \notin NodeId
      BY <1>2, <1>3, <2>1, <3>3
    <3>5. h.node[c[k]][field] = c[k + 1]
      BY <3>1, <3>2
    <3>. QED  BY <3>2, <3>4, <3>5
  <2>4. k <= n
    <3>1. SUFFICES ASSUME k > n PROVE FALSE
      BY <1>3
    <3>2. n \in 1 .. k - 1 /\ n \in 1 .. n /\ n + 1 \in 1 .. k
      BY <1>3, <1>6, <3>1
    <3>9. n \in 1 .. Len(d) - 1 /\ n + 1 \in 1 .. k
      BY <1>3, <3>2
    <3>8. d[n + 1] = h.node[d[n]][field]
      BY <1>2, <3>9
    <3>a. d[n + 1] = h.node[d[n]][field] /\ d[n + 1] \in NodeId
      BY <1>7, <3>9, <3>8
    <3>b. n <= k
      BY <3>1
    <3>c. d[n] = c[n]
      BY <2>2, <3>2, <3>b
    <3>3. d[n + 1] = h.node[d[n]][field] /\ d[n] = c[n] /\ d[n + 1] \in NodeId
      BY <3>a, <3>c
    <3>4. h.node[c[n]][field] = NULL
      BY <3>2
    <3>. QED  BY <1>4, <3>3, <3>4
  <2>5. k = n
    BY <1>3, <2>3, <2>4
  <2>. QED  BY <1>1, <1>3, <2>2, <2>5
<1>. QED  BY <1>5, <1>6

\* What the runs check of a list follows from its nodes having names.
Intact(h, l, u, n, p, m) ==
  /\ Threaded(h, u, n) /\ Ends(h, l, u, n) /\ Pooled(h, p, m)
  /\ Apart(u, n, p, m) /\ Cover(u, n, p, m)

\* The chains that the runs look at are those nodes.
LEMMA IntactChains ==
  ASSUME NEW h \in Heap, NEW l \in ListId, NEW u, NEW n, NEW p, NEW m,
         Intact(h, l, u, n, p, m)
  PROVE  /\ NodesOf(h, l) = u
         /\ Chain(h, h.list[l].tail, "prev") = [i \in 1 .. n |-> u[n + 1 - i]]
         /\ UnusedNodes(h) = p
         /\ n <= LIST_MAX_NUM_NODES /\ m <= LIST_MAX_NUM_NODES
<1>1. /\ n \in Nat /\ u \in [1 .. n -> NodeId] /\ m \in Nat /\ p \in [1 .. m -> NodeId]
      /\ n <= LIST_MAX_NUM_NODES /\ m <= LIST_MAX_NUM_NODES
  BY Fits DEF Intact, Threaded, Pooled
<1>2. /\ h.list[l].head \in Pointer /\ h.list[l].tail \in Pointer
      /\ h.list[freeNodes].tail \in Pointer
  BY Fields, Pointers
<1>3. NodesOf(h, l) = u
  <2>1. h.list[l].head = IF n = 0 THEN NULL ELSE u[1]
    BY DEF Intact, Ends
  <2>2. \A i \in 1 .. n : h.node[u[i]].next = IF i = n THEN NULL ELSE u[i + 1]
    BY DEF Intact, Threaded
  <2>. QED  BY <1>1, <1>2, <2>1, <2>2, ChainIs DEF NodesOf
<1>4. UnusedNodes(h) = p
  <2>1. h.list[freeNodes].tail = IF m = 0 THEN NULL ELSE p[1]
    BY DEF Intact, Pooled
  <2>2. \A i \in 1 .. m : h.node[p[i]].prev = IF i = m THEN NULL ELSE p[i + 1]
    BY DEF Intact, Pooled
  <2>. QED  BY <1>1, <1>2, <2>1, <2>2, ChainIs DEF UnusedNodes
<1>5. Chain(h, h.list[l].tail, "prev") = [i \in 1 .. n |-> u[n + 1 - i]]
  <2>1. PICK c : c = [i \in 1 .. n |-> u[n + 1 - i]]
    OBVIOUS
  <2>2. \A i \in 1 .. n : n + 1 - i \in 1 .. n /\ c[i] = u[n + 1 - i]
    BY <1>1, <2>1
  <2>3. c \in [1 .. n -> NodeId]
    BY <1>1, <2>1, <2>2
  <2>4. ASSUME NEW i \in 1 .. n
        PROVE  h.node[c[i]].prev = IF i = n THEN NULL ELSE c[i + 1]
    <3>1. h.node[c[i]].prev = IF n + 1 - i = 1 THEN NULL ELSE u[(n + 1 - i) - 1]
      BY <2>2 DEF Intact, Threaded
    <3>2. i # n => i + 1 \in 1 .. n /\ n + 1 - (i + 1) = (n + 1 - i) - 1
      BY <1>1
    <3>3. n + 1 - i = 1 <=> i = n
      BY <1>1
    <3>. QED  BY <2>2, <3>1, <3>2, <3>3
  <2>5. h.list[l].tail = IF n = 0 THEN NULL ELSE c[1]
    <3>1. n # 0 => 1 \in 1 .. n /\ n + 1 - 1 = n
      BY <1>1
    <3>. QED  BY <2>2, <3>1 DEF Intact, Ends
  <2>6. Chain(h, h.list[l].tail, "prev") = c
    BY <1>1, <1>2, <2>3, <2>4, <2>5, ChainIs
  <2>. QED  BY <2>1, <2>6
<1>. QED  BY <1>1, <1>3, <1>4, <1>5

\* Such a list is linked as ListsLinked says,
LEMMA IntactLinked ==
  ASSUME NEW h \in Heap, NEW l \in ListId, NEW u, NEW n, NEW p, NEW m,
         Intact(h, l, u, n, p, m)
  PROVE  Linked(h, l)
<1>1. /\ n \in Nat /\ u \in [1 .. n -> NodeId] /\ n <= LIST_MAX_NUM_NODES
      /\ NodesOf(h, l) = u
      /\ Chain(h, h.list[l].tail, "prev") = [i \in 1 .. n |-> u[n + 1 - i]]
  <2>1. n \in Nat /\ u \in [1 .. n -> NodeId]
    BY DEF Intact, Threaded
  <2>. QED  BY <2>1, IntactChains
<1>2. /\ h.list[l].num_nodes = n
      /\ h.list[l].curr = NULL \/ \E i \in 1 .. n : h.list[l].curr = u[i]
  BY DEF Intact, Ends
<1>3. PICK c : c = [i \in 1 .. n |-> u[n + 1 - i]]
  OBVIOUS
<1>4. /\ u \in Seq(NodeId) /\ Len(u) = n /\ DOMAIN u = 1 .. n
  BY <1>1
<1>5. c \in Seq(NodeId) /\ Len(c) = n
  <2>1. \A i \in 1 .. n : n + 1 - i \in 1 .. n
    BY <1>1
  <2>2. c \in [1 .. n -> NodeId]
    BY <1>1, <1>3, <2>1
  <2>. QED  BY <1>1, <2>2
<1>6. ~Cyclic(u)
  BY <1>1, <1>4, HeapAssumption DEF Cyclic
<1>7. ASSUME NEW i \in 1 .. n PROVE c[n + 1 - i] = u[i]
  <2>1. n + 1 - i \in 1 .. n /\ n + 1 - (n + 1 - i) = i
    BY <1>1
  <2>. QED  BY <1>3, <2>1
<1>8. h.list[l].curr \in NodesIn(u) \union {NULL}
  BY <1>2, <1>4 DEF NodesIn
<1>. QED  BY <1>1, <1>2, <1>3, <1>4, <1>5, <1>6, <1>7, <1>8 DEF Linked

\* and its nodes and the unused ones are conserved as NodesConserved says.
LEMMA IntactConserved ==
  ASSUME NEW h \in Heap, NEW l \in ListId, NEW u, NEW n, NEW p, NEW m,
         Intact(h, l, u, n, p, m)
  PROVE  /\ NodesIn(NodesOf(h, l)) \intersect NodesIn(UnusedNodes(h)) = {}
         /\ NodesIn(NodesOf(h, l)) \union NodesIn(UnusedNodes(h)) = NodeId
         /\ Len(UnusedNodes(h)) = h.list[freeNodes].num_nodes
<1>1. /\ n \in Nat /\ u \in [1 .. n -> NodeId] /\ m \in Nat /\ p \in [1 .. m -> NodeId]
      /\ h.list[freeNodes].num_nodes = m
  BY DEF Intact, Threaded, Pooled
<1>2. NodesOf(h, l) = u /\ UnusedNodes(h) = p
  BY IntactChains
<1>3. NodesIn(u) = {u[i] : i \in 1 .. n} /\ NodesIn(p) = {p[j] : j \in 1 .. m} /\ Len(p) = m
  BY <1>1 DEF NodesIn
<1>4. \A i \in 1 .. n : \A j \in 1 .. m : u[i] # p[j]
  BY DEF Intact, Apart
<1>5. \A x \in NodeId : (\E i \in 1 .. n : u[i] = x) \/ (\E j \in 1 .. m : p[j] = x)
  BY DEF Intact, Cover
<1>6. NodesIn(u) \intersect NodesIn(p) = {}
  BY <1>3, <1>4
<1>7. NodesIn(u) \union NodesIn(p) = NodeId
  BY <1>1, <1>3, <1>5
<1>. QED  BY <1>1, <1>2, <1>3, <1>6, <1>7

-----------------------------------------------------------------------------
(* One node taken from the unused ones, linked, and given back.            *)

\* The rest of the memory is as it was.
SameRest(h, g) ==
  g.freeLists = h.freeLists /\ g.flIndex = h.flIndex /\ g.fault = h.fault

\* consumeFreeNode() gives the first of the unused nodes, with the item in it.
Consumed(h, f, item, p, m) ==
  /\ p[1] \in NodeId
  /\ f.node[p[1]] = [item |-> item, next |-> NULL, prev |-> NULL]
  /\ \A y \in NodeId \ {p[1]} : f.node[y] = h.node[y]
  /\ f.list[freeNodes].tail = IF m = 1 THEN NULL ELSE p[2]
  /\ f.list[freeNodes].num_nodes = m - 1
  /\ \A l \in ListId : f.list[l] = h.list[l]
  /\ SameRest(h, f)

\* It gives none when none is unused (list.c:22-33).
LEMMA ConsumeIs ==
  ASSUME NEW h \in Heap, NEW item \in Item, NEW p, NEW m, Pooled(h, p, m),
         NEW new, new = consumeFreeNode(h, item)
  PROVE  /\ new.heap \in Heap
         /\ m = 0 => new.heap = h /\ new.ret = NULL
         /\ m # 0 => new.ret = p[1] /\ Consumed(h, new.heap, item, p, m)
<1>0. new.heap \in Heap
  BY ConsumeTyped
<1>1. CASE m = 0
  <2>1. h.list[freeNodes].tail = NULL
    BY <1>1 DEF Pooled
  <2>2. new = [heap |-> h, ret |-> NULL]
    BY <2>1, Pointers DEF consumeFreeNode
  <2>. QED  BY <1>0, <1>1, <2>2
<1>2. CASE m # 0
  <2>1. /\ m \in Nat /\ p \in [1 .. m -> NodeId] /\ 1 \in 1 .. m
        /\ h.list[freeNodes].tail = p[1] /\ h.list[freeNodes].num_nodes = m
        /\ h.node[p[1]].prev = IF 1 = m THEN NULL ELSE p[1 + 1]
    BY <1>2 DEF Pooled
  <2>2. PICK x \in NodeId : x = p[1]
    BY <2>1
  <2>3. PICK f : f = [h EXCEPT !.list[freeNodes].tail = h.node[x].prev,
                               !.list[freeNodes].num_nodes = @ - 1,
                               !.node[x] = [item |-> item, next |-> NULL, prev |-> NULL]]
    OBVIOUS
  <2>4. new = [heap |-> f, ret |-> x]
    BY <2>1, <2>2, <2>3, Pointers DEF consumeFreeNode
  <2>5. /\ f.node = [h.node EXCEPT ![x] = [item |-> item, next |-> NULL, prev |-> NULL]]
        /\ f.list = [h.list EXCEPT ![freeNodes] =
              [h.list[freeNodes] EXCEPT !.tail = h.node[x].prev, !.num_nodes = @ - 1]]
        /\ SameRest(h, f)
    BY <2>3 DEF Heap, SameRest
  <2>6. h.node \in [NodeId -> Node] /\ h.list \in [AnyList -> ListHead]
        /\ h.list[freeNodes] \in ListHead
    BY Fields, Pointers DEF Heap
  <2>7. f.node[x] = [item |-> item, next |-> NULL, prev |-> NULL]
        /\ \A y \in NodeId \ {x} : f.node[y] = h.node[y]
    BY <2>5, <2>6
  <2>8. f.list[freeNodes].tail = h.node[x].prev /\ f.list[freeNodes].num_nodes = m - 1
    BY <2>1, <2>5, <2>6, Pointers DEF ListHead
  <2>9. \A l \in ListId : f.list[l] = h.list[l]
    BY <2>5, <2>6, Pointers, HeapAssumption DEF ListId, freeNodes
  <2>10. f.list[freeNodes].tail = IF m = 1 THEN NULL ELSE p[2]
    BY <2>1, <2>2, <2>8
  <2>11. new.heap = f /\ new.ret = x
    BY <2>4
  <2>. QED  BY <1>0, <1>2, <2>2, <2>5, <2>7, <2>8, <2>9, <2>10, <2>11 DEF Consumed
<1>. QED  BY <1>1, <1>2

\* Setting one link of a node changes that one.
NextBecomes(h, g, n, v) ==
  /\ \A y \in NodeId : /\ g.node[y].next = IF y = n THEN v ELSE h.node[y].next
                       /\ g.node[y].prev = h.node[y].prev
                       /\ g.node[y].item = h.node[y].item
  /\ g.list = h.list /\ SameRest(h, g)

\* The same of a prev link.
PrevBecomes(h, g, n, v) ==
  /\ \A y \in NodeId : /\ g.node[y].prev = IF y = n THEN v ELSE h.node[y].prev
                       /\ g.node[y].next = h.node[y].next
                       /\ g.node[y].item = h.node[y].item
  /\ g.list = h.list /\ SameRest(h, g)

\* A link written through a pointer to a node is that link alone.
LEMMA LinkSet ==
  ASSUME NEW h \in Heap, NEW n \in NodeId, NEW v \in Pointer
  PROVE  /\ NextBecomes(h, SetLink(h, n, "next", v), n, v)
         /\ PrevBecomes(h, SetLink(h, n, "prev", v), n, v)
<1>1. h.node \in [NodeId -> Node] /\ \A y \in NodeId : h.node[y] \in Node
  BY DEF Heap
<1>2. PICK g : g = [h EXCEPT !.node[n]["next"] = v]
  OBVIOUS
<1>3. PICK f : f = [h EXCEPT !.node[n]["prev"] = v]
  OBVIOUS
<1>4. SetLink(h, n, "next", v) = g /\ SetLink(h, n, "prev", v) = f
  BY <1>2, <1>3, Pointers DEF SetLink
<1>5. /\ g.node = [h.node EXCEPT ![n]["next"] = v]
      /\ g.list = h.list /\ SameRest(h, g)
  BY <1>2 DEF Heap, SameRest
<1>6. /\ f.node = [h.node EXCEPT ![n]["prev"] = v]
      /\ f.list = h.list /\ SameRest(h, f)
  BY <1>3 DEF Heap, SameRest
<1>7. NextBecomes(h, g, n, v)
  BY <1>1, <1>5 DEF Node, NextBecomes
<1>8. PrevBecomes(h, f, n, v)
  BY <1>1, <1>6 DEF Node, PrevBecomes
<1>. QED  BY <1>4, <1>7, <1>8

\* linkNodes() links both ways; a null neighbour is none.
Joined(h, g, a, b) ==
  /\ \A y \in NodeId :
       /\ g.node[y].next = IF y = a /\ b # NULL THEN b ELSE h.node[y].next
       /\ g.node[y].prev = IF y = b /\ a # NULL THEN a ELSE h.node[y].prev
       /\ g.node[y].item = h.node[y].item
  /\ g.list = h.list /\ SameRest(h, g)

\* So it does, in the nodes it is given (list.c:95-100).
LEMMA NodesLinked ==
  ASSUME NEW h \in Heap, NEW a \in NodeId \union {NULL}, NEW b \in NodeId \union {NULL}
  PROVE  Joined(h, linkNodes(h, a, b), a, b) /\ linkNodes(h, a, b) \in Heap
<1>1. linkNodes(h, a, b) \in Heap
  BY LinkTyped, Pointers
<1>2. CASE NULL \in {a, b}
  <2>1. linkNodes(h, a, b) = h
    BY <1>2 DEF linkNodes
  <2>2. \A y \in NodeId : y # NULL
    BY Pointers
  <2>. QED  BY <1>1, <1>2, <2>1, <2>2 DEF Joined, SameRest
<1>3. CASE NULL \notin {a, b}
  <2>1. PICK x \in NodeId : x = a
    BY <1>3
  <2>2. PICK z \in NodeId : z = b
    BY <1>3
  <2>3. x \in Pointer /\ z \in Pointer
    BY Pointers
  <2>4. PICK f \in Heap : f = SetLink(h, x, "next", z)
    BY <2>3, SetLinkTyped
  <2>5. NextBecomes(h, f, x, z)
    BY <2>3, <2>4, LinkSet
  <2>6. PICK g : g = SetLink(f, z, "prev", x)
    OBVIOUS
  <2>7. PrevBecomes(f, g, z, x)
    BY <2>3, <2>6, LinkSet
  <2>8. linkNodes(h, a, b) = g
    BY <1>3, <2>1, <2>2, <2>4, <2>6 DEF linkNodes
  <2>9. x # NULL /\ z # NULL
    BY Pointers
  <2>10. Joined(h, g, x, z)
    BY <2>5, <2>7, <2>9 DEF Joined, NextBecomes, PrevBecomes, SameRest
  <2>. QED  BY <1>1, <2>1, <2>2, <2>8, <2>10
<1>. QED  BY <1>2, <1>3

\* produceFreeNode() puts the node before the unused ones.
Produced(h, g, x) ==
  /\ g.node[x].prev = h.list[freeNodes].tail
  /\ \A y \in NodeId \ {x} : /\ g.node[y].prev = h.node[y].prev
                             /\ g.node[y].item = h.node[y].item
  /\ \A y \in NodeId \ {x, h.list[freeNodes].tail} : g.node[y].next = h.node[y].next
  /\ g.list[freeNodes].tail = x
  /\ g.list[freeNodes].num_nodes = h.list[freeNodes].num_nodes + 1
  /\ \A l \in ListId : g.list[l] = h.list[l]
  /\ SameRest(h, g)

\* So it does with any node that is not the tail of freeNodes (list.c:35-51).
LEMMA ProduceIs ==
  ASSUME NEW h \in Heap, NEW x \in NodeId,
         h.list[freeNodes].tail \in NodeId \union {NULL}, h.list[freeNodes].tail # x
  PROVE  Produced(h, produceFreeNode(h, x), x) /\ produceFreeNode(h, x) \in Heap
<1>0. PICK g \in Heap : g = produceFreeNode(h, x)
  BY ProduceTyped
<1>1. PICK t \in NodeId \union {NULL} : t = h.list[freeNodes].tail
  OBVIOUS
<1>2. PICK c : c = [h EXCEPT !.node[x] = [item |-> NoItem, next |-> NULL, prev |-> NULL],
                             !.list[freeNodes].tail = x,
                             !.list[freeNodes].num_nodes = @ + 1]
  OBVIOUS
<1>3. /\ h.node \in [NodeId -> Node] /\ h.list \in [AnyList -> ListHead]
      /\ h.list[freeNodes] \in ListHead
  BY Fields, Pointers DEF Heap
<1>4. /\ c.node = [h.node EXCEPT ![x] = [item |-> NoItem, next |-> NULL, prev |-> NULL]]
      /\ c.list = [h.list EXCEPT ![freeNodes] =
            [h.list[freeNodes] EXCEPT !.tail = x, !.num_nodes = @ + 1]]
      /\ SameRest(h, c)
  BY <1>2 DEF Heap, SameRest
<1>5. /\ c.node[x] = [item |-> NoItem, next |-> NULL, prev |-> NULL]
      /\ \A y \in NodeId \ {x} : c.node[y] = h.node[y]
  BY <1>3, <1>4
<1>6. /\ c.list[freeNodes].tail = x
      /\ c.list[freeNodes].num_nodes = h.list[freeNodes].num_nodes + 1
  BY <1>3, <1>4, Pointers DEF ListHead
<1>7. \A l \in ListId : c.list[l] = h.list[l]
  BY <1>3, <1>4, Pointers, HeapAssumption DEF ListId, freeNodes
<1>8. CASE t = NULL
  <2>1. g = c
    BY <1>0, <1>1, <1>2, <1>8 DEF produceFreeNode
  <2>3. c.node[x].prev = NULL
    BY <1>5
  <2>4. \A y \in NodeId \ {x} : g.node[y] = h.node[y]
    BY <1>5, <2>1
  <2>5. Produced(h, g, x)
    BY <1>1, <1>4, <1>6, <1>7, <1>8, <2>1, <2>3, <2>4 DEF Produced
  <2>. QED  BY <1>0, <2>5
<1>9. CASE t # NULL
  <2>0. t \in NodeId
    BY <1>9
  <2>1. g = [c EXCEPT !.node[t].next = x, !.node[x].prev = t]
    BY <1>0, <1>1, <1>2, <1>9 DEF produceFreeNode
  <2>3. /\ c.node \in [NodeId -> Node] /\ [item |-> NoItem, next |-> NULL, prev |-> NULL] \in Node
    BY <1>3, <1>4, Pointers DEF Node
  <2>4. /\ g.node = [[c.node EXCEPT ![t].next = x] EXCEPT ![x].prev = t]
        /\ g.list = c.list /\ SameRest(c, g)
    BY <1>2, <2>1 DEF Heap, SameRest
  <2>5. /\ g.node[x].prev = t
        /\ \A y \in NodeId \ {x} : /\ g.node[y].prev = h.node[y].prev
                                   /\ g.node[y].item = h.node[y].item
        /\ \A y \in NodeId \ {x, t} : g.node[y].next = h.node[y].next
    <3>1. c.node[x] \in Node /\ c.node[t] \in Node /\ t # x
      BY <1>1, <2>0, <2>3
    <3>2. g.node[x] = [c.node[x] EXCEPT !.prev = t]
      BY <2>3, <2>4, <3>1
    <3>3. g.node[t] = [c.node[t] EXCEPT !.next = x]
      BY <2>0, <2>3, <2>4, <3>1
    <3>4. \A y \in NodeId \ {x, t} : g.node[y] = c.node[y]
      BY <2>3, <2>4
    <3>. QED  BY <1>5, <2>0, <3>1, <3>2, <3>3, <3>4 DEF Node
  <2>7. SameRest(h, g)
    BY <1>4, <2>4 DEF SameRest
  <2>8. Produced(h, g, x)
    BY <1>1, <1>6, <1>7, <2>4, <2>5, <2>7 DEF Produced
  <2>. QED  BY <1>0, <2>8
<1>. QED  BY <1>0, <1>8, <1>9

-----------------------------------------------------------------------------
(* A node more, a node less.                                               *)

\* x put into u at place k, the k-th of u taken out, x put before p, and p without
\* its first.
Into(u, n, k, x) ==
  [i \in 1 .. n + 1 |-> IF i < k THEN u[i] ELSE IF i = k THEN x ELSE u[i - 1]]
Without(u, n, k) == [i \in 1 .. n - 1 |-> IF i < k THEN u[i] ELSE u[i + 1]]
Ahead(x, p, m)   == [i \in 1 .. m + 1 |-> IF i = 1 THEN x ELSE p[i - 1]]
Rest(p, m)       == [i \in 1 .. m - 1 |-> p[i + 1]]

\* What an insertion at place k does to a list: a node before it and one behind,
\* or none, are linked to the node that was the first unused.
Spliced(h, g, l, u, n, p, m, k) ==
  /\ g.node[p[1]].next = IF k = n + 1 THEN NULL ELSE u[k]
  /\ g.node[p[1]].prev = IF k = 1 THEN NULL ELSE u[k - 1]
  /\ \A i \in 1 .. n :
       /\ g.node[u[i]].next = IF i = k - 1 THEN p[1] ELSE h.node[u[i]].next
       /\ g.node[u[i]].prev = IF i = k THEN p[1] ELSE h.node[u[i]].prev
  /\ \A j \in 2 .. m : g.node[p[j]].prev = h.node[p[j]].prev
  /\ g.list[freeNodes].tail = IF m = 1 THEN NULL ELSE p[2]
  /\ g.list[freeNodes].num_nodes = m - 1
  /\ g.list[l].head = IF k = 1 THEN p[1] ELSE h.list[l].head
  /\ g.list[l].tail = IF k = n + 1 THEN p[1] ELSE h.list[l].tail
  /\ g.list[l].curr = p[1]
  /\ g.list[l].num_nodes = n + 1

\* The list is then whole, with the new node at place k.
LEMMA SplicedIntact ==
  ASSUME NEW h, NEW g, NEW l, NEW u, NEW n, NEW p, NEW m, NEW k \in 1 .. n + 1,
         Intact(h, l, u, n, p, m), m # 0, Spliced(h, g, l, u, n, p, m, k)
  PROVE  Intact(g, l, Into(u, n, k, p[1]), n + 1, Rest(p, m), m - 1)
<1>1. /\ n \in Nat /\ u \in [1 .. n -> NodeId]
      /\ m \in Nat /\ p \in [1 .. m -> NodeId]
      /\ \A i, j \in 1 .. n : u[i] = u[j] => i = j
      /\ \A i, j \in 1 .. m : p[i] = p[j] => i = j
      /\ \A i \in 1 .. n : \A j \in 1 .. m : u[i] # p[j]
  BY DEF Intact, Threaded, Pooled, Apart
<1>2. PICK x \in NodeId : x = p[1]
  BY <1>1
<1>3. PICK v : v = Into(u, n, k, x)
  OBVIOUS
<1>4. PICK q : q = Rest(p, m)
  OBVIOUS
<1>5. /\ v \in [1 .. n + 1 -> NodeId] /\ v[k] = x
      /\ \A i \in 1 .. n + 1 : v[i] = IF i < k THEN u[i] ELSE IF i = k THEN x ELSE u[i - 1]
  BY <1>1, <1>3 DEF Into
<1>6. /\ q \in [1 .. m - 1 -> NodeId]
      /\ \A j \in 1 .. m - 1 : q[j] = p[j + 1] /\ j + 1 \in 2 .. m
  BY <1>1, <1>4 DEF Rest
<1>7. \A i \in 1 .. n : u[i] # x
  BY <1>1, <1>2
<1>8. \A i, j \in 1 .. n + 1 : v[i] = v[j] => i = j
  BY <1>1, <1>5, <1>7
<1>9. Threaded(g, v, n + 1)
  <2>1. ASSUME NEW i \in 1 .. n + 1
        PROVE  g.node[v[i]].next = IF i = n + 1 THEN NULL ELSE v[i + 1]
    <3>0. \A j \in 1 .. n : /\ g.node[u[j]].next = IF j = k - 1 THEN x ELSE h.node[u[j]].next
                            /\ h.node[u[j]].next = IF j = n THEN NULL ELSE u[j + 1]
      BY <1>2 DEF Spliced, Intact, Threaded
    <3>1. CASE i < k
      <4>1. i \in 1 .. n /\ v[i] = u[i] /\ (i = n => i = k - 1)
        BY <1>1, <1>5, <3>1
      <4>2. g.node[v[i]].next = IF i = k - 1 THEN x ELSE IF i = n THEN NULL ELSE u[i + 1]
        BY <3>0, <4>1
      <4>3. i # n + 1 /\ i + 1 \in 1 .. n + 1 /\ v[i + 1] = IF i = k - 1 THEN x ELSE u[i + 1]
        BY <1>1, <1>5, <3>1
      <4>. QED  BY <4>1, <4>2, <4>3
    <3>2. CASE i = k
      <4>1. g.node[x].next = IF k = n + 1 THEN NULL ELSE u[k]
        BY <1>2 DEF Spliced
      <4>. QED  BY <1>1, <1>5, <3>2, <4>1
    <3>3. CASE i > k
      <4>1. i - 1 \in 1 .. n /\ v[i] = u[i - 1] /\ i - 1 # k - 1
        BY <1>1, <1>5, <3>3
      <4>2. g.node[v[i]].next = IF i - 1 = n THEN NULL ELSE u[(i - 1) + 1]
        BY <3>0, <4>1
      <4>3. i # n + 1 => i + 1 \in 1 .. n + 1 /\ v[i + 1] = u[i]
        BY <1>1, <1>5, <3>3
      <4>. QED  BY <1>1, <4>2, <4>3
    <3>. QED  BY <1>1, <3>1, <3>2, <3>3
  <2>2. ASSUME NEW i \in 1 .. n + 1
        PROVE  g.node[v[i]].prev = IF i = 1 THEN NULL ELSE v[i - 1]
    <3>0. \A j \in 1 .. n : /\ g.node[u[j]].prev = IF j = k THEN x ELSE h.node[u[j]].prev
                            /\ h.node[u[j]].prev = IF j = 1 THEN NULL ELSE u[j - 1]
      BY <1>2 DEF Spliced, Intact, Threaded
    <3>1. CASE i < k
      <4>1. i \in 1 .. n /\ v[i] = u[i] /\ i # k
        BY <1>1, <1>5, <3>1
      <4>2. g.node[v[i]].prev = IF i = 1 THEN NULL ELSE u[i - 1]
        BY <3>0, <4>1
      <4>3. i # 1 => i - 1 \in 1 .. n + 1 /\ v[i - 1] = u[i - 1]
        BY <1>1, <1>5, <3>1
      <4>. QED  BY <4>2, <4>3
    <3>2. CASE i = k
      <4>1. g.node[x].prev = IF k = 1 THEN NULL ELSE u[k - 1]
        BY <1>2 DEF Spliced
      <4>. QED  BY <1>1, <1>5, <3>2, <4>1
    <3>3. CASE i > k
      <4>1. i - 1 \in 1 .. n /\ v[i] = u[i - 1] /\ i # 1
        BY <1>1, <1>5, <3>3
      <4>2. g.node[v[i]].prev = IF i - 1 = k THEN x ELSE u[(i - 1) - 1]
        BY <1>1, <3>0, <3>3, <4>1
      <4>3. i - 1 \in 1 .. n + 1 /\ v[i - 1] = IF i - 1 = k THEN x ELSE u[(i - 1) - 1]
        BY <1>1, <1>5, <3>3
      <4>. QED  BY <4>1, <4>2, <4>3
    <3>. QED  BY <1>1, <3>1, <3>2, <3>3
  <2>. QED  BY <1>1, <1>5, <1>8, <2>1, <2>2 DEF Threaded
<1>10. Ends(g, l, v, n + 1)
  <2>1. /\ g.list[l].head = IF k = 1 THEN x ELSE h.list[l].head
        /\ g.list[l].tail = IF k = n + 1 THEN x ELSE h.list[l].tail
        /\ g.list[l].curr = x /\ g.list[l].num_nodes = n + 1
    BY <1>2 DEF Spliced
  <2>2. /\ h.list[l].head = IF n = 0 THEN NULL ELSE u[1]
        /\ h.list[l].tail = IF n = 0 THEN NULL ELSE u[n]
    BY DEF Intact, Ends
  <2>3. g.list[l].head = v[1]
    BY <1>1, <1>5, <2>1, <2>2
  <2>4. g.list[l].tail = v[n + 1]
    BY <1>1, <1>5, <2>1, <2>2
  <2>5. n + 1 # 0
    BY <1>1
  <2>. QED  BY <1>5, <2>1, <2>3, <2>4, <2>5 DEF Ends
<1>11. Pooled(g, q, m - 1)
  <2>1. m - 1 \in Nat
    BY <1>1
  <2>2. \A i, j \in 1 .. m - 1 : q[i] = q[j] => i = j
    BY <1>1, <1>6
  <2>3. g.list[freeNodes].tail = IF m - 1 = 0 THEN NULL ELSE q[1]
    <3>1. g.list[freeNodes].tail = IF m = 1 THEN NULL ELSE p[2]
      BY DEF Spliced
    <3>. QED  BY <1>1, <1>6, <3>1
  <2>4. ASSUME NEW j \in 1 .. m - 1
        PROVE  g.node[q[j]].prev = IF j = m - 1 THEN NULL ELSE q[j + 1]
    <3>1. j + 1 \in 2 .. m /\ j + 1 \in 1 .. m /\ q[j] = p[j + 1]
      BY <1>1, <1>6
    <3>2. g.node[p[j + 1]].prev = h.node[p[j + 1]].prev
      BY <3>1 DEF Spliced
    <3>3. h.node[p[j + 1]].prev = IF j + 1 = m THEN NULL ELSE p[(j + 1) + 1]
      BY <3>1 DEF Intact, Pooled
    <3>. QED  BY <1>1, <1>6, <3>1, <3>2, <3>3
  <2>5. g.list[freeNodes].num_nodes = m - 1
    BY DEF Spliced
  <2>. QED  BY <1>6, <2>1, <2>2, <2>3, <2>4, <2>5 DEF Pooled
<1>12. Apart(v, n + 1, q, m - 1)
  <2>1. ASSUME NEW i \in 1 .. n + 1, NEW j \in 1 .. m - 1 PROVE v[i] # q[j]
    <3>1. j + 1 \in 1 .. m /\ q[j] = p[j + 1] /\ p[j + 1] # p[1]
      BY <1>1, <1>6
    <3>2. v[i] = x \/ \E a \in 1 .. n : v[i] = u[a]
      BY <1>1, <1>5
    <3>. QED  BY <1>1, <1>2, <3>1, <3>2
  <2>. QED  BY <2>1 DEF Apart
<1>13. Cover(v, n + 1, q, m - 1)
  <2>1. ASSUME NEW y \in NodeId
        PROVE  (\E i \in 1 .. n + 1 : v[i] = y) \/ (\E j \in 1 .. m - 1 : q[j] = y)
    <3>1. (\E i \in 1 .. n : u[i] = y) \/ (\E j \in 1 .. m : p[j] = y)
      BY DEF Intact, Cover
    <3>2. ASSUME NEW i \in 1 .. n, u[i] = y PROVE \E a \in 1 .. n + 1 : v[a] = y
      <4>1. CASE i < k
        BY <1>1, <1>5, <3>2, <4>1
      <4>2. CASE i >= k
        <5>1. i + 1 \in 1 .. n + 1 /\ v[i + 1] = u[(i + 1) - 1] /\ (i + 1) - 1 = i
          BY <1>1, <1>5, <4>2
        <5>. QED  BY <3>2, <5>1
      <4>. QED  BY <1>1, <4>1, <4>2
    <3>3. ASSUME NEW j \in 1 .. m, p[j] = y, j # 1 PROVE \E b \in 1 .. m - 1 : q[b] = y
      <4>1. j - 1 \in 1 .. m - 1 /\ q[j - 1] = p[(j - 1) + 1] /\ (j - 1) + 1 = j
        BY <1>1, <1>6, <3>3
      <4>. QED  BY <3>3, <4>1
    <3>4. y = p[1] => v[k] = y /\ k \in 1 .. n + 1
      BY <1>2, <1>5
    <3>. QED  BY <3>1, <3>2, <3>3, <3>4
  <2>. QED  BY <2>1 DEF Cover
<1>. QED  BY <1>2, <1>3, <1>4, <1>9, <1>10, <1>11, <1>12, <1>13 DEF Intact

\* A node that joins the unused ones.
Pooling(h, g, x, p, m) ==
  /\ g.node[x].prev = IF m = 0 THEN NULL ELSE p[1]
  /\ \A j \in 1 .. m : g.node[p[j]].prev = h.node[p[j]].prev
  /\ g.list[freeNodes].tail = x
  /\ g.list[freeNodes].num_nodes = m + 1

\* The unused nodes are then one more.
LEMMA PoolGrows ==
  ASSUME NEW h, NEW g, NEW x \in NodeId, NEW p, NEW m, Pooled(h, p, m),
         Pooling(h, g, x, p, m), \A j \in 1 .. m : p[j] # x
  PROVE  Pooled(g, Ahead(x, p, m), m + 1)
<1>1. /\ m \in Nat /\ p \in [1 .. m -> NodeId]
      /\ \A i, j \in 1 .. m : p[i] = p[j] => i = j
      /\ \A j \in 1 .. m : h.node[p[j]].prev = IF j = m THEN NULL ELSE p[j + 1]
  BY DEF Pooled
<1>2. PICK q : q = Ahead(x, p, m)
  OBVIOUS
<1>3. /\ q \in [1 .. m + 1 -> NodeId] /\ m + 1 \in Nat /\ m + 1 # 0
      /\ \A j \in 1 .. m + 1 : q[j] = IF j = 1 THEN x ELSE p[j - 1]
  BY <1>1, <1>2 DEF Ahead
<1>4. \A i, j \in 1 .. m + 1 : q[i] = q[j] => i = j
  BY <1>1, <1>3
<1>5. ASSUME NEW j \in 1 .. m + 1
      PROVE  g.node[q[j]].prev = IF j = m + 1 THEN NULL ELSE q[j + 1]
  <2>1. CASE j = 1
    <3>1. g.node[q[j]].prev = IF m = 0 THEN NULL ELSE p[1]
      BY <1>3, <2>1 DEF Pooling
    <3>2. m # 0 => 1 + 1 \in 1 .. m + 1 /\ q[1 + 1] = p[1]
      BY <1>1, <1>3
    <3>. QED  BY <1>1, <2>1, <3>1, <3>2
  <2>2. CASE j # 1
    <3>1. j - 1 \in 1 .. m /\ q[j] = p[j - 1]
      BY <1>1, <1>3, <2>2
    <3>2. g.node[p[j - 1]].prev = IF j - 1 = m THEN NULL ELSE p[(j - 1) + 1]
      BY <1>1, <3>1 DEF Pooling
    <3>3. j # m + 1 => j + 1 \in 1 .. m + 1 /\ q[j + 1] = p[(j - 1) + 1]
      BY <1>1, <1>3, <2>2
    <3>. QED  BY <1>1, <3>1, <3>2, <3>3
  <2>. QED  BY <2>1, <2>2
<1>6. g.list[freeNodes].tail = q[1] /\ g.list[freeNodes].num_nodes = m + 1
  BY <1>1, <1>3 DEF Pooling
<1>. QED  BY <1>2, <1>3, <1>4, <1>5, <1>6 DEF Pooled

\* What taking the k-th node out of a list does to it: its neighbours are linked
\* and it joins the unused nodes.  Neither the tail nor the cursor is looked at.
Taken(h, g, l, u, n, p, m, k) ==
  /\ \A i \in (1 .. n) \ {k} :
       /\ g.node[u[i]].next = IF i = k - 1 THEN IF k = n THEN NULL ELSE u[k + 1]
                              ELSE h.node[u[i]].next
       /\ g.node[u[i]].prev = IF i = k + 1 THEN IF k = 1 THEN NULL ELSE u[k - 1]
                              ELSE h.node[u[i]].prev
  /\ Pooling(h, g, u[k], p, m)
  /\ g.list[l].head = IF k = 1 THEN IF n = 1 THEN NULL ELSE u[2] ELSE h.list[l].head
  /\ g.list[l].num_nodes = n - 1

\* A list but for its tail and its cursor.
Headed(h, l, u, n, p, m) ==
  /\ Threaded(h, u, n) /\ Pooled(h, p, m) /\ Apart(u, n, p, m) /\ Cover(u, n, p, m)
  /\ h.list[l].head = IF n = 0 THEN NULL ELSE u[1]
  /\ h.list[l].num_nodes = n

\* A list that loses its k-th node so is right but for its tail and its cursor.
LEMMA TakenHeaded ==
  ASSUME NEW h, NEW g, NEW l, NEW u, NEW n, NEW p, NEW m, NEW k \in 1 .. n,
         Headed(h, l, u, n, p, m), Taken(h, g, l, u, n, p, m, k)
  PROVE  Headed(g, l, Without(u, n, k), n - 1, Ahead(u[k], p, m), m + 1)
<1>1. /\ n \in Nat /\ u \in [1 .. n -> NodeId]
      /\ m \in Nat /\ p \in [1 .. m -> NodeId]
      /\ \A i, j \in 1 .. n : u[i] = u[j] => i = j
      /\ \A i \in 1 .. n : \A j \in 1 .. m : u[i] # p[j]
  BY DEF Headed, Threaded, Pooled, Apart
<1>2. PICK x \in NodeId : x = u[k]
  BY <1>1
<1>3. PICK v : v = Without(u, n, k)
  OBVIOUS
<1>4. PICK q : q = Ahead(x, p, m)
  OBVIOUS
<1>5. /\ n - 1 \in Nat /\ v \in [1 .. n - 1 -> NodeId]
      /\ \A i \in 1 .. n - 1 : v[i] = IF i < k THEN u[i] ELSE u[i + 1]
  BY <1>1, <1>3 DEF Without
<1>6. /\ \A j \in 1 .. m + 1 : q[j] = IF j = 1 THEN x ELSE p[j - 1]
  BY <1>1, <1>4 DEF Ahead
<1>7. \A i, j \in 1 .. n - 1 : v[i] = v[j] => i = j
  BY <1>1, <1>5
<1>8. Pooled(g, q, m + 1)
  BY <1>1, <1>2, <1>4, PoolGrows DEF Headed, Taken
<1>9. Threaded(g, v, n - 1)
  <2>0. \A i \in (1 .. n) \ {k} :
          /\ g.node[u[i]].next = IF i = k - 1 THEN IF k = n THEN NULL ELSE u[k + 1]
                                 ELSE IF i = n THEN NULL ELSE u[i + 1]
          /\ g.node[u[i]].prev = IF i = k + 1 THEN IF k = 1 THEN NULL ELSE u[k - 1]
                                 ELSE IF i = 1 THEN NULL ELSE u[i - 1]
    BY DEF Taken, Headed, Threaded
  <2>1. ASSUME NEW i \in 1 .. n - 1
        PROVE  g.node[v[i]].next = IF i = n - 1 THEN NULL ELSE v[i + 1]
    <3>1. CASE i < k
      <4>1. i \in (1 .. n) \ {k} /\ v[i] = u[i] /\ i # n
        BY <1>1, <1>5, <3>1
      <4>2. g.node[v[i]].next = IF i = k - 1 THEN IF k = n THEN NULL ELSE u[k + 1]
                                ELSE u[i + 1]
        BY <2>0, <4>1
      <4>3. CASE i = k - 1
        <5>1. k # n => i # n - 1 /\ i + 1 \in 1 .. n - 1 /\ v[i + 1] = u[k + 1]
          BY <1>1, <1>5, <4>3
        <5>. QED  BY <1>1, <4>2, <4>3, <5>1
      <4>4. CASE i # k - 1
        <5>1. i # n - 1 /\ i + 1 \in 1 .. n - 1 /\ v[i + 1] = u[i + 1]
          BY <1>1, <1>5, <3>1, <4>4
        <5>. QED  BY <4>2, <4>4, <5>1
      <4>. QED  BY <4>3, <4>4
    <3>2. CASE i >= k
      <4>1. i + 1 \in (1 .. n) \ {k} /\ v[i] = u[i + 1] /\ i + 1 # k - 1
        BY <1>1, <1>5, <3>2
      <4>2. g.node[v[i]].next = IF i + 1 = n THEN NULL ELSE u[(i + 1) + 1]
        BY <2>0, <4>1
      <4>3. i # n - 1 => i + 1 \in 1 .. n - 1 /\ v[i + 1] = u[(i + 1) + 1]
        BY <1>1, <1>5, <3>2
      <4>. QED  BY <1>1, <4>2, <4>3
    <3>. QED  BY <1>1, <3>1, <3>2
  <2>2. ASSUME NEW i \in 1 .. n - 1
        PROVE  g.node[v[i]].prev = IF i = 1 THEN NULL ELSE v[i - 1]
    <3>1. CASE i < k
      <4>1. i \in (1 .. n) \ {k} /\ v[i] = u[i] /\ i # k + 1
        BY <1>1, <1>5, <3>1
      <4>2. g.node[v[i]].prev = IF i = 1 THEN NULL ELSE u[i - 1]
        BY <2>0, <4>1
      <4>3. i # 1 => i - 1 \in 1 .. n - 1 /\ v[i - 1] = u[i - 1]
        BY <1>1, <1>5, <3>1
      <4>. QED  BY <4>2, <4>3
    <3>2. CASE i >= k
      <4>1. i + 1 \in (1 .. n) \ {k} /\ v[i] = u[i + 1] /\ i + 1 # 1
        BY <1>1, <1>5, <3>2
      <4>2. g.node[v[i]].prev = IF i = k THEN IF k = 1 THEN NULL ELSE u[k - 1]
                                ELSE u[(i + 1) - 1]
        <5>1. i + 1 = k + 1 <=> i = k
          BY <1>1
        <5>. QED  BY <2>0, <4>1, <5>1
      <4>3. CASE i = k
        <5>1. i # 1 => i - 1 \in 1 .. n - 1 /\ v[i - 1] = u[k - 1]
          BY <1>1, <1>5, <4>3
        <5>. QED  BY <4>2, <4>3, <5>1
      <4>4. CASE i # k
        <5>1. i # 1 /\ i - 1 \in 1 .. n - 1 /\ v[i - 1] = u[(i + 1) - 1]
          BY <1>1, <1>5, <3>2, <4>4
        <5>. QED  BY <4>2, <4>4, <5>1
      <4>. QED  BY <4>3, <4>4
    <3>. QED  BY <1>1, <3>1, <3>2
  <2>. QED  BY <1>5, <1>7, <2>1, <2>2 DEF Threaded
<1>10. Apart(v, n - 1, q, m + 1)
  <2>1. ASSUME NEW i \in 1 .. n - 1, NEW j \in 1 .. m + 1 PROVE v[i] # q[j]
    <3>1. \E a \in (1 .. n) \ {k} : v[i] = u[a]
      BY <1>1, <1>5
    <3>2. q[j] = x \/ \E b \in 1 .. m : q[j] = p[b]
      BY <1>1, <1>6
    <3>. QED  BY <1>1, <1>2, <3>1, <3>2
  <2>. QED  BY <2>1 DEF Apart
<1>11. Cover(v, n - 1, q, m + 1)
  <2>1. ASSUME NEW y \in NodeId
        PROVE  (\E i \in 1 .. n - 1 : v[i] = y) \/ (\E j \in 1 .. m + 1 : q[j] = y)
    <3>1. (\E i \in 1 .. n : u[i] = y) \/ (\E j \in 1 .. m : p[j] = y)
      BY DEF Headed, Cover
    <3>2. ASSUME NEW i \in 1 .. n, u[i] = y, i # k PROVE \E a \in 1 .. n - 1 : v[a] = y
      <4>1. CASE i < k
        <5>1. i \in 1 .. n - 1 /\ v[i] = u[i]
          BY <1>1, <1>5, <4>1
        <5>. QED  BY <3>2, <5>1
      <4>2. CASE i > k
        <5>1. i - 1 \in 1 .. n - 1 /\ v[i - 1] = u[(i - 1) + 1] /\ (i - 1) + 1 = i
          BY <1>1, <1>5, <4>2
        <5>. QED  BY <3>2, <5>1
      <4>. QED  BY <1>1, <3>2, <4>1, <4>2
    <3>3. ASSUME NEW j \in 1 .. m, p[j] = y PROVE \E b \in 1 .. m + 1 : q[b] = y
      <4>1. j + 1 \in 1 .. m + 1 /\ q[j + 1] = p[(j + 1) - 1] /\ (j + 1) - 1 = j
        BY <1>1, <1>6
      <4>. QED  BY <3>3, <4>1
    <3>4. y = x => q[1] = y /\ 1 \in 1 .. m + 1
      BY <1>1, <1>6
    <3>. QED  BY <1>2, <3>1, <3>2, <3>3, <3>4
  <2>. QED  BY <2>1 DEF Cover
<1>12. g.list[l].head = IF n - 1 = 0 THEN NULL ELSE v[1]
  <2>1. g.list[l].head = IF k = 1 THEN IF n = 1 THEN NULL ELSE u[2] ELSE h.list[l].head
    BY DEF Taken
  <2>2. h.list[l].head = u[1]
    BY <1>1 DEF Headed
  <2>3. n # 1 => 1 \in 1 .. n - 1 /\ v[1] = IF k = 1 THEN u[1 + 1] ELSE u[1]
    BY <1>1, <1>5
  <2>. QED  BY <1>1, <2>1, <2>2, <2>3
<1>13. g.list[l].num_nodes = n - 1
  BY DEF Taken
<1>. QED  BY <1>2, <1>3, <1>4, <1>8, <1>9, <1>10, <1>11, <1>12, <1>13 DEF Headed

-----------------------------------------------------------------------------
(* Moving the cursor.                                                      *)

\* Only the cursor and the status of list l are others.
Moved(h, g, l) ==
  /\ g.node = h.node /\ SameRest(h, g)
  /\ \A a \in AnyList \ {l} : g.list[a] = h.list[a]
  /\ g.list[l].head = h.list[l].head /\ g.list[l].tail = h.list[l].tail
  /\ g.list[l].num_nodes = h.list[l].num_nodes

\* They are c and s.
Cursor(h, g, l, c, s) ==
  Moved(h, g, l) /\ g.list[l].curr = c /\ g.list[l].status = s

\* Writing the cursor or the status of a list changes nothing else.
LEMMA CursorSet ==
  ASSUME NEW h \in Heap, NEW l \in ListId
  PROVE  /\ \A c \in Pointer : Cursor(h, Set(h, l, "curr", c), l, c, h.list[l].status)
         /\ \A s \in Status : Cursor(h, Set(h, l, "status", s), l, h.list[l].curr, s)
<1>1. h.list \in [AnyList -> ListHead] /\ l \in AnyList /\ h.list[l] \in ListHead
  BY Pointers DEF Heap
<1>2. ASSUME NEW c \in Pointer PROVE Cursor(h, Set(h, l, "curr", c), l, c, h.list[l].status)
  <2>1. PICK g : g = Set(h, l, "curr", c)
    OBVIOUS
  <2>2. /\ g.list = [h.list EXCEPT ![l]["curr"] = c]
        /\ g.node = h.node /\ SameRest(h, g)
    BY <2>1 DEF Set, Heap, SameRest
  <2>3. g.list[l] = [h.list[l] EXCEPT !["curr"] = c]
    BY <1>1, <2>2
  <2>4. \A a \in AnyList \ {l} : g.list[a] = h.list[a]
    BY <1>1, <2>2
  <2>5. /\ g.list[l].head = h.list[l].head /\ g.list[l].tail = h.list[l].tail
        /\ g.list[l].num_nodes = h.list[l].num_nodes
        /\ g.list[l].curr = c /\ g.list[l].status = h.list[l].status
    BY <1>1, <2>3 DEF ListHead
  <2>. QED  BY <2>1, <2>2, <2>4, <2>5 DEF Cursor, Moved
<1>3. ASSUME NEW s \in Status PROVE Cursor(h, Set(h, l, "status", s), l, h.list[l].curr, s)
  <2>1. PICK g : g = Set(h, l, "status", s)
    OBVIOUS
  <2>2. /\ g.list = [h.list EXCEPT ![l]["status"] = s]
        /\ g.node = h.node /\ SameRest(h, g)
    BY <2>1 DEF Set, Heap, SameRest
  <2>3. g.list[l] = [h.list[l] EXCEPT !["status"] = s]
    BY <1>1, <2>2
  <2>4. \A a \in AnyList \ {l} : g.list[a] = h.list[a]
    BY <1>1, <2>2
  <2>5. /\ g.list[l].head = h.list[l].head /\ g.list[l].tail = h.list[l].tail
        /\ g.list[l].num_nodes = h.list[l].num_nodes
        /\ g.list[l].curr = h.list[l].curr /\ g.list[l].status = s
    BY <1>1, <2>3 DEF ListHead
  <2>. QED  BY <2>1, <2>2, <2>4, <2>5 DEF Cursor, Moved
<1>. QED  BY <1>2, <1>3

\* Both of them.
LEMMA CursorsSet ==
  ASSUME NEW h \in Heap, NEW l \in ListId, NEW c \in Pointer, NEW s \in Status,
         NEW g, g = Set(Set(h, l, "curr", c), l, "status", s)
  PROVE  Cursor(h, g, l, c, s) /\ g \in Heap
<1>1. PICK f \in Heap : f = Set(h, l, "curr", c)
  BY SetTyped, Pointers
<1>2. Cursor(h, f, l, c, h.list[l].status)
  BY <1>1, CursorSet
<1>3. Cursor(f, g, l, f.list[l].curr, s)
  BY <1>1, CursorSet
<1>4. g \in Heap
  BY <1>1, SetTyped, Pointers
<1>. QED  BY <1>2, <1>3, <1>4 DEF Cursor, Moved, SameRest

\* The cursor is on the list.
OnList(c, u, n) == c = NULL \/ \E i \in 1 .. n : c = u[i]

\* A list whose cursor goes to another of its nodes, or to none, is whole.
LEMMA MovedIntact ==
  ASSUME NEW h, NEW l \in ListId, NEW u, NEW n, NEW p, NEW m, Intact(h, l, u, n, p, m),
         NEW g, Moved(h, g, l), OnList(g.list[l].curr, u, n)
  PROVE  Intact(g, l, u, n, p, m)
<1>1. g.node = h.node /\ g.list[freeNodes] = h.list[freeNodes]
  BY Pointers, HeapAssumption DEF Moved, ListId, freeNodes
<1>2. Threaded(g, u, n) /\ Pooled(g, p, m)
  BY <1>1 DEF Intact, Threaded, Pooled
<1>3. Ends(g, l, u, n)
  BY DEF Intact, Ends, Moved, OnList
<1>. QED  BY <1>2, <1>3 DEF Intact

\* What Intact says of the ends.
LEMMA IntactEnds ==
  ASSUME NEW h, NEW l, NEW u, NEW n, NEW p, NEW m, Intact(h, l, u, n, p, m)
  PROVE  /\ n \in Nat /\ u \in [1 .. n -> NodeId] /\ m \in Nat /\ p \in [1 .. m -> NodeId]
         /\ emptyList(h, l) <=> n = 0
         /\ n # 0 => /\ 1 \in 1 .. n /\ n \in 1 .. n
                     /\ h.list[l].head = u[1] /\ u[1] \in NodeId
                     /\ h.list[l].tail = u[n] /\ u[n] \in NodeId
         /\ n = 0 => h.list[l].head = NULL /\ h.list[l].tail = NULL /\ h.list[l].curr = NULL
         /\ OnList(h.list[l].curr, u, n)
<1>1. /\ n \in Nat /\ u \in [1 .. n -> NodeId] /\ m \in Nat /\ p \in [1 .. m -> NodeId]
  BY DEF Intact, Threaded, Pooled
<1>2. /\ h.list[l].num_nodes = n
      /\ h.list[l].head = IF n = 0 THEN NULL ELSE u[1]
      /\ h.list[l].tail = IF n = 0 THEN NULL ELSE u[n]
      /\ OnList(h.list[l].curr, u, n)
  BY DEF Intact, Ends, OnList
<1>3. n # 0 => 1 \in 1 .. n /\ n \in 1 .. n
  BY <1>1
<1>4. n = 0 => h.list[l].curr = NULL
  BY <1>2 DEF OnList
<1>. QED  BY <1>1, <1>2, <1>3, <1>4 DEF emptyList

\* List_first() and List_last() go to the ends.
LEMMA MoveToIs ==
  ASSUME NEW h \in Heap, NEW l \in ListId, NEW u, NEW n, NEW p, NEW m,
         Intact(h, l, u, n, p, m)
  PROVE  /\ n = 0 => /\ Cursor(h, List_first(h, l).heap, l, NULL, h.list[l].status)
                     /\ Cursor(h, List_last(h, l).heap, l, NULL, h.list[l].status)
         /\ n # 0 => /\ Cursor(h, List_first(h, l).heap, l, u[1], "LIST_OOB_NONE")
                     /\ Cursor(h, List_last(h, l).heap, l, u[n], "LIST_OOB_NONE")
<1>1. CASE n = 0
  <2>1. emptyList(h, l) /\ NULL \in Pointer
    BY <1>1, IntactEnds, Pointers
  <2>2. List_first(h, l).heap = Set(h, l, "curr", NULL)
        /\ List_last(h, l).heap = Set(h, l, "curr", NULL)
    BY <2>1 DEF List_first, List_last, MoveTo
  <2>. QED  BY <1>1, <2>1, <2>2, CursorSet
<1>2. CASE n # 0
  <2>1. /\ ~emptyList(h, l) /\ h.list[l].head = u[1] /\ u[1] \in NodeId
        /\ h.list[l].tail = u[n] /\ u[n] \in NodeId
    BY <1>2, IntactEnds
  <2>2. u[1] \in Pointer /\ u[n] \in Pointer /\ "LIST_OOB_NONE" \in Status
    BY <2>1, Pointers DEF Status
  <2>3. PICK f : f = Set(Set(h, l, "curr", u[1]), l, "status", "LIST_OOB_NONE")
    OBVIOUS
  <2>4. PICK g : g = Set(Set(h, l, "curr", u[n]), l, "status", "LIST_OOB_NONE")
    OBVIOUS
  <2>5. /\ Cursor(h, f, l, u[1], "LIST_OOB_NONE") /\ Cursor(h, g, l, u[n], "LIST_OOB_NONE")
    BY <2>2, <2>3, <2>4, CursorsSet
  <2>6. List_first(h, l) = ItemAt(f, u[1]) /\ List_last(h, l) = ItemAt(g, u[n])
    BY <2>1, <2>3, <2>4 DEF List_first, List_last, MoveTo
  <2>7. List_first(h, l).heap = f /\ List_last(h, l).heap = g
    BY <2>1, <2>6 DEF ItemAt
  <2>. QED  BY <1>2, <2>5, <2>7
<1>. QED  BY <1>1, <1>2

-----------------------------------------------------------------------------
(* Inserting.                                                              *)

\* What an insertion does to the head of its list.
HeadBecomes(h, g, l, head, tail, status, x) ==
  /\ g.node = h.node /\ SameRest(h, g)
  /\ g.list[freeNodes] = h.list[freeNodes]
  /\ g.list[l].head = head /\ g.list[l].tail = tail /\ g.list[l].status = status
  /\ g.list[l].curr = x
  /\ g.list[l].num_nodes = h.list[l].num_nodes + 1

\* Inserted() moves the cursor and counts the node.
LEMMA Counted ==
  ASSUME NEW h \in Heap, NEW l \in ListId, NEW x \in NodeId
  PROVE  HeadBecomes(h, Inserted(h, l, x).heap, l, h.list[l].head, h.list[l].tail,
                     h.list[l].status, x)
<1>1. PICK g : g = [h EXCEPT !.list[l].curr = x, !.list[l].num_nodes = @ + 1]
  OBVIOUS
<1>2. Inserted(h, l, x).heap = g
  BY <1>1 DEF Inserted
<1>3. h.list \in [AnyList -> ListHead] /\ l \in AnyList /\ l # freeNodes /\ freeNodes \in AnyList
      /\ h.list[l] \in ListHead
  BY Pointers, HeapAssumption DEF Heap, ListId, freeNodes
<1>4. /\ g.list = [h.list EXCEPT ![l] = [h.list[l] EXCEPT !.curr = x, !.num_nodes = @ + 1]]
      /\ g.node = h.node /\ SameRest(h, g)
  BY <1>1, <1>3 DEF Heap, SameRest
<1>5. /\ g.list[l] = [h.list[l] EXCEPT !.curr = x, !.num_nodes = @ + 1]
      /\ g.list[freeNodes] = h.list[freeNodes]
  BY <1>3, <1>4
<1>6. /\ g.list[l].head = h.list[l].head /\ g.list[l].tail = h.list[l].tail
      /\ g.list[l].status = h.list[l].status /\ g.list[l].curr = x
      /\ g.list[l].num_nodes = h.list[l].num_nodes + 1
  BY <1>3, <1>5 DEF ListHead
<1>. QED  BY <1>2, <1>4, <1>5, <1>6 DEF HeadBecomes

\* The ends and the status are set before.
HeadSet(h, f, l, head, tail, status) ==
  /\ f \in Heap /\ f.node = h.node /\ SameRest(h, f)
  /\ f.list[freeNodes] = h.list[freeNodes]
  /\ f.list[l].head = head /\ f.list[l].tail = tail /\ f.list[l].status = status
  /\ f.list[l].num_nodes = h.list[l].num_nodes

\* Both together.
LEMMA CountedAfter ==
  ASSUME NEW h \in Heap, NEW l \in ListId, NEW x \in NodeId,
         NEW f, NEW head, NEW tail, NEW status, HeadSet(h, f, l, head, tail, status)
  PROVE  HeadBecomes(h, Inserted(f, l, x).heap, l, head, tail, status, x)
<1>1. HeadBecomes(f, Inserted(f, l, x).heap, l, f.list[l].head, f.list[l].tail,
                  f.list[l].status, x)
  BY Counted DEF HeadSet
<1>. QED  BY <1>1 DEF HeadBecomes, HeadSet, SameRest

\* The three ways in which the insertions set them.
LEMMA HeadsSet ==
  ASSUME NEW h \in Heap, NEW l \in ListId, NEW x \in NodeId
  PROVE  /\ HeadSet(h, [h EXCEPT !.list[l].status = "LIST_OOB_NONE", !.list[l].tail = x],
                    l, h.list[l].head, x, "LIST_OOB_NONE")
         /\ HeadSet(h, [h EXCEPT !.list[l].status = "LIST_OOB_NONE", !.list[l].head = x],
                    l, x, h.list[l].tail, "LIST_OOB_NONE")
         /\ HeadSet(h, [h EXCEPT !.list[l].head = x, !.list[l].tail = x,
                                 !.list[l].status = "LIST_OOB_NONE"],
                    l, x, x, "LIST_OOB_NONE")
<1>1. PICK o \in ListHead : o = h.list[l]
  BY Fields, Pointers
<1>2. h.list \in [AnyList -> ListHead] /\ l \in AnyList /\ l # freeNodes /\ freeNodes \in AnyList
  BY Pointers, HeapAssumption DEF Heap, ListId, freeNodes
<1>3. x \in Pointer /\ "LIST_OOB_NONE" \in Status
  BY Pointers DEF Status
<1>4. ASSUME NEW f, NEW e \in ListHead, f.list = [h.list EXCEPT ![l] = e],
             f.node = h.node, SameRest(h, f), f \in Heap, e.num_nodes = o.num_nodes
      PROVE  HeadSet(h, f, l, e.head, e.tail, e.status)
  BY <1>1, <1>2, <1>4 DEF HeadSet
<1>5. HeadSet(h, [h EXCEPT !.list[l].status = "LIST_OOB_NONE", !.list[l].tail = x],
              l, h.list[l].head, x, "LIST_OOB_NONE")
  <2>1. PICK f : f = [h EXCEPT !.list[l].status = "LIST_OOB_NONE", !.list[l].tail = x]
    OBVIOUS
  <2>2. PICK e : e = [o EXCEPT !.status = "LIST_OOB_NONE", !.tail = x]
    OBVIOUS
  <2>3. /\ e \in ListHead /\ e.head = o.head /\ e.tail = x /\ e.status = "LIST_OOB_NONE"
        /\ e.num_nodes = o.num_nodes
    BY <1>3, <2>2 DEF ListHead
  <2>4. f.list = [h.list EXCEPT ![l] = e] /\ f.node = h.node /\ SameRest(h, f)
    BY <1>1, <1>2, <2>1, <2>2 DEF Heap, SameRest
  <2>5. f \in Heap
    <3>1. PICK f1 \in Heap : f1 = [h EXCEPT !.list[l].status = "LIST_OOB_NONE"]
      BY <1>2, <1>3, HeadUpdated
    <3>2. PICK f2 \in Heap : f2 = [f1 EXCEPT !.list[l].tail = x]
      BY <1>2, <1>3, HeadUpdated
    <3>. QED  BY <2>1, <3>1, <3>2
  <2>. QED  BY <1>1, <1>4, <2>1, <2>3, <2>4, <2>5
<1>6. HeadSet(h, [h EXCEPT !.list[l].status = "LIST_OOB_NONE", !.list[l].head = x],
              l, x, h.list[l].tail, "LIST_OOB_NONE")
  <2>1. PICK f : f = [h EXCEPT !.list[l].status = "LIST_OOB_NONE", !.list[l].head = x]
    OBVIOUS
  <2>2. PICK e : e = [o EXCEPT !.status = "LIST_OOB_NONE", !.head = x]
    OBVIOUS
  <2>3. /\ e \in ListHead /\ e.head = x /\ e.tail = o.tail /\ e.status = "LIST_OOB_NONE"
        /\ e.num_nodes = o.num_nodes
    BY <1>3, <2>2 DEF ListHead
  <2>4. f.list = [h.list EXCEPT ![l] = e] /\ f.node = h.node /\ SameRest(h, f)
    BY <1>1, <1>2, <2>1, <2>2 DEF Heap, SameRest
  <2>5. f \in Heap
    <3>1. PICK f1 \in Heap : f1 = [h EXCEPT !.list[l].status = "LIST_OOB_NONE"]
      BY <1>2, <1>3, HeadUpdated
    <3>2. PICK f2 \in Heap : f2 = [f1 EXCEPT !.list[l].head = x]
      BY <1>2, <1>3, HeadUpdated
    <3>. QED  BY <2>1, <3>1, <3>2
  <2>. QED  BY <1>1, <1>4, <2>1, <2>3, <2>4, <2>5
<1>7. HeadSet(h, [h EXCEPT !.list[l].head = x, !.list[l].tail = x,
                           !.list[l].status = "LIST_OOB_NONE"],
              l, x, x, "LIST_OOB_NONE")
  <2>1. PICK f : f = [h EXCEPT !.list[l].head = x, !.list[l].tail = x,
                               !.list[l].status = "LIST_OOB_NONE"]
    OBVIOUS
  <2>2. PICK e : e = [o EXCEPT !.head = x, !.tail = x, !.status = "LIST_OOB_NONE"]
    OBVIOUS
  <2>3. /\ e \in ListHead /\ e.head = x /\ e.tail = x /\ e.status = "LIST_OOB_NONE"
        /\ e.num_nodes = o.num_nodes
    BY <1>3, <2>2 DEF ListHead
  <2>4. f.list = [h.list EXCEPT ![l] = e] /\ f.node = h.node /\ SameRest(h, f)
    BY <1>1, <1>2, <2>1, <2>2 DEF Heap, SameRest
  <2>5. f \in Heap
    <3>1. PICK f1 \in Heap : f1 = [h EXCEPT !.list[l].head = x]
      BY <1>2, <1>3, HeadUpdated
    <3>2. PICK f2 \in Heap : f2 = [f1 EXCEPT !.list[l].tail = x]
      BY <1>2, <1>3, HeadUpdated
    <3>3. PICK f3 \in Heap : f3 = [f2 EXCEPT !.list[l].status = "LIST_OOB_NONE"]
      BY <1>2, <1>3, HeadUpdated
    <3>. QED  BY <2>1, <3>1, <3>2, <3>3
  <2>. QED  BY <1>1, <1>4, <2>1, <2>3, <2>4, <2>5
<1>. QED  BY <1>5, <1>6, <1>7

\* A successful insertion of the item at place k.
Put(h, r, l, item, u, n, p, m, k) ==
  /\ r.ret = "LIST_SUCCESS"
  /\ Spliced(h, r.heap, l, u, n, p, m, k)
  /\ r.heap.node[p[1]].item = item
  /\ \A i \in 1 .. n : r.heap.node[u[i]].item = h.node[u[i]].item
  /\ r.heap.list[l].status = IF k \in {1, n + 1} THEN "LIST_OOB_NONE" ELSE h.list[l].status
  /\ SameRest(h, r.heap)

\* The node x is linked between two neighbours of the list, or at an end of it.
Between(h, f, l, item, u, n, p, m, k) ==
  /\ f \in Heap
  /\ f.node[p[1]].next = IF k = n + 1 THEN NULL ELSE u[k]
  /\ f.node[p[1]].prev = IF k = 1 THEN NULL ELSE u[k - 1]
  /\ f.node[p[1]].item = item
  /\ \A i \in 1 .. n :
       /\ f.node[u[i]].next = IF i = k - 1 THEN p[1] ELSE h.node[u[i]].next
       /\ f.node[u[i]].prev = IF i = k THEN p[1] ELSE h.node[u[i]].prev
       /\ f.node[u[i]].item = h.node[u[i]].item
  /\ \A j \in 2 .. m : f.node[p[j]].prev = h.node[p[j]].prev
  /\ f.list[l] = h.list[l]
  /\ f.list[freeNodes].tail = IF m = 1 THEN NULL ELSE p[2]
  /\ f.list[freeNodes].num_nodes = m - 1
  /\ SameRest(h, f)

\* Two calls of linkNodes() put it there.
LEMMA LinkedBetween ==
  ASSUME NEW h \in Heap, NEW l \in ListId, NEW u, NEW n, NEW p, NEW m,
         Intact(h, l, u, n, p, m), m # 0,
         NEW item, NEW g \in Heap, Consumed(h, g, item, p, m), NEW k \in 1 .. n + 1,
         NEW linked, linked = linkNodes(linkNodes(g, IF k = 1 THEN NULL ELSE u[k - 1], p[1]),
                                        p[1], IF k = n + 1 THEN NULL ELSE u[k])
  PROVE  Between(h, linked, l, item, u, n, p, m, k)
<1>1. /\ n \in Nat /\ u \in [1 .. n -> NodeId]
      /\ m \in Nat /\ p \in [1 .. m -> NodeId]
      /\ \A i, j \in 1 .. n : u[i] = u[j] => i = j
      /\ \A i, j \in 1 .. m : p[i] = p[j] => i = j
      /\ \A i \in 1 .. n : \A j \in 1 .. m : u[i] # p[j]
  BY DEF Intact, Threaded, Pooled, Apart
<1>2. PICK x \in NodeId : x = p[1]
  BY <1>1
<1>3. PICK a \in NodeId \union {NULL} : a = IF k = 1 THEN NULL ELSE u[k - 1]
  BY <1>1
<1>4. PICK b \in NodeId \union {NULL} : b = IF k = n + 1 THEN NULL ELSE u[k]
  BY <1>1
<1>5. PICK f \in Heap : f = linkNodes(g, a, x)
  BY NodesLinked
<1>6. Joined(g, f, a, x)
  BY <1>5, NodesLinked
<1>7. linked \in Heap /\ Joined(f, linked, x, b)
  BY <1>2, <1>3, <1>4, <1>5, NodesLinked
<1>8. x # NULL /\ x # a /\ x # b /\ \A i \in 1 .. n : u[i] # NULL /\ u[i] # x
  BY <1>1, <1>2, <1>3, <1>4, Pointers
<1>9. /\ g.node[x] = [item |-> item, next |-> NULL, prev |-> NULL]
      /\ \A y \in NodeId \ {x} : g.node[y] = h.node[y]
  BY <1>2 DEF Consumed
<1>10. /\ linked.node[x].next = b /\ linked.node[x].prev = a /\ linked.node[x].item = item
       /\ \A y \in NodeId \ {x} :
            /\ linked.node[y].next = IF y = a THEN x ELSE h.node[y].next
            /\ linked.node[y].prev = IF y = b THEN x ELSE h.node[y].prev
            /\ linked.node[y].item = h.node[y].item
  <2>1. \A y \in NodeId :
          /\ f.node[y].next = IF y = a /\ x # NULL THEN x ELSE g.node[y].next
          /\ f.node[y].prev = IF y = x /\ a # NULL THEN a ELSE g.node[y].prev
          /\ f.node[y].item = g.node[y].item
    BY <1>6 DEF Joined
  <2>2. \A y \in NodeId :
          /\ linked.node[y].next = IF y = x /\ b # NULL THEN b ELSE f.node[y].next
          /\ linked.node[y].prev = IF y = b /\ x # NULL THEN x ELSE f.node[y].prev
          /\ linked.node[y].item = f.node[y].item
    BY <1>7 DEF Joined
  <2>3. g.node[x].next = NULL /\ g.node[x].prev = NULL /\ g.node[x].item = item
    BY <1>9
  <2>. QED  BY <1>8, <1>9, <2>1, <2>2, <2>3
<1>11. linked.list = g.list /\ SameRest(g, linked)
  BY <1>6, <1>7 DEF Joined, SameRest
<1>12. /\ linked.list[l] = h.list[l]
       /\ linked.list[freeNodes].tail = IF m = 1 THEN NULL ELSE p[2]
       /\ linked.list[freeNodes].num_nodes = m - 1
       /\ SameRest(h, linked)
  BY <1>11 DEF Consumed, SameRest
<1>13. ASSUME NEW i \in 1 .. n
       PROVE  /\ linked.node[u[i]].next = IF i = k - 1 THEN x ELSE h.node[u[i]].next
              /\ linked.node[u[i]].prev = IF i = k THEN x ELSE h.node[u[i]].prev
              /\ linked.node[u[i]].item = h.node[u[i]].item
  <2>1. u[i] = a <=> i = k - 1
    BY <1>1, <1>3, <1>8
  <2>2. u[i] = b <=> i = k
    BY <1>1, <1>4, <1>8
  <2>3. u[i] \in NodeId \ {x}
    BY <1>1, <1>8
  <2>. QED  BY <1>10, <2>1, <2>2, <2>3
<1>14. \A j \in 2 .. m : linked.node[p[j]].prev = h.node[p[j]].prev
  <2>1. ASSUME NEW j \in 2 .. m PROVE linked.node[p[j]].prev = h.node[p[j]].prev
    <3>1. j \in 1 .. m /\ j # 1 /\ 1 \in 1 .. m
      BY <1>1
    <3>2. p[j] \in NodeId \ {x}
      BY <1>1, <1>2, <3>1
    <3>3. p[j] # b
      BY <1>1, <1>4, <3>1, <3>2, Pointers
    <3>. QED  BY <1>10, <3>2, <3>3
  <2>. QED  BY <2>1
<1>15. /\ linked.node[x].next = IF k = n + 1 THEN NULL ELSE u[k]
       /\ linked.node[x].prev = IF k = 1 THEN NULL ELSE u[k - 1]
       /\ linked.node[x].item = item
  BY <1>3, <1>4, <1>10
<1>. QED  BY <1>2, <1>7, <1>12, <1>13, <1>14, <1>15, Zenon DEF Between

\* An insertion is complete once the head of the list is right, too,
LEMMA PutIs ==
  ASSUME NEW h, NEW l, NEW u, NEW n, NEW p, NEW m, Intact(h, l, u, n, p, m),
         NEW item, NEW k, NEW f, Between(h, f, l, item, u, n, p, m, k),
         NEW r, r.ret = "LIST_SUCCESS",
         HeadBecomes(f, r.heap, l, IF k = 1 THEN p[1] ELSE f.list[l].head,
                     IF k = n + 1 THEN p[1] ELSE f.list[l].tail,
                     IF k \in {1, n + 1} THEN "LIST_OOB_NONE" ELSE f.list[l].status, p[1])
  PROVE  Put(h, r, l, item, u, n, p, m, k)
<1>1. PICK e : e = r.heap
  OBVIOUS
<1>2. /\ e.node = f.node /\ e.list[freeNodes] = f.list[freeNodes] /\ SameRest(f, e)
      /\ e.list[l].head = IF k = 1 THEN p[1] ELSE f.list[l].head
      /\ e.list[l].tail = IF k = n + 1 THEN p[1] ELSE f.list[l].tail
      /\ e.list[l].status = IF k \in {1, n + 1} THEN "LIST_OOB_NONE" ELSE f.list[l].status
      /\ e.list[l].curr = p[1]
      /\ e.list[l].num_nodes = f.list[l].num_nodes + 1
  BY <1>1 DEF HeadBecomes
<1>3. f.list[l] = h.list[l] /\ h.list[l].num_nodes = n
  BY DEF Between, Intact, Ends
<1>4. Spliced(h, e, l, u, n, p, m, k)
  BY <1>2, <1>3 DEF Between, Spliced
<1>5. SameRest(h, e)
  BY <1>2 DEF Between, SameRest
<1>6. /\ e.node[p[1]].item = item
      /\ \A i \in 1 .. n : e.node[u[i]].item = h.node[u[i]].item
  BY <1>2 DEF Between
<1>7. e.list[l].status = IF k \in {1, n + 1} THEN "LIST_OOB_NONE" ELSE h.list[l].status
  BY <1>2, <1>3
<1>. QED  BY <1>1, <1>4, <1>5, <1>6, <1>7 DEF Put

\* which it is in each of the three cases of the code.
LEMMA PutBetween ==
  ASSUME NEW h \in Heap, NEW l \in ListId, NEW u, NEW n, NEW p, NEW m,
         Intact(h, l, u, n, p, m), m # 0, n # 0, NEW x, x = p[1],
         NEW item, NEW k \in 1 .. n + 1, NEW f, Between(h, f, l, item, u, n, p, m, k)
  PROVE  /\ k = 1 => Put(h, Inserted([f EXCEPT !.list[l].status = "LIST_OOB_NONE",
                                               !.list[l].head = x], l, x),
                         l, item, u, n, p, m, k)
         /\ k = n + 1 => Put(h, Inserted([f EXCEPT !.list[l].status = "LIST_OOB_NONE",
                                                   !.list[l].tail = x], l, x),
                             l, item, u, n, p, m, k)
         /\ k # 1 /\ k # n + 1 => Put(h, Inserted(f, l, x), l, item, u, n, p, m, k)
<1>1. n \in Nat /\ 1 # n + 1
  BY DEF Intact, Threaded
<1>2. x \in NodeId
  BY DEF Intact, Pooled
<1>3. f \in Heap
  BY DEF Between
<1>4. ASSUME NEW r, r.ret = "LIST_SUCCESS",
             HeadBecomes(f, r.heap, l, IF k = 1 THEN x ELSE f.list[l].head,
                  IF k = n + 1 THEN x ELSE f.list[l].tail,
                  IF k \in {1, n + 1} THEN "LIST_OOB_NONE" ELSE f.list[l].status, x)
      PROVE  Put(h, r, l, item, u, n, p, m, k)
  BY <1>4, PutIs, Zenon
<1>5. ASSUME k = 1
      PROVE  Put(h, Inserted([f EXCEPT !.list[l].status = "LIST_OOB_NONE",
                                       !.list[l].head = x], l, x), l, item, u, n, p, m, k)
  <2>1. PICK d : d = [f EXCEPT !.list[l].status = "LIST_OOB_NONE", !.list[l].head = x]
    OBVIOUS
  <2>2. HeadSet(f, d, l, x, f.list[l].tail, "LIST_OOB_NONE")
    BY <1>2, <1>3, <2>1, HeadsSet
  <2>3. PICK r : r = Inserted(d, l, x)
    OBVIOUS
  <2>4. HeadBecomes(f, r.heap, l, x, f.list[l].tail, "LIST_OOB_NONE", x)
    BY <1>2, <1>3, <2>2, <2>3, CountedAfter, Zenon
  <2>5. Put(h, r, l, item, u, n, p, m, k)
    <3>1. r.ret = "LIST_SUCCESS"
      BY <2>3 DEF Inserted
    <3>2. k # n + 1 /\ k \in {1, n + 1}
      BY <1>1, <1>5
    <3>. QED  BY <1>4, <1>5, <2>4, <3>1, <3>2, Zenon
  <2>. QED  BY <2>1, <2>3, <2>5, Zenon
<1>6. ASSUME k = n + 1
      PROVE  Put(h, Inserted([f EXCEPT !.list[l].status = "LIST_OOB_NONE",
                                       !.list[l].tail = x], l, x), l, item, u, n, p, m, k)
  <2>1. PICK d : d = [f EXCEPT !.list[l].status = "LIST_OOB_NONE", !.list[l].tail = x]
    OBVIOUS
  <2>2. HeadSet(f, d, l, f.list[l].head, x, "LIST_OOB_NONE")
    BY <1>2, <1>3, <2>1, HeadsSet
  <2>3. PICK r : r = Inserted(d, l, x)
    OBVIOUS
  <2>4. HeadBecomes(f, r.heap, l, f.list[l].head, x, "LIST_OOB_NONE", x)
    BY <1>2, <1>3, <2>2, <2>3, CountedAfter, Zenon
  <2>5. Put(h, r, l, item, u, n, p, m, k)
    <3>1. r.ret = "LIST_SUCCESS"
      BY <2>3 DEF Inserted
    <3>2. k # 1 /\ k \in {1, n + 1}
      BY <1>1, <1>6
    <3>. QED  BY <1>4, <1>6, <2>4, <3>1, <3>2, Zenon
  <2>. QED  BY <2>1, <2>3, <2>5, Zenon
<1>7. ASSUME k # 1, k # n + 1 PROVE Put(h, Inserted(f, l, x), l, item, u, n, p, m, k)
  <2>1. PICK r : r = Inserted(f, l, x)
    OBVIOUS
  <2>2. HeadBecomes(f, r.heap, l, f.list[l].head, f.list[l].tail, f.list[l].status, x)
    BY <1>2, <1>3, <2>1, Counted, Zenon
  <2>3. r.ret = "LIST_SUCCESS"
    BY <2>1 DEF Inserted
  <2>4. k \notin {1, n + 1}
    BY <1>7
  <2>5. Put(h, r, l, item, u, n, p, m, k)
    BY <1>4, <1>7, <2>2, <2>3, <2>4, Zenon
  <2>. QED  BY <2>1, <2>5, Zenon
<1>. QED  BY <1>5, <1>6, <1>7, Zenon

\* Into the empty list.
LEMMA PutFirst ==
  ASSUME NEW h \in Heap, NEW l \in ListId, NEW u, NEW p, NEW m,
         Intact(h, l, u, 0, p, m), m # 0,
         NEW item, NEW g \in Heap, Consumed(h, g, item, p, m),
         NEW r, r = InsertIntoEmpty(g, l, p[1])
  PROVE  Put(h, r, l, item, u, 0, p, m, 1)
<1>1. PICK x \in NodeId : x = p[1]
  BY DEF Consumed
<1>2. PICK d : d = [g EXCEPT !.list[l].head = x, !.list[l].tail = x,
                             !.list[l].status = "LIST_OOB_NONE"]
  OBVIOUS
<1>3. HeadSet(g, d, l, x, x, "LIST_OOB_NONE")
  BY <1>2, HeadsSet
<1>4. r = Inserted(d, l, x)
  BY <1>1, <1>2 DEF InsertIntoEmpty
<1>5. HeadBecomes(g, r.heap, l, x, x, "LIST_OOB_NONE", x)
  BY <1>3, <1>4, CountedAfter
<1>6. r.ret = "LIST_SUCCESS"
  BY <1>4 DEF Inserted
<1>7. Between(h, g, l, item, u, 0, p, m, 1)
  <2>1. /\ g.node[x].next = NULL /\ g.node[x].prev = NULL /\ g.node[x].item = item
        /\ \A y \in NodeId \ {x} : g.node[y] = h.node[y]
    BY <1>1 DEF Consumed
  <2>2. ASSUME NEW j \in 2 .. m PROVE g.node[p[j]].prev = h.node[p[j]].prev
    <3>1. m \in Nat /\ j \in 1 .. m /\ 1 \in 1 .. m /\ j # 1
      BY DEF Intact, Pooled
    <3>2. p[j] \in NodeId \ {x}
      BY <1>1, <3>1 DEF Intact, Pooled
    <3>. QED  BY <2>1, <3>2
  <2>. QED  BY <1>1, <2>1, <2>2 DEF Consumed, Between
<1>8. HeadBecomes(g, r.heap, l, IF 1 = 1 THEN p[1] ELSE g.list[l].head,
                  IF 1 = 0 + 1 THEN p[1] ELSE g.list[l].tail,
                  IF 1 \in {1, 0 + 1} THEN "LIST_OOB_NONE" ELSE g.list[l].status, p[1])
  <2>1. 1 = 0 + 1
    OBVIOUS
  <2>. QED  BY <1>1, <1>5, <2>1, Zenon
<1>. QED  BY <1>6, <1>7, <1>8, PutIs, Zenon

\* A new node is put behind a node of the list, or before one.
LEMMA PutBehind ==
  ASSUME NEW h \in Heap, NEW l \in ListId, NEW u, NEW n, NEW p, NEW m,
         Intact(h, l, u, n, p, m), m # 0, NEW item, NEW g \in Heap, Consumed(h, g, item, p, m),
         NEW i \in 1 .. n, NEW x, x = p[1], NEW temp, temp = u[i],
         NEW linked, linked = linkNodes(linkNodes(g, temp, x), x, g.node[temp].next),
         NEW ended, ended = [linked EXCEPT !.list[l].status = "LIST_OOB_NONE",
                                           !.list[l].tail = x]
  PROVE  /\ i = n => Put(h, Inserted(ended, l, x), l, item, u, n, p, m, i + 1)
         /\ i # n => Put(h, Inserted(linked, l, x), l, item, u, n, p, m, i + 1)
<1>1. n \in Nat /\ n # 0 /\ i + 1 \in 1 .. n + 1 /\ i + 1 # 1 /\ (i + 1) - 1 = i
      /\ (i + 1 = n + 1 <=> i = n)
  BY DEF Intact, Threaded
<1>2. g.node[temp].next = IF i + 1 = n + 1 THEN NULL ELSE u[i + 1]
  <2>1. 1 \in 1 .. m /\ u[i] # p[1] /\ u[i] \in NodeId
    BY DEF Intact, Pooled, Apart, Threaded
  <2>2. g.node[u[i]] = h.node[u[i]]
    BY <2>1 DEF Consumed
  <2>3. h.node[u[i]].next = IF i = n THEN NULL ELSE u[i + 1]
    BY DEF Intact, Threaded
  <2>. QED  BY <1>1, <2>2, <2>3
<1>3. PICK a : a = IF i + 1 = 1 THEN NULL ELSE u[(i + 1) - 1]
  OBVIOUS
<1>4. a = temp
  BY <1>1, <1>3
<1>5. linked = linkNodes(linkNodes(g, a, p[1]), p[1], IF i + 1 = n + 1 THEN NULL ELSE u[i + 1])
  BY <1>2, <1>4
<1>6. Between(h, linked, l, item, u, n, p, m, i + 1)
  <2>1. linked = linkNodes(linkNodes(g, IF i + 1 = 1 THEN NULL ELSE u[(i + 1) - 1], p[1]),
                           p[1], IF i + 1 = n + 1 THEN NULL ELSE u[i + 1])
    BY <1>3, <1>5
  <2>. QED  BY <1>1, <2>1, LinkedBetween
<1>. QED  BY <1>1, <1>6, PutBetween, Zenon

\* The same before a node of the list.
LEMMA PutBefore ==
  ASSUME NEW h \in Heap, NEW l \in ListId, NEW u, NEW n, NEW p, NEW m,
         Intact(h, l, u, n, p, m), m # 0, NEW item, NEW g \in Heap, Consumed(h, g, item, p, m),
         NEW i \in 1 .. n, NEW x, x = p[1], NEW temp, temp = u[i],
         NEW linked, linked = linkNodes(linkNodes(g, g.node[temp].prev, x), x, temp),
         NEW ended, ended = [linked EXCEPT !.list[l].status = "LIST_OOB_NONE",
                                           !.list[l].head = x]
  PROVE  /\ i = 1 => Put(h, Inserted(ended, l, x), l, item, u, n, p, m, i)
         /\ i # 1 => Put(h, Inserted(linked, l, x), l, item, u, n, p, m, i)
<1>1. n \in Nat /\ n # 0 /\ i \in 1 .. n + 1 /\ i # n + 1
  BY DEF Intact, Threaded
<1>2. g.node[temp].prev = IF i = 1 THEN NULL ELSE u[i - 1]
  <2>1. 1 \in 1 .. m /\ u[i] # p[1] /\ u[i] \in NodeId
    BY DEF Intact, Pooled, Apart, Threaded
  <2>2. g.node[u[i]] = h.node[u[i]]
    BY <2>1 DEF Consumed
  <2>3. h.node[u[i]].prev = IF i = 1 THEN NULL ELSE u[i - 1]
    BY DEF Intact, Threaded
  <2>. QED  BY <2>2, <2>3
<1>3. PICK b : b = IF i = n + 1 THEN NULL ELSE u[i]
  OBVIOUS
<1>4. b = temp
  BY <1>1, <1>3
<1>5. linked = linkNodes(linkNodes(g, IF i = 1 THEN NULL ELSE u[i - 1], p[1]), p[1], b)
  BY <1>2, <1>4
<1>6. Between(h, linked, l, item, u, n, p, m, i)
  <2>1. linked = linkNodes(linkNodes(g, IF i = 1 THEN NULL ELSE u[i - 1], p[1]),
                           p[1], IF i = n + 1 THEN NULL ELSE u[i])
    BY <1>3, <1>5
  <2>. QED  BY <1>1, <2>1, LinkedBetween
<1>. QED  BY <1>1, <1>6, PutBetween, Zenon

\* An insertion fails when no node is unused and is made at place k otherwise.
Inserts(h, r, l, item, u, n, p, m, k) ==
  IF m = 0 THEN r.heap = h /\ r.ret = "LIST_FAIL"
  ELSE Put(h, r, l, item, u, n, p, m, k)

\* List_insert_after of list.c puts the item behind the cursor, or last when the
\* cursor is beyond the end; one before the start faults (list.c:248-280).
LEMMA InsertAfterIs ==
  ASSUME NEW h \in Heap, NEW l \in ListId, NEW item \in Item, NEW u, NEW n, NEW p, NEW m,
         Intact(h, l, u, n, p, m), NEW r, r = List_insert_after(h, l, item)
  PROVE  /\ n = 0 => Inserts(h, r, l, item, u, n, p, m, 1)
         /\ n # 0 /\ h.list[l].status = "LIST_OOB_END" =>
              Inserts(h, r, l, item, u, n, p, m, n + 1)
         /\ \A i \in 1 .. n :
              h.list[l].status # "LIST_OOB_END" /\ h.list[l].curr = u[i] =>
                Inserts(h, r, l, item, u, n, p, m, i + 1)
         /\ n # 0 /\ m # 0 /\ h.list[l].status # "LIST_OOB_END" /\ h.list[l].curr = NULL =>
              r.heap.fault
<1>0. Pooled(h, p, m)
  BY DEF Intact
<1>1. PICK new : new = consumeFreeNode(h, item)
  OBVIOUS
<1>2. PICK g \in Heap : g = new.heap
  BY <1>1, ConsumeTyped
<1>3. PICK x : x = new.ret
  OBVIOUS
<1>7. g = consumeFreeNode(h, item).heap /\ x = consumeFreeNode(h, item).ret
  BY <1>1, <1>2, <1>3
<1>4. /\ m = 0 => g = h /\ x = NULL
      /\ m # 0 => x = p[1] /\ Consumed(h, g, item, p, m)
  BY <1>0, <1>1, <1>2, <1>3, ConsumeIs
<1>5. CASE m = 0
  <2>1. r = Failed(g)
    BY <1>1, <1>2, <1>3, <1>4, <1>5 DEF List_insert_after
  <2>. QED  BY <1>4, <1>5, <2>1 DEF Failed, Inserts
<1>6. CASE m # 0
  <2>1. x = p[1] /\ Consumed(h, g, item, p, m) /\ g.list[l] = h.list[l]
        /\ x \in NodeId /\ x # NULL
    BY <1>4, <1>6, Pointers DEF Consumed
  <2>2. emptyList(g, l) <=> n = 0
    BY <2>1, IntactEnds DEF emptyList
  <2>3. CASE n = 0
    <3>1. r = InsertIntoEmpty(g, l, x)
      BY <1>1, <1>2, <1>3, <2>1, <2>2, <2>3 DEF List_insert_after
    <3>2. Put(h, r, l, item, u, 0, p, m, 1)
      BY <1>6, <2>1, <2>3, <3>1, PutFirst
    <3>. QED  BY <1>6, <2>3, <3>2 DEF Inserts
  <2>4. CASE n # 0
    <3>1. PICK temp : temp = IF g.list[l].status = "LIST_OOB_END" THEN g.list[l].tail
                             ELSE g.list[l].curr
      OBVIOUS
    <3>2. temp \notin NodeId => r = Failed(Fault(g))
      BY <1>1, <1>2, <1>3, <2>1, <2>2, <2>4, <3>1, ZenonT(30) DEF List_insert_after
    <3>3. ASSUME NEW i \in 1 .. n, temp = u[i],
                 h.list[l].status = "LIST_OOB_END" => i = n
          PROVE  Put(h, r, l, item, u, n, p, m, i + 1)
      <4>1. PICK linked : linked = linkNodes(linkNodes(g, temp, x), x, g.node[temp].next)
        OBVIOUS
      <4>2. PICK ended : ended = [linked EXCEPT !.list[l].status = "LIST_OOB_NONE",
                                                !.list[l].tail = x]
        OBVIOUS
      <4>3. temp = g.list[l].tail \/ g.list[l].status = "LIST_OOB_END" <=> i = n
        <5>1. h.list[l].tail = u[n] /\ n \in 1 .. n
          BY <2>4, IntactEnds
        <5>. QED  BY <2>1, <3>3, <5>1 DEF Intact, Threaded
      <4>4. temp \in NodeId
        BY <3>3 DEF Intact, Threaded
      <4>7. x # NULL /\ ~emptyList(g, l)
        BY <2>1, <2>2, <2>4
      <4>8. r \in {Inserted(linked, l, x), Inserted(ended, l, x)}
        BY <1>7, <3>1, <4>1, <4>2, <4>4, <4>7, ZenonT(30) DEF List_insert_after
      <4>9. ASSUME temp = g.list[l].tail \/ g.list[l].status = "LIST_OOB_END"
            PROVE  r = Inserted(ended, l, x)
        BY <1>7, <3>1, <4>1, <4>2, <4>4, <4>7, <4>9, ZenonT(30) DEF List_insert_after
      <4>10. ASSUME ~ (temp = g.list[l].tail \/ g.list[l].status = "LIST_OOB_END")
             PROVE  r = Inserted(linked, l, x)
        BY <1>7, <3>1, <4>1, <4>2, <4>4, <4>7, <4>10, ZenonT(30) DEF List_insert_after
      <4>6. /\ i = n => Put(h, Inserted(ended, l, x), l, item, u, n, p, m, i + 1)
            /\ i # n => Put(h, Inserted(linked, l, x), l, item, u, n, p, m, i + 1)
        <5>1. temp = u[i] /\ x = p[1] /\ Consumed(h, g, item, p, m)
          BY <2>1, <3>3
        <5>2. ASSUME i = n PROVE Put(h, Inserted(ended, l, x), l, item, u, n, p, m, i + 1)
          BY <1>6, <4>1, <4>2, <5>1, <5>2, PutBehind, ZenonT(30)
        <5>3. ASSUME i # n PROVE Put(h, Inserted(linked, l, x), l, item, u, n, p, m, i + 1)
          BY <1>6, <4>1, <4>2, <5>1, <5>3, PutBehind, ZenonT(30)
        <5>. QED  BY <5>2, <5>3
      <4>. QED  BY <4>3, <4>6, <4>9, <4>10, Zenon
    <3>4. h.list[l].status = "LIST_OOB_END" => Put(h, r, l, item, u, n, p, m, n + 1)
      BY <2>1, <2>4, <3>1, <3>3, IntactEnds
    <3>5. \A i \in 1 .. n :
              h.list[l].status # "LIST_OOB_END" /\ h.list[l].curr = u[i] =>
                Put(h, r, l, item, u, n, p, m, i + 1)
      BY <2>1, <3>1, <3>3
    <3>6. h.list[l].status # "LIST_OOB_END" /\ h.list[l].curr = NULL => r.heap.fault
      <4>1. Fault(g).fault
        BY DEF Fault, Heap
      <4>. QED  BY <2>1, <3>1, <3>2, <4>1, Pointers DEF Failed
    <3>. QED  BY <1>6, <2>4, <3>4, <3>5, <3>6 DEF Inserts
  <2>. QED  BY <2>3, <2>4
<1>. QED  BY <1>5, <1>6

\* List_insert_before of list.c puts it before the cursor, or first when there is
\* none; a cursor that is said to be before the start has to be on the first
\* (list.c:282-316).
LEMMA InsertBeforeIs ==
  ASSUME NEW h \in Heap, NEW l \in ListId, NEW item \in Item, NEW u, NEW n, NEW p, NEW m,
         Intact(h, l, u, n, p, m), NEW r, r = List_insert_before(h, l, item)
  PROVE  /\ n = 0 => Inserts(h, r, l, item, u, n, p, m, 1)
         /\ n # 0 /\ h.list[l].curr = NULL => Inserts(h, r, l, item, u, n, p, m, 1)
         /\ \A i \in 1 .. n :
              h.list[l].curr = u[i] /\ (h.list[l].status = "LIST_OOB_START" => i = 1) =>
                Inserts(h, r, l, item, u, n, p, m, i)
<1>0. Pooled(h, p, m)
  BY DEF Intact
<1>1. PICK new : new = consumeFreeNode(h, item)
  OBVIOUS
<1>2. PICK g \in Heap : g = new.heap
  BY <1>1, ConsumeTyped
<1>3. PICK x : x = new.ret
  OBVIOUS
<1>7. g = consumeFreeNode(h, item).heap /\ x = consumeFreeNode(h, item).ret
  BY <1>1, <1>2, <1>3
<1>4. /\ m = 0 => g = h /\ x = NULL
      /\ m # 0 => x = p[1] /\ Consumed(h, g, item, p, m)
  BY <1>0, <1>1, <1>2, <1>3, ConsumeIs
<1>5. CASE m = 0
  <2>1. r = Failed(g)
    BY <1>1, <1>2, <1>3, <1>4, <1>5 DEF List_insert_before
  <2>. QED  BY <1>4, <1>5, <2>1 DEF Failed, Inserts
<1>6. CASE m # 0
  <2>1. x = p[1] /\ Consumed(h, g, item, p, m) /\ g.list[l] = h.list[l]
        /\ x \in NodeId /\ x # NULL
    BY <1>4, <1>6, Pointers DEF Consumed
  <2>2. emptyList(g, l) <=> n = 0
    BY <2>1, IntactEnds DEF emptyList
  <2>3. CASE n = 0
    <3>1. r = InsertIntoEmpty(g, l, x)
      BY <1>1, <1>2, <1>3, <2>1, <2>2, <2>3 DEF List_insert_before
    <3>2. Put(h, r, l, item, u, 0, p, m, 1)
      BY <1>6, <2>1, <2>3, <3>1, PutFirst
    <3>. QED  BY <1>6, <2>3, <3>2 DEF Inserts
  <2>4. CASE n # 0
    <3>1. PICK temp : temp = IF g.list[l].curr # NULL THEN g.list[l].curr
                             ELSE g.list[l].head
      OBVIOUS
    <3>3. ASSUME NEW i \in 1 .. n, temp = u[i],
                 h.list[l].status = "LIST_OOB_START" => i = 1
          PROVE  Put(h, r, l, item, u, n, p, m, i)
      <4>1. PICK linked : linked = linkNodes(linkNodes(g, g.node[temp].prev, x), x, temp)
        OBVIOUS
      <4>2. PICK ended : ended = [linked EXCEPT !.list[l].status = "LIST_OOB_NONE",
                                                !.list[l].head = x]
        OBVIOUS
      <4>3. temp = g.list[l].head \/ g.list[l].status = "LIST_OOB_START" <=> i = 1
        <5>1. h.list[l].head = u[1] /\ 1 \in 1 .. n
          BY <2>4, IntactEnds
        <5>. QED  BY <2>1, <3>3, <5>1 DEF Intact, Threaded
      <4>4. temp \in NodeId
        BY <3>3 DEF Intact, Threaded
      <4>7. x # NULL /\ ~emptyList(g, l)
        BY <2>1, <2>2, <2>4
      <4>8. r \in {Inserted(linked, l, x), Inserted(ended, l, x)}
        BY <1>7, <3>1, <4>1, <4>2, <4>4, <4>7, ZenonT(30) DEF List_insert_before
      <4>9. ASSUME temp = g.list[l].head \/ g.list[l].status = "LIST_OOB_START"
            PROVE  r = Inserted(ended, l, x)
        BY <1>7, <3>1, <4>1, <4>2, <4>4, <4>7, <4>9, ZenonT(30) DEF List_insert_before
      <4>10. ASSUME ~ (temp = g.list[l].head \/ g.list[l].status = "LIST_OOB_START")
             PROVE  r = Inserted(linked, l, x)
        BY <1>7, <3>1, <4>1, <4>2, <4>4, <4>7, <4>10, ZenonT(30) DEF List_insert_before
      <4>6. /\ i = 1 => Put(h, Inserted(ended, l, x), l, item, u, n, p, m, i)
            /\ i # 1 => Put(h, Inserted(linked, l, x), l, item, u, n, p, m, i)
        BY <1>6, <2>1, <3>3, <4>1, <4>2, PutBefore, ZenonT(60)
      <4>. QED  BY <4>3, <4>6, <4>9, <4>10, Zenon
    <3>4. h.list[l].curr = NULL => Put(h, r, l, item, u, n, p, m, 1)
      BY <2>1, <2>4, <3>1, <3>3, IntactEnds
    <3>5. \A i \in 1 .. n :
              h.list[l].curr = u[i] /\ (h.list[l].status = "LIST_OOB_START" => i = 1) =>
                Put(h, r, l, item, u, n, p, m, i)
      <4>1. \A i \in 1 .. n : u[i] # NULL
        BY IntactEnds, Pointers
      <4>. QED  BY <2>1, <3>1, <3>3, <4>1
    <3>. QED  BY <1>6, <2>4, <3>4, <3>5 DEF Inserts
  <2>. QED  BY <2>3, <2>4
<1>. QED  BY <1>5, <1>6

\* List_first() and List_last() leave the list as it is.
LEMMA MoveToIntact ==
  ASSUME NEW h \in Heap, NEW l \in ListId, NEW u, NEW n, NEW p, NEW m,
         Intact(h, l, u, n, p, m), NEW end \in {"head", "tail"},
         NEW g, g = IF end = "head" THEN List_first(h, l).heap ELSE List_last(h, l).heap
  PROVE  /\ g \in Heap /\ Moved(h, g, l) /\ Intact(g, l, u, n, p, m)
         /\ n = 0 => g.list[l].curr = NULL /\ g.list[l].status = h.list[l].status
         /\ n # 0 => /\ g.list[l].curr = IF end = "head" THEN u[1] ELSE u[n]
                     /\ g.list[l].status = "LIST_OOB_NONE"
<1>1. g \in Heap
  BY MoveToTyped, Pointers
<1>2. PICK c : c = IF n = 0 THEN NULL ELSE IF end = "head" THEN u[1] ELSE u[n]
  OBVIOUS
<1>3. PICK s : s = IF n = 0 THEN h.list[l].status ELSE "LIST_OOB_NONE"
  OBVIOUS
<1>4. Cursor(h, g, l, c, s)
  BY <1>2, <1>3, MoveToIs
<1>5. OnList(c, u, n)
  BY <1>2, IntactEnds DEF OnList
<1>6. Moved(h, g, l) /\ g.list[l].curr = c /\ g.list[l].status = s
  BY <1>4 DEF Cursor
<1>7. Intact(g, l, u, n, p, m)
  BY <1>5, <1>6, MovedIntact
<1>. QED  BY <1>1, <1>2, <1>3, <1>6, <1>7

\* List_append and List_prepend of list.c (list.c:318-331).
LEMMA EndInsertsAre ==
  ASSUME NEW h \in Heap, NEW l \in ListId, NEW item \in Item, NEW u, NEW n, NEW p, NEW m,
         Intact(h, l, u, n, p, m)
  PROVE  /\ Inserts(List_last(h, l).heap, List_append(h, l, item), l, item, u, n, p, m, n + 1)
         /\ Inserts(List_first(h, l).heap, List_prepend(h, l, item), l, item, u, n, p, m, 1)
<1>1. PICK f : f = List_first(h, l).heap
  OBVIOUS
<1>2. PICK g : g = List_last(h, l).heap
  OBVIOUS
<1>3. /\ f \in Heap /\ Intact(f, l, u, n, p, m)
      /\ n # 0 => f.list[l].curr = u[1] /\ f.list[l].status = "LIST_OOB_NONE"
  BY <1>1, MoveToIntact
<1>4. /\ g \in Heap /\ Intact(g, l, u, n, p, m)
      /\ n # 0 => g.list[l].curr = u[n] /\ g.list[l].status = "LIST_OOB_NONE"
  BY <1>2, MoveToIntact
<1>5. n \in Nat /\ (n # 0 => 1 \in 1 .. n /\ n \in 1 .. n) /\ (n = 0 => n + 1 = 1)
  BY IntactEnds
<1>6. Inserts(g, List_insert_after(g, l, item), l, item, u, n, p, m, n + 1)
  BY <1>4, <1>5, InsertAfterIs
<1>7. Inserts(f, List_insert_before(f, l, item), l, item, u, n, p, m, 1)
  BY <1>3, <1>5, InsertBeforeIs
<1>. QED  BY <1>1, <1>2, <1>6, <1>7, Zenon DEF List_append, List_prepend

\* The insertions of dump/list.c put it beside the cursor, or at the end of the
\* list that they start from when there is none; a cursor that is said to be beyond
\* that end has to be on its node (dump/list.c:248-275).
LEMMA AddAfterIs ==
  ASSUME NEW h \in Heap, NEW l \in ListId, NEW item \in Item, NEW u, NEW n, NEW p, NEW m,
         Intact(h, l, u, n, p, m), NEW r, r = AddAfter(h, l, item)
  PROVE  /\ n = 0 => Inserts(h, r, l, item, u, n, p, m, 1)
         /\ n # 0 /\ h.list[l].curr = NULL => Inserts(h, r, l, item, u, n, p, m, n + 1)
         /\ \A i \in 1 .. n :
              h.list[l].curr = u[i] /\ (h.list[l].status = "LIST_OOB_END" => i = n) =>
                Inserts(h, r, l, item, u, n, p, m, i + 1)
<1>0. Pooled(h, p, m) /\ r = AddBeside(h, l, item, "tail", "LIST_OOB_END")
  BY DEF Intact, AddAfter
<1>1. PICK new : new = consumeFreeNode(h, item)
  OBVIOUS
<1>2. PICK g \in Heap : g = new.heap
  BY <1>1, ConsumeTyped
<1>3. PICK x : x = new.ret
  OBVIOUS
<1>7. g = getFreeNode(h, item).heap /\ x = getFreeNode(h, item).ret
  BY <1>1, <1>2, <1>3 DEF getFreeNode
<1>4. /\ m = 0 => g = h /\ x = NULL
      /\ m # 0 => x = p[1] /\ Consumed(h, g, item, p, m)
  BY <1>0, <1>1, <1>2, <1>3, ConsumeIs
<1>5. CASE m = 0
  <2>1. r = Failed(g)
    BY <1>0, <1>7, <1>4, <1>5 DEF AddBeside
  <2>. QED  BY <1>4, <1>5, <2>1 DEF Failed, Inserts
<1>6. CASE m # 0
  <2>1. x = p[1] /\ Consumed(h, g, item, p, m) /\ g.list[l] = h.list[l]
        /\ x \in NodeId /\ x # NULL
    BY <1>4, <1>6, Pointers DEF Consumed
  <2>2. isListEmpty(g, l) <=> n = 0
    BY <2>1, IntactEnds DEF isListEmpty, emptyList
  <2>3. CASE n = 0
    <3>0. x # NULL /\ isListEmpty(g, l)
      BY <2>1, <2>2, <2>3
    <3>1. r = InsertIntoEmpty(g, l, x)
      BY <1>0, <1>7, <3>0, ZenonT(30) DEF AddBeside, InsertIntoEmpty, List_add_on_empty
    <3>2. Put(h, r, l, item, u, 0, p, m, 1)
      BY <1>6, <2>1, <2>3, <3>1, PutFirst
    <3>. QED  BY <1>6, <2>3, <3>2 DEF Inserts
  <2>4. CASE n # 0
    <3>1. PICK temp : temp = IF g.list[l].curr # NULL THEN g.list[l].curr
                             ELSE g.list[l]["tail"]
      OBVIOUS
    <3>3. ASSUME NEW i \in 1 .. n, temp = u[i],
                 h.list[l].status = "LIST_OOB_END" => i = n
          PROVE  Put(h, r, l, item, u, n, p, m, i + 1)
      <4>1. PICK linked : linked = linkNodes(linkNodes(g, temp, x), x, g.node[temp].next)
        OBVIOUS
      <4>2. PICK ended : ended = [linked EXCEPT !.list[l].status = "LIST_OOB_NONE",
                                                !.list[l].tail = x]
        OBVIOUS
      <4>3. temp = g.list[l]["tail"] \/ g.list[l].status = "LIST_OOB_END" <=> i = n
        <5>1. h.list[l].tail = u[n] /\ n \in 1 .. n
          BY <2>4, IntactEnds
        <5>. QED  BY <2>1, <3>3, <5>1 DEF Intact, Threaded
      <4>4. temp \in NodeId
        BY <3>3 DEF Intact, Threaded
      <4>7. x # NULL /\ ~isListEmpty(g, l)
        BY <2>1, <2>2, <2>4
      <4>8. linked = Link_3_nodes(g, temp, x, g.node[temp].next)
        BY <4>1 DEF Link_3_nodes, Link_2_nodes
      <4>9. ASSUME temp = g.list[l]["tail"] \/ g.list[l].status = "LIST_OOB_END"
            PROVE  r = Inserted(ended, l, x)
        BY <1>0, <1>7, <3>1, <4>2, <4>4, <4>7, <4>8, <4>9, ZenonT(30) DEF AddBeside
      <4>10. ASSUME ~ (temp = g.list[l]["tail"] \/ g.list[l].status = "LIST_OOB_END")
             PROVE  r = Inserted(linked, l, x)
        BY <1>0, <1>7, <3>1, <4>2, <4>4, <4>7, <4>8, <4>10, ZenonT(30) DEF AddBeside
      <4>6. /\ i = n => Put(h, Inserted(ended, l, x), l, item, u, n, p, m, i + 1)
            /\ i # n => Put(h, Inserted(linked, l, x), l, item, u, n, p, m, i + 1)
        <5>1. temp = u[i] /\ x = p[1] /\ Consumed(h, g, item, p, m)
          BY <2>1, <3>3
        <5>2. ASSUME i = n PROVE Put(h, Inserted(ended, l, x), l, item, u, n, p, m, i + 1)
          BY <1>6, <4>1, <4>2, <5>1, <5>2, PutBehind, ZenonT(30)
        <5>3. ASSUME i # n PROVE Put(h, Inserted(linked, l, x), l, item, u, n, p, m, i + 1)
          BY <1>6, <4>1, <4>2, <5>1, <5>3, PutBehind, ZenonT(30)
        <5>. QED  BY <5>2, <5>3
      <4>. QED  BY <4>3, <4>6, <4>9, <4>10, Zenon
    <3>4. h.list[l].curr = NULL => Put(h, r, l, item, u, n, p, m, n + 1)
      BY <2>1, <2>4, <3>1, <3>3, IntactEnds
    <3>5. \A i \in 1 .. n :
              h.list[l].curr = u[i] /\ (h.list[l].status = "LIST_OOB_END" => i = n) =>
                Put(h, r, l, item, u, n, p, m, i + 1)
      <4>1. \A i \in 1 .. n : u[i] # NULL
        BY IntactEnds, Pointers
      <4>. QED  BY <2>1, <3>1, <3>3, <4>1
    <3>. QED  BY <1>6, <2>4, <3>4, <3>5 DEF Inserts
  <2>. QED  BY <2>3, <2>4
<1>. QED  BY <1>5, <1>6

\* The same of the one before the cursor (dump/list.c:277-304).
LEMMA AddBeforeIs ==
  ASSUME NEW h \in Heap, NEW l \in ListId, NEW item \in Item, NEW u, NEW n, NEW p, NEW m,
         Intact(h, l, u, n, p, m), NEW r, r = AddBefore(h, l, item)
  PROVE  /\ n = 0 => Inserts(h, r, l, item, u, n, p, m, 1)
         /\ n # 0 /\ h.list[l].curr = NULL => Inserts(h, r, l, item, u, n, p, m, 1)
         /\ \A i \in 1 .. n :
              h.list[l].curr = u[i] /\ (h.list[l].status = "LIST_OOB_START" => i = 1) =>
                Inserts(h, r, l, item, u, n, p, m, i)
<1>0. Pooled(h, p, m) /\ r = AddBeside(h, l, item, "head", "LIST_OOB_START")
  BY DEF Intact, AddBefore
<1>1. PICK new : new = consumeFreeNode(h, item)
  OBVIOUS
<1>2. PICK g \in Heap : g = new.heap
  BY <1>1, ConsumeTyped
<1>3. PICK x : x = new.ret
  OBVIOUS
<1>7. g = getFreeNode(h, item).heap /\ x = getFreeNode(h, item).ret
  BY <1>1, <1>2, <1>3 DEF getFreeNode
<1>4. /\ m = 0 => g = h /\ x = NULL
      /\ m # 0 => x = p[1] /\ Consumed(h, g, item, p, m)
  BY <1>0, <1>1, <1>2, <1>3, ConsumeIs
<1>5. CASE m = 0
  <2>1. r = Failed(g)
    BY <1>0, <1>7, <1>4, <1>5 DEF AddBeside
  <2>. QED  BY <1>4, <1>5, <2>1 DEF Failed, Inserts
<1>6. CASE m # 0
  <2>1. x = p[1] /\ Consumed(h, g, item, p, m) /\ g.list[l] = h.list[l]
        /\ x \in NodeId /\ x # NULL
    BY <1>4, <1>6, Pointers DEF Consumed
  <2>2. isListEmpty(g, l) <=> n = 0
    BY <2>1, IntactEnds DEF isListEmpty, emptyList
  <2>3. CASE n = 0
    <3>0. x # NULL /\ isListEmpty(g, l)
      BY <2>1, <2>2, <2>3
    <3>1. r = InsertIntoEmpty(g, l, x)
      BY <1>0, <1>7, <3>0, ZenonT(30) DEF AddBeside, InsertIntoEmpty, List_add_on_empty
    <3>2. Put(h, r, l, item, u, 0, p, m, 1)
      BY <1>6, <2>1, <2>3, <3>1, PutFirst
    <3>. QED  BY <1>6, <2>3, <3>2 DEF Inserts
  <2>4. CASE n # 0
    <3>1. PICK temp : temp = IF g.list[l].curr # NULL THEN g.list[l].curr
                             ELSE g.list[l]["head"]
      OBVIOUS
    <3>3. ASSUME NEW i \in 1 .. n, temp = u[i],
                 h.list[l].status = "LIST_OOB_START" => i = 1
          PROVE  Put(h, r, l, item, u, n, p, m, i)
      <4>1. PICK linked : linked = linkNodes(linkNodes(g, g.node[temp].prev, x), x, temp)
        OBVIOUS
      <4>2. PICK ended : ended = [linked EXCEPT !.list[l].status = "LIST_OOB_NONE",
                                                !.list[l].head = x]
        OBVIOUS
      <4>3. temp = g.list[l]["head"] \/ g.list[l].status = "LIST_OOB_START" <=> i = 1
        <5>1. h.list[l].head = u[1] /\ 1 \in 1 .. n
          BY <2>4, IntactEnds
        <5>. QED  BY <2>1, <3>3, <5>1 DEF Intact, Threaded
      <4>4. temp \in NodeId
        BY <3>3 DEF Intact, Threaded
      <4>7. x # NULL /\ ~isListEmpty(g, l)
        BY <2>1, <2>2, <2>4
      <4>8. linked = Link_3_nodes(g, g.node[temp].prev, x, temp) /\ "head" # "tail"
        BY <4>1 DEF Link_3_nodes, Link_2_nodes
      <4>9. ASSUME temp = g.list[l]["head"] \/ g.list[l].status = "LIST_OOB_START"
            PROVE  r = Inserted(ended, l, x)
        BY <1>0, <1>7, <3>1, <4>2, <4>4, <4>7, <4>8, <4>9, ZenonT(30) DEF AddBeside
      <4>10. ASSUME ~ (temp = g.list[l]["head"] \/ g.list[l].status = "LIST_OOB_START")
             PROVE  r = Inserted(linked, l, x)
        BY <1>0, <1>7, <3>1, <4>2, <4>4, <4>7, <4>8, <4>10, ZenonT(30) DEF AddBeside
      <4>6. /\ i = 1 => Put(h, Inserted(ended, l, x), l, item, u, n, p, m, i)
            /\ i # 1 => Put(h, Inserted(linked, l, x), l, item, u, n, p, m, i)
        BY <1>6, <2>1, <3>3, <4>1, <4>2, PutBefore, ZenonT(60)
      <4>. QED  BY <4>3, <4>6, <4>9, <4>10, Zenon
    <3>4. h.list[l].curr = NULL => Put(h, r, l, item, u, n, p, m, 1)
      BY <2>1, <2>4, <3>1, <3>3, IntactEnds
    <3>5. \A i \in 1 .. n :
              h.list[l].curr = u[i] /\ (h.list[l].status = "LIST_OOB_START" => i = 1) =>
                Put(h, r, l, item, u, n, p, m, i)
      <4>1. \A i \in 1 .. n : u[i] # NULL
        BY IntactEnds, Pointers
      <4>. QED  BY <2>1, <3>1, <3>3, <4>1
    <3>. QED  BY <1>6, <2>4, <3>4, <3>5 DEF Inserts
  <2>. QED  BY <2>3, <2>4
<1>. QED  BY <1>5, <1>6

\* What the status says of where the cursor is.
StatusFits(h, l) ==
  /\ h.list[l].status = "LIST_OOB_START" => h.list[l].curr \in {NULL, h.list[l].head}
  /\ h.list[l].status = "LIST_OOB_END" => h.list[l].curr \in {NULL, h.list[l].tail}

\* List_add, List_insert and what calls them, in dump/list.c.
LEMMA DumpInsertsAre ==
  ASSUME NEW h \in Heap, NEW l \in ListId, NEW item \in Item, NEW u, NEW n, NEW p, NEW m,
         Intact(h, l, u, n, p, m), StatusFits(h, l), NEW s, s = h.list[l].status,
         NEW add, add = List_add(h, l, item), NEW insert, insert = List_insert(h, l, item)
  PROVE  /\ n = 0 => /\ Inserts(h, add, l, item, u, n, p, m, 1)
                     /\ Inserts(h, insert, l, item, u, n, p, m, 1)
         /\ s = "LIST_OOB_START" => /\ Inserts(h, add, l, item, u, n, p, m, 1)
                                    /\ Inserts(h, insert, l, item, u, n, p, m, 1)
         /\ s = "LIST_OOB_END" => /\ Inserts(h, add, l, item, u, n, p, m, n + 1)
                                  /\ Inserts(h, insert, l, item, u, n, p, m, n + 1)
         /\ s = "LIST_OOB_NONE" /\ n # 0 /\ h.list[l].curr = NULL =>
              /\ Inserts(h, add, l, item, u, n, p, m, n + 1)
              /\ Inserts(h, insert, l, item, u, n, p, m, 1)
         /\ \A i \in 1 .. n : s = "LIST_OOB_NONE" /\ h.list[l].curr = u[i] =>
              /\ Inserts(h, add, l, item, u, n, p, m, i + 1)
              /\ Inserts(h, insert, l, item, u, n, p, m, i)
<1>1. PICK after : after = AddAfter(h, l, item)
  OBVIOUS
<1>2. PICK before : before = AddBefore(h, l, item)
  OBVIOUS
<1>3. /\ add = IF s = "LIST_OOB_START" THEN before ELSE after
      /\ insert = IF s = "LIST_OOB_END" THEN after ELSE before
  BY <1>1, <1>2 DEF List_add, List_insert
<1>4. /\ n \in Nat /\ (n # 0 => 1 \in 1 .. n /\ n \in 1 .. n) /\ (n = 0 => n + 1 = 1)
      /\ (n # 0 => h.list[l].head = u[1] /\ h.list[l].tail = u[n])
  BY IntactEnds
<1>5. /\ n = 0 => Inserts(h, after, l, item, u, n, p, m, 1)
      /\ n # 0 /\ h.list[l].curr = NULL => Inserts(h, after, l, item, u, n, p, m, n + 1)
      /\ \A i \in 1 .. n : h.list[l].curr = u[i] /\ (s = "LIST_OOB_END" => i = n) =>
           Inserts(h, after, l, item, u, n, p, m, i + 1)
  BY <1>1, AddAfterIs
<1>6. /\ n = 0 => Inserts(h, before, l, item, u, n, p, m, 1)
      /\ n # 0 /\ h.list[l].curr = NULL => Inserts(h, before, l, item, u, n, p, m, 1)
      /\ \A i \in 1 .. n : h.list[l].curr = u[i] /\ (s = "LIST_OOB_START" => i = 1) =>
           Inserts(h, before, l, item, u, n, p, m, i)
  BY <1>2, AddBeforeIs
<1>7. n # 0 /\ s = "LIST_OOB_START" => h.list[l].curr = NULL \/ h.list[l].curr = u[1]
  BY <1>4 DEF StatusFits
<1>8. n # 0 /\ s = "LIST_OOB_END" => h.list[l].curr = NULL \/ h.list[l].curr = u[n]
  BY <1>4 DEF StatusFits
<1>9. s = "LIST_OOB_START" => Inserts(h, before, l, item, u, n, p, m, 1)
  BY <1>4, <1>6, <1>7
<1>10. s = "LIST_OOB_END" => Inserts(h, after, l, item, u, n, p, m, n + 1)
  BY <1>4, <1>5, <1>8
<1>. QED  BY <1>3, <1>5, <1>6, <1>9, <1>10

\* List_append and List_prepend go to the end first (dump/list.c:306-314).
LEMMA DumpEndInsertsAre ==
  ASSUME NEW h \in Heap, NEW l \in ListId, NEW item \in Item, NEW u, NEW n, NEW p, NEW m,
         Intact(h, l, u, n, p, m), StatusFits(h, l)
  PROVE  /\ Inserts(List_last(h, l).heap, DumpAppend(h, l, item), l, item, u, n, p, m, n + 1)
         /\ StatusFits(List_last(h, l).heap, l)
         /\ Inserts(List_first(h, l).heap, DumpPrepend(h, l, item), l, item, u, n, p, m, 1)
         /\ StatusFits(List_first(h, l).heap, l)
<1>1. PICK f : f = List_first(h, l).heap
  OBVIOUS
<1>2. PICK g : g = List_last(h, l).heap
  OBVIOUS
<1>3. /\ f \in Heap /\ Intact(f, l, u, n, p, m)
      /\ n = 0 => f.list[l].curr = NULL
      /\ n # 0 => f.list[l].curr = u[1] /\ f.list[l].status = "LIST_OOB_NONE"
  BY <1>1, MoveToIntact
<1>4. /\ g \in Heap /\ Intact(g, l, u, n, p, m)
      /\ n = 0 => g.list[l].curr = NULL
      /\ n # 0 => g.list[l].curr = u[n] /\ g.list[l].status = "LIST_OOB_NONE"
  BY <1>2, MoveToIntact
<1>5. n \in Nat /\ (n # 0 => 1 \in 1 .. n /\ n \in 1 .. n) /\ (n = 0 => n + 1 = 1)
  BY IntactEnds
<1>6. StatusFits(f, l) /\ StatusFits(g, l)
  BY <1>3, <1>4 DEF StatusFits
<1>7. Inserts(g, List_add(g, l, item), l, item, u, n, p, m, n + 1)
  BY <1>4, <1>5, <1>6, DumpInsertsAre
<1>8. Inserts(f, List_insert(f, l, item), l, item, u, n, p, m, 1)
  BY <1>3, <1>5, <1>6, DumpInsertsAre
<1>. QED  BY <1>1, <1>2, <1>6, <1>7, <1>8, Zenon DEF DumpAppend, DumpPrepend

-----------------------------------------------------------------------------
(* What the insertions leave.                                              *)

\* The nodes of a list can be named.
Whole(h, l) == \E u, n, p, m : Intact(h, l, u, n, p, m)

\* The two ways in which a call of list.c and one of dump/list.c may end.
Keeps(h, g, l)    == g.fault \/ (Whole(g, l) /\ SameRest(h, g))
KeepsFit(h, g, l) == g.fault \/ (Whole(g, l) /\ SameRest(h, g) /\ StatusFits(g, l))

\* Every insertion ends in the way of its library.
LEMMA InsertsKeep ==
  ASSUME NEW h, NEW r, NEW l, NEW item, NEW u, NEW n, NEW p, NEW m,
         Intact(h, l, u, n, p, m), NEW k \in 1 .. n + 1, Inserts(h, r, l, item, u, n, p, m, k)
  PROVE  /\ Whole(r.heap, l) /\ SameRest(h, r.heap)
         /\ StatusFits(h, l) /\ (h.list[l].status = "LIST_OOB_START" => k = 1)
              /\ (h.list[l].status = "LIST_OOB_END" => k = n + 1)
            => StatusFits(r.heap, l)
<1>1. CASE m = 0
  <2>1. r.heap = h
    BY <1>1 DEF Inserts
  <2>. QED  BY <2>1 DEF Whole, SameRest
<1>2. CASE m # 0
  <2>1. Put(h, r, l, item, u, n, p, m, k)
    BY <1>2 DEF Inserts
  <2>2. Spliced(h, r.heap, l, u, n, p, m, k) /\ SameRest(h, r.heap)
        /\ r.heap.list[l].status = IF k \in {1, n + 1} THEN "LIST_OOB_NONE" ELSE h.list[l].status
    BY <2>1 DEF Put
  <2>3. Intact(r.heap, l, Into(u, n, k, p[1]), n + 1, Rest(p, m), m - 1)
    BY <1>2, <2>2, SplicedIntact
  <2>. QED  BY <2>2, <2>3 DEF Whole, StatusFits
<1>. QED  BY <1>1, <1>2

\* The insertions of list.c leave the list whole, List_insert_before when the
\* status tells where the cursor is.
LEMMA InsertionsKeep ==
  ASSUME NEW h \in Heap, NEW l \in ListId, NEW item \in Item, Whole(h, l)
  PROVE  /\ Keeps(h, List_insert_after(h, l, item).heap, l)
         /\ (h.list[l].status = "LIST_OOB_START" => h.list[l].curr \in {NULL, h.list[l].head})
              => Keeps(h, List_insert_before(h, l, item).heap, l)
         /\ Keeps(h, List_append(h, l, item).heap, l)
         /\ Keeps(h, List_prepend(h, l, item).heap, l)
<1>1. PICK u, n, p, m : Intact(h, l, u, n, p, m)
  BY DEF Whole
<1>2. /\ n \in Nat /\ 1 \in 1 .. n + 1 /\ n + 1 \in 1 .. n + 1
      /\ \A i \in 1 .. n : i \in 1 .. n + 1 /\ i + 1 \in 1 .. n + 1
      /\ n # 0 => h.list[l].head = u[1] /\ h.list[l].tail = u[n] /\ 1 \in 1 .. n
      /\ OnList(h.list[l].curr, u, n)
  BY <1>1, IntactEnds
<1>3. ASSUME NEW r, NEW k \in 1 .. n + 1, Inserts(h, r, l, item, u, n, p, m, k)
      PROVE  Keeps(h, r.heap, l)
  BY <1>1, <1>3, InsertsKeep DEF Keeps
<1>4. Keeps(h, List_insert_after(h, l, item).heap, l)
  <2>1. PICK r : r = List_insert_after(h, l, item)
    OBVIOUS
  <2>2. /\ n = 0 => Inserts(h, r, l, item, u, n, p, m, 1)
        /\ n # 0 /\ h.list[l].status = "LIST_OOB_END" =>
             Inserts(h, r, l, item, u, n, p, m, n + 1)
        /\ \A i \in 1 .. n : h.list[l].status # "LIST_OOB_END" /\ h.list[l].curr = u[i] =>
             Inserts(h, r, l, item, u, n, p, m, i + 1)
        /\ n # 0 /\ m # 0 /\ h.list[l].status # "LIST_OOB_END" /\ h.list[l].curr = NULL =>
             r.heap.fault
    BY <1>1, <2>1, InsertAfterIs
  <2>3. m = 0 => Keeps(h, r.heap, l)
    <3>1. SUFFICES ASSUME m = 0 PROVE r = Failed(h)
      BY <1>1, <3>1 DEF Failed, Keeps, Whole, SameRest
    <3>2. /\ consumeFreeNode(h, item).heap = h /\ consumeFreeNode(h, item).ret = NULL
      BY <1>1, <3>1, ConsumeIs DEF Intact
    <3>. QED  BY <2>1, <3>2 DEF List_insert_after
  <2>. QED  BY <1>2, <1>3, <2>1, <2>2, <2>3 DEF OnList, Keeps
<1>5. ASSUME h.list[l].status = "LIST_OOB_START" => h.list[l].curr \in {NULL, h.list[l].head}
      PROVE  Keeps(h, List_insert_before(h, l, item).heap, l)
  <2>1. PICK r : r = List_insert_before(h, l, item)
    OBVIOUS
  <2>2. /\ n = 0 => Inserts(h, r, l, item, u, n, p, m, 1)
        /\ n # 0 /\ h.list[l].curr = NULL => Inserts(h, r, l, item, u, n, p, m, 1)
        /\ \A i \in 1 .. n :
             h.list[l].curr = u[i] /\ (h.list[l].status = "LIST_OOB_START" => i = 1) =>
               Inserts(h, r, l, item, u, n, p, m, i)
    BY <1>1, <2>1, InsertBeforeIs
  <2>3. \E k \in 1 .. n + 1 : Inserts(h, r, l, item, u, n, p, m, k)
    <3>1. CASE n = 0 \/ h.list[l].curr = NULL \/ h.list[l].status = "LIST_OOB_START"
      BY <1>2, <1>5, <2>2, <3>1
    <3>2. CASE n # 0 /\ h.list[l].curr # NULL /\ h.list[l].status # "LIST_OOB_START"
      BY <1>2, <2>2, <3>2 DEF OnList
    <3>. QED  BY <3>1, <3>2
  <2>. QED  BY <1>3, <2>1, <2>3
<1>6. /\ Keeps(h, List_append(h, l, item).heap, l)
      /\ Keeps(h, List_prepend(h, l, item).heap, l)
  <2>1. ASSUME NEW f, NEW r, NEW k \in 1 .. n + 1, Inserts(f, r, l, item, u, n, p, m, k),
               Moved(h, f, l), Intact(f, l, u, n, p, m)
        PROVE  Keeps(h, r.heap, l)
    <3>1. Whole(r.heap, l) /\ SameRest(f, r.heap)
      BY <2>1, InsertsKeep
    <3>. QED  BY <2>1, <3>1 DEF Moved, SameRest, Keeps
  <2>2. /\ Moved(h, List_first(h, l).heap, l) /\ Intact(List_first(h, l).heap, l, u, n, p, m)
        /\ Moved(h, List_last(h, l).heap, l) /\ Intact(List_last(h, l).heap, l, u, n, p, m)
    BY <1>1, MoveToIntact
  <2>. QED  BY <1>1, <1>2, <2>1, <2>2, EndInsertsAre
<1>. QED  BY <1>4, <1>5, <1>6

\* Those of dump/list.c do, and leave the status telling where the cursor is.
LEMMA DumpInsertionsKeep ==
  ASSUME NEW h \in Heap, NEW l \in ListId, NEW item \in Item, Whole(h, l), StatusFits(h, l)
  PROVE  /\ KeepsFit(h, List_add(h, l, item).heap, l)
         /\ KeepsFit(h, List_insert(h, l, item).heap, l)
         /\ KeepsFit(h, DumpAppend(h, l, item).heap, l)
         /\ KeepsFit(h, DumpPrepend(h, l, item).heap, l)
<1>1. PICK u, n, p, m : Intact(h, l, u, n, p, m)
  BY DEF Whole
<1>2. /\ n \in Nat /\ 1 \in 1 .. n + 1 /\ n + 1 \in 1 .. n + 1
      /\ \A i \in 1 .. n : i \in 1 .. n + 1 /\ i + 1 \in 1 .. n + 1
      /\ OnList(h.list[l].curr, u, n) /\ (n = 0 => n + 1 = 1)
  BY <1>1, IntactEnds
<1>3. PICK s : s = h.list[l].status
  OBVIOUS
<1>4. s \in {"LIST_OOB_START", "LIST_OOB_END", "LIST_OOB_NONE"}
  BY <1>3, Fields, Pointers DEF Status
<1>5. ASSUME NEW f, NEW r, NEW k \in 1 .. n + 1, Inserts(f, r, l, item, u, n, p, m, k),
             SameRest(h, f), Intact(f, l, u, n, p, m), StatusFits(f, l),
             f.list[l].status = "LIST_OOB_START" => k = 1,
             f.list[l].status = "LIST_OOB_END" => k = n + 1
      PROVE  KeepsFit(h, r.heap, l)
  <2>1. Whole(r.heap, l) /\ SameRest(f, r.heap) /\ StatusFits(r.heap, l)
    BY <1>5, InsertsKeep
  <2>. QED  BY <1>5, <2>1 DEF SameRest, KeepsFit
<1>6. SameRest(h, h)
  BY DEF SameRest
<1>7. ASSUME NEW r \in {List_add(h, l, item), List_insert(h, l, item)}
      PROVE  KeepsFit(h, r.heap, l)
  <2>1. \E k \in 1 .. n + 1 : /\ Inserts(h, r, l, item, u, n, p, m, k)
                              /\ s = "LIST_OOB_START" => k = 1
                              /\ s = "LIST_OOB_END" => k = n + 1
    <3>1. /\ n = 0 => Inserts(h, r, l, item, u, n, p, m, 1)
          /\ s = "LIST_OOB_START" => Inserts(h, r, l, item, u, n, p, m, 1)
          /\ s = "LIST_OOB_END" => Inserts(h, r, l, item, u, n, p, m, n + 1)
          /\ s = "LIST_OOB_NONE" /\ n # 0 /\ h.list[l].curr = NULL =>
               \/ Inserts(h, r, l, item, u, n, p, m, n + 1)
               \/ Inserts(h, r, l, item, u, n, p, m, 1)
          /\ \A i \in 1 .. n : s = "LIST_OOB_NONE" /\ h.list[l].curr = u[i] =>
               \/ Inserts(h, r, l, item, u, n, p, m, i + 1)
               \/ Inserts(h, r, l, item, u, n, p, m, i)
      BY <1>1, <1>3, DumpInsertsAre
    <3>2. CASE s # "LIST_OOB_NONE" \/ n = 0
      BY <1>2, <1>4, <3>1, <3>2
    <3>3. CASE s = "LIST_OOB_NONE" /\ n # 0
      BY <1>2, <3>1, <3>3 DEF OnList
    <3>. QED  BY <3>2, <3>3
  <2>. QED  BY <1>1, <1>3, <1>5, <1>6, <2>1
<1>8. /\ KeepsFit(h, DumpAppend(h, l, item).heap, l)
      /\ KeepsFit(h, DumpPrepend(h, l, item).heap, l)
  <2>1. PICK f : f = List_first(h, l).heap
    OBVIOUS
  <2>2. PICK g : g = List_last(h, l).heap
    OBVIOUS
  <2>3. /\ SameRest(h, f) /\ Intact(f, l, u, n, p, m)
        /\ SameRest(h, g) /\ Intact(g, l, u, n, p, m)
        /\ n # 0 => f.list[l].status = "LIST_OOB_NONE" /\ g.list[l].status = "LIST_OOB_NONE"
    BY <1>1, <2>1, <2>2, MoveToIntact DEF Moved
  <2>4. /\ Inserts(g, DumpAppend(h, l, item), l, item, u, n, p, m, n + 1) /\ StatusFits(g, l)
        /\ Inserts(f, DumpPrepend(h, l, item), l, item, u, n, p, m, 1) /\ StatusFits(f, l)
    BY <1>1, <2>1, <2>2, DumpEndInsertsAre
  <2>5. /\ g.list[l].status = "LIST_OOB_START" => n + 1 = 1
        /\ f.list[l].status = "LIST_OOB_END" => 1 = n + 1
    BY <1>2, <2>3
  <2>. QED  BY <1>2, <1>5, <2>3, <2>4, <2>5
<1>. QED  BY <1>7, <1>8

-----------------------------------------------------------------------------
(* Moving the cursor by one.                                               *)

\* Out of bounds List_next and List_prev go to the end that the cursor is beyond.
LEMMA ReEnterIs ==
  ASSUME NEW h \in Heap, NEW l \in ListId, NEW u, NEW n, NEW p, NEW m,
         Intact(h, l, u, n, p, m), NEW g, g = ReEnter(h, l).heap
  PROVE  Cursor(h, g, l, IF h.list[l].status = "LIST_OOB_START" THEN h.list[l].head
                         ELSE h.list[l].tail, h.list[l].status)
<1>1. PICK c : c = IF h.list[l].status = "LIST_OOB_START" THEN h.list[l].head
                   ELSE h.list[l].tail
  OBVIOUS
<1>2. c \in NodeId \union {NULL} /\ c \in Pointer
  BY <1>1, IntactEnds, Pointers
<1>3. PICK f : f = Set(h, l, "curr", c)
  OBVIOUS
<1>4. Cursor(h, f, l, c, h.list[l].status) /\ f.list[l].curr = c
  BY <1>2, <1>3, CursorSet DEF Cursor
<1>5. ReEnter(h, l) = List_curr(f, l)
  BY <1>1, <1>3 DEF ReEnter
<1>6. List_curr(f, l).heap = f
  BY <1>2, <1>4 DEF List_curr, ItemAt
<1>. QED  BY <1>1, <1>4, <1>5, <1>6

\* In bounds they follow the link of the cursor's node.
LEMMA FollowIs ==
  ASSUME NEW h \in Heap, NEW l \in ListId, ~isListOOB(h, l), h.list[l].curr \in NodeId,
         NEW field \in {"next", "prev"}, NEW beyond \in Status,
         NEW q \in NodeId \union {NULL}, q = h.node[h.list[l].curr][field]
  PROVE  /\ q = NULL => Cursor(h, Advance(h, l, field, beyond).heap, l, NULL, beyond)
         /\ q # NULL => Cursor(h, Advance(h, l, field, beyond).heap, l, q, h.list[l].status)
<1>1. q \in Pointer
  BY Pointers
<1>2. PICK moved : moved = Set(h, l, "curr", q)
  OBVIOUS
<1>3. CASE q = NULL
  <2>1. Advance(h, l, field, beyond).heap = Set(moved, l, "status", beyond)
    BY <1>2, <1>3 DEF Advance
  <2>. QED  BY <1>1, <1>2, <1>3, <2>1, CursorsSet
<1>4. CASE q # NULL
  <2>1. Advance(h, l, field, beyond) = ItemAt(moved, q)
    BY <1>2, <1>4 DEF Advance
  <2>2. Advance(h, l, field, beyond).heap = moved
    BY <1>4, <2>1 DEF ItemAt
  <2>. QED  BY <1>1, <1>2, <1>4, <2>2, CursorSet
<1>. QED  BY <1>3, <1>4

\* What becomes of the cursor and its status.
LEMMA NextIs ==
  ASSUME NEW h \in Heap, NEW l \in ListId, NEW u, NEW n, NEW p, NEW m,
         Intact(h, l, u, n, p, m), ~isListOOB(h, l)
  PROVE  /\ h.list[l].curr = NULL => List_next(h, l).heap.fault /\ List_prev(h, l).heap.fault
         /\ \A i \in 1 .. n : h.list[l].curr = u[i] =>
              /\ i = n => Cursor(h, List_next(h, l).heap, l, NULL, "LIST_OOB_END")
              /\ i # n => Cursor(h, List_next(h, l).heap, l, u[i + 1], h.list[l].status)
              /\ i = 1 => Cursor(h, List_prev(h, l).heap, l, NULL, "LIST_OOB_START")
              /\ i # 1 => Cursor(h, List_prev(h, l).heap, l, u[i - 1], h.list[l].status)
<1>1. /\ n \in Nat /\ u \in [1 .. n -> NodeId]
      /\ \A i \in 1 .. n :
           /\ h.node[u[i]].next = IF i = n THEN NULL ELSE u[i + 1]
           /\ h.node[u[i]].prev = IF i = 1 THEN NULL ELSE u[i - 1]
  BY DEF Intact, Threaded
<1>2. h.list[l].curr = NULL => List_next(h, l).heap.fault /\ List_prev(h, l).heap.fault
  <2>1. SUFFICES ASSUME h.list[l].curr = NULL
                 PROVE  List_next(h, l).heap.fault /\ List_prev(h, l).heap.fault
    OBVIOUS
  <2>2. Fault(h).fault /\ h.list[l].curr \notin NodeId
    BY <2>1, Pointers DEF Fault, Heap
  <2>. QED  BY <2>2 DEF List_next, List_prev, Advance
<1>3. ASSUME NEW i \in 1 .. n, h.list[l].curr = u[i]
      PROVE  /\ i = n => Cursor(h, List_next(h, l).heap, l, NULL, "LIST_OOB_END")
             /\ i # n => Cursor(h, List_next(h, l).heap, l, u[i + 1], h.list[l].status)
             /\ i = 1 => Cursor(h, List_prev(h, l).heap, l, NULL, "LIST_OOB_START")
             /\ i # 1 => Cursor(h, List_prev(h, l).heap, l, u[i - 1], h.list[l].status)
  <2>1. PICK q \in NodeId \union {NULL} : q = IF i = n THEN NULL ELSE u[i + 1]
    BY <1>1
  <2>2. PICK r \in NodeId \union {NULL} : r = IF i = 1 THEN NULL ELSE u[i - 1]
    BY <1>1
  <2>3. h.list[l].curr \in NodeId
    BY <1>1, <1>3
  <2>4. q = h.node[h.list[l].curr]["next"] /\ r = h.node[h.list[l].curr]["prev"]
    BY <1>1, <1>3, <2>1, <2>2
  <2>5. /\ q = NULL => Cursor(h, List_next(h, l).heap, l, NULL, "LIST_OOB_END")
        /\ q # NULL => Cursor(h, List_next(h, l).heap, l, q, h.list[l].status)
    BY <2>3, <2>4, FollowIs DEF List_next, Status
  <2>6. /\ r = NULL => Cursor(h, List_prev(h, l).heap, l, NULL, "LIST_OOB_START")
        /\ r # NULL => Cursor(h, List_prev(h, l).heap, l, r, h.list[l].status)
    BY <2>3, <2>4, FollowIs DEF List_prev, Status
  <2>7. /\ i # n => u[i + 1] # NULL
        /\ i # 1 => u[i - 1] # NULL
    BY <1>1, Pointers
  <2>. QED  BY <2>1, <2>2, <2>5, <2>6, <2>7
<1>. QED  BY <1>2, <1>3

\* A cursor that is said to be on the list is on one of its nodes.
CursorThere(h, l) == h.list[l].status = "LIST_OOB_NONE" => h.list[l].curr # NULL

\* So it is at the ends.
LEMMA EndThere ==
  ASSUME NEW h \in Heap, NEW l \in ListId, NEW u, NEW n, NEW p, NEW m,
         Intact(h, l, u, n, p, m),
         NEW g \in {List_first(h, l).heap, List_last(h, l).heap}, CursorThere(h, l)
  PROVE  CursorThere(g, l)
<1>1. /\ n # 0 => u[1] # NULL /\ u[n] # NULL
      /\ n = 0 => h.list[l].curr = NULL
  BY IntactEnds, Pointers
<1>2. /\ n = 0 => g.list[l].curr = NULL /\ g.list[l].status = h.list[l].status
      /\ n # 0 => g.list[l].curr \in {u[1], u[n]}
  BY MoveToIntact
<1>. QED  BY <1>1, <1>2 DEF CursorThere

\* The functions that move the cursor leave the list whole and the status telling
\* where the cursor is.
LEMMA MovesKeep ==
  ASSUME NEW h \in Heap, NEW l \in ListId, NEW u, NEW n, NEW p, NEW m,
         Intact(h, l, u, n, p, m),
         NEW g \in {List_first(h, l).heap, List_last(h, l).heap,
                    List_next(h, l).heap, List_prev(h, l).heap, List_curr(h, l).heap}
  PROVE  \/ g.fault
         \/ /\ Moved(h, g, l) /\ Intact(g, l, u, n, p, m)
            /\ StatusFits(h, l) => StatusFits(g, l)
            /\ CursorThere(h, l) => CursorThere(g, l)
<1>1. /\ n \in Nat /\ u \in [1 .. n -> NodeId]
      /\ \A i \in 1 .. n : u[i] # NULL
      /\ n # 0 => 1 \in 1 .. n /\ n \in 1 .. n /\ h.list[l].head = u[1] /\ h.list[l].tail = u[n]
      /\ n = 0 => h.list[l].head = NULL /\ h.list[l].tail = NULL
      /\ OnList(h.list[l].curr, u, n)
  <2>1. n \in Nat /\ u \in [1 .. n -> NodeId]
    BY IntactEnds
  <2>2. \A i \in 1 .. n : u[i] # NULL
    BY <2>1, Pointers
  <2>. QED  BY <2>1, <2>2, IntactEnds
<1>2. ASSUME NEW f, NEW c, NEW s, Cursor(h, f, l, c, s), OnList(c, u, n),
             StatusFits(h, l) => \/ c = NULL \/ s = "LIST_OOB_NONE"
                                 \/ s = "LIST_OOB_START" /\ c = h.list[l].head
                                 \/ s = "LIST_OOB_END" /\ c = h.list[l].tail,
             CursorThere(h, l) /\ s = "LIST_OOB_NONE" => c # NULL
      PROVE  /\ Moved(h, f, l) /\ Intact(f, l, u, n, p, m)
             /\ StatusFits(h, l) => StatusFits(f, l)
             /\ CursorThere(h, l) => CursorThere(f, l)
  <2>1. Intact(f, l, u, n, p, m)
    BY <1>2, MovedIntact DEF Cursor
  <2>2. f.list[l].curr = c /\ f.list[l].status = s
    BY <1>2 DEF Cursor
  <2>3. CursorThere(h, l) => CursorThere(f, l)
    BY <1>2, <2>2 DEF CursorThere
  <2>. QED  BY <1>2, <2>1, <2>3 DEF Cursor, Moved, StatusFits
<1>3. CASE g \in {List_first(h, l).heap, List_last(h, l).heap}
  <2>1. CASE n = 0
    <3>1. Cursor(h, g, l, NULL, h.list[l].status)
      BY <1>3, <2>1, MoveToIs
    <3>2. h.list[l].curr = NULL
      BY <2>1, IntactEnds
    <3>. QED  BY <1>2, <3>1, <3>2 DEF OnList, CursorThere
  <2>2. CASE n # 0
    <3>1. Cursor(h, g, l, u[1], "LIST_OOB_NONE") \/ Cursor(h, g, l, u[n], "LIST_OOB_NONE")
      BY <1>3, <2>2, MoveToIs
    <3>. QED  BY <1>1, <1>2, <2>2, <3>1 DEF OnList
  <2>. QED  BY <2>1, <2>2
<1>4. CASE g \in {List_next(h, l).heap, List_prev(h, l).heap}
  <2>1. CASE isListOOB(h, l)
    <3>1. g = ReEnter(h, l).heap
      BY <1>4, <2>1 DEF List_next, List_prev, Advance
    <3>2. PICK c : c = IF h.list[l].status = "LIST_OOB_START" THEN h.list[l].head
                       ELSE h.list[l].tail
      OBVIOUS
    <3>3. Cursor(h, g, l, c, h.list[l].status)
      BY <3>1, <3>2, ReEnterIs
    <3>4. OnList(c, u, n)
      BY <1>1, <3>2 DEF OnList
    <3>. QED  BY <1>2, <2>1, <3>2, <3>3, <3>4 DEF isListOOB
  <2>2. CASE ~isListOOB(h, l)
    <3>0. h.list[l].status = "LIST_OOB_NONE"
      <4>1. h.list[l].status \in Status
        BY Fields, Pointers
      <4>. QED  BY <2>2, <4>1 DEF isListOOB, Status
    <3>1. CASE h.list[l].curr = NULL
      BY <1>4, <2>2, <3>1, NextIs
    <3>2. ASSUME NEW i \in 1 .. n, h.list[l].curr = u[i]
          PROVE  \E c, s : /\ Cursor(h, g, l, c, s) /\ OnList(c, u, n)
                           /\ c = NULL <=> s # "LIST_OOB_NONE"
      <4>1. /\ i # n => OnList(u[i + 1], u, n) /\ u[i + 1] # NULL
            /\ i # 1 => OnList(u[i - 1], u, n) /\ u[i - 1] # NULL
            /\ OnList(NULL, u, n)
        BY <1>1 DEF OnList
      <4>. QED  BY <1>4, <2>2, <3>0, <3>2, <4>1, NextIs
    <3>. QED  BY <1>1, <1>2, <3>1, <3>2 DEF OnList
  <2>. QED  BY <2>1, <2>2
<1>5. CASE g = List_curr(h, l).heap
  <2>1. g = h
    BY <1>1, <1>5 DEF List_curr, ItemAt, OnList
  <2>. QED  BY <2>1 DEF Moved, SameRest
<1>. QED  BY <1>3, <1>4, <1>5

-----------------------------------------------------------------------------
(* Searching.                                                              *)

\* Two moves of the cursor are one.
LEMMA MovedOn ==
  ASSUME NEW h, NEW g, NEW f, NEW l, Moved(h, g, l), Moved(g, f, l)
  PROVE  Moved(h, f, l)
BY DEF Moved, SameRest

\* The chain from the i-th node of a list on.
LEMMA ChainFrom ==
  ASSUME NEW h \in Heap, NEW l \in ListId, NEW u, NEW n, NEW p, NEW m,
         Intact(h, l, u, n, p, m), NEW i \in 1 .. n
  PROVE  Chain(h, u[i], "next") = [j \in 1 .. n + 1 - i |-> u[i + j - 1]]
<1>1. /\ n \in Nat /\ u \in [1 .. n -> NodeId] /\ n <= LIST_MAX_NUM_NODES
      /\ \A j \in 1 .. n : h.node[u[j]].next = IF j = n THEN NULL ELSE u[j + 1]
  <2>1. n \in Nat /\ u \in [1 .. n -> NodeId]
    BY DEF Intact, Threaded
  <2>. QED  BY <2>1, IntactChains DEF Intact, Threaded
<1>2. PICK k : k = n + 1 - i
  OBVIOUS
<1>3. PICK c : c = [j \in 1 .. k |-> u[i + j - 1]]
  OBVIOUS
<1>4. /\ k \in Nat /\ k # 0 /\ k <= LIST_MAX_NUM_NODES /\ LIST_MAX_NUM_NODES \in Nat
      /\ \A j \in 1 .. k : i + j - 1 \in 1 .. n /\ c[j] = u[i + j - 1]
  BY <1>1, <1>2, <1>3, HeapAssumption
<1>5. c \in [1 .. k -> NodeId] /\ 1 \in 1 .. k /\ i + 1 - 1 = i
  <2>1. \A j \in 1 .. k : u[i + j - 1] \in NodeId
    BY <1>1, <1>4
  <2>2. c \in [1 .. k -> NodeId]
    BY <1>3, <2>1
  <2>3. k >= 1
    BY <1>4
  <2>. QED  BY <1>4, <2>2, <2>3
<1>6. ASSUME NEW j \in 1 .. k PROVE h.node[c[j]].next = IF j = k THEN NULL ELSE c[j + 1]
  <2>1. h.node[c[j]].next = IF i + j - 1 = n THEN NULL ELSE u[(i + j - 1) + 1]
    BY <1>1, <1>4
  <2>2. i + j - 1 = n <=> j = k
    BY <1>1, <1>2
  <2>3. j # k => j + 1 \in 1 .. k /\ c[j + 1] = u[i + (j + 1) - 1]
                 /\ i + (j + 1) - 1 = (i + j - 1) + 1
    BY <1>1, <1>4
  <2>. QED  BY <2>1, <2>2, <2>3
<1>7. u[i] \in NodeId /\ u[i] \in Pointer /\ u[i] = c[1]
  BY <1>1, <1>4, <1>5, Pointers
<1>8. Chain(h, u[i], "next") = c
  <2>1. u[i] = IF k = 0 THEN NULL ELSE c[1]
    BY <1>4, <1>7
  <2>2. \A j \in 1 .. k : h.node[c[j]]["next"] = IF j = k THEN NULL ELSE c[j + 1]
    BY <1>6
  <2>. QED  BY <1>4, <1>5, <1>7, <2>1, <2>2, ChainIs
<1>. QED  BY <1>2, <1>3, <1>8

\* The cursor is on no node, or on the one at its index.
LEMMA CursorIndexIs ==
  ASSUME NEW h \in Heap, NEW l \in ListId, NEW u, NEW n, NEW p, NEW m,
         Intact(h, l, u, n, p, m)
  PROVE  /\ h.list[l].curr = NULL => CursorIndex(h, l) = 0
         /\ \A i \in 1 .. n : h.list[l].curr = u[i] => CursorIndex(h, l) = i
<1>1. n \in Nat /\ u \in [1 .. n -> NodeId] /\ \A i, j \in 1 .. n : u[i] = u[j] => i = j
  BY DEF Intact, Threaded
<1>2. NodesOf(h, l) = u
  BY IntactChains
<1>3. PICK c : c = h.list[l].curr
  OBVIOUS
<1>4. CursorIndex(h, l) =
        IF c \in NodesIn(u) THEN CHOOSE i \in DOMAIN u : u[i] = c ELSE 0
  BY <1>2, <1>3 DEF CursorIndex
<1>5. NodesIn(u) = {u[i] : i \in 1 .. n} /\ DOMAIN u = 1 .. n
  BY <1>1 DEF NodesIn
<1>6. c = NULL => CursorIndex(h, l) = 0
  <2>1. NULL \notin NodeId
    BY Pointers
  <2>. QED  BY <1>1, <1>4, <1>5, <2>1
<1>7. ASSUME NEW i \in 1 .. n, c = u[i] PROVE CursorIndex(h, l) = i
  <2>1. CursorIndex(h, l) = CHOOSE j \in 1 .. n : u[j] = c
    BY <1>4, <1>5, <1>7
  <2>2. \A j \in 1 .. n : u[j] = c <=> j = i
    BY <1>1, <1>7
  <2>. QED  BY <2>1, <2>2
<1>. QED  BY <1>3, <1>6, <1>7

\* The items are those of its nodes.
ItemsIn(h, u, n) == [i \in 1 .. n |-> h.node[u[i]].item]

LEMMA ItemsAre ==
  ASSUME NEW h \in Heap, NEW l \in ListId, NEW u, NEW n, NEW p, NEW m,
         Intact(h, l, u, n, p, m)
  PROVE  ItemsOf(h, l) = ItemsIn(h, u, n)
<1>1. n \in Nat /\ u \in [1 .. n -> NodeId]
  BY DEF Intact, Threaded
<1>2. NodesOf(h, l) = u
  BY IntactChains
<1>. QED  BY <1>1, <1>2 DEF ItemsOf, ItemsAlong, ItemsIn

\* What a search of list.c from "start" gives: nothing when the cursor is on no node;
\* else the cursor goes to a match behind it, or beyond the end when there is none.
Searched(start, r, l, match, u, n) ==
  \/ r.heap.fault
  \/ start.list[l].curr = NULL /\ r.heap = start /\ r.ret = NoItem
  \/ \E i \in 1 .. n :
       /\ start.list[l].curr = u[i]
       /\ \/ \E j \in i .. n :
               /\ Cursor(start, r.heap, l, u[j], start.list[l].status)
               /\ r.ret = start.node[u[j]].item /\ r.ret \in match
          \/ /\ \A j \in i .. n : start.node[u[j]].item \notin match
             /\ Cursor(start, r.heap, l, NULL, "LIST_OOB_END")
             /\ r.ret = NoItem

\* List_search of list.c starts at the cursor, or from the end that it is beyond
\* (list.c:464-487).
LEMMA SearchIs ==
  ASSUME NEW h \in Heap, NEW l \in ListId, NEW match, NEW u, NEW n, NEW p, NEW m,
         Intact(h, l, u, n, p, m), NEW r, r = List_search(h, l, match)
  PROVE  \E start \in Heap : /\ Moved(h, start, l) /\ Intact(start, l, u, n, p, m)
                             /\ h.list[l].status = "LIST_OOB_NONE" => start = h
                             /\ CursorThere(h, l) => CursorThere(start, l)
                             /\ Searched(start, r, l, match, u, n)
<1>1. PICK start :
        start = CASE h.list[l].status = "LIST_OOB_START" -> List_first(h, l).heap
                  [] h.list[l].status = "LIST_OOB_END"   -> List_last(h, l).heap
                  [] h.list[l].status = "LIST_OOB_NONE"  -> h
  OBVIOUS
<1>2. /\ start \in Heap /\ Moved(h, start, l) /\ Intact(start, l, u, n, p, m)
      /\ h.list[l].status = "LIST_OOB_NONE" => start = h
      /\ CursorThere(h, l) => CursorThere(start, l)
  <2>1. h.list[l].status \in Status
    BY Fields, Pointers
  <2>2. /\ start \in {List_first(h, l).heap, List_last(h, l).heap, h}
        /\ h.list[l].status = "LIST_OOB_NONE" => start = h
    BY <1>1, <2>1 DEF Status
  <2>3. Moved(h, h, l)
    BY DEF Moved, SameRest
  <2>4. CursorThere(h, l) => CursorThere(start, l)
    BY <2>2, EndThere
  <2>. QED  BY <2>2, <2>3, <2>4, MoveToIntact
<1>3. /\ n \in Nat /\ u \in [1 .. n -> NodeId] /\ OnList(start.list[l].curr, u, n)
      /\ n = 0 => start.list[l].curr = NULL
      /\ emptyList(h, l) => n = 0
  BY <1>2, IntactEnds
<1>4. PICK chain : chain = Chain(start, start.list[l].curr, "next")
  OBVIOUS
<1>5. PICK hits : hits = {i \in DOMAIN chain : start.node[chain[i]].item \in match}
  OBVIOUS
<1>6. PICK first : first = CHOOSE i \in hits : \A j \in hits : i <= j
  OBVIOUS
<1>7. PICK off : off = Set(Set(start, l, "curr", NULL), l, "status", "LIST_OOB_END")
  OBVIOUS
<1>8. PICK found : found = Set(start, l, "curr", chain[first])
  OBVIOUS
<1>9. r = CASE emptyList(h, l) \/ start.list[l].curr = NULL ->
                 [heap |-> start, ret |-> NoItem]
            [] ~emptyList(h, l) /\ hits # {} ->
                 [heap |-> found, ret  |-> start.node[chain[first]].item]
            [] ~emptyList(h, l) /\ chain # <<>> /\ hits = {} /\ ~Cyclic(chain) ->
                 [heap |-> off, ret |-> NoItem]
            [] OTHER -> [heap |-> Fault(h), ret |-> NoItem]
  BY <1>1, <1>4, <1>5, <1>6, <1>7, <1>8 DEF List_search
<1>10. CASE start.list[l].curr = NULL
  <2>1. chain = <<>> /\ hits = {}
    <3>1. NULL \in Pointer /\ NULL \notin NodeId
      BY Pointers
    <3>2. chain = <<>>
      BY <1>2, <1>4, <1>10, <3>1, ChainFollows
    <3>. QED  BY <1>5, <3>2
  <2>2. r = [heap |-> start, ret |-> NoItem]
    BY <1>9, <1>10, <2>1
  <2>. QED  BY <1>2, <1>10, <2>2 DEF Searched
<1>11. CASE start.list[l].curr # NULL
  <2>1. PICK i \in 1 .. n : start.list[l].curr = u[i]
    BY <1>3, <1>11 DEF OnList
  <2>2. chain = [j \in 1 .. n + 1 - i |-> u[i + j - 1]]
    BY <1>2, <1>4, <2>1, ChainFrom
  <2>3. r = CASE hits # {} ->
                   [heap |-> found, ret  |-> start.node[chain[first]].item]
              [] chain # <<>> /\ hits = {} /\ ~Cyclic(chain) ->
                   [heap |-> off, ret |-> NoItem]
              [] OTHER -> [heap |-> Fault(h), ret |-> NoItem]
    BY <1>3, <1>9, <1>11
  <2>4. CASE hits # {}
    <3>1. hits \in SUBSET Nat
      BY <1>5, <2>2
    <3>2. \E x \in hits : \A y \in hits : x <= y
      BY <2>4, <3>1, Smallest
    <3>3. first \in hits
      BY <1>6, <3>2
    <3>4. first \in 1 .. n + 1 - i /\ start.node[chain[first]].item \in match
      BY <1>5, <2>2, <3>3
    <3>5. PICK j \in i .. n : j = i + first - 1
      BY <1>3, <3>4
    <3>6. chain[first] = u[j] /\ j \in 1 .. n
      BY <1>3, <2>2, <3>4, <3>5
    <3>7. Cursor(start, found, l, u[j], start.list[l].status)
      BY <1>2, <1>3, <1>8, <3>6, CursorSet, Pointers
    <3>8. r.heap = found /\ r.ret = start.node[u[j]].item
      BY <2>3, <2>4, <3>6
    <3>. QED  BY <1>2, <2>1, <3>4, <3>5, <3>6, <3>7, <3>8 DEF Searched
  <2>5. CASE hits = {}
    <3>1. ASSUME NEW j \in i .. n PROVE start.node[u[j]].item \notin match
      <4>1. PICK x \in 1 .. n + 1 - i : x = j + 1 - i
        BY <1>3
      <4>2. x \in DOMAIN chain /\ chain[x] = u[i + x - 1] /\ i + x - 1 = j
        BY <1>3, <2>2, <4>1
      <4>. QED  BY <1>5, <2>5, <4>2
    <3>2. Cursor(start, off, l, NULL, "LIST_OOB_END")
      BY <1>2, <1>7, CursorsSet, Pointers DEF Status
    <3>3. \/ r = [heap |-> off, ret |-> NoItem]
          \/ r = [heap |-> Fault(h), ret |-> NoItem]
      BY <2>3, <2>5
    <3>4. Fault(h).fault
      BY DEF Fault, Heap
    <3>. QED  BY <1>2, <2>1, <3>1, <3>2, <3>3, <3>4 DEF Searched
  <2>. QED  BY <2>4, <2>5
<1>. QED  BY <1>10, <1>11

\* It keeps the list whole.
LEMMA SearchKeeps ==
  ASSUME NEW h \in Heap, NEW l \in ListId, NEW match, Whole(h, l)
  PROVE  Keeps(h, List_search(h, l, match).heap, l)
<1>1. PICK u, n, p, m : Intact(h, l, u, n, p, m)
  BY DEF Whole
<1>2. PICK r : r = List_search(h, l, match)
  OBVIOUS
<1>3. PICK start \in Heap : /\ Moved(h, start, l) /\ Intact(start, l, u, n, p, m)
                            /\ Searched(start, r, l, match, u, n)
  BY <1>1, <1>2, SearchIs
<1>4. CASE r.heap = start \/ r.heap.fault
  BY <1>2, <1>3, <1>4 DEF Keeps, Whole, Moved
<1>5. ASSUME NEW c, NEW s, Cursor(start, r.heap, l, c, s), OnList(c, u, n)
      PROVE  Keeps(h, r.heap, l)
  <2>1. Moved(start, r.heap, l) /\ OnList(r.heap.list[l].curr, u, n)
    BY <1>5 DEF Cursor
  <2>2. Intact(r.heap, l, u, n, p, m) /\ Moved(h, r.heap, l)
    BY <1>3, <2>1, MovedIntact, MovedOn
  <2>. QED  BY <2>2 DEF Keeps, Whole, Moved
<1>6. CASE r.heap # start /\ ~r.heap.fault
  <2>1. PICK c, s : Cursor(start, r.heap, l, c, s) /\ (c = NULL \/ \E i \in 1 .. n : \E j \in i .. n : c = u[j])
    BY <1>3, <1>6 DEF Searched
  <2>2. n \in Nat
    BY <1>1, IntactEnds
  <2>3. OnList(c, u, n)
    BY <2>1, <2>2 DEF OnList
  <2>. QED  BY <1>2, <1>5, <2>1, <2>3
<1>. QED  BY <1>2, <1>4, <1>6

\* None of the items before place k, from the cursor of h on, is a match.
Passed(h, l, match, u, k) ==
  \A j \in 1 .. k - 1 : CursorIndex(h, l) <= j => h.node[u[j]].item \notin match

\* List_search of dump/list.c finds a match where it leaves the cursor, or nothing
\* after it has passed over the whole list from the cursor, or from the head when
\* there is none (dump/list.c:409-432).
LEMMA DumpSearchIs ==
  ASSUME NEW h \in Heap, NEW l \in ListId, NEW match, NEW u, NEW n, NEW p, NEW m,
         Intact(h, l, u, n, p, m), StatusFits(h, l), NEW r, r = DumpSearch(h, l, match)
  PROVE  \/ r.heap.fault
         \/ /\ Moved(h, r.heap, l) /\ Intact(r.heap, l, u, n, p, m) /\ StatusFits(r.heap, l)
            /\ CursorThere(h, l) => CursorThere(r.heap, l)
            /\ \/ r.ret \in match /\ r.ret = r.heap.node[r.heap.list[l].curr].item
               \/ r.ret = NoItem /\ Passed(h, l, match, u, n + 1)
<1>0. /\ n \in Nat /\ u \in [1 .. n -> NodeId] /\ OnList(h.list[l].curr, u, n)
      /\ (n # 0 => 1 \in 1 .. n) /\ (emptyList(h, l) <=> n = 0)
      /\ \A i, j \in 1 .. n : u[i] = u[j] => i = j
      /\ n = 0 => h.list[l].curr = NULL
  <2>1. \A i, j \in 1 .. n : u[i] = u[j] => i = j
    BY DEF Intact, Threaded
  <2>. QED  BY <2>1, IntactEnds
<1>. DEFINE Sees(g) ==
              /\ g.list[l].curr = NULL => Passed(h, l, match, u, n + 1)
              /\ \A i \in 1 .. n : g.list[l].curr = u[i] /\ g.list[l].status = "LIST_OOB_NONE"
                                   => Passed(h, l, match, u, i)
            D == {g \in Heap : \/ g.fault
                               \/ /\ Moved(h, g, l) /\ Intact(g, l, u, n, p, m)
                                  /\ StatusFits(g, l) /\ Sees(g)
                                  /\ CursorThere(h, l) => CursorThere(g, l)}
<1>1. n # 0 => DumpSearchStart(h, l) \in D
  <2>1. SUFFICES ASSUME n # 0 PROVE DumpSearchStart(h, l) \in D
    OBVIOUS
  <2>2. CASE h.list[l].curr = NULL
    <3>1. PICK g : g = List_first(h, l).heap
      OBVIOUS
    <3>2. /\ g \in Heap /\ Moved(h, g, l) /\ Intact(g, l, u, n, p, m)
          /\ g.list[l].curr = u[1] /\ g.list[l].status = "LIST_OOB_NONE"
      BY <2>1, <3>1, MoveToIntact
    <3>3. StatusFits(g, l) /\ (CursorThere(h, l) => CursorThere(g, l))
      BY <3>1, <3>2, EndThere DEF StatusFits
    <3>4. Sees(g)
      <4>1. u[1] # NULL /\ \A i \in 1 .. n : u[1] = u[i] => i = 1
        BY <1>0, <2>1, Pointers
      <4>2. Passed(h, l, match, u, 1)
        BY DEF Passed
      <4>. QED  BY <3>2, <4>1, <4>2
    <3>. QED  BY <2>2, <3>1, <3>2, <3>3, <3>4 DEF DumpSearchStart
  <2>3. CASE h.list[l].curr # NULL
    <3>1. Moved(h, h, l)
      BY DEF Moved, SameRest
    <3>2. Sees(h)
      <4>1. \A i \in 1 .. n : h.list[l].curr = u[i] => Passed(h, l, match, u, i)
        <5>1. \A i \in 1 .. n : h.list[l].curr = u[i] => CursorIndex(h, l) = i
          BY CursorIndexIs
        <5>. QED  BY <5>1 DEF Passed
      <4>. QED  BY <2>3, <4>1
    <3>. QED  BY <2>3, <3>1, <3>2 DEF DumpSearchStart
  <2>. QED  BY <2>2, <2>3
<1>2. ASSUME NEW g \in D, ~g.fault, g.list[l].curr # NULL, ~DumpFound(g, l, match)
      PROVE  List_next(g, l).heap \in D
  <2>1. PICK f : f = List_next(g, l).heap
    OBVIOUS
  <2>2. f \in Heap
    BY <2>1, AdvanceTyped, Pointers
  <2>3. Moved(h, g, l) /\ Intact(g, l, u, n, p, m) /\ StatusFits(g, l) /\ Sees(g) /\ g \in Heap
        /\ (CursorThere(h, l) => CursorThere(g, l))
    BY <1>2
  <2>4. \/ f.fault
        \/ /\ Moved(g, f, l) /\ Intact(f, l, u, n, p, m) /\ StatusFits(f, l)
           /\ CursorThere(g, l) => CursorThere(f, l)
    BY <2>1, <2>3, MovesKeep
  <2>5. Moved(g, f, l) => Moved(h, f, l)
    BY <2>3, MovedOn
  <2>6. PICK i \in 1 .. n : g.list[l].curr = u[i]
    BY <1>2, <2>3, IntactEnds DEF OnList
  <2>7. Sees(f)
    <3>1. CASE isListOOB(g, l)
      <4>1. f = ReEnter(g, l).heap
        BY <2>1, <3>1 DEF List_next, Advance
      <4>2. n # 0 /\ g.list[l].head = u[1] /\ g.list[l].tail = u[n] /\ u[1] # NULL /\ u[n] # NULL
        BY <2>3, <2>6, IntactEnds, Pointers
      <4>3. f.list[l].curr \in {u[1], u[n]} /\ f.list[l].status = g.list[l].status
        BY <2>3, <4>1, <4>2, ReEnterIs DEF Cursor
      <4>4. f.list[l].status # "LIST_OOB_NONE"
        BY <3>1, <4>3 DEF isListOOB
      <4>. QED  BY <4>2, <4>3, <4>4
    <3>2. CASE ~isListOOB(g, l)
      <4>1. /\ i = n => Cursor(g, f, l, NULL, "LIST_OOB_END")
            /\ i # n => Cursor(g, f, l, u[i + 1], g.list[l].status)
        BY <2>1, <2>3, <2>6, <3>2, NextIs
      <4>2. g.list[l].status = "LIST_OOB_NONE"
        <5>1. g.list[l].status \in Status
          BY <2>3, Fields, Pointers
        <5>. QED  BY <3>2, <5>1 DEF isListOOB, Status
      <4>3. h.node[u[i]].item \notin match
        <5>1. u[i] \in NodeId /\ u[i] # NULL
          BY <1>0, Pointers
        <5>2. List_curr(g, l).ret = g.node[u[i]].item
          BY <2>6, <5>1 DEF List_curr, ItemAt
        <5>3. g.node = h.node
          BY <2>3 DEF Moved
        <5>. QED  BY <1>2, <5>2, <5>3 DEF DumpFound
      <4>4. Passed(h, l, match, u, i)
        BY <2>3, <2>6, <4>2
      <4>5. Passed(h, l, match, u, i + 1)
        BY <1>0, <4>3, <4>4 DEF Passed
      <4>6. CASE i = n
        <5>1. f.list[l].curr = NULL /\ \A j \in 1 .. n : u[j] # NULL
          BY <1>0, <4>1, <4>6, Pointers DEF Cursor
        <5>. QED  BY <4>5, <4>6, <5>1
      <4>7. CASE i # n
        <5>1. f.list[l].curr = u[i + 1] /\ i + 1 \in 1 .. n
          BY <1>0, <4>1, <4>7 DEF Cursor
        <5>2. u[i + 1] # NULL /\ \A j \in 1 .. n : u[i + 1] = u[j] => j = i + 1
          BY <1>0, <5>1, Pointers
        <5>. QED  BY <4>5, <5>1, <5>2
      <4>. QED  BY <4>6, <4>7
    <3>. QED  BY <3>1, <3>2
  <2>. QED  BY <2>1, <2>2, <2>3, <2>4, <2>5, <2>7
<1>3. CASE n = 0
  <2>1. r = [heap |-> h, ret |-> NoItem]
    <3>1. isListEmpty(h, l)
      BY <1>0, <1>3 DEF isListEmpty
    <3>. QED  BY <3>1, ZenonT(30) DEF DumpSearch
  <2>2. Moved(h, h, l) /\ Passed(h, l, match, u, n + 1)
    BY <1>3 DEF Moved, SameRest, Passed
  <2>. QED  BY <2>1, <2>2
<1>4. CASE n # 0
  <2>1. PICK done \in D : DumpSearch(h, l, match) =
           CASE isListEmpty(h, l) -> [heap |-> h, ret |-> NoItem]
             [] ~isListEmpty(h, l) /\ ~done.fault /\ done.list[l].curr = NULL ->
                  [heap |-> done, ret |-> NoItem]
             [] ~isListEmpty(h, l) /\ ~done.fault /\ DumpFound(done, l, match) ->
                  [heap |-> done, ret |-> List_curr(done, l).ret]
             [] OTHER -> [heap |-> Fault(done), ret |-> NoItem]
    <3>1. \A g \in D : ~g.fault /\ g.list[l].curr # NULL /\ ~DumpFound(g, l, match)
                       => List_next(g, l).heap \in D
      BY <1>2
    <3>. HIDE DEF D
    <3>2. l \in AnyList
      BY Pointers
    <3>. QED  BY <1>1, <1>4, <3>1, <3>2, DumpSearchEnds
  <2>2. ~isListEmpty(h, l)
    BY <1>0, <1>4 DEF isListEmpty
  <2>3. CASE ~done.fault /\ done.list[l].curr = NULL
    <3>1. ~DumpFound(done, l, match)
      BY <2>3 DEF DumpFound
    <3>2. r.heap = done /\ r.ret = NoItem
      BY <2>1, <2>2, <2>3, <3>1
    <3>. QED  BY <2>1, <2>3, <3>2
  <2>4. CASE ~done.fault /\ done.list[l].curr # NULL /\ DumpFound(done, l, match)
    <3>1. r.heap = done /\ r.ret = List_curr(done, l).ret
      BY <2>1, <2>2, <2>4
    <3>2. Moved(h, done, l) /\ Intact(done, l, u, n, p, m) /\ StatusFits(done, l)
          /\ (CursorThere(h, l) => CursorThere(done, l))
      BY <2>1, <2>4
    <3>3. done.list[l].curr \in NodeId
      BY <1>0, <2>4, <3>2, IntactEnds DEF OnList
    <3>4. List_curr(done, l).ret = done.node[done.list[l].curr].item
      BY <2>4, <3>3 DEF List_curr, ItemAt
    <3>. QED  BY <2>4, <3>1, <3>2, <3>4 DEF DumpFound
  <2>5. CASE done.fault \/ (done.list[l].curr # NULL /\ ~DumpFound(done, l, match))
    <3>1. r.heap = Fault(done)
      BY <2>1, <2>2, <2>5
    <3>. QED  BY <2>1, <3>1 DEF Fault, Heap
  <2>. QED  BY <2>3, <2>4, <2>5
<1>. QED  BY <1>3, <1>4

\* It keeps the list whole, too, and the status right.
LEMMA DumpSearchKeeps ==
  ASSUME NEW h \in Heap, NEW l \in ListId, NEW match, Whole(h, l), StatusFits(h, l)
  PROVE  KeepsFit(h, DumpSearch(h, l, match).heap, l)
<1>1. PICK u, n, p, m : Intact(h, l, u, n, p, m)
  BY DEF Whole
<1>2. PICK r : r = DumpSearch(h, l, match)
  OBVIOUS
<1>3. \/ r.heap.fault
      \/ Moved(h, r.heap, l) /\ Intact(r.heap, l, u, n, p, m) /\ StatusFits(r.heap, l)
  BY <1>1, <1>2, DumpSearchIs
<1>. QED  BY <1>2, <1>3 DEF KeepsFit, Whole, Moved

-----------------------------------------------------------------------------
(* Taking items out.                                                       *)

\* Writing to one end of a list.
EndsSet(h, f, l, head, tail) ==
  /\ f \in Heap /\ f.node = h.node /\ SameRest(h, f)
  /\ f.list[freeNodes] = h.list[freeNodes]
  /\ f.list[l].head = head /\ f.list[l].tail = tail
  /\ f.list[l].curr = h.list[l].curr /\ f.list[l].status = h.list[l].status
  /\ f.list[l].num_nodes = h.list[l].num_nodes

\* Set() on head or tail is one.
LEMMA EndSet ==
  ASSUME NEW h \in Heap, NEW l \in ListId, NEW v \in Pointer
  PROVE  /\ EndsSet(h, Set(h, l, "head", v), l, v, h.list[l].tail)
         /\ EndsSet(h, Set(h, l, "tail", v), l, h.list[l].head, v)
<1>1. h.list \in [AnyList -> ListHead] /\ l \in AnyList /\ h.list[l] \in ListHead
      /\ freeNodes \in AnyList /\ l # freeNodes
  BY Pointers, HeapAssumption DEF Heap, ListId, freeNodes
<1>2. EndsSet(h, Set(h, l, "head", v), l, v, h.list[l].tail)
  <2>1. PICK g : g = Set(h, l, "head", v)
    OBVIOUS
  <2>2. g \in Heap
    BY <1>1, <2>1, SetTyped
  <2>3. g.list = [h.list EXCEPT ![l]["head"] = v] /\ g.node = h.node /\ SameRest(h, g)
    BY <1>1, <2>1 DEF Set, Heap, SameRest
  <2>4. g.list[l] = [h.list[l] EXCEPT !["head"] = v] /\ g.list[freeNodes] = h.list[freeNodes]
    BY <1>1, <2>3
  <2>5. /\ g.list[l].head = v /\ g.list[l].tail = h.list[l].tail
        /\ g.list[l].curr = h.list[l].curr /\ g.list[l].status = h.list[l].status
        /\ g.list[l].num_nodes = h.list[l].num_nodes
    BY <1>1, <2>4 DEF ListHead
  <2>. QED  BY <2>1, <2>2, <2>3, <2>4, <2>5 DEF EndsSet
<1>3. EndsSet(h, Set(h, l, "tail", v), l, h.list[l].head, v)
  <2>1. PICK g : g = Set(h, l, "tail", v)
    OBVIOUS
  <2>2. g \in Heap
    BY <1>1, <2>1, SetTyped
  <2>3. g.list = [h.list EXCEPT ![l]["tail"] = v] /\ g.node = h.node /\ SameRest(h, g)
    BY <1>1, <2>1 DEF Set, Heap, SameRest
  <2>4. g.list[l] = [h.list[l] EXCEPT !["tail"] = v] /\ g.list[freeNodes] = h.list[freeNodes]
    BY <1>1, <2>3
  <2>5. /\ g.list[l].head = h.list[l].head /\ g.list[l].tail = v
        /\ g.list[l].curr = h.list[l].curr /\ g.list[l].status = h.list[l].status
        /\ g.list[l].num_nodes = h.list[l].num_nodes
    BY <1>1, <2>4 DEF ListHead
  <2>. QED  BY <2>1, <2>2, <2>3, <2>4, <2>5 DEF EndsSet
<1>. QED  BY <1>2, <1>3

\* Node x is cut loose and its neighbours a and b, if any, are linked.
Cut(h, g, x, a, b) ==
  /\ \A y \in NodeId \ {x} :
       /\ g.node[y].next = IF y = a THEN b ELSE h.node[y].next
       /\ g.node[y].prev = IF y = b THEN a ELSE h.node[y].prev
       /\ g.node[y].item = h.node[y].item
  /\ g.list = h.list /\ SameRest(h, g)

\* unlinkNodes(), and Unlink_node() of dump/list.c, which does the same, on a node
\* (list.c:79-93, dump/list.c:88-108).
LEMMA UnlinkIs ==
  ASSUME NEW h \in Heap, NEW x \in NodeId,
         NEW a \in NodeId \union {NULL}, NEW b \in NodeId \union {NULL},
         NEW g, g = unlinkNodes(h, a, x, b)
  PROVE  /\ Cut(h, g, x, a, b) /\ g \in Heap
         /\ x # a /\ x # b => /\ g.node[x].next = NULL /\ g.node[x].prev = NULL
                              /\ g.node[x].item = h.node[x].item
<1>1. a \in Pointer /\ b \in Pointer /\ x # NULL /\ NULL \in Pointer
  BY Pointers
<1>2. g \in Heap
  BY <1>1, UnlinkTyped
<1>3. PICK e \in Heap : e = [h EXCEPT !.node[x].next = NULL]
  BY <1>1, NodeUpdated
<1>4. PICK c \in Heap : c = [e EXCEPT !.node[x].prev = NULL]
  BY <1>1, NodeUpdated
<1>5. c = [h EXCEPT !.node[x].next = NULL, !.node[x].prev = NULL]
  BY <1>3, <1>4
<1>6. /\ \A y \in NodeId \ {x} : c.node[y] = h.node[y]
      /\ c.list = h.list /\ SameRest(h, c)
  <2>1. e.node = [h.node EXCEPT ![x].next = NULL] /\ e.list = h.list /\ SameRest(h, e)
    BY <1>3 DEF Heap, SameRest
  <2>2. c.node = [e.node EXCEPT ![x].prev = NULL] /\ c.list = e.list /\ SameRest(e, c)
    BY <1>4 DEF Heap, SameRest
  <2>3. h.node \in [NodeId -> Node] /\ e.node \in [NodeId -> Node]
    BY DEF Heap
  <2>. QED  BY <2>1, <2>2, <2>3 DEF SameRest
<1>7. PICK f \in Heap : f = SetLink(c, a, "next", b)
  BY <1>1, SetLinkTyped
<1>8. NextBecomes(c, f, a, b)
  <2>1. CASE a = NULL
    <3>1. f = c /\ \A y \in NodeId : y # a
      BY <1>7, <2>1, Pointers DEF SetLink
    <3>. QED  BY <3>1 DEF NextBecomes, SameRest
  <2>2. CASE a # NULL
    BY <1>1, <1>7, <2>2, LinkSet
  <2>. QED  BY <2>1, <2>2
<1>9. g = SetLink(f, b, "prev", a)
  BY <1>1, <1>5, <1>7 DEF unlinkNodes
<1>10. PrevBecomes(f, g, b, a)
  <2>1. CASE b = NULL
    <3>1. g = f /\ \A y \in NodeId : y # b
      BY <1>9, <2>1, Pointers DEF SetLink
    <3>. QED  BY <3>1 DEF PrevBecomes, SameRest
  <2>2. CASE b # NULL
    BY <1>1, <1>9, <2>2, LinkSet
  <2>. QED  BY <2>1, <2>2
<1>11. Cut(h, g, x, a, b)
  <2>1. ASSUME NEW y \in NodeId \ {x}
        PROVE  /\ g.node[y].next = IF y = a THEN b ELSE h.node[y].next
               /\ g.node[y].prev = IF y = b THEN a ELSE h.node[y].prev
               /\ g.node[y].item = h.node[y].item
    <3>1. c.node[y] = h.node[y]
      BY <1>6
    <3>2. /\ f.node[y].next = IF y = a THEN b ELSE c.node[y].next
          /\ f.node[y].prev = c.node[y].prev
          /\ f.node[y].item = c.node[y].item
      BY <1>8 DEF NextBecomes
    <3>3. /\ g.node[y].prev = IF y = b THEN a ELSE f.node[y].prev
          /\ g.node[y].next = f.node[y].next
          /\ g.node[y].item = f.node[y].item
      BY <1>10 DEF PrevBecomes
    <3>. QED  BY <3>1, <3>2, <3>3
  <2>2. g.list = h.list /\ SameRest(h, g)
    BY <1>6, <1>8, <1>10 DEF NextBecomes, PrevBecomes, SameRest
  <2>. QED  BY <2>1, <2>2 DEF Cut
<1>12. c.node[x].next = NULL /\ c.node[x].prev = NULL /\ c.node[x].item = h.node[x].item
  <2>1. e.node = [h.node EXCEPT ![x].next = NULL] /\ c.node = [e.node EXCEPT ![x].prev = NULL]
    BY <1>3, <1>4 DEF Heap
  <2>2. h.node \in [NodeId -> Node] /\ e.node \in [NodeId -> Node]
    BY DEF Heap
  <2>3. h.node[x] \in Node /\ e.node[x] \in Node
    BY <2>2
  <2>4. e.node[x] = [h.node[x] EXCEPT !.next = NULL] /\ c.node[x] = [e.node[x] EXCEPT !.prev = NULL]
    BY <2>1, <2>2
  <2>. QED  BY <2>3, <2>4 DEF Node
<1>13. ASSUME x # a, x # b
       PROVE  /\ g.node[x].next = NULL /\ g.node[x].prev = NULL
              /\ g.node[x].item = h.node[x].item
  BY <1>8, <1>10, <1>12, <1>13 DEF NextBecomes, PrevBecomes
<1>. QED  BY <1>2, <1>11, <1>13

\* What taking the k-th node out ends with, after the head of the list is set.
TakenOut(h, g, l, u, n, p, m, k, s, tail) ==
  /\ Taken(h, g, l, u, n, p, m, k) /\ g \in Heap /\ SameRest(h, g)
  /\ g.list[l].tail = tail /\ g.list[l].curr = s.list[l].curr
  /\ g.list[l].status = s.list[l].status
  /\ \A y \in NodeId \ {u[k]} : g.node[y].item = h.node[y].item

\* A node cut loose, counted and given back is taken out.
LEMMA CutTaken ==
  ASSUME NEW h \in Heap, NEW l \in ListId, NEW u, NEW n, NEW p, NEW m,
         Intact(h, l, u, n, p, m), NEW k \in 1 .. n, NEW f, NEW head, NEW tail,
         NEW s, Moved(h, s, l), EndsSet(s, f, l, head, tail),
         head = IF k = 1 THEN IF n = 1 THEN NULL ELSE u[2] ELSE h.list[l].head,
         NEW a, a = IF k = 1 THEN NULL ELSE u[k - 1],
         NEW b, b = IF k = n THEN NULL ELSE u[k + 1],
         NEW c \in Heap, Cut(f, c, u[k], a, b),
         NEW d, d = [c EXCEPT !.list[l].num_nodes = @ - 1],
         NEW g, g = produceFreeNode(d, u[k])
  PROVE  TakenOut(h, g, l, u, n, p, m, k, s, tail)
<1>1. /\ n \in Nat /\ u \in [1 .. n -> NodeId] /\ m \in Nat /\ p \in [1 .. m -> NodeId]
      /\ \A i, j \in 1 .. n : u[i] = u[j] => i = j
      /\ \A i \in 1 .. n : \A j \in 1 .. m : u[i] # p[j]
      /\ h.list[l].num_nodes = n
      /\ h.list[freeNodes].num_nodes = m
      /\ h.list[freeNodes].tail = IF m = 0 THEN NULL ELSE p[1]
  BY DEF Intact, Threaded, Ends, Pooled, Apart
<1>2. /\ f \in Heap /\ f.node = h.node /\ SameRest(h, f)
      /\ f.list[freeNodes] = h.list[freeNodes]
      /\ f.list[l].head = head /\ f.list[l].tail = tail
      /\ f.list[l].curr = s.list[l].curr /\ f.list[l].status = s.list[l].status
      /\ f.list[l].num_nodes = n
  <2>1. s.list[freeNodes] = h.list[freeNodes]
    BY Pointers, HeapAssumption DEF Moved, ListId, freeNodes
  <2>. QED  BY <1>1, <2>1 DEF Moved, EndsSet, SameRest
<1>3. PICK x \in NodeId : x = u[k]
  BY <1>1
<1>4. c.list \in [AnyList -> ListHead] /\ l \in AnyList /\ c.list[l] \in ListHead
      /\ freeNodes \in AnyList /\ l # freeNodes
  BY Pointers, HeapAssumption DEF Heap, ListId, freeNodes
<1>5. /\ d.list = [c.list EXCEPT ![l] = [c.list[l] EXCEPT !.num_nodes = @ - 1]]
      /\ d.node = c.node /\ SameRest(c, d) /\ d \in Heap
  <2>1. c.list[l].num_nodes - 1 \in Int
    BY <1>4, Fields
  <2>2. [c EXCEPT !.list[l].num_nodes = c.list[l].num_nodes - 1] \in Heap
    BY <1>4, <2>1, HeadUpdated
  <2>3. d = [c EXCEPT !.list[l].num_nodes = c.list[l].num_nodes - 1]
    OBVIOUS
  <2>. QED  BY <1>4, <2>2, <2>3 DEF Heap, SameRest
<1>6. /\ d.list[l] = [c.list[l] EXCEPT !.num_nodes = @ - 1]
      /\ d.list[freeNodes] = c.list[freeNodes]
  BY <1>4, <1>5
<1>7. /\ d.list[l].head = head /\ d.list[l].tail = tail
      /\ d.list[l].curr = s.list[l].curr /\ d.list[l].status = s.list[l].status
      /\ d.list[l].num_nodes = n - 1
  <2>1. c.list = f.list
    BY DEF Cut
  <2>. QED  BY <1>2, <1>4, <1>6, <2>1 DEF ListHead
<1>8. /\ d.list[freeNodes].num_nodes = m
      /\ d.list[freeNodes].tail = IF m = 0 THEN NULL ELSE p[1]
  <2>1. d.list[freeNodes] = h.list[freeNodes]
    BY <1>2, <1>6 DEF Cut
  <2>. QED  BY <1>1, <2>1
<1>9. d.list[freeNodes].tail \in NodeId \union {NULL} /\ d.list[freeNodes].tail # x
  <2>1. CASE m = 0
    BY <1>3, <1>8, <2>1, Pointers
  <2>2. CASE m # 0
    <3>1. 1 \in 1 .. m
      BY <1>1, <2>2
    <3>. QED  BY <1>1, <1>3, <1>8, <2>2, <3>1
  <2>. QED  BY <2>1, <2>2
<1>10. Produced(d, g, x) /\ g \in Heap
  BY <1>3, <1>5, <1>9, ProduceIs
<1>11. \A y \in NodeId \ {x} :
         /\ d.node[y].next = IF y = a THEN b ELSE h.node[y].next
         /\ d.node[y].prev = IF y = b THEN a ELSE h.node[y].prev
  BY <1>2, <1>3, <1>5 DEF Cut
<1>12. g.list[l] = d.list[l]
  BY <1>10 DEF Produced
<1>13. ASSUME NEW i \in (1 .. n) \ {k}
       PROVE  /\ g.node[u[i]].next = IF i = k - 1 THEN IF k = n THEN NULL ELSE u[k + 1]
                                     ELSE h.node[u[i]].next
              /\ g.node[u[i]].prev = IF i = k + 1 THEN IF k = 1 THEN NULL ELSE u[k - 1]
                                     ELSE h.node[u[i]].prev
  <2>1. u[i] \in NodeId /\ u[i] # x /\ u[i] # NULL
    BY <1>1, <1>3, Pointers
  <2>2. u[i] # d.list[freeNodes].tail
    <3>1. m # 0 => 1 \in 1 .. m
      BY <1>1
    <3>. QED  BY <1>1, <1>8, <2>1, <3>1
  <2>3. g.node[u[i]].next = d.node[u[i]].next /\ g.node[u[i]].prev = d.node[u[i]].prev
    BY <1>10, <2>1, <2>2 DEF Produced
  <2>4. u[i] = a <=> i = k - 1
    <3>1. k # 1 => k - 1 \in 1 .. n
      BY <1>1
    <3>. QED  BY <1>1, <2>1, <3>1
  <2>5. u[i] = b <=> i = k + 1
    <3>1. k # n => k + 1 \in 1 .. n
      BY <1>1
    <3>. QED  BY <1>1, <2>1, <3>1
  <2>. QED  BY <1>11, <2>1, <2>3, <2>4, <2>5
<1>14. Pooling(h, g, x, p, m)
  <2>1. ASSUME NEW j \in 1 .. m PROVE g.node[p[j]].prev = h.node[p[j]].prev
    <3>1. p[j] \in NodeId \ {x} /\ p[j] # b
      <4>1. k # n => k + 1 \in 1 .. n
        BY <1>1
      <4>2. p[j] # NULL /\ p[j] \in NodeId
        BY <1>1, Pointers
      <4>. QED  BY <1>1, <1>3, <4>1, <4>2
    <3>2. g.node[p[j]].prev = d.node[p[j]].prev
      BY <1>10, <3>1 DEF Produced
    <3>. QED  BY <1>11, <3>1, <3>2
  <2>2. g.node[x].prev = IF m = 0 THEN NULL ELSE p[1]
    BY <1>8, <1>10 DEF Produced
  <2>3. g.list[freeNodes].tail = x /\ g.list[freeNodes].num_nodes = m + 1
    BY <1>8, <1>10 DEF Produced
  <2>. QED  BY <2>1, <2>2, <2>3 DEF Pooling
<1>15. SameRest(h, g)
  BY <1>2, <1>5, <1>10 DEF SameRest, Cut, Produced
<1>16. Taken(h, g, l, u, n, p, m, k)
  BY <1>3, <1>7, <1>12, <1>13, <1>14 DEF Taken
<1>17. \A y \in NodeId \ {x} : g.node[y].item = h.node[y].item
  BY <1>2, <1>3, <1>5, <1>10 DEF Cut, Produced
<1>. QED  BY <1>3, <1>7, <1>10, <1>12, <1>15, <1>16, <1>17 DEF TakenOut

\* The last one counts.
LEMMA EndsSetTwice ==
  ASSUME NEW s, NEW t, NEW f, NEW l, NEW a, NEW b, NEW c, NEW d,
         EndsSet(s, t, l, a, b), EndsSet(t, f, l, c, d)
  PROVE  EndsSet(s, f, l, c, d)
BY DEF EndsSet, SameRest

\* A list without its k-th node, when its tail and its cursor are right.
LEMMA TakenIntact ==
  ASSUME NEW h, NEW g, NEW l, NEW u, NEW n, NEW p, NEW m, NEW k \in 1 .. n,
         Intact(h, l, u, n, p, m), Taken(h, g, l, u, n, p, m, k)
  PROVE  /\ Headed(g, l, Without(u, n, k), n - 1, Ahead(u[k], p, m), m + 1)
         /\ /\ g.list[l].tail = IF k = n THEN IF n = 1 THEN NULL ELSE u[n - 1] ELSE u[n]
            /\ OnList(g.list[l].curr, Without(u, n, k), n - 1)
            => Intact(g, l, Without(u, n, k), n - 1, Ahead(u[k], p, m), m + 1)
<1>1. n \in Nat /\ u \in [1 .. n -> NodeId] /\ (n # 0 => h.list[l].head = u[1])
      /\ h.list[l].num_nodes = n
  BY DEF Intact, Threaded, Ends
<1>2. Headed(h, l, u, n, p, m)
  BY <1>1 DEF Intact, Headed, Ends
<1>3. PICK v : v = Without(u, n, k)
  OBVIOUS
<1>4. PICK q : q = Ahead(u[k], p, m)
  OBVIOUS
<1>5. Headed(g, l, v, n - 1, q, m + 1)
  BY <1>2, <1>3, <1>4, TakenHeaded
<1>6. ASSUME g.list[l].tail = IF k = n THEN IF n = 1 THEN NULL ELSE u[n - 1] ELSE u[n],
             OnList(g.list[l].curr, v, n - 1)
      PROVE  Intact(g, l, v, n - 1, q, m + 1)
  <2>1. n # 1 => v[n - 1] = IF k = n THEN u[n - 1] ELSE u[n]
    <3>1. n # 1 => n - 1 \in 1 .. n - 1 /\ (n - 1 < k <=> k = n) /\ (n - 1) + 1 = n
      BY <1>1
    <3>. QED  BY <1>3, <3>1 DEF Without
  <2>2. g.list[l].tail = IF n - 1 = 0 THEN NULL ELSE v[n - 1]
    <3>1. n - 1 = 0 <=> n = 1
      BY <1>1
    <3>2. n = 1 => k = n
      OBVIOUS
    <3>. QED  BY <1>6, <2>1, <3>1, <3>2
  <2>3. Ends(g, l, v, n - 1)
    BY <1>5, <1>6, <2>2 DEF Ends, Headed, OnList
  <2>. QED  BY <1>5, <2>3 DEF Headed, Intact
<1>. QED  BY <1>3, <1>4, <1>5, <1>6

\* Both trims first move the cursor to the last node and from there to the one
\* before it, which becomes the tail (list.c:362-372, dump/list.c:382-394).
LEMMA TrimMoves ==
  ASSUME NEW h \in Heap, NEW l \in ListId, NEW u, NEW n, NEW p, NEW m,
         Intact(h, l, u, n, p, m), n # 0,
         NEW last, last = List_last(h, l).heap,
         NEW moved, moved = List_prev(last, l).heap,
         NEW before, before = IF n = 1 THEN NULL ELSE u[n - 1],
         NEW tailed, tailed = Set(moved, l, "tail", before),
         NEW headed, headed = IF u[n] = tailed.list[l].head
                              THEN Set(tailed, l, "head", before) ELSE tailed
  PROVE  /\ last.node = h.node /\ last.list[l].curr = u[n]
         /\ moved \in Heap /\ Moved(h, moved, l)
         /\ moved.list[l].curr = before
         /\ moved.list[l].status = IF n = 1 THEN "LIST_OOB_START" ELSE "LIST_OOB_NONE"
         /\ EndsSet(moved, headed, l, IF n = 1 THEN NULL ELSE h.list[l].head, before)
<1>1. /\ n \in Nat /\ u \in [1 .. n -> NodeId] /\ n \in 1 .. n /\ 1 \in 1 .. n
      /\ h.list[l].head = u[1] /\ h.list[l].tail = u[n]
      /\ \A i, j \in 1 .. n : u[i] = u[j] => i = j
  <2>1. \A i, j \in 1 .. n : u[i] = u[j] => i = j
    BY DEF Intact, Threaded
  <2>. QED  BY <2>1, IntactEnds
<1>2. /\ last \in Heap /\ Moved(h, last, l) /\ Intact(last, l, u, n, p, m)
      /\ last.list[l].curr = u[n] /\ last.list[l].status = "LIST_OOB_NONE"
  <2>1. last = IF "tail" = "head" THEN List_first(h, l).heap ELSE List_last(h, l).heap
    OBVIOUS
  <2>2. /\ last \in Heap /\ Moved(h, last, l) /\ Intact(last, l, u, n, p, m)
        /\ n # 0 => /\ last.list[l].curr = IF "tail" = "head" THEN u[1] ELSE u[n]
                    /\ last.list[l].status = "LIST_OOB_NONE"
    BY <2>1, MoveToIntact
  <2>. QED  BY <2>2
<1>3. Cursor(last, moved, l, before,
             IF n = 1 THEN "LIST_OOB_START" ELSE "LIST_OOB_NONE")
  <2>1. ~isListOOB(last, l)
    BY <1>2 DEF isListOOB
  <2>2. /\ n = 1 => Cursor(last, moved, l, NULL, "LIST_OOB_START")
        /\ n # 1 => Cursor(last, moved, l, u[n - 1], last.list[l].status)
    BY <1>1, <1>2, <2>1, NextIs
  <2>. QED  BY <1>2, <2>2
<1>4. moved \in Heap
  BY <1>2, AdvanceTyped, Pointers
<1>5. Moved(h, moved, l)
  BY <1>2, <1>3, MovedOn DEF Cursor
<1>6. before \in Pointer
  BY <1>1, Pointers
<1>7. EndsSet(moved, tailed, l, h.list[l].head, before)
  <2>1. EndsSet(moved, tailed, l, moved.list[l].head, before)
    BY <1>4, <1>6, EndSet
  <2>. QED  BY <1>5, <2>1 DEF Moved
<1>8. /\ tailed \in Heap /\ tailed.list[l].tail = before
      /\ tailed.list[l].head = h.list[l].head
  BY <1>7 DEF EndsSet
<1>9. n = 1 => EndsSet(moved, headed, l, NULL, before)
  <2>1. SUFFICES ASSUME n = 1 PROVE EndsSet(moved, headed, l, NULL, before)
    OBVIOUS
  <2>2. headed = Set(tailed, l, "head", before) /\ before = NULL
    BY <1>1, <1>8, <2>1
  <2>3. EndsSet(tailed, headed, l, NULL, before)
    BY <1>6, <1>8, <2>2, EndSet
  <2>. QED  BY <1>7, <2>3, EndsSetTwice
<1>10. n # 1 => EndsSet(moved, headed, l, h.list[l].head, before)
  <2>1. n # 1 => headed = tailed
    BY <1>1, <1>8
  <2>. QED  BY <1>7, <2>1
<1>. QED  BY <1>2, <1>3, <1>4, <1>5, <1>9, <1>10 DEF Moved, Cursor

\* What a trim of n nodes gives.
Trimmed(h, g, l, u, n, p, m) ==
  /\ Intact(g, l, Without(u, n, n), n - 1, Ahead(u[n], p, m), m + 1)
  /\ SameRest(h, g)
  /\ g.list[l].curr = IF n = 1 THEN NULL ELSE u[n - 1]
  /\ g.list[l].status = IF n = 1 THEN "LIST_OOB_START" ELSE "LIST_OOB_NONE"
  /\ \A y \in NodeId \ {u[n]} : g.node[y].item = h.node[y].item

\* It does so when the last node is cut loose from the one before it.
LEMMA CutTrimmed ==
  ASSUME NEW h \in Heap, NEW l \in ListId, NEW u, NEW n, NEW p, NEW m,
         Intact(h, l, u, n, p, m), n # 0,
         NEW before, before = IF n = 1 THEN NULL ELSE u[n - 1],
         NEW moved, Moved(h, moved, l), moved.list[l].curr = before,
         moved.list[l].status = IF n = 1 THEN "LIST_OOB_START" ELSE "LIST_OOB_NONE",
         NEW headed,
         EndsSet(moved, headed, l, IF n = 1 THEN NULL ELSE h.list[l].head, before),
         NEW c \in Heap, Cut(headed, c, u[n], before, NULL),
         NEW g, g = produceFreeNode([c EXCEPT !.list[l].num_nodes = @ - 1], u[n])
  PROVE  Trimmed(h, g, l, u, n, p, m)
<1>1. /\ n \in Nat /\ u \in [1 .. n -> NodeId] /\ n \in 1 .. n
  BY IntactEnds
<1>2. PICK head : head = IF n = 1 THEN NULL ELSE h.list[l].head
  OBVIOUS
<1>3. head = IF n = 1 THEN IF n = 1 THEN NULL ELSE u[2] ELSE h.list[l].head
  BY <1>2
<1>4. /\ Taken(h, g, l, u, n, p, m, n) /\ g \in Heap /\ SameRest(h, g)
      /\ g.list[l].tail = before /\ g.list[l].curr = moved.list[l].curr
      /\ g.list[l].status = moved.list[l].status
      /\ \A y \in NodeId \ {u[n]} : g.node[y].item = h.node[y].item
  <2>1. PICK d : d = [c EXCEPT !.list[l].num_nodes = @ - 1]
    OBVIOUS
  <2>2. g = produceFreeNode(d, u[n])
    BY <2>1
  <2>3. PICK b : b = IF n = n THEN NULL ELSE u[n + 1]
    OBVIOUS
  <2>4. Cut(headed, c, u[n], before, b)
    BY <2>3
  <2>5. EndsSet(moved, headed, l, head, before)
    BY <1>2
  <2>6. TakenOut(h, g, l, u, n, p, m, n, moved, before)
    BY <1>1, <1>3, <2>1, <2>2, <2>3, <2>4, <2>5, CutTaken
  <2>. QED  BY <2>6 DEF TakenOut
<1>5. OnList(before, Without(u, n, n), n - 1)
  <2>1. n # 1 => n - 1 \in 1 .. n - 1 /\ n - 1 < n
    BY <1>1
  <2>2. n # 1 => Without(u, n, n)[n - 1] = u[n - 1]
    BY <2>1 DEF Without
  <2>. QED  BY <2>1, <2>2 DEF OnList
<1>6. g.list[l].tail = IF n = n THEN IF n = 1 THEN NULL ELSE u[n - 1] ELSE u[n]
  BY <1>4
<1>7. Intact(g, l, Without(u, n, n), n - 1, Ahead(u[n], p, m), m + 1)
  BY <1>1, <1>4, <1>5, <1>6, TakenIntact
<1>. QED  BY <1>4, <1>7 DEF Trimmed

\* List_trim of list.c does it to lists of at most two items (list.c:358-388).
LEMMA TrimIs ==
  ASSUME NEW h \in Heap, NEW l \in ListId, NEW u, NEW n, NEW p, NEW m,
         Intact(h, l, u, n, p, m), n # 0, n <= 2, NEW r, r = List_trim(h, l)
  PROVE  Trimmed(h, r.heap, l, u, n, p, m) /\ r.ret = h.node[u[n]].item
<1>1. /\ n \in Nat /\ u \in [1 .. n -> NodeId] /\ n \in 1 .. n /\ ~emptyList(h, l)
      /\ u[n] \in NodeId
  BY IntactEnds
<1>2. PICK last : last = List_last(h, l).heap
  OBVIOUS
<1>3. PICK moved : moved = List_prev(last, l).heap
  OBVIOUS
<1>4. PICK before : before = IF n = 1 THEN NULL ELSE u[n - 1]
  OBVIOUS
<1>5. PICK tailed : tailed = Set(moved, l, "tail", before)
  OBVIOUS
<1>6. PICK headed : headed = IF u[n] = tailed.list[l].head
                             THEN Set(tailed, l, "head", before) ELSE tailed
  OBVIOUS
<1>7. /\ last.node = h.node /\ last.list[l].curr = u[n]
      /\ moved \in Heap /\ Moved(h, moved, l) /\ moved.list[l].curr = before
      /\ moved.list[l].status = IF n = 1 THEN "LIST_OOB_START" ELSE "LIST_OOB_NONE"
      /\ EndsSet(moved, headed, l, IF n = 1 THEN NULL ELSE h.list[l].head, before)
  BY <1>2, <1>3, <1>4, <1>5, <1>6, TrimMoves
<1>8. h.node[u[n]].prev = before /\ h.node[u[n]].next = NULL
  BY <1>1, <1>4 DEF Intact, Threaded
<1>9. PICK c : c = unlinkNodes(headed, u[n], before, NULL)
  OBVIOUS
<1>10. r = [heap |-> produceFreeNode([c EXCEPT !.list[l].num_nodes = @ - 1], u[n]),
            ret |-> h.node[u[n]].item]
  <2>1. List_trim(h, l) =
          CASE emptyList(h, l) -> [heap |-> h, ret |-> NoItem]
            [] ~emptyList(h, l) /\ last.list[l].curr \notin NodeId ->
                 [heap |-> Fault(h), ret |-> NoItem]
            [] ~emptyList(h, l) /\ last.list[l].curr \in NodeId ->
                 [heap |-> produceFreeNode([c EXCEPT !.list[l].num_nodes = @ - 1],
                                           last.list[l].curr),
                  ret |-> last.node[last.list[l].curr].item]
    <3>1. c = unlinkNodes(headed, last.list[l].curr, last.node[last.list[l].curr].prev,
                          last.node[last.list[l].curr].next)
      BY <1>7, <1>8, <1>9
    <3>2. headed = IF last.list[l].curr = tailed.list[l].head
                   THEN Set(tailed, l, "head", moved.list[l].curr) ELSE tailed
      BY <1>6, <1>7
    <3>3. tailed = Set(moved, l, "tail", moved.list[l].curr)
      BY <1>5, <1>7
    <3>. QED  BY <1>2, <1>3, <3>1, <3>2, <3>3, ZenonT(30) DEF List_trim
  <2>. QED  BY <1>1, <1>7, <2>1
<1>11. headed \in Heap
  BY <1>7 DEF EndsSet
<1>12. c \in Heap /\ Cut(headed, c, u[n], before, NULL)
  <2>1. CASE n = 1
    <3>1. before = NULL /\ \A y \in NodeId : y # NULL
      BY <1>4, <2>1, Pointers
    <3>2. c = headed
      BY <1>9, <3>1 DEF unlinkNodes
    <3>. QED  BY <1>11, <3>1, <3>2 DEF Cut, SameRest
  <2>2. CASE n = 2
    <3>1. 1 \in 1 .. n /\ 2 \in 1 .. n /\ before = u[1] /\ u[1] \in NodeId /\ u[1] # u[2]
      BY <1>1, <1>4, <2>2 DEF Intact, Threaded
    <3>2. PICK x \in NodeId : x = u[2]
      BY <1>1, <2>2
    <3>3. PICK y \in NodeId : y = u[1]
      BY <3>1
    <3>4. c = unlinkNodes(headed, x, y, NULL)
      BY <1>9, <2>2, <3>1, <3>2, <3>3
    <3>5. x \in NodeId \union {NULL} /\ NULL \in NodeId \union {NULL} /\ y # x /\ y # NULL
      BY <3>1, <3>2, <3>3, Pointers
    <3>6. /\ Cut(headed, c, y, x, NULL) /\ c \in Heap
          /\ c.node[y].next = NULL /\ c.node[y].prev = NULL
          /\ c.node[y].item = headed.node[y].item
      BY <1>11, <3>4, <3>5, UnlinkIs
    <3>7. headed.node[y].prev = NULL
      <4>1. headed.node = h.node
        BY <1>7 DEF EndsSet, Moved
      <4>. QED  BY <3>1, <3>3, <4>1 DEF Intact, Threaded
    <3>8. Cut(headed, c, x, y, NULL)
      BY <3>5, <3>6, <3>7, Pointers DEF Cut
    <3>. QED  BY <2>2, <3>1, <3>2, <3>3, <3>6, <3>8
  <2>. QED  BY <1>1, <2>1, <2>2
<1>13. Trimmed(h, produceFreeNode([c EXCEPT !.list[l].num_nodes = @ - 1], u[n]),
               l, u, n, p, m)
  BY <1>4, <1>7, <1>12, CutTrimmed
<1>. QED  BY <1>10, <1>13

\* List_remove and List_trim of dump/list.c cut the cursor's node loose and link
\* its neighbours (dump/list.c:328-335, 396-403).
LEMMA UnlinkedIs ==
  ASSUME NEW h \in Heap, NEW l \in ListId, NEW u, NEW n, NEW p, NEW m,
         Intact(h, l, u, n, p, m), NEW k \in 1 .. n, NEW f, NEW head, NEW tail,
         NEW s, Moved(h, s, l), EndsSet(s, f, l, head, tail),
         head = IF k = 1 THEN IF n = 1 THEN NULL ELSE u[2] ELSE h.list[l].head,
         NEW r, r = Unlinked(f, l, u[k])
  PROVE  TakenOut(h, r.heap, l, u, n, p, m, k, s, tail) /\ r.ret = h.node[u[k]].item
<1>1. /\ n \in Nat /\ u \in [1 .. n -> NodeId]
      /\ h.node[u[k]].next = IF k = n THEN NULL ELSE u[k + 1]
      /\ h.node[u[k]].prev = IF k = 1 THEN NULL ELSE u[k - 1]
  BY DEF Intact, Threaded
<1>2. PICK a : a = IF k = 1 THEN NULL ELSE u[k - 1]
  OBVIOUS
<1>3. PICK b : b = IF k = n THEN NULL ELSE u[k + 1]
  OBVIOUS
<1>4. a \in NodeId \union {NULL} /\ b \in NodeId \union {NULL} /\ u[k] \in NodeId
  <2>1. (k # 1 => k - 1 \in 1 .. n) /\ (k # n => k + 1 \in 1 .. n)
    BY <1>1
  <2>. QED  BY <1>1, <1>2, <1>3, <2>1
<1>5. f \in Heap /\ f.node = h.node
  BY DEF EndsSet, Moved
<1>6. PICK c : c = unlinkNodes(f, a, u[k], b)
  OBVIOUS
<1>7. Cut(f, c, u[k], a, b) /\ c \in Heap
  BY <1>4, <1>5, <1>6, UnlinkIs
<1>8. PICK d : d = [c EXCEPT !.list[l].num_nodes = @ - 1]
  OBVIOUS
<1>9. PICK g : g = produceFreeNode(d, u[k])
  OBVIOUS
<1>10. r = [heap |-> g, ret |-> h.node[u[k]].item]
  <2>1. f.node[u[k]].prev = a /\ f.node[u[k]].next = b /\ f.node[u[k]].item = h.node[u[k]].item
    BY <1>1, <1>2, <1>3, <1>5
  <2>2. Unlinked(f, l, u[k]) =
          [heap |-> produceFreeNode(
              [unlinkNodes(f, f.node[u[k]].prev, u[k], f.node[u[k]].next)
                 EXCEPT !.list[l].num_nodes = @ - 1], u[k]),
           ret |-> f.node[u[k]].item]
    BY DEF Unlinked, Unlink_node, returnFreeNode
  <2>. QED  BY <1>6, <1>8, <1>9, <2>1, <2>2
<1>11. TakenOut(h, g, l, u, n, p, m, k, s, tail)
  BY <1>2, <1>3, <1>7, <1>8, <1>9, CutTaken
<1>. QED  BY <1>10, <1>11

\* List_trim of dump/list.c takes the last item of any list (dump/list.c:378-406).
LEMMA DumpTrimIs ==
  ASSUME NEW h \in Heap, NEW l \in ListId, NEW u, NEW n, NEW p, NEW m,
         Intact(h, l, u, n, p, m), n # 0, NEW r, r = DumpTrim(h, l)
  PROVE  Trimmed(h, r.heap, l, u, n, p, m) /\ r.ret = h.node[u[n]].item
<1>1. /\ n \in Nat /\ u \in [1 .. n -> NodeId] /\ n \in 1 .. n /\ ~isListEmpty(h, l)
      /\ u[n] \in NodeId
  BY IntactEnds DEF isListEmpty
<1>2. PICK last : last = List_last(h, l).heap
  OBVIOUS
<1>3. PICK moved : moved = List_prev(last, l).heap
  OBVIOUS
<1>4. PICK before : before = IF n = 1 THEN NULL ELSE u[n - 1]
  OBVIOUS
<1>5. PICK tailed : tailed = Set(moved, l, "tail", before)
  OBVIOUS
<1>6. PICK headed : headed = IF u[n] = tailed.list[l].head
                             THEN Set(tailed, l, "head", before) ELSE tailed
  OBVIOUS
<1>7. /\ last.node = h.node /\ last.list[l].curr = u[n]
      /\ moved \in Heap /\ Moved(h, moved, l) /\ moved.list[l].curr = before
      /\ moved.list[l].status = IF n = 1 THEN "LIST_OOB_START" ELSE "LIST_OOB_NONE"
      /\ EndsSet(moved, headed, l, IF n = 1 THEN NULL ELSE h.list[l].head, before)
  BY <1>2, <1>3, <1>4, <1>5, <1>6, TrimMoves
<1>8. r = Unlinked(headed, l, u[n])
  <2>1. DumpTrim(h, l) =
          CASE isListEmpty(h, l) -> [heap |-> h, ret |-> NoItem]
            [] ~isListEmpty(h, l) /\ last.list[l].curr \notin NodeId ->
                 [heap |-> Fault(h), ret |-> NoItem]
            [] ~isListEmpty(h, l) /\ last.list[l].curr \in NodeId ->
                 Unlinked(headed, l, last.list[l].curr)
    <3>2. headed = IF last.list[l].curr = tailed.list[l].head
                   THEN Set(tailed, l, "head", moved.list[l].curr) ELSE tailed
      BY <1>6, <1>7
    <3>3. tailed = Set(moved, l, "tail", moved.list[l].curr)
      BY <1>5, <1>7
    <3>. QED  BY <1>2, <1>3, <3>2, <3>3, ZenonT(30) DEF DumpTrim
  <2>. QED  BY <1>1, <1>7, <2>1
<1>9. PICK head : head = IF n = 1 THEN NULL ELSE h.list[l].head
  OBVIOUS
<1>10. head = IF n = 1 THEN IF n = 1 THEN NULL ELSE u[2] ELSE h.list[l].head
  BY <1>9
<1>11. EndsSet(moved, headed, l, head, before)
  BY <1>7, <1>9
<1>12. TakenOut(h, r.heap, l, u, n, p, m, n, moved, before) /\ r.ret = h.node[u[n]].item
  BY <1>1, <1>7, <1>8, <1>10, <1>11, UnlinkedIs
<1>13. OnList(before, Without(u, n, n), n - 1)
  <2>1. n # 1 => n - 1 \in 1 .. n - 1 /\ n - 1 < n
    BY <1>1
  <2>2. n # 1 => Without(u, n, n)[n - 1] = u[n - 1]
    BY <2>1 DEF Without
  <2>. QED  BY <1>4, <2>1, <2>2 DEF OnList
<1>14. PICK g : g = r.heap
  OBVIOUS
<1>15. /\ Taken(h, g, l, u, n, p, m, n) /\ SameRest(h, g)
       /\ g.list[l].tail = before /\ g.list[l].curr = before
       /\ g.list[l].status = IF n = 1 THEN "LIST_OOB_START" ELSE "LIST_OOB_NONE"
       /\ \A y \in NodeId \ {u[n]} : g.node[y].item = h.node[y].item
  BY <1>7, <1>12, <1>14 DEF TakenOut
<1>16. g.list[l].tail = IF n = n THEN IF n = 1 THEN NULL ELSE u[n - 1] ELSE u[n]
  BY <1>4, <1>15
<1>17. Intact(g, l, Without(u, n, n), n - 1, Ahead(u[n], p, m), m + 1)
  BY <1>1, <1>13, <1>15, <1>16, TakenIntact
<1>. QED  BY <1>4, <1>12, <1>14, <1>15, <1>17 DEF Trimmed

\* List_remove of dump/list.c takes the cursor's item and moves the cursor to the
\* next; the tail stays where it is (dump/list.c:316-338).
Removed(h, g, l, u, n, p, m, k) ==
  /\ Headed(g, l, Without(u, n, k), n - 1, Ahead(u[k], p, m), m + 1)
  /\ k # n => Intact(g, l, Without(u, n, k), n - 1, Ahead(u[k], p, m), m + 1)
  /\ SameRest(h, g)
  /\ g.list[l].curr = IF k = n THEN NULL ELSE u[k + 1]
  /\ g.list[l].tail = u[n]
  /\ g.list[l].status = IF k = n THEN "LIST_OOB_END" ELSE h.list[l].status
  /\ \A y \in NodeId \ {u[k]} : g.node[y].item = h.node[y].item

\* So it is after List_remove of dump/list.c (dump/list.c:316-338).
LEMMA DumpRemoveIs ==
  ASSUME NEW h \in Heap, NEW l \in ListId, NEW u, NEW n, NEW p, NEW m,
         Intact(h, l, u, n, p, m), ~isListOOB(h, l),
         NEW k \in 1 .. n, h.list[l].curr = u[k], NEW r, r = DumpRemove(h, l)
  PROVE  Removed(h, r.heap, l, u, n, p, m, k) /\ r.ret = h.node[u[k]].item
         /\ r.heap \in Heap
<1>1. /\ n \in Nat /\ u \in [1 .. n -> NodeId] /\ n # 0 /\ 1 \in 1 .. n
      /\ h.list[l].head = u[1] /\ h.list[l].tail = u[n] /\ u[k] \in NodeId
      /\ \A i, j \in 1 .. n : u[i] = u[j] => i = j
  <2>1. \A i, j \in 1 .. n : u[i] = u[j] => i = j
    BY DEF Intact, Threaded
  <2>. QED  BY <2>1, IntactEnds
<1>2. PICK moved : moved = List_next(h, l).heap
  OBVIOUS
<1>3. PICK after : after = IF k = n THEN NULL ELSE u[k + 1]
  OBVIOUS
<1>4. /\ moved \in Heap /\ Moved(h, moved, l) /\ moved.list[l].curr = after
      /\ moved.list[l].status = IF k = n THEN "LIST_OOB_END" ELSE h.list[l].status
  <2>1. moved \in Heap
    BY <1>2, AdvanceTyped, Pointers
  <2>2. /\ k = n => Cursor(h, moved, l, NULL, "LIST_OOB_END")
        /\ k # n => Cursor(h, moved, l, u[k + 1], h.list[l].status)
    BY <1>2, NextIs
  <2>. QED  BY <1>3, <2>1, <2>2 DEF Cursor
<1>5. PICK f : f = IF u[k] = moved.list[l].head THEN Set(moved, l, "head", after) ELSE moved
  OBVIOUS
<1>6. r = Unlinked(f, l, u[k])
  <2>1. DumpRemove(h, l) =
          CASE isListOOB(h, l) \/ h.list[l].curr = NULL -> [heap |-> h, ret |-> NoItem]
            [] ~isListOOB(h, l) /\ h.list[l].curr = Wild -> [heap |-> Fault(h), ret |-> NoItem]
            [] ~isListOOB(h, l) /\ h.list[l].curr \in NodeId ->
                 Unlinked(f, l, h.list[l].curr)
    <3>1. f = IF h.list[l].curr = moved.list[l].head
              THEN Set(moved, l, "head", moved.list[l].curr) ELSE moved
      BY <1>4, <1>5
    <3>. QED  BY <1>2, <3>1, ZenonT(30) DEF DumpRemove
  <2>2. u[k] # NULL /\ u[k] # Wild
    BY <1>1, Pointers
  <2>. QED  BY <1>1, <2>1, <2>2
<1>7. PICK head : head = IF k = 1 THEN IF n = 1 THEN NULL ELSE u[2] ELSE h.list[l].head
  OBVIOUS
<1>8. EndsSet(moved, f, l, head, u[n])
  <2>1. moved.list[l].head = u[1] /\ moved.list[l].tail = u[n]
    BY <1>1, <1>4 DEF Moved
  <2>2. u[k] = u[1] <=> k = 1
    BY <1>1
  <2>3. CASE k = 1
    <3>1. f = Set(moved, l, "head", after) /\ head = after
      BY <1>3, <1>5, <1>7, <2>1, <2>2, <2>3
    <3>2. after \in Pointer
      <4>1. k # n => k + 1 \in 1 .. n
        BY <1>1
      <4>. QED  BY <1>1, <1>3, <4>1, Pointers
    <3>. QED  BY <1>4, <2>1, <3>1, <3>2, EndSet
  <2>4. CASE k # 1
    <3>1. f = moved /\ head = u[1]
      BY <1>1, <1>5, <1>7, <2>1, <2>2, <2>4
    <3>. QED  BY <1>4, <2>1, <3>1 DEF EndsSet, SameRest
  <2>. QED  BY <2>3, <2>4
<1>9. TakenOut(h, r.heap, l, u, n, p, m, k, moved, u[n]) /\ r.ret = h.node[u[k]].item
  BY <1>4, <1>6, <1>7, <1>8, UnlinkedIs
<1>10. PICK g : g = r.heap
  OBVIOUS
<1>11. /\ Taken(h, g, l, u, n, p, m, k) /\ SameRest(h, g) /\ g \in Heap
       /\ g.list[l].tail = u[n] /\ g.list[l].curr = after
       /\ g.list[l].status = IF k = n THEN "LIST_OOB_END" ELSE h.list[l].status
       /\ \A y \in NodeId \ {u[k]} : g.node[y].item = h.node[y].item
  BY <1>4, <1>9, <1>10 DEF TakenOut
<1>12. Headed(g, l, Without(u, n, k), n - 1, Ahead(u[k], p, m), m + 1)
  BY <1>11, TakenIntact
<1>13. k # n => Intact(g, l, Without(u, n, k), n - 1, Ahead(u[k], p, m), m + 1)
  <2>1. SUFFICES ASSUME k # n
                 PROVE  Intact(g, l, Without(u, n, k), n - 1, Ahead(u[k], p, m), m + 1)
    OBVIOUS
  <2>2. OnList(after, Without(u, n, k), n - 1)
    <3>1. k \in 1 .. n - 1 /\ Without(u, n, k)[k] = u[k + 1]
      BY <1>1, <2>1 DEF Without
    <3>. QED  BY <1>3, <2>1, <3>1 DEF OnList
  <2>3. g.list[l].tail = IF k = n THEN IF n = 1 THEN NULL ELSE u[n - 1] ELSE u[n]
    BY <1>11, <2>1
  <2>4. OnList(g.list[l].curr, Without(u, n, k), n - 1)
    BY <1>11, <2>2
  <2>. QED  BY <1>11, <2>3, <2>4, TakenIntact
<1>. QED  BY <1>3, <1>9, <1>10, <1>11, <1>12, <1>13 DEF Removed

\* The trims leave the list whole, that of list.c one of at most two items.
LEMMA TrimsKeep ==
  ASSUME NEW h \in Heap, NEW l \in ListId, Whole(h, l)
  PROVE  /\ h.list[l].num_nodes <= 2 => Keeps(h, List_trim(h, l).heap, l)
         /\ StatusFits(h, l) => KeepsFit(h, DumpTrim(h, l).heap, l)
<1>1. PICK u, n, p, m : Intact(h, l, u, n, p, m)
  BY DEF Whole
<1>2. h.list[l].num_nodes = n /\ (emptyList(h, l) <=> n = 0)
  <2>1. h.list[l].num_nodes = n
    BY <1>1 DEF Intact, Ends
  <2>. QED  BY <1>1, <2>1, IntactEnds
<1>3. ASSUME NEW g, Trimmed(h, g, l, u, n, p, m)
      PROVE  Keeps(h, g, l) /\ KeepsFit(h, g, l)
  <2>1. Whole(g, l) /\ SameRest(h, g)
    BY <1>3 DEF Trimmed, Whole
  <2>2. StatusFits(g, l)
    <3>1. /\ g.list[l].curr = IF n = 1 THEN NULL ELSE u[n - 1]
          /\ g.list[l].status = IF n = 1 THEN "LIST_OOB_START" ELSE "LIST_OOB_NONE"
      BY <1>3 DEF Trimmed
    <3>. QED  BY <3>1 DEF StatusFits
  <2>. QED  BY <2>1, <2>2 DEF Keeps, KeepsFit
<1>4. CASE n = 0
  <2>1. List_trim(h, l).heap = h /\ DumpTrim(h, l).heap = h
    BY <1>2, <1>4 DEF List_trim, DumpTrim, isListEmpty
  <2>. QED  BY <2>1 DEF Keeps, KeepsFit, SameRest
<1>5. CASE n # 0
  <2>1. n <= 2 => Trimmed(h, List_trim(h, l).heap, l, u, n, p, m)
    BY <1>1, <1>5, TrimIs
  <2>2. Trimmed(h, DumpTrim(h, l).heap, l, u, n, p, m)
    BY <1>1, <1>5, DumpTrimIs
  <2>. QED  BY <1>2, <1>3, <2>1, <2>2
<1>. QED  BY <1>4, <1>5

\* The chains of a list but for its tail.
LEMMA HeadedChains ==
  ASSUME NEW h \in Heap, NEW l \in ListId, NEW u, NEW n, NEW p, NEW m,
         Headed(h, l, u, n, p, m)
  PROVE  NodesOf(h, l) = u /\ UnusedNodes(h) = p
<1>1. /\ n \in Nat /\ u \in [1 .. n -> NodeId] /\ m \in Nat /\ p \in [1 .. m -> NodeId]
      /\ n <= LIST_MAX_NUM_NODES /\ m <= LIST_MAX_NUM_NODES
  BY Fits DEF Headed, Threaded, Pooled
<1>2. /\ h.list[l].head \in Pointer /\ h.list[freeNodes].tail \in Pointer
  BY Fields, Pointers
<1>3. NodesOf(h, l) = u
  <2>1. h.list[l].head = IF n = 0 THEN NULL ELSE u[1]
    BY DEF Headed
  <2>2. \A i \in 1 .. n : h.node[u[i]].next = IF i = n THEN NULL ELSE u[i + 1]
    BY DEF Headed, Threaded
  <2>. QED  BY <1>1, <1>2, <2>1, <2>2, ChainIs DEF NodesOf
<1>4. UnusedNodes(h) = p
  <2>1. h.list[freeNodes].tail = IF m = 0 THEN NULL ELSE p[1]
    BY DEF Headed, Pooled
  <2>2. \A i \in 1 .. m : h.node[p[i]].prev = IF i = m THEN NULL ELSE p[i + 1]
    BY DEF Headed, Pooled
  <2>. QED  BY <1>1, <1>2, <2>1, <2>2, ChainIs DEF UnusedNodes
<1>. QED  BY <1>3, <1>4

\* A removal of dump/list.c leaves the list whole, or with a tail that is not on it.
TailLost(h, l) == h.list[l].tail \notin NodesIn(NodesOf(h, l)) \union {NULL}

\* It is the latter when the last item is removed.
LEMMA DumpRemoveKeeps ==
  ASSUME NEW h \in Heap, NEW l \in ListId, Whole(h, l), StatusFits(h, l),
         NEW g, g = DumpRemove(h, l).heap
  PROVE  KeepsFit(h, g, l) \/ TailLost(g, l)
<1>1. PICK u, n, p, m : Intact(h, l, u, n, p, m)
  BY DEF Whole
<1>2. CASE isListOOB(h, l) \/ h.list[l].curr = NULL
  <2>1. g = h
    <3>1. NULL # Wild /\ NULL \notin NodeId
      BY Pointers
    <3>. QED  BY <1>2, <3>1, ZenonT(30) DEF DumpRemove
  <2>. QED  BY <2>1 DEF KeepsFit, SameRest
<1>3. CASE ~isListOOB(h, l) /\ h.list[l].curr # NULL
  <2>1. PICK k \in 1 .. n : h.list[l].curr = u[k]
    BY <1>1, <1>3, IntactEnds DEF OnList
  <2>2. Removed(h, g, l, u, n, p, m, k) /\ g \in Heap
    BY <1>1, <1>3, <2>1, DumpRemoveIs
  <2>3. /\ n \in Nat /\ u \in [1 .. n -> NodeId] /\ n \in 1 .. n
        /\ \A i, j \in 1 .. n : u[i] = u[j] => i = j
    BY <1>1 DEF Intact, Threaded
  <2>4. CASE k # n
    <3>1. Whole(g, l) /\ SameRest(h, g)
      BY <2>2, <2>4 DEF Removed, Whole
    <3>2. g.list[l].status = h.list[l].status
      BY <2>2, <2>4 DEF Removed
    <3>3. StatusFits(g, l)
      BY <1>3, <3>2 DEF isListOOB, StatusFits
    <3>. QED  BY <3>1, <3>3 DEF KeepsFit
  <2>5. CASE k = n
    <3>1. PICK v : v = Without(u, n, n)
      OBVIOUS
    <3>2. NodesOf(g, l) = v
      <4>1. PICK q : q = Ahead(u[k], p, m)
        OBVIOUS
      <4>2. Headed(g, l, v, n - 1, q, m + 1)
        BY <2>2, <2>5, <3>1, <4>1 DEF Removed
      <4>. QED  BY <2>2, <4>2, HeadedChains
    <3>3. DOMAIN v = 1 .. n - 1 /\ \A i \in 1 .. n - 1 : v[i] = u[i] /\ i \in 1 .. n /\ i # n
      BY <2>3, <3>1 DEF Without
    <3>4. u[n] \notin NodesIn(v)
      BY <2>3, <3>3 DEF NodesIn
    <3>5. g.list[l].tail = u[n] /\ u[n] # NULL
      BY <2>2, <2>3, Pointers DEF Removed
    <3>. QED  BY <3>2, <3>4, <3>5 DEF TailLost
  <2>. QED  BY <2>4, <2>5
<1>. QED  BY <1>2, <1>3

\* The heads that freeLists has left after one List_create.
OneGiven(h) ==
  /\ h.flIndex = LIST_MAX_NUM_HEADS - 2
  /\ h.freeLists = [i \in ListId |-> i]

\* List_create starts with no list and all nodes unused (list.c:106-143).
LEMMA CreateIs ==
  ASSUME NEW h \in Heap, NEW l \in ListId,
         NEW g \in {List_create(h).heap, DumpCreate(h).heap}
  PROVE  /\ Whole(g, l) /\ StatusFits(g, l) /\ CursorThere(g, l) /\ OneGiven(g)
         /\ \E u, p : Intact(g, l, u, 0, p, LIST_MAX_NUM_NODES)
         /\ g.fault = h.fault
<1>0. PICK N \in Nat \ {0} : N = LIST_MAX_NUM_NODES
  BY HeapAssumption
<1>1. g \in Heap
  BY CreatedTyped
<1>2. l # freeNodes /\ l \in AnyList /\ freeNodes \in AnyList
  BY HeapAssumption, Pointers DEF ListId, freeNodes
<1>3. PICK f : f = List_create(h).heap
  OBVIOUS
<1>4. /\ f.node = CreatedHeap.node /\ f.list = CreatedHeap.list
      /\ f.flIndex = LIST_MAX_NUM_HEADS - 2 /\ f.freeLists = [i \in ListId |-> i]
      /\ f \in Heap /\ f.fault = h.fault
  <2>1. f = [CreatedHeap EXCEPT !.fault = h.fault]
    BY <1>3 DEF List_create
  <2>2. f \in Heap
    BY <1>3, CreatedTyped
  <2>3. PICK c : c = CreatedHeap
    OBVIOUS
  <2>4. /\ DOMAIN c = {"node", "list", "freeLists", "flIndex", "fault"}
        /\ c.flIndex = LIST_MAX_NUM_HEADS - 2 /\ c.freeLists = [i \in ListId |-> i]
    BY <2>3 DEF CreatedHeap
  <2>5. f = [c EXCEPT !.fault = h.fault]
    BY <2>1, <2>3
  <2>6. /\ f.node = c.node /\ f.list = c.list
        /\ f.flIndex = c.flIndex /\ f.freeLists = c.freeLists /\ f.fault = h.fault
    BY <2>4, <2>5
  <2>. QED  BY <2>2, <2>3, <2>4, <2>6
<1>5. /\ f.list[l] = EmptyHead("LIST_OOB_START")
      /\ f.list[freeNodes].num_nodes = N /\ f.list[freeNodes].tail = N - 1
  <2>1. freeNodes \notin ListId
    BY HeapAssumption DEF ListId, freeNodes
  <2>2. f.list[l] = EmptyHead("LIST_OOB_START")
    BY <1>4 DEF CreatedHeap
  <2>3. f.list[freeNodes] = [head |-> 0, tail |-> LIST_MAX_NUM_NODES - 1, curr |-> NULL,
                             num_nodes |-> LIST_MAX_NUM_NODES, status |-> "LIST_OOB_NONE"]
    BY <1>4, <2>1 DEF CreatedHeap
  <2>. QED  BY <1>0, <2>2, <2>3
<1>6. /\ g.node = f.node /\ g.list[l] = f.list[l]
      /\ g.list[freeNodes].num_nodes = N /\ g.list[freeNodes].tail = N - 1
      /\ g.flIndex = f.flIndex /\ g.freeLists = f.freeLists /\ g.fault = f.fault
  <2>1. CASE g = f
    BY <1>5, <2>1
  <2>2. CASE g = DumpCreate(h).heap
    <3>1. g = [f EXCEPT !.list[freeNodes].status = "LIST_OOB_START"]
      BY <1>3, <2>2 DEF DumpCreate, List_create
    <3>2. f.list \in [AnyList -> ListHead] /\ f.list[freeNodes] \in ListHead
      BY <1>2, <1>4 DEF Heap
    <3>3. /\ g.list = [f.list EXCEPT ![freeNodes] =
                         [f.list[freeNodes] EXCEPT !.status = "LIST_OOB_START"]]
          /\ g.node = f.node /\ g.flIndex = f.flIndex /\ g.freeLists = f.freeLists
          /\ g.fault = f.fault
      BY <1>4, <3>1 DEF Heap
    <3>4. /\ g.list[l] = f.list[l]
          /\ g.list[freeNodes] = [f.list[freeNodes] EXCEPT !.status = "LIST_OOB_START"]
      BY <1>2, <3>2, <3>3
    <3>5. /\ g.list[freeNodes].num_nodes = f.list[freeNodes].num_nodes
          /\ g.list[freeNodes].tail = f.list[freeNodes].tail
      BY <3>2, <3>4 DEF ListHead
    <3>. QED  BY <1>5, <3>3, <3>4, <3>5
  <2>. QED  BY <1>3, <2>1, <2>2
<1>7. PICK p : p = [i \in 1 .. N |-> N - i]
  OBVIOUS
<1>8. NodeId = 0 .. N - 1 /\ NULL = N
  BY <1>0 DEF NodeId, NULL
<1>9. /\ p \in [1 .. N -> NodeId] /\ \A i \in 1 .. N : p[i] = N - i
      /\ 1 \in 1 .. N
  BY <1>0, <1>7, <1>8
<1>10. Pooled(g, p, N)
  <2>1. ASSUME NEW i \in 1 .. N
        PROVE  g.node[p[i]].prev = IF i = N THEN NULL ELSE p[i + 1]
    <3>1. \A x \in NodeId : g.node[x].prev = IF x = 0 THEN NULL ELSE x - 1
      BY <1>4, <1>6 DEF CreatedHeap
    <3>2. p[i] \in NodeId /\ (p[i] = 0 <=> i = N)
      BY <1>0, <1>9
    <3>3. i # N => p[i + 1] = p[i] - 1
      <4>1. i # N => i + 1 \in 1 .. N /\ N - (i + 1) = (N - i) - 1
        BY <1>0
      <4>. QED  BY <1>9, <4>1
    <3>. QED  BY <3>1, <3>2, <3>3
  <2>2. \A i, j \in 1 .. N : p[i] = p[j] => i = j
    BY <1>0, <1>9
  <2>. QED  BY <1>0, <1>6, <1>9, <2>1, <2>2 DEF Pooled
<1>11. PICK u : u = [i \in 1 .. 0 |-> 0]
  OBVIOUS
<1>12. Cover(u, 0, p, N)
  <2>1. ASSUME NEW x \in NodeId PROVE \E j \in 1 .. N : p[j] = x
    <3>1. N - x \in 1 .. N /\ p[N - x] = N - (N - x) /\ N - (N - x) = x
      BY <1>0, <1>8, <1>9
    <3>. QED  BY <3>1
  <2>. QED  BY <2>1 DEF Cover
<1>13. Threaded(g, u, 0) /\ Apart(u, 0, p, N)
  <2>1. u \in [1 .. 0 -> NodeId] /\ \A i \in 1 .. 0 : FALSE
    BY <1>11
  <2>. QED  BY <2>1 DEF Threaded, Apart
<1>14. /\ g.list[l].head = NULL /\ g.list[l].tail = NULL /\ g.list[l].curr = NULL
       /\ g.list[l].num_nodes = 0 /\ g.list[l].status = "LIST_OOB_START"
  BY <1>5, <1>6 DEF EmptyHead
<1>15. Intact(g, l, u, 0, p, N)
  BY <1>10, <1>12, <1>13, <1>14 DEF Intact, Ends
<1>16. Whole(g, l) /\ StatusFits(g, l) /\ CursorThere(g, l) /\ OneGiven(g)
  BY <1>4, <1>6, <1>14, <1>15 DEF Whole, StatusFits, CursorThere, OneGiven
<1>. QED  BY <1>0, <1>4, <1>6, <1>15, <1>16

\* The unused nodes, by name.
LEMMA PoolIs ==
  ASSUME NEW h \in Heap, NEW p, NEW m, Pooled(h, p, m)
  PROVE  UnusedNodes(h) = p
<1>1. /\ m \in Nat /\ p \in [1 .. m -> NodeId]
      /\ \A i, j \in 1 .. m : p[i] = p[j] => i = j
      /\ h.list[freeNodes].tail = IF m = 0 THEN NULL ELSE p[1]
      /\ \A i \in 1 .. m : h.node[p[i]]["prev"] = IF i = m THEN NULL ELSE p[i + 1]
  BY DEF Pooled
<1>2. m <= LIST_MAX_NUM_NODES
  BY <1>1, Fits
<1>3. h.list[freeNodes].tail \in Pointer
  BY Fields, Pointers
<1>4. Chain(h, h.list[freeNodes].tail, "prev") = p
  BY <1>1, <1>2, <1>3, ChainIs, SMTT(30)
<1>. QED  BY <1>4 DEF UnusedNodes

\* A node before the others.
LEMMA AheadIs ==
  ASSUME NEW x \in NodeId, NEW m \in Nat, NEW p \in [1 .. m -> NodeId]
  PROVE  Ahead(x, p, m) = <<x>> \o p
<1>1. p \in Seq(NodeId) /\ Len(p) = m /\ <<x>> \in Seq(NodeId) /\ Len(<<x>>) = 1
  OBVIOUS
<1>2. PICK s : s = <<x>> \o p
  OBVIOUS
<1>3. /\ s \in Seq(NodeId) /\ Len(s) = m + 1
      /\ \A i \in 1 .. m + 1 : s[i] = IF i = 1 THEN x ELSE p[i - 1]
  BY <1>1, <1>2
<1>4. s = [i \in 1 .. m + 1 |-> s[i]]
  BY <1>3
<1>. QED  BY <1>2, <1>3, <1>4 DEF Ahead

\* List_remove of list.c mistakes the arguments of unlinkNodes() and steps the
\* cursor back, but frees the right node (list.c:333-356).
LEMMA RemoveIs ==
  ASSUME NEW h \in Heap, NEW l \in ListId, NEW u, NEW n, NEW p, NEW m,
         Intact(h, l, u, n, p, m), ~isListOOB(h, l),
         NEW k \in 1 .. n, h.list[l].curr = u[k], NEW r, r = List_remove(h, l)
  PROVE  r.ret = h.node[u[k]].item /\ UnusedNodes(r.heap) = Ahead(u[k], p, m)
<1>0. l \in AnyList /\ freeNodes \in AnyList /\ l # freeNodes
  BY Pointers, HeapAssumption DEF ListId, freeNodes
<1>1. /\ n \in Nat /\ u \in [1 .. n -> NodeId] /\ m \in Nat /\ p \in [1 .. m -> NodeId]
      /\ \A i \in 1 .. n : \A j \in 1 .. m : u[i] # p[j]
      /\ Pooled(h, p, m)
  BY DEF Intact, Threaded, Pooled, Apart
<1>2. PICK x \in NodeId : x = u[k]
  BY <1>1
<1>3. PICK a \in NodeId \union {NULL} : a = IF k = 1 THEN NULL ELSE u[k - 1]
  BY <1>1
<1>4. PICK b \in NodeId \union {NULL} : b = IF k = n THEN NULL ELSE u[k + 1]
  BY <1>1
<1>5. h.node[x].prev = a /\ h.node[x].next = b
  BY <1>2, <1>3, <1>4 DEF Intact, Threaded
<1>6. PICK moved \in Heap : moved = List_next(h, l).heap
  BY <1>0, AdvanceTyped
<1>7. moved.node = h.node /\ moved.list[freeNodes] = h.list[freeNodes]
  <2>1. PICK c, s : Cursor(h, moved, l, c, s)
    BY <1>6, NextIs
  <2>. QED  BY <1>0, <2>1 DEF Cursor, Moved
<1>8. PICK headed \in Heap : headed = IF x = moved.list[l].head
                 THEN Set(moved, l, "head", moved.list[l].curr) ELSE moved
  BY <1>0, SetTyped, Fields
<1>9. headed.node = h.node /\ headed.list[freeNodes] = h.list[freeNodes]
  <2>1. PICK c \in Pointer : c = moved.list[l].curr
    BY <1>0, Fields
  <2>2. EndsSet(moved, Set(moved, l, "head", c), l, c, moved.list[l].tail)
    BY EndSet
  <2>. QED  BY <1>7, <1>8, <2>1, <2>2 DEF EndsSet
<1>10. PICK cut \in Heap : cut = unlinkNodes(headed, x, a, b)
  BY Pointers, UnlinkTyped
<1>11. /\ cut.list[freeNodes] = h.list[freeNodes]
       /\ \A j \in 1 .. m : cut.node[p[j]].prev = h.node[p[j]].prev
  <2>1. CASE a = NULL
    <3>1. cut = headed
      BY <1>10, <2>1 DEF unlinkNodes
    <3>. QED  BY <1>9, <3>1
  <2>2. CASE a # NULL
    <3>1. PICK y \in NodeId : y = a
      BY <2>2
    <3>2. Cut(headed, cut, y, x, b)
      BY <1>10, <3>1, UnlinkIs
    <3>3. \A j \in 1 .. m : p[j] \in NodeId /\ p[j] # y /\ p[j] # b
      <4>1. \A j \in 1 .. m : p[j] \in NodeId /\ p[j] # NULL
        BY <1>1, Pointers
      <4>. QED  BY <1>1, <1>3, <1>4, <2>2, <3>1, <4>1
    <3>. QED  BY <1>9, <3>2, <3>3 DEF Cut
  <2>. QED  BY <2>1, <2>2
<1>12. PICK v \in Pointer : v = Decrement(cut.list[l].curr)
  BY Pointers, HeapAssumption DEF Decrement, NodeId, Pointer, NULL, Wild
<1>13. PICK stepped \in Heap : stepped = Set(cut, l, "curr", v)
  BY <1>0, SetTyped
<1>14. stepped.node = cut.node /\ stepped.list[freeNodes] = cut.list[freeNodes]
  <2>1. Moved(cut, stepped, l)
    BY <1>13, CursorSet DEF Cursor
  <2>. QED  BY <1>0, <2>1 DEF Moved
<1>15. r = [heap |-> produceFreeNode(stepped, x), ret |-> h.node[x].item]
  <2>1. x # NULL /\ x # Wild
    BY Pointers
  <2>. QED  BY <1>2, <1>5, <1>6, <1>8, <1>10, <1>12, <1>13, <2>1, ZenonT(30) DEF List_remove
<1>16. PICK g : g = produceFreeNode(stepped, x)
  OBVIOUS
<1>17. /\ h.list[freeNodes].num_nodes = m
       /\ h.list[freeNodes].tail = IF m = 0 THEN NULL ELSE p[1]
  BY <1>1 DEF Pooled
<1>18. \A j \in 1 .. m : p[j] # x /\ p[j] \in NodeId
  BY <1>1, <1>2
<1>19. stepped.list[freeNodes].tail \in NodeId \union {NULL} /\ stepped.list[freeNodes].tail # x
  <2>1. stepped.list[freeNodes].tail = IF m = 0 THEN NULL ELSE p[1]
    BY <1>11, <1>14, <1>17
  <2>2. m # 0 => 1 \in 1 .. m
    BY <1>1
  <2>. QED  BY <1>18, <2>1, <2>2, Pointers
<1>20. Produced(stepped, g, x) /\ g \in Heap
  BY <1>16, <1>19, ProduceIs
<1>21. Pooling(h, g, x, p, m)
  <2>1. \A j \in 1 .. m : g.node[p[j]].prev = h.node[p[j]].prev
    BY <1>11, <1>14, <1>18, <1>20 DEF Produced
  <2>2. /\ g.node[x].prev = IF m = 0 THEN NULL ELSE p[1]
        /\ g.list[freeNodes].tail = x /\ g.list[freeNodes].num_nodes = m + 1
    BY <1>11, <1>14, <1>17, <1>20 DEF Produced
  <2>. QED  BY <2>1, <2>2 DEF Pooling
<1>22. Pooled(g, Ahead(x, p, m), m + 1)
  BY <1>1, <1>18, <1>21, PoolGrows
<1>. QED  BY <1>2, <1>15, <1>16, <1>20, <1>22, PoolIs

\* Both removals free the cursor's node, if there is one.
LEMMA RemovesFree ==
  ASSUME NEW h \in Heap, NEW l \in ListId, Whole(h, l),
         NEW r \in {List_remove(h, l), DumpRemove(h, l)}, NEW at, at = CursorIndex(h, l)
  PROVE  IF isListOOB(h, l) \/ at = 0 THEN r.heap = h /\ r.ret = NoItem
         ELSE /\ r.ret = ItemsOf(h, l)[at]
              /\ UnusedNodes(r.heap) = <<NodesOf(h, l)[at]>> \o UnusedNodes(h)
<1>1. PICK u, n, p, m : Intact(h, l, u, n, p, m)
  BY DEF Whole
<1>2. /\ n \in Nat /\ u \in [1 .. n -> NodeId] /\ m \in Nat /\ p \in [1 .. m -> NodeId]
      /\ OnList(h.list[l].curr, u, n)
  BY <1>1, IntactEnds
<1>3. CASE isListOOB(h, l) \/ h.list[l].curr = NULL
  <2>1. h.list[l].curr = NULL => at = 0
    BY <1>1, CursorIndexIs
  <2>2. r = [heap |-> h, ret |-> NoItem]
    <3>1. NULL # Wild /\ NULL \notin NodeId
      BY Pointers
    <3>2. List_remove(h, l) = [heap |-> h, ret |-> NoItem]
      BY <1>3, <3>1, ZenonT(30) DEF List_remove
    <3>3. DumpRemove(h, l) = [heap |-> h, ret |-> NoItem]
      BY <1>3, <3>1, ZenonT(30) DEF DumpRemove
    <3>. QED  BY <3>2, <3>3
  <2>. QED  BY <1>3, <2>1, <2>2
<1>4. CASE ~isListOOB(h, l) /\ h.list[l].curr # NULL
  <2>1. PICK k \in 1 .. n : h.list[l].curr = u[k]
    BY <1>2, <1>4 DEF OnList
  <2>2. at = k /\ k # 0
    BY <1>1, <1>2, <2>1, CursorIndexIs
  <2>3. r.ret = h.node[u[k]].item /\ UnusedNodes(r.heap) = Ahead(u[k], p, m)
    <3>1. CASE r = List_remove(h, l)
      BY <1>1, <1>4, <2>1, <3>1, RemoveIs
    <3>2. CASE r = DumpRemove(h, l)
      <4>1. Removed(h, r.heap, l, u, n, p, m, k) /\ r.ret = h.node[u[k]].item /\ r.heap \in Heap
        BY <1>1, <1>4, <2>1, <3>2, DumpRemoveIs
      <4>. QED  BY <4>1, HeadedChains DEF Removed
    <3>. QED  BY <3>1, <3>2
  <2>4. /\ NodesOf(h, l) = u /\ UnusedNodes(h) = p
    BY <1>1, IntactChains
  <2>5. ItemsOf(h, l)[k] = h.node[u[k]].item
    <3>1. ItemsOf(h, l) = ItemsIn(h, u, n)
      BY <1>1, ItemsAre
    <3>. QED  BY <3>1 DEF ItemsIn
  <2>6. Ahead(u[k], p, m) = <<u[k]>> \o p
    BY <1>2, AheadIs
  <2>. QED  BY <1>4, <2>2, <2>3, <2>4, <2>5, <2>6
<1>. QED  BY <1>3, <1>4

-----------------------------------------------------------------------------
(* Freeing a list.                                                         *)

\* A head that is given back after all its nodes are.
AllBack(h) ==
  /\ NodesIn(UnusedNodes(h)) = NodeId
  /\ h.flIndex = LIST_MAX_NUM_HEADS - 1
  /\ {h.freeLists[i] : i \in 0 .. h.flIndex} = ListId

\* The unused nodes are all nodes.
AllUnused(h, p, m) == Pooled(h, p, m) /\ \A x \in NodeId : \E j \in 1 .. m : p[j] = x

\* produceFreeList() on the one list given out completes it.
LEMMA HeadBack ==
  ASSUME NEW h \in Heap, NEW p, NEW m, AllUnused(h, p, m), OneGiven(h),
         NEW g, g = produceFreeList(h, TheList)
  PROVE  AllBack(g)
<1>1. PICK H \in Nat \ {0} : H = LIST_MAX_NUM_HEADS
  BY HeapAssumption
<1>2. TheList \in ListId /\ TheList = H - 1 /\ freeNodes # TheList /\ freeNodes \in AnyList
      /\ ListId = 0 .. H - 1 /\ TheList \in AnyList
  BY <1>1, Pointers DEF TheList, ListId, freeNodes
<1>3. PICK s : s = [h EXCEPT !.list[TheList] = EmptyHead("LIST_OOB_START")]
  OBVIOUS
<1>4. /\ s.node = h.node /\ s.flIndex = h.flIndex /\ s.freeLists = h.freeLists
      /\ s.list = [h.list EXCEPT ![TheList] = EmptyHead("LIST_OOB_START")]
      /\ s.list[freeNodes] = h.list[freeNodes]
  BY <1>2, <1>3 DEF Heap
<1>5. h.flIndex = H - 2 /\ h.freeLists = [i \in ListId |-> i] /\ H - 2 < H - 1
      /\ H - 2 + 1 = H - 1
  BY <1>1 DEF OneGiven
<1>6. g = [s EXCEPT !.flIndex = @ + 1, !.freeLists[h.flIndex + 1] = TheList]
  BY <1>1, <1>3, <1>5, ZenonT(30) DEF produceFreeList
<1>7. g \in Heap
  BY <1>2, FreeListTyped
<1>8. s \in Heap
  <2>1. EmptyHead("LIST_OOB_START") \in ListHead
    BY Pointers DEF EmptyHead, ListHead, Status
  <2>. QED  BY <1>2, <1>3, <2>1, ListUpdated
<1>9. /\ g.node = h.node /\ g.list[freeNodes] = h.list[freeNodes]
      /\ g.flIndex = H - 1
      /\ g.freeLists = [h.freeLists EXCEPT ![H - 1] = H - 1]
  <2>1. /\ g.node = s.node /\ g.list = s.list
        /\ g.flIndex = s.flIndex + 1
        /\ g.freeLists = [s.freeLists EXCEPT ![h.flIndex + 1] = TheList]
    BY <1>6, <1>8 DEF Heap
  <2>2. g.flIndex = H - 1
    BY <1>4, <1>5, <2>1
  <2>3. g.freeLists = [h.freeLists EXCEPT ![H - 1] = H - 1]
    <3>1. h.flIndex + 1 = H - 1 /\ TheList = H - 1 /\ s.freeLists = h.freeLists
      BY <1>2, <1>4, <1>5
    <3>. QED  BY <2>1, <3>1, Zenon
  <2>. QED  BY <1>4, <2>1, <2>2, <2>3
<1>10. Pooled(g, p, m)
  BY <1>9 DEF AllUnused, Pooled
<1>11. UnusedNodes(g) = p
  BY <1>7, <1>10, PoolIs
<1>12. NodesIn(p) = NodeId
  <2>1. p \in [1 .. m -> NodeId]
    BY <1>10 DEF Pooled
  <2>. QED  BY <2>1 DEF NodesIn, AllUnused
<1>13. \A i \in 0 .. H - 1 : g.freeLists[i] = i
  BY <1>2, <1>5, <1>9
<1>14. {g.freeLists[i] : i \in 0 .. g.flIndex} = ListId
  BY <1>2, <1>9, <1>13
<1>. QED  BY <1>1, <1>9, <1>11, <1>12, <1>14 DEF AllBack

\* produceFreeNode() leaves the lists alone.
LEMMA ProduceLeaves ==
  ASSUME NEW h \in Heap, NEW x \in NodeId, NEW l \in ListId
  PROVE  produceFreeNode(h, x).list[l] = h.list[l]
<1>1. PICK c : c = [h EXCEPT !.node[x] = [item |-> NoItem, next |-> NULL, prev |-> NULL],
                             !.list[freeNodes].tail = x,
                             !.list[freeNodes].num_nodes = @ + 1]
  OBVIOUS
<1>2. l # freeNodes /\ l \in AnyList /\ freeNodes \in AnyList
  BY HeapAssumption, Pointers DEF ListId, freeNodes
<1>3. c.list = [h.list EXCEPT ![freeNodes] =
            [h.list[freeNodes] EXCEPT !.tail = x, !.num_nodes = @ + 1]]
  BY <1>1, <1>2 DEF Heap
<1>4. c.list[l] = h.list[l]
  BY <1>2, <1>3 DEF Heap
<1>5. PICK t : t = h.list[freeNodes].tail
  OBVIOUS
<1>6. \/ produceFreeNode(h, x) = c
      \/ produceFreeNode(h, x) = [c EXCEPT !.node[t].next = x, !.node[x].prev = t]
  BY <1>1, <1>5, Zenon DEF produceFreeNode
<1>7. [c EXCEPT !.node[t].next = x, !.node[x].prev = t].list = c.list
  BY <1>1 DEF Heap
<1>. QED  BY <1>4, <1>6, <1>7

\* In bounds List_remove of list.c leaves the cursor on anything but NULL, for it
\* ends with a decrement (list.c:349).
LEMMA RemoveStepsBack ==
  ASSUME NEW h \in Heap, NEW l \in ListId, ~isListOOB(h, l), h.list[l].curr \in NodeId,
         NEW g, g = List_remove(h, l).heap
  PROVE  g.list[l].curr # NULL
<1>0. l \in AnyList
  BY Pointers
<1>1. PICK x \in NodeId : x = h.list[l].curr
  OBVIOUS
<1>2. PICK moved \in Heap : moved = List_next(h, l).heap
  BY <1>0, AdvanceTyped
<1>3. PICK headed \in Heap : headed = IF x = moved.list[l].head
                 THEN Set(moved, l, "head", moved.list[l].curr) ELSE moved
  BY <1>0, SetTyped, Fields
<1>4. PICK gone \in Node : gone = h.node[x]
  BY Fields
<1>5. PICK cut \in Heap : cut = unlinkNodes(headed, x, gone.prev, gone.next)
  BY <1>1, Pointers, UnlinkTyped DEF Node
<1>6. PICK v : v = Decrement(cut.list[l].curr)
  OBVIOUS
<1>7. v \in Pointer /\ v # NULL
  BY <1>6, Pointers, HeapAssumption DEF Decrement, NodeId, Pointer, NULL, Wild
<1>8. PICK stepped \in Heap : stepped = Set(cut, l, "curr", v)
  BY <1>0, <1>7, SetTyped
<1>9. stepped.list[l].curr = v
  BY <1>7, <1>8, CursorSet DEF Cursor
<1>10. List_remove(h, l) = [heap |-> produceFreeNode(stepped, x), ret |-> gone.item]
  <2>1. x # NULL /\ x # Wild
    BY Pointers
  <2>. QED  BY <1>1, <1>2, <1>3, <1>4, <1>5, <1>6, <1>8, <2>1, ZenonT(30) DEF List_remove
<1>11. g = produceFreeNode(stepped, x)
  BY <1>10
<1>12. g.list[l] = stepped.list[l]
  BY <1>11, ProduceLeaves
<1>. QED  BY <1>7, <1>9, <1>12

\* List_free of list.c gives back an empty list; with an item it never ends, or
\* ends in a fault (list.c:426-450).
LEMMA FreeIs ==
  ASSUME NEW h \in Heap, Whole(h, TheList), OneGiven(h), NEW g, g = List_free(h, TheList)
  PROVE  g.fault \/ AllBack(g)
<1>0. PICK l \in ListId : l = TheList
  BY HeapAssumption DEF TheList, ListId
<1>1. PICK u, n, p, m : Intact(h, l, u, n, p, m)
  BY <1>0 DEF Whole
<1>2. /\ n \in Nat /\ (emptyList(h, l) <=> n = 0)
      /\ n # 0 => h.list[l].head \in NodeId
  BY <1>1, IntactEnds
<1>3. CASE n = 0
  <2>1. g = produceFreeList(h, TheList)
    BY <1>0, <1>2, <1>3 DEF List_free
  <2>2. AllUnused(h, p, m)
    BY <1>1, <1>3 DEF Intact, Cover, AllUnused
  <2>. QED  BY <2>1, <2>2, HeadBack
<1>4. CASE n # 0
  <2>. DEFINE D == {f \in Heap : f.fault \/ f.list[l].curr # NULL}
  <2>1. FreeStart(h, l) \in D
    <3>1. h.list[l].head \in Pointer /\ h.list[l].head # NULL
      BY <1>2, <1>4, Pointers
    <3>2. FreeStart(h, l) \in Heap /\ FreeStart(h, l).list[l].curr = h.list[l].head
      BY <3>1, CursorSet, SetTyped, Pointers, ZenonT(60) DEF FreeStart, Cursor
    <3>. QED  BY <3>1, <3>2
  <2>2. ASSUME NEW f \in D, ~f.fault, f.list[l].curr # NULL PROVE FreeRound(f, l) \in D
    <3>1. Fault(f) \in D
      BY FaultTyped DEF Fault, Heap
    <3>2. CASE f.list[l].curr \notin NodeId \/ isListOOB(f, l)
      <4>1. FreeRound(f, l) = Fault(f)
        BY <3>2 DEF FreeRound
      <4>. QED  BY <3>1, <4>1
    <3>3. CASE ~(f.list[l].curr \notin NodeId \/ isListOOB(f, l))
      <4>1. FreeRound(f, l) = List_remove(f, l).heap
        BY <3>3 DEF FreeRound
      <4>2. List_remove(f, l).heap.list[l].curr # NULL /\ List_remove(f, l).heap \in Heap
        BY <3>3, RemoveStepsBack, RemoveTyped, Pointers
      <4>. QED  BY <4>1, <4>2
    <3>. QED  BY <3>2, <3>3
  <2>3. \A f \in D : ~f.fault /\ f.list[l].curr # NULL => FreeRound(f, l) \in D
    BY <2>2
  <2>4. PICK done \in D : List_free(h, l) =
           CASE emptyList(h, l) -> produceFreeList(h, l)
             [] ~emptyList(h, l) /\ ~done.fault /\ done.list[l].curr = NULL ->
                  produceFreeList(done, l)
             [] OTHER -> Fault(h)
    <3>. HIDE DEF D
    <3>. QED  BY <2>1, <2>3, FreeEnds
  <2>5. g = Fault(h)
    BY <1>0, <1>2, <1>4, <2>4
  <2>. QED  BY <2>5 DEF Fault, Heap
<1>. QED  BY <1>3, <1>4

\* List_free of dump/list.c takes out the first item until none is left
\* (dump/list.c:362-376).
LEMMA DumpFreeIs ==
  ASSUME NEW h \in Heap, Whole(h, TheList), OneGiven(h), NEW g, g = DumpFree(h, TheList)
  PROVE  g.fault \/ AllBack(g)
<1>0. PICK l \in ListId : l = TheList
  BY HeapAssumption DEF TheList, ListId
<1>1. PICK u, n, p, m : Intact(h, l, u, n, p, m)
  BY <1>0 DEF Whole
<1>2. /\ n \in Nat /\ (emptyList(h, l) <=> n = 0)
      /\ n # 0 => h.list[l].head \in NodeId /\ h.list[l].head = u[1] /\ 1 \in 1 .. n
  BY <1>1, IntactEnds
<1>3. CASE n = 0
  <2>1. g = produceFreeList(h, TheList)
    BY <1>0, <1>2, <1>3 DEF DumpFree, isListEmpty, returnFreeList
  <2>2. AllUnused(h, p, m)
    BY <1>1, <1>3 DEF Intact, Cover, AllUnused
  <2>. QED  BY <2>1, <2>2, HeadBack
<1>4. CASE n # 0
  <2>. DEFINE First(f) == /\ SameRest(h, f)
                          /\ \E v, a, q, b : Intact(f, l, v, a, q, b) /\ a # 0
                                             /\ f.list[l].curr = v[1]
              None(f)  == /\ SameRest(h, f) /\ f.list[l].curr = NULL
                          /\ \E q, b : AllUnused(f, q, b)
              D == {f \in Heap : f.fault \/ First(f) \/ None(f)}
  <2>1. FreeStart(h, l) \in D
    <3>1. h.list[l].head \in Pointer /\ h.list[l].head = u[1] /\ 1 \in 1 .. n
      BY <1>2, <1>4, Pointers
    <3>2. PICK f : f = FreeStart(h, l)
      OBVIOUS
    <3>3. f \in Heap /\ Moved(h, f, l) /\ f.list[l].curr = u[1]
      BY <3>1, <3>2, CursorSet, SetTyped, Pointers DEF FreeStart, Cursor
    <3>4. Intact(f, l, u, n, p, m)
      BY <1>1, <3>1, <3>3, MovedIntact DEF OnList
    <3>5. First(f)
      BY <1>4, <3>3, <3>4 DEF Moved
    <3>. QED  BY <3>2, <3>3, <3>5
  <2>2. ASSUME NEW f \in D, ~f.fault, f.list[l].curr # NULL PROVE DumpFreeRound(f, l) \in D
    <3>1. Fault(f) \in D
      BY FaultTyped DEF Fault, Heap
    <3>2. CASE f.list[l].curr \notin NodeId \/ isListOOB(f, l)
      <4>1. DumpFreeRound(f, l) = Fault(f)
        BY <3>2 DEF DumpFreeRound
      <4>. QED  BY <3>1, <4>1
    <3>3. CASE ~(f.list[l].curr \notin NodeId \/ isListOOB(f, l))
      <4>1. PICK r : r = DumpRemove(f, l)
        OBVIOUS
      <4>2. DumpFreeRound(f, l) = r.heap
        BY <3>3, <4>1 DEF DumpFreeRound
      <4>3. f \in Heap /\ SameRest(h, f)
        BY <2>2
      <4>4. PICK v, a, q, b : Intact(f, l, v, a, q, b) /\ a # 0 /\ f.list[l].curr = v[1]
        BY <2>2
      <4>5. a \in Nat /\ v \in [1 .. a -> NodeId] /\ 1 \in 1 .. a
        BY <4>4, IntactEnds
      <4>6. PICK e : e = r.heap
        OBVIOUS
      <4>7. Removed(f, e, l, v, a, q, b, 1) /\ e \in Heap
        BY <3>3, <4>1, <4>3, <4>4, <4>5, <4>6, DumpRemoveIs
      <4>8. SameRest(h, e)
        BY <4>3, <4>7 DEF Removed, SameRest
      <4>9. CASE a = 1
        <5>1. e.list[l].curr = NULL
          BY <4>7, <4>9 DEF Removed
        <5>2. PICK w : w = Ahead(v[1], q, b)
          OBVIOUS
        <5>3. Headed(e, l, Without(v, a, 1), a - 1, w, b + 1)
          BY <4>7, <5>2 DEF Removed
        <5>4. AllUnused(e, w, b + 1)
          BY <4>9, <5>3 DEF Headed, Cover, AllUnused
        <5>5. None(e)
          BY <4>8, <5>1, <5>4
        <5>. QED  BY <4>2, <4>6, <4>7, <5>5
      <4>10. CASE a # 1
        <5>1. PICK z : z = Without(v, a, 1)
          OBVIOUS
        <5>2. PICK w : w = Ahead(v[1], q, b)
          OBVIOUS
        <5>3. Intact(e, l, z, a - 1, w, b + 1) /\ e.list[l].curr = v[1 + 1]
          BY <4>7, <4>10, <5>1, <5>2 DEF Removed
        <5>4. z[1] = v[1 + 1] /\ a - 1 # 0
          BY <4>5, <4>10, <5>1 DEF Without
        <5>5. First(e)
          BY <4>8, <5>3, <5>4
        <5>. QED  BY <4>2, <4>6, <4>7, <5>5
      <4>. QED  BY <4>9, <4>10
    <3>. QED  BY <3>2, <3>3
  <2>3. \A f \in D : ~f.fault /\ f.list[l].curr # NULL => DumpFreeRound(f, l) \in D
    BY <2>2
  <2>4. PICK done \in D : DumpFree(h, l) =
           CASE isListEmpty(h, l) -> returnFreeList(h, l)
             [] ~isListEmpty(h, l) /\ ~done.fault /\ done.list[l].curr = NULL ->
                  returnFreeList(done, l)
             [] OTHER -> Fault(h)
    <3>. HIDE DEF D
    <3>. QED  BY <2>1, <2>3, DumpFreeEnds
  <2>5. ~isListEmpty(h, l)
    BY <1>2, <1>4 DEF isListEmpty
  <2>6. CASE ~done.fault /\ done.list[l].curr = NULL
    <3>1. g = produceFreeList(done, TheList)
      BY <1>0, <2>4, <2>5, <2>6 DEF returnFreeList
    <3>2. None(done)
      <4>1. ~First(done)
        <5>1. ASSUME NEW v, NEW a, NEW q, NEW b, Intact(done, l, v, a, q, b), a # 0
              PROVE  v[1] # NULL
          BY <5>1, IntactEnds, Pointers
        <5>. QED  BY <2>6, <5>1
      <4>. QED  BY <2>6, <4>1
    <3>3. OneGiven(done)
      BY <3>2 DEF OneGiven, SameRest
    <3>. QED  BY <3>1, <3>2, <3>3, HeadBack
  <2>7. CASE ~(~done.fault /\ done.list[l].curr = NULL)
    <3>1. g = Fault(h)
      BY <1>0, <2>4, <2>5, <2>7
    <3>. QED  BY <3>1 DEF Fault, Heap
  <2>. QED  BY <2>6, <2>7
<1>. QED  BY <1>3, <1>4

-----------------------------------------------------------------------------
(* The list stays whole.                                                   *)

\* Until a call ends or breaks it the one list that is held is whole, one head has
\* been given out, and in dump/list.c the status tells where the cursor is.
ListsKept ==
  \/ heap.fault
  \/ Ended
  \/ HeldLists = {}
  \/ /\ Whole(heap, TheList) /\ OneGiven(heap)
     /\ library # "list.c" => StatusFits(heap, TheList)

\* The inductive invariant of the client that stops in time.
KeptSafely == WellTyped /\ HeldIsLast /\ ListsKept /\ FreeReturnsEverything

\* A call that leaves the list whole, or ends it,
LEMMA PerformKeeps ==
  ASSUME heap \in Heap, Whole(heap, TheList), OneGiven(heap), ~heap.fault,
         NEW fn, NEW arg, NEW r, Perform(fn, arg, r), fn # "List_free",
         \/ Ended'
         \/ library = "list.c" /\ Keeps(heap, r.heap, TheList)
         \/ KeepsFit(heap, r.heap, TheList)
  PROVE  ListsKept' /\ FreeReturnsEverything'
<1>1. heap' = r.heap /\ call'.fn = fn /\ library' = library
  BY DEF Perform
<1>2. FreeReturnsEverything'
  BY <1>1 DEF FreeReturnsEverything
<1>3. SameRest(heap, r.heap) => OneGiven(heap')
  BY <1>1 DEF SameRest, OneGiven
<1>4. ListsKept'
  BY <1>1, <1>3 DEF ListsKept, Keeps, KeepsFit
<1>. QED  BY <1>2, <1>4

\* and one that gives the list up.
LEMMA GivenUp ==
  ASSUME NEW fn \in {"List_concat", "List_free"}, NEW o, NEW h, GiveUp(fn, o, h),
         fn = "List_free" => h.fault \/ AllBack(h)
  PROVE  ListsKept' /\ FreeReturnsEverything'
<1>1. heap' = h /\ call'.fn = fn
  BY DEF GiveUp
<1>2. Ended'
  BY <1>1 DEF Ended
<1>3. FreeReturnsEverything'
  BY <1>1 DEF FreeReturnsEverything, AllBack
<1>. QED  BY <1>2, <1>3 DEF ListsKept

\* Every call keeps it,
LEMMA KeptStep ==
  KeptSafely /\ [Next /\ TrimsShort /\ HeedsStatus /\ ~Ended]_vars => KeptSafely'
<1>1. SUFFICES ASSUME KeptSafely, [Next /\ TrimsShort /\ HeedsStatus /\ ~Ended]_vars
               PROVE  KeptSafely'
  OBVIOUS
<1>2. CASE UNCHANGED vars
  BY <1>1, <1>2 DEF vars, KeptSafely, WellTyped, HeldIsLast, ListsKept, Ended, HeldLists,
                    Holding, FreeReturnsEverything
<1>3. CASE Next /\ TrimsShort /\ HeedsStatus /\ ~Ended
  <2>1. heap \in Heap /\ WellTyped /\ HeldIsLast
    BY <1>1 DEF KeptSafely, WellTyped
  <2>2. WellTyped' /\ HeldIsLast'
    BY <1>3, <2>1, WellTypedStep, HeldStep
  <2>3. SUFFICES ListsKept' /\ FreeReturnsEverything'
    BY <2>2 DEF KeptSafely
  <2>4. TheList \in ListId /\ TheList \in AnyList
    BY HeapAssumption, Pointers DEF TheList, ListId
  <2>5. ASSUME NEW o \in Owner, Create(o) PROVE ListsKept' /\ FreeReturnsEverything'
    <3>1. PICK r : /\ r = OfLibrary(List_create(heap), DumpCreate(heap))
                   /\ heap' = r.heap /\ call'.fn = "List_create"
      BY <2>5 DEF Create
    <3>2. r.heap \in {List_create(heap).heap, DumpCreate(heap).heap}
      BY <3>1 DEF OfLibrary
    <3>3. Whole(heap', TheList) /\ StatusFits(heap', TheList) /\ OneGiven(heap')
      BY <2>1, <2>4, <3>1, <3>2, CreateIs
    <3>. QED  BY <3>1, <3>3 DEF ListsKept, FreeReturnsEverything
  <2>6. \A o \in Holding : held[o] = TheList /\ held[o] \in HeldLists
    BY <2>1 DEF HeldIsLast, Holding, TheList, HeldLists
  <2>7. ASSUME ~heap.fault, HeldLists # {}
        PROVE  /\ Whole(heap, TheList) /\ OneGiven(heap)
               /\ library # "list.c" => StatusFits(heap, TheList)
    BY <1>1, <1>3, <2>7 DEF KeptSafely, ListsKept
  <2>8. ASSUME NEW o \in Holding,
               Free(o) \/ \E o2 \in Holding \ {o} : Concat(o, o2)
        PROVE  ListsKept' /\ FreeReturnsEverything'
    <3>1. CASE Free(o)
      <4>1. ~heap.fault
        BY <3>1 DEF Free, GiveUp
      <4>2. Whole(heap, TheList) /\ OneGiven(heap)
        BY <2>6, <2>7, <4>1
      <4>3. PICK h : h = OfLibrary(List_free(heap, TheList), DumpFree(heap, TheList))
        OBVIOUS
      <4>4. h \in {List_free(heap, TheList), DumpFree(heap, TheList)}
        BY <4>3 DEF OfLibrary
      <4>5. h.fault \/ AllBack(h)
        BY <2>1, <4>2, <4>4, FreeIs, DumpFreeIs
      <4>6. GiveUp("List_free", o, h)
        BY <2>6, <3>1, <4>3 DEF Free
      <4>. QED  BY <4>5, <4>6, GivenUp
    <3>2. ASSUME NEW o2 \in Holding \ {o}, Concat(o, o2)
          PROVE  ListsKept' /\ FreeReturnsEverything'
      <4>1. PICK h : GiveUp("List_concat", o2, h)
        BY <3>2 DEF Concat
      <4>. QED  BY <4>1, GivenUp
    <3>. QED  BY <2>8, <3>1, <3>2
  <2>9. ASSUME NEW l \in HeldLists,
               \/ Navigate(l)
               \/ TakeOut(l)
               \/ \E item \in Item : Insert(l, item)
               \/ \E match \in SUBSET Item : Search(l, match)
        PROVE  ListsKept' /\ FreeReturnsEverything'
    <3>1. l = TheList
      BY <2>6 DEF HeldLists
    <3>2. ~heap.fault /\ held' = held /\ library' = library
      BY <2>9 DEF Navigate, TakeOut, Insert, Search, Perform
    <3>3. /\ Whole(heap, l) /\ OneGiven(heap)
          /\ library # "list.c" => StatusFits(heap, l)
      BY <2>7, <3>1, <3>2
    <3>4. ASSUME NEW fn, NEW arg, NEW r, Perform(fn, arg, r), fn # "List_free",
                 library = "list.c" => Ended' \/ Keeps(heap, r.heap, l),
                 library # "list.c" => Ended' \/ KeepsFit(heap, r.heap, l)
          PROVE  ListsKept' /\ FreeReturnsEverything'
      BY <2>1, <3>1, <3>2, <3>3, <3>4, PerformKeeps
    <3>5. ASSUME NEW newer, NEW older
          PROVE  /\ library = "list.c" => OfLibrary(newer, older) = newer
                 /\ library # "list.c" => OfLibrary(newer, older) = older
      BY DEF OfLibrary
    <3>6. CASE Navigate(l)
      <4>1. PICK u, n, p, m : Intact(heap, l, u, n, p, m)
        BY <3>3 DEF Whole
      <4>2. ASSUME NEW g, g \in {List_first(heap, l).heap, List_last(heap, l).heap,
                            List_next(heap, l).heap, List_prev(heap, l).heap,
                            List_curr(heap, l).heap}
            PROVE  /\ Keeps(heap, g, l)
                   /\ library # "list.c" => KeepsFit(heap, g, l)
        <5>1. \/ g.fault
              \/ /\ Moved(heap, g, l) /\ Intact(g, l, u, n, p, m)
                 /\ StatusFits(heap, l) => StatusFits(g, l)
          BY <2>1, <2>4, <3>1, <4>1, <4>2, MovesKeep
        <5>. QED  BY <3>3, <5>1 DEF Keeps, KeepsFit, Whole, Moved
      <4>3. /\ Keeps(heap, heap, l)
            /\ library # "list.c" => KeepsFit(heap, heap, l)
        BY <3>3 DEF Keeps, KeepsFit, SameRest
      <4>4. PICK fn, r : /\ Perform(fn, <<>>, r) /\ fn # "List_free"
                         /\ \/ r.heap = heap
                            \/ r.heap \in {List_first(heap, l).heap, List_last(heap, l).heap,
                                           List_next(heap, l).heap, List_prev(heap, l).heap,
                                           List_curr(heap, l).heap}
        BY <3>6 DEF Navigate
      <4>. QED  BY <3>4, <4>2, <4>3, <4>4
    <3>7. CASE TakeOut(l)
      <4>1. CASE Perform("List_remove", <<>>,
                         OfLibrary(List_remove(heap, l), DumpRemove(heap, l)))
        <5>1. PICK r : r = OfLibrary(List_remove(heap, l), DumpRemove(heap, l))
          OBVIOUS
        <5>2. Perform("List_remove", <<>>, r)
          BY <4>1, <5>1
        <5>3. call'.fn = "List_remove" /\ heap' = r.heap
          BY <5>2 DEF Perform
        <5>4. library = "list.c" => Ended'
          BY <3>2, <5>3 DEF Ended
        <5>5. library # "list.c" => Ended' \/ KeepsFit(heap, r.heap, l)
          <6>1. SUFFICES ASSUME library # "list.c" PROVE Ended' \/ KeepsFit(heap, r.heap, l)
            OBVIOUS
          <6>2. r = DumpRemove(heap, l)
            BY <3>5, <5>1, <6>1
          <6>3. KeepsFit(heap, r.heap, l) \/ TailLost(r.heap, l)
            BY <2>1, <2>4, <3>1, <3>3, <6>1, <6>2, DumpRemoveKeeps
          <6>4. TailLost(r.heap, l) => Ended'
            <7>1. l \in HeldLists'
              BY <3>2 DEF HeldLists, Holding
            <7>. QED  BY <5>3, <7>1 DEF TailLost, Ended
          <6>. QED  BY <6>3, <6>4
        <5>. QED  BY <3>4, <5>2, <5>4, <5>5
      <4>2. CASE Perform("List_trim", <<>>, OfLibrary(List_trim(heap, l), DumpTrim(heap, l)))
        <5>1. PICK r : r = OfLibrary(List_trim(heap, l), DumpTrim(heap, l))
          OBVIOUS
        <5>2. Perform("List_trim", <<>>, r)
          BY <4>2, <5>1
        <5>3. call'.fn = "List_trim"
          BY <5>2 DEF Perform
        <5>4. library = "list.c" => Keeps(heap, r.heap, l)
          <6>1. library = "list.c" => heap.list[l].num_nodes <= 2
            BY <1>3, <2>9, <5>3 DEF TrimsShort
          <6>. QED  BY <2>1, <2>4, <3>1, <3>3, <3>5, <5>1, <6>1, TrimsKeep
        <5>5. library # "list.c" => KeepsFit(heap, r.heap, l)
          BY <2>1, <2>4, <3>1, <3>3, <3>5, <5>1, TrimsKeep
        <5>. QED  BY <3>4, <5>2, <5>4, <5>5
      <4>. QED  BY <3>7, <4>1, <4>2 DEF TakeOut
    <3>8. ASSUME NEW item \in Item, Insert(l, item)
          PROVE  ListsKept' /\ FreeReturnsEverything'
      <4>1. library # "list.c" =>
              /\ KeepsFit(heap, List_add(heap, l, item).heap, l)
              /\ KeepsFit(heap, List_insert(heap, l, item).heap, l)
              /\ KeepsFit(heap, DumpAppend(heap, l, item).heap, l)
              /\ KeepsFit(heap, DumpPrepend(heap, l, item).heap, l)
        BY <2>1, <2>4, <3>1, <3>3, DumpInsertionsKeep
      <4>2. /\ Keeps(heap, List_insert_after(heap, l, item).heap, l)
            /\ Keeps(heap, List_append(heap, l, item).heap, l)
            /\ Keeps(heap, List_prepend(heap, l, item).heap, l)
            /\ library = "list.c" /\ call'.fn = "List_insert_before" =>
                 Keeps(heap, List_insert_before(heap, l, item).heap, l)
        <5>1. library = "list.c" /\ call'.fn = "List_insert_before" =>
                (heap.list[l].status = "LIST_OOB_START" =>
                   heap.list[l].curr \in {NULL, heap.list[l].head})
          BY <1>3, <2>9 DEF HeedsStatus
        <5>. QED  BY <2>1, <2>4, <3>1, <3>3, <5>1, InsertionsKeep
      <4>3. ASSUME NEW fn, NEW newer, NEW older, fn # "List_free",
                   Perform(fn, item, OfLibrary(newer, older)),
                   library = "list.c" => Keeps(heap, newer.heap, l),
                   library # "list.c" => KeepsFit(heap, older.heap, l)
            PROVE  ListsKept' /\ FreeReturnsEverything'
        <5>1. PICK r : r = OfLibrary(newer, older)
          OBVIOUS
        <5>2. Perform(fn, item, r)
          BY <4>3, <5>1
        <5>3. library = "list.c" => Keeps(heap, r.heap, l)
          BY <3>5, <4>3, <5>1
        <5>4. library # "list.c" => KeepsFit(heap, r.heap, l)
          BY <3>5, <4>3, <5>1
        <5>. QED  BY <3>4, <4>3, <5>2, <5>3, <5>4
      <4>4. CASE Perform("List_insert_after", item,
                   OfLibrary(List_insert_after(heap, l, item), List_add(heap, l, item)))
        BY <4>1, <4>2, <4>3, <4>4
      <4>5. CASE Perform("List_insert_before", item,
                   OfLibrary(List_insert_before(heap, l, item), List_insert(heap, l, item)))
        <5>1. call'.fn = "List_insert_before"
          BY <4>5 DEF Perform
        <5>. QED  BY <4>1, <4>2, <4>3, <4>5, <5>1
      <4>6. CASE Perform("List_append", item,
                   OfLibrary(List_append(heap, l, item), DumpAppend(heap, l, item)))
        BY <4>1, <4>2, <4>3, <4>6
      <4>7. CASE Perform("List_prepend", item,
                   OfLibrary(List_prepend(heap, l, item), DumpPrepend(heap, l, item)))
        BY <4>1, <4>2, <4>3, <4>7
      <4>. QED  BY <3>8, <4>4, <4>5, <4>6, <4>7 DEF Insert
    <3>9. ASSUME NEW match \in SUBSET Item, Search(l, match)
          PROVE  ListsKept' /\ FreeReturnsEverything'
      <4>1. PICK r : r = OfLibrary(List_search(heap, l, match), DumpSearch(heap, l, match))
        OBVIOUS
      <4>2. Perform("List_search", match, r)
        BY <3>9, <4>1 DEF Search
      <4>3. library = "list.c" => Keeps(heap, r.heap, l)
        BY <2>1, <2>4, <3>1, <3>3, <3>5, <4>1, SearchKeeps
      <4>4. library # "list.c" => KeepsFit(heap, r.heap, l)
        BY <2>1, <2>4, <3>1, <3>3, <3>5, <4>1, DumpSearchKeeps
      <4>. QED  BY <3>4, <4>2, <4>3, <4>4
    <3>. QED  BY <2>9, <3>6, <3>7, <3>8, <3>9
  <2>. QED  BY <1>3, <2>5, <2>8, <2>9 DEF Next
<1>. QED  BY <1>1, <1>2, <1>3

\* so it always holds.
LEMMA KeptAlways == CarefulSpec => []KeptSafely
<1>1. Init => KeptSafely
  <2>1. ASSUME Init PROVE KeptSafely
    <3>1. WellTyped /\ HeldIsLast
      BY <2>1, StaticTyped DEF Init, WellTyped, HeldIsLast
    <3>2. HeldLists = {} /\ FreeReturnsEverything
      BY <2>1 DEF Init, HeldLists, Holding, FreeReturnsEverything, NoCall
    <3>. QED  BY <3>1, <3>2 DEF KeptSafely, ListsKept
  <2>. QED  BY <2>1
<1>. QED  BY <1>1, KeptStep, PTL DEF CarefulSpec

\* In both libraries the list that is held stays one chain, linked both ways
\* between its ends, as long as num_nodes says and with the cursor on it, whatever
\* functions are called (list.c:146-388, 464-487, dump/list.c:166-432): as
\* long as no call ends or breaks it, and in list.c none trims a list of three or
\* inserts before a cursor that the status misplaces.
THEOREM ListsStayLinked == CarefulSpec => []ListsLinked
<1>1. KeptSafely => ListsLinked
  <2>1. SUFFICES ASSUME KeptSafely, ~heap.fault, ~Ended, NEW l \in HeldLists
                 PROVE  Linked(heap, l)
    BY DEF ListsLinked
  <2>2. heap \in Heap /\ l = TheList /\ TheList \in ListId
    BY <2>1, HeapAssumption DEF KeptSafely, WellTyped, HeldIsLast, HeldLists, Holding,
                                TheList, ListId
  <2>3. PICK u, n, p, m : Intact(heap, l, u, n, p, m)
    BY <2>1, <2>2 DEF KeptSafely, ListsKept, Whole
  <2>. QED  BY <2>2, <2>3, IntactLinked
<1>. QED  BY <1>1, KeptAlways, PTL

\* All the while every node is on the list or unused and none is both, and the
\* counter of freeNodes counts the unused ones (list.c:22-51, dump/list.c:25-58).
THEOREM NodesStayConserved == CarefulSpec => []NodesConserved
<1>1. KeptSafely => NodesConserved
  <2>1. SUFFICES ASSUME KeptSafely, ~heap.fault, ~Ended, NEW l \in HeldLists
        PROVE  /\ NodesIn(NodesOf(heap, l)) \intersect NodesIn(UnusedNodes(heap)) = {}
               /\ NodesIn(NodesOf(heap, l)) \union NodesIn(UnusedNodes(heap)) = NodeId
               /\ Len(UnusedNodes(heap)) = heap.list[freeNodes].num_nodes
    BY DEF NodesConserved
  <2>2. heap \in Heap /\ l = TheList /\ TheList \in ListId
    BY <2>1, HeapAssumption DEF KeptSafely, WellTyped, HeldIsLast, HeldLists, Holding,
                                TheList, ListId
  <2>3. PICK u, n, p, m : Intact(heap, l, u, n, p, m)
    BY <2>1, <2>2 DEF KeptSafely, ListsKept, Whole
  <2>. QED  BY <2>2, <2>3, IntactConserved
<1>. QED  BY <1>1, KeptAlways, PTL

\* When List_free returns, all nodes are unused and all heads can be handed out
\* again: in list.c it returns for an empty list only, in dump/list.c it takes out
\* the items one by one (list.c:426-450, dump/list.c:362-376).
THEOREM FreeGivesAllBack == CarefulSpec => []FreeReturnsEverything
<1>1. KeptSafely => FreeReturnsEverything
  BY DEF KeptSafely
<1>. QED  BY <1>1, KeptAlways, PTL

-----------------------------------------------------------------------------
(* What a careful client's calls do.                                       *)

\* A call of a function that works on the list held, in a state that is kept.
Calls(l) ==
  /\ l = TheList /\ l \in ListId /\ heap \in Heap /\ ~heap.fault
  /\ Whole(heap, l) /\ (library # "list.c" => StatusFits(heap, l))
  /\ library' = library /\ held' = held
  /\ \/ Navigate(l)
     \/ TakeOut(l)
     \/ \E item \in Item : Insert(l, item)
     \/ \E match \in SUBSET Item : Search(l, match)

\* Every step of the client is one, but for the creation and the end of the list.
LEMMA StepCalls ==
  ASSUME KeptSafely, Next, ~Ended, NEW l \in HeldLists,
         call'.fn \notin {"List_create", "List_concat", "List_free"}
  PROVE  Calls(l)
<1>1. heap \in Heap /\ TheList \in ListId /\ \A x \in HeldLists : x = TheList
  BY HeapAssumption DEF KeptSafely, WellTyped, HeldIsLast, HeldLists, Holding, TheList, ListId
<1>2. ~(\E o \in Owner : Create(o))
  BY DEF Create
<1>3. ~(\E o \in Holding : Free(o) \/ \E o2 \in Holding \ {o} : Concat(o, o2))
  BY DEF Free, Concat, GiveUp
<1>4. \/ Navigate(l)
      \/ TakeOut(l)
      \/ \E item \in Item : Insert(l, item)
      \/ \E match \in SUBSET Item : Search(l, match)
  BY <1>1, <1>2, <1>3 DEF Next
<1>5. ~heap.fault /\ held' = held /\ library' = library
  BY <1>4 DEF Navigate, TakeOut, Insert, Search, Perform
<1>6. Whole(heap, TheList) /\ (library # "list.c" => StatusFits(heap, TheList))
  BY <1>5 DEF KeptSafely, ListsKept
<1>. QED  BY <1>1, <1>4, <1>5, <1>6 DEF Calls

\* What is called, by its name.
LEMMA CallNamed ==
  ASSUME NEW l, Calls(l)
  PROVE  /\ call'.fn = "List_remove" =>
              Perform("List_remove", <<>>, OfLibrary(List_remove(heap, l), DumpRemove(heap, l)))
         /\ call'.fn = "List_search" => \E match \in SUBSET Item : Search(l, match)
<1>1. call'.fn = "List_remove" => TakeOut(l)
  BY DEF Calls, Navigate, Insert, Search, Perform
<1>2. call'.fn = "List_search" => \E match \in SUBSET Item : Search(l, match)
  BY DEF Calls, Navigate, Insert, TakeOut, Perform
<1>. QED  BY <1>1, <1>2 DEF TakeOut, Perform

\* Whatever List_remove does to the links, it returns the cursor's item and its
\* node is the next that will be given out (list.c:333-356, dump/list.c:316-338).
THEOREM RemoveAlwaysFrees == CarefulSpec => RemoveFreesCursorNode
<1>1. KeptSafely /\ [Next /\ TrimsShort /\ HeedsStatus /\ ~Ended]_vars => [CursorNodeFreed]_vars
  <2>1. SUFFICES ASSUME KeptSafely, Next, ~Ended PROVE CursorNodeFreed
    OBVIOUS
  <2>2. SUFFICES ASSUME NEW l \in HeldLists, call'.fn = "List_remove", NEW at,
                        at = CursorIndex(heap, l)
                 PROVE  IF isListOOB(heap, l) \/ at = 0 THEN heap' = heap /\ call'.ret = NoItem
                        ELSE /\ call'.ret = ItemsOf(heap, l)[at]
                             /\ UnusedNodes(heap') = <<NodesOf(heap, l)[at]>> \o UnusedNodes(heap)
    BY DEF CursorNodeFreed
  <2>3. Calls(l)
    BY <2>1, <2>2, StepCalls
  <2>4. PICK r \in {List_remove(heap, l), DumpRemove(heap, l)} :
               heap' = r.heap /\ call'.ret = r.ret
    BY <2>2, <2>3, CallNamed DEF Perform, OfLibrary
  <2>5. heap \in Heap /\ l \in ListId /\ Whole(heap, l)
    BY <2>3 DEF Calls
  <2>. QED  BY <2>2, <2>4, <2>5, RemovesFree
<1>. QED  BY <1>1, KeptAlways, PTL DEF CarefulSpec, RemoveFreesCursorNode

\* Both searches are exact on a whole list.
LEMMA SearchesExact ==
  ASSUME NEW h \in Heap, NEW l \in ListId, NEW match \in SUBSET Item, Whole(h, l),
         NEW newer \in BOOLEAN, ~newer => StatusFits(h, l), NEW r,
         r = IF newer THEN List_search(h, l, match) ELSE DumpSearch(h, l, match),
         ~r.heap.fault, NEW from, from = CursorIndex(h, l)
  PROVE  /\ r.ret # NoItem =>
              r.ret \in match /\ r.heap.node[r.heap.list[l].curr].item = r.ret
         /\ r.ret = NoItem /\ (newer => h.list[l].status = "LIST_OOB_NONE" /\ from > 0) =>
              \A i \in DOMAIN ItemsOf(h, l) : i >= from => ItemsOf(h, l)[i] \notin match
<1>1. PICK u, n, p, m : Intact(h, l, u, n, p, m)
  BY DEF Whole
<1>2. /\ n \in Nat /\ u \in [1 .. n -> NodeId] /\ OnList(h.list[l].curr, u, n)
      /\ \A i \in 1 .. n : h.list[l].curr = u[i] => from = i
      /\ h.list[l].curr = NULL => from = 0
  <2>1. n \in Nat /\ u \in [1 .. n -> NodeId] /\ OnList(h.list[l].curr, u, n)
    BY <1>1, IntactEnds
  <2>. QED  BY <1>1, <2>1, CursorIndexIs
<1>3. DOMAIN ItemsOf(h, l) = 1 .. n /\ \A i \in 1 .. n : ItemsOf(h, l)[i] = h.node[u[i]].item
  <2>1. ItemsOf(h, l) = ItemsIn(h, u, n)
    BY <1>1, ItemsAre
  <2>. QED  BY <2>1 DEF ItemsIn
<1>4. NoItem \notin match /\ from \in Nat
  BY <1>2, ClientAssumption DEF OnList
<1>5. CASE newer
  <2>1. r = List_search(h, l, match)
    BY <1>5
  <2>2. PICK start \in Heap : /\ Intact(start, l, u, n, p, m)
                              /\ h.list[l].status = "LIST_OOB_NONE" => start = h
                              /\ Searched(start, r, l, match, u, n)
    BY <1>1, <2>1, SearchIs
  <2>3. CASE start.list[l].curr = NULL /\ r.heap = start /\ r.ret = NoItem
    BY <1>2, <1>5, <2>2, <2>3
  <2>4. ASSUME NEW i \in 1 .. n, start.list[l].curr = u[i], NEW j \in i .. n,
               Cursor(start, r.heap, l, u[j], start.list[l].status),
               r.ret = start.node[u[j]].item, r.ret \in match
        PROVE  r.ret # NoItem /\ r.heap.node[r.heap.list[l].curr].item = r.ret
    BY <1>4, <2>4 DEF Cursor, Moved
  <2>5. ASSUME NEW i \in 1 .. n, start.list[l].curr = u[i], r.ret = NoItem,
               \A j \in i .. n : start.node[u[j]].item \notin match,
               h.list[l].status = "LIST_OOB_NONE"
        PROVE  \A j \in 1 .. n : j >= from => h.node[u[j]].item \notin match
    <3>1. start = h /\ from = i
      BY <1>2, <2>2, <2>5
    <3>. QED  BY <1>2, <2>5, <3>1
  <2>6. CASE ~(start.list[l].curr = NULL /\ r.heap = start /\ r.ret = NoItem)
    <3>1. PICK i \in 1 .. n :
       /\ start.list[l].curr = u[i]
       /\ \/ \E j \in i .. n :
               /\ Cursor(start, r.heap, l, u[j], start.list[l].status)
               /\ r.ret = start.node[u[j]].item /\ r.ret \in match
          \/ /\ \A j \in i .. n : start.node[u[j]].item \notin match
             /\ r.ret = NoItem
      BY <2>2, <2>6 DEF Searched
    <3>. QED  BY <1>3, <1>5, <2>4, <2>5, <3>1
  <2>. QED  BY <2>3, <2>6
<1>6. CASE ~newer
  <2>1. r = DumpSearch(h, l, match) /\ StatusFits(h, l)
    BY <1>6
  <2>2. \/ r.ret \in match /\ r.ret = r.heap.node[r.heap.list[l].curr].item
        \/ r.ret = NoItem /\ Passed(h, l, match, u, n + 1)
    BY <1>1, <2>1, DumpSearchIs
  <2>3. ASSUME Passed(h, l, match, u, n + 1), NEW i \in 1 .. n, i >= from
        PROVE  h.node[u[i]].item \notin match
    BY <1>2, <1>4, <2>3 DEF Passed
  <2>. QED  BY <1>3, <1>4, <2>2, <2>3
<1>. QED  BY <1>5, <1>6

\* List_search finds a match and leaves the cursor on it, or has passed over none
\* (list.c:464-487, dump/list.c:409-432).
THEOREM SearchAlwaysExact == CarefulSpec => SearchIsExact
<1>1. KeptSafely /\ [Next /\ TrimsShort /\ HeedsStatus /\ ~Ended]_vars => [FoundExactly]_vars
  <2>1. SUFFICES ASSUME KeptSafely, Next, ~Ended PROVE FoundExactly
    OBVIOUS
  <2>2. SUFFICES ASSUME NEW l \in HeldLists, call'.fn = "List_search", ~heap'.fault,
                        NEW from, from = CursorIndex(heap, l)
                 PROVE  IF call'.ret # NoItem
                        THEN /\ call'.ret \in call'.arg
                             /\ heap'.node[heap'.list[l].curr].item = call'.ret
                        ELSE OfLibrary(heap.list[l].status = "LIST_OOB_NONE" /\ from > 0, TRUE) =>
                               \A i \in {i \in DOMAIN ItemsOf(heap, l) : i >= from} :
                                  ItemsOf(heap, l)[i] \notin call'.arg
    BY DEF FoundExactly
  <2>3. Calls(l)
    BY <2>1, <2>2, StepCalls
  <2>4. PICK match \in SUBSET Item : Search(l, match)
    BY <2>2, <2>3, CallNamed
  <2>5. PICK newer \in BOOLEAN : newer <=> library = "list.c"
    OBVIOUS
  <2>6. PICK r : r = IF newer THEN List_search(heap, l, match) ELSE DumpSearch(heap, l, match)
    OBVIOUS
  <2>7. heap' = r.heap /\ call'.ret = r.ret /\ call'.arg = match
    BY <2>4, <2>5, <2>6 DEF Search, Perform, OfLibrary
  <2>8. heap \in Heap /\ l \in ListId /\ Whole(heap, l) /\ (~newer => StatusFits(heap, l))
    BY <2>3, <2>5 DEF Calls
  <2>9. /\ r.ret # NoItem =>
              r.ret \in match /\ r.heap.node[r.heap.list[l].curr].item = r.ret
        /\ r.ret = NoItem /\ (newer => heap.list[l].status = "LIST_OOB_NONE" /\ from > 0) =>
              \A i \in DOMAIN ItemsOf(heap, l) : i >= from => ItemsOf(heap, l)[i] \notin match
    BY <2>2, <2>6, <2>7, <2>8, SearchesExact
  <2>. QED  BY <2>5, <2>7, <2>9 DEF OfLibrary
<1>. QED  BY <1>1, KeptAlways, PTL DEF CarefulSpec, SearchIsExact

-----------------------------------------------------------------------------
(* What a call does to the contents.                                       *)

\* A sequence with one element more is what InsertAt of SequencesExt says,
LEMMA IntoIs ==
  ASSUME NEW S, NEW x \in S, NEW n \in Nat, NEW s \in [1 .. n -> S], NEW k \in 1 .. n + 1
  PROVE  Into(s, n, k, x) = InsertAt(s, k, x)
<1>1. s \in Seq(S) /\ Len(s) = n
  OBVIOUS
<1>2. PICK a : a = SubSeq(s, 1, k - 1)
  OBVIOUS
<1>3. PICK b : b = SubSeq(s, k, n)
  OBVIOUS
<1>4. a \in Seq(S) /\ Len(a) = k - 1 /\ \A i \in 1 .. k - 1 : a[i] = s[i]
  BY <1>1, <1>2
<1>5. b \in Seq(S) /\ Len(b) = n + 1 - k /\ \A i \in 1 .. n + 1 - k : b[i] = s[k + i - 1]
  BY <1>1, <1>3
<1>6. PICK c : c = a \o <<x>>
  OBVIOUS
<1>7. /\ c \in Seq(S) /\ Len(c) = k
      /\ \A i \in 1 .. k : c[i] = IF i < k THEN s[i] ELSE x
  BY <1>4, <1>6
<1>8. PICK t : t = c \o b
  OBVIOUS
<1>9. /\ t \in Seq(S) /\ Len(t) = n + 1
      /\ \A i \in 1 .. n + 1 : t[i] = IF i <= k THEN c[i] ELSE b[i - k]
  BY <1>5, <1>7, <1>8
<1>10. \A i \in 1 .. n + 1 : t[i] = IF i < k THEN s[i] ELSE IF i = k THEN x ELSE s[i - 1]
  <2>1. ASSUME NEW i \in 1 .. n + 1
        PROVE  t[i] = IF i < k THEN s[i] ELSE IF i = k THEN x ELSE s[i - 1]
    <3>1. CASE i <= k
      BY <1>7, <1>9, <3>1
    <3>2. CASE i > k
      <4>1. i - k \in 1 .. n + 1 - k /\ k + (i - k) - 1 = i - 1
        BY <3>2
      <4>. QED  BY <1>5, <1>9, <3>2, <4>1
    <3>. QED  BY <3>1, <3>2
  <2>. QED  BY <2>1
<1>11. t = [i \in 1 .. n + 1 |-> t[i]]
  BY <1>9
<1>12. t = Into(s, n, k, x)
  BY <1>10, <1>11 DEF Into
<1>13. InsertAt(s, k, x) = t
  BY <1>1, <1>2, <1>3, <1>6, <1>8 DEF InsertAt
<1>. QED  BY <1>12, <1>13

\* and one with one less what RemoveAt says.
LEMMA WithoutIs ==
  ASSUME NEW S, NEW n \in Nat, NEW s \in [1 .. n -> S], NEW k \in 1 .. n
  PROVE  Without(s, n, k) = RemoveAt(s, k)
<1>1. s \in Seq(S) /\ Len(s) = n
  OBVIOUS
<1>2. PICK a : a = SubSeq(s, 1, k - 1)
  OBVIOUS
<1>3. PICK b : b = SubSeq(s, k + 1, n)
  OBVIOUS
<1>4. a \in Seq(S) /\ Len(a) = k - 1 /\ \A i \in 1 .. k - 1 : a[i] = s[i]
  BY <1>1, <1>2
<1>5. b \in Seq(S) /\ Len(b) = n - k /\ \A i \in 1 .. n - k : b[i] = s[k + i]
  BY <1>1, <1>3
<1>6. PICK t : t = a \o b
  OBVIOUS
<1>7. /\ t \in Seq(S) /\ Len(t) = n - 1
      /\ \A i \in 1 .. n - 1 : t[i] = IF i < k THEN a[i] ELSE b[i - (k - 1)]
  <2>1. PICK d \in Nat : d = k - 1
    OBVIOUS
  <2>2. PICK e \in Nat : e = n - k
    OBVIOUS
  <2>3. a \in Seq(S) /\ b \in Seq(S) /\ Len(a) = d /\ Len(b) = e
    BY <1>4, <1>5, <2>1, <2>2
  <2>4. /\ t \in Seq(S) /\ Len(t) = d + e
        /\ \A i \in 1 .. d + e : t[i] = IF i <= d THEN a[i] ELSE b[i - d]
    BY <1>6, <2>3, ConcatProperties
  <2>. QED  BY <2>1, <2>2, <2>4
<1>8. \A i \in 1 .. n - 1 : t[i] = IF i < k THEN s[i] ELSE s[i + 1]
  <2>1. ASSUME NEW i \in 1 .. n - 1 PROVE t[i] = IF i < k THEN s[i] ELSE s[i + 1]
    <3>1. CASE i < k
      BY <1>4, <1>7, <3>1
    <3>2. CASE i >= k
      <4>1. i - (k - 1) \in 1 .. n - k /\ k + (i - (k - 1)) = i + 1
        BY <3>2
      <4>. QED  BY <1>5, <1>7, <3>2, <4>1
    <3>. QED  BY <3>1, <3>2
  <2>. QED  BY <2>1
<1>9. t = [i \in 1 .. n - 1 |-> t[i]]
  BY <1>7
<1>10. t = Without(s, n, k)
  BY <1>8, <1>9 DEF Without
<1>11. RemoveAt(s, k) = t
  BY <1>1, <1>2, <1>3, <1>6 DEF RemoveAt
<1>. QED  BY <1>10, <1>11

\* The last element and those before it.
LEMMA FrontIs ==
  ASSUME NEW S, NEW n \in Nat, n # 0, NEW s \in [1 .. n -> S]
  PROVE  Without(s, n, n) = Front(s) /\ Last(s) = s[n]
<1>1. s \in Seq(S) /\ Len(s) = n
  OBVIOUS
<1>2. PICK a : a = SubSeq(s, 1, n - 1)
  OBVIOUS
<1>3. a \in Seq(S) /\ Len(a) = n - 1 /\ \A i \in 1 .. n - 1 : a[i] = s[i]
  BY <1>1, <1>2
<1>4. a = [i \in 1 .. n - 1 |-> a[i]]
  BY <1>3
<1>5. \A i \in 1 .. n - 1 : a[i] = IF i < n THEN s[i] ELSE s[i + 1]
  BY <1>3
<1>6. a = Without(s, n, n)
  BY <1>4, <1>5 DEF Without
<1>7. Front(s) = a
  BY <1>1, <1>2 DEF Front
<1>8. Last(s) = s[n]
  BY <1>1 DEF Last
<1>. QED  BY <1>6, <1>7, <1>8

\* The items of a list are a sequence.
LEMMA ItemsTyped ==
  ASSUME NEW h \in Heap, NEW n \in Nat, NEW u \in [1 .. n -> NodeId]
  PROVE  ItemsIn(h, u, n) \in [1 .. n -> Item \union {NoItem}]
<1>1. h.node \in [NodeId -> Node]
  BY DEF Heap
<1>2. \A i \in 1 .. n : h.node[u[i]].item \in Item \union {NoItem}
  BY <1>1 DEF Node
<1>. QED  BY <1>2 DEF ItemsIn

\* An insertion at place k of the contents, and one that has got no node.
InsertedAt(h, r, l, item, k) ==
  /\ UnusedNodes(h) # <<>> =>
       /\ r.ret = "LIST_SUCCESS"
       /\ ItemsOf(r.heap, l) = InsertAt(ItemsOf(h, l), k, item)
       /\ CursorIndex(r.heap, l) = k
  /\ UnusedNodes(h) = <<>> => r.ret = "LIST_FAIL" /\ ItemsOf(r.heap, l) = ItemsOf(h, l)
  /\ CursorThere(r.heap, l)
  /\ k > 0 /\ r.heap.fault = h.fault

\* The surgery that puts a node at place k of the chain does that, after whatever
\* move of the cursor.
LEMMA InsertsFollow ==
  ASSUME NEW h \in Heap, NEW l \in ListId, NEW item \in Item, NEW u, NEW n, NEW p, NEW m,
         Intact(h, l, u, n, p, m), NEW f, Moved(h, f, l), Intact(f, l, u, n, p, m),
         CursorThere(f, l), NEW r, r.heap \in Heap, NEW k \in 1 .. n + 1,
         Inserts(f, r, l, item, u, n, p, m, k)
  PROVE  InsertedAt(h, r, l, item, k)
<1>1. /\ n \in Nat /\ u \in [1 .. n -> NodeId] /\ m \in Nat /\ p \in [1 .. m -> NodeId]
      /\ f.node = h.node /\ f.fault = h.fault /\ k > 0
  BY DEF Intact, Threaded, Pooled, Moved, SameRest
<1>2. UnusedNodes(h) = p /\ (p = <<>> <=> m = 0)
  <2>1. UnusedNodes(h) = p
    BY IntactChains
  <2>2. Len(p) = m /\ (m = 0 => p = <<>>)
    BY <1>1
  <2>3. p = <<>> => Len(p) = 0
    OBVIOUS
  <2>. QED  BY <2>1, <2>2, <2>3
<1>3. PICK s : s = ItemsIn(h, u, n)
  OBVIOUS
<1>4. /\ s \in [1 .. n -> Item \union {NoItem}] /\ ItemsOf(h, l) = s
      /\ \A i \in 1 .. n : s[i] = h.node[u[i]].item
  <2>1. s \in [1 .. n -> Item \union {NoItem}]
    BY <1>1, <1>3, ItemsTyped
  <2>2. \A i \in 1 .. n : s[i] = h.node[u[i]].item
    BY <1>3 DEF ItemsIn
  <2>. QED  BY <1>3, <2>1, <2>2, ItemsAre
<1>5. CASE m = 0
  <2>1. r.heap = f /\ r.ret = "LIST_FAIL"
    BY <1>5 DEF Inserts
  <2>2. ItemsOf(f, l) = ItemsIn(f, u, n)
    BY <2>1, ItemsAre
  <2>3. ItemsIn(f, u, n) = s
    BY <1>1, <1>3 DEF ItemsIn
  <2>. QED  BY <1>1, <1>2, <1>4, <1>5, <2>1, <2>2, <2>3 DEF InsertedAt
<1>6. CASE m # 0
  <2>1. Put(f, r, l, item, u, n, p, m, k)
    BY <1>6 DEF Inserts
  <2>2. /\ r.ret = "LIST_SUCCESS" /\ Spliced(f, r.heap, l, u, n, p, m, k)
        /\ r.heap.node[p[1]].item = item
        /\ \A i \in 1 .. n : r.heap.node[u[i]].item = h.node[u[i]].item
        /\ r.heap.fault = h.fault
    BY <1>1, <2>1 DEF Put, SameRest
  <2>3. r.heap.list[l].curr = p[1]
    BY <2>2 DEF Spliced
  <2>4. PICK v : v = Into(u, n, k, p[1])
    OBVIOUS
  <2>5. Intact(r.heap, l, v, n + 1, Rest(p, m), m - 1)
    BY <1>6, <2>2, <2>4, SplicedIntact
  <2>6. /\ v[k] = p[1] /\ \A i \in 1 .. n + 1 :
             v[i] = IF i < k THEN u[i] ELSE IF i = k THEN p[1] ELSE u[i - 1]
    BY <1>1, <2>4 DEF Into
  <2>7. CursorIndex(r.heap, l) = k
    BY <1>1, <2>3, <2>5, <2>6, CursorIndexIs
  <2>8. ItemsOf(r.heap, l) = ItemsIn(r.heap, v, n + 1)
    BY <2>5, ItemsAre
  <2>9. ItemsIn(r.heap, v, n + 1) = Into(s, n, k, item)
    <3>1. ASSUME NEW i \in 1 .. n + 1
          PROVE  r.heap.node[v[i]].item =
                   IF i < k THEN s[i] ELSE IF i = k THEN item ELSE s[i - 1]
      <4>1. i < k => i \in 1 .. n
        BY <1>1
      <4>2. i > k => i - 1 \in 1 .. n
        BY <1>1
      <4>. QED  BY <1>4, <2>2, <2>6, <4>1, <4>2
    <3>. QED  BY <3>1 DEF ItemsIn, Into
  <2>10. Into(s, n, k, item) = InsertAt(s, k, item)
    BY <1>1, <1>4, IntoIs, ZenonT(60)
  <2>11. CursorThere(r.heap, l)
    BY <1>1, <1>6, <2>3, Pointers DEF CursorThere
  <2>. QED  BY <1>1, <1>2, <1>4, <1>6, <2>2, <2>7, <2>8, <2>9, <2>10, <2>11 DEF InsertedAt
<1>. QED  BY <1>5, <1>6

\* Where the insertions put their item, by the status and the cursor: where list.h
\* says, and where the status misleads them to.
PlaceTaken(h, l, fn) ==
  LET cursor == CursorIndex(h, l)
      last   == Len(NodesOf(h, l)) + 1
      after  == CASE h.list[l].status = "LIST_OOB_START" ->
                       OfLibrary(cursor + 1, 1)
                  [] h.list[l].status = "LIST_OOB_END"   -> last
                  [] h.list[l].status = "LIST_OOB_NONE"  -> cursor + 1
      before == CASE h.list[l].status = "LIST_OOB_START" -> 1
                  [] h.list[l].status = "LIST_OOB_END"   ->
                       OfLibrary(IF cursor = 0 THEN 1 ELSE cursor, last)
                  [] h.list[l].status = "LIST_OOB_NONE"  -> cursor
  IN  CASE fn = "List_prepend"       -> 1
        [] fn = "List_append"        -> last
        [] fn = "List_insert_after"  -> after
        [] fn = "List_insert_before" -> before

\* For a cursor at place i or at none.
LEMMA PositionIs ==
  ASSUME NEW h \in Heap, NEW l \in ListId, NEW u, NEW n, NEW p, NEW m,
         Intact(h, l, u, n, p, m), NEW i, i = CursorIndex(h, l), NEW s, s = h.list[l].status,
         s \in Status
  PROVE  /\ PlaceTaken(h, l, "List_prepend") = 1
         /\ PlaceTaken(h, l, "List_append") = n + 1
         /\ PlaceTaken(h, l, "List_insert_after") =
              CASE s = "LIST_OOB_START" -> OfLibrary(i + 1, 1)
                [] s = "LIST_OOB_END"   -> n + 1
                [] s = "LIST_OOB_NONE"  -> i + 1
         /\ PlaceTaken(h, l, "List_insert_before") =
              CASE s = "LIST_OOB_START" -> 1
                [] s = "LIST_OOB_END"   -> OfLibrary(IF i = 0 THEN 1 ELSE i, n + 1)
                [] s = "LIST_OOB_NONE"  -> i
<1>1. Len(NodesOf(h, l)) = n
  <2>1. n \in Nat /\ u \in [1 .. n -> NodeId]
    BY DEF Intact, Threaded
  <2>2. Len(u) = n
    BY <2>1
  <2>. QED  BY <2>2, IntactChains
<1>. QED  BY <1>1 DEF PlaceTaken

\* The status fits the cursor as far as an insertion needs.
HeedsAt(h, l, fn) ==
  IF library = "list.c"
  THEN fn = "List_insert_before" =>
         (h.list[l].status = "LIST_OOB_START" => h.list[l].curr \in {NULL, h.list[l].head})
  ELSE StatusFits(h, l)

\* What is not misled goes where list.h says (list.c:248-305, dump/list.c:243-300).
LEMMA PlaceIsPromised ==
  ASSUME NEW h \in Heap, NEW l \in ListId, Whole(h, l), CursorThere(h, l),
         NEW fn \in Insertions, HeedsAt(h, l, fn), ~Misled(h, l, fn)
  PROVE  PlaceTaken(h, l, fn) = PromisedPosition(h, l, fn)
<1>1. PICK u, n, p, m : Intact(h, l, u, n, p, m)
  BY DEF Whole
<1>2. PICK s \in Status : s = h.list[l].status
  BY Fields, Pointers
<1>3. PICK i : i = CursorIndex(h, l)
  OBVIOUS
<1>4. /\ n \in Nat
      /\ n = 0 => h.list[l].curr = NULL
      /\ n # 0 => h.list[l].head = u[1] /\ h.list[l].tail = u[n] /\ 1 \in 1 .. n /\ n \in 1 .. n
      /\ OnList(h.list[l].curr, u, n)
      /\ \A j \in 1 .. n : u[j] \in NodeId
  BY <1>1, IntactEnds
<1>5. /\ h.list[l].curr = NULL => i = 0 /\ s # "LIST_OOB_NONE"
      /\ h.list[l].curr # NULL => i \in 1 .. n /\ h.list[l].curr = u[i]
      /\ \A j \in 1 .. n : h.list[l].curr = u[j] => i = j
  BY <1>1, <1>2, <1>3, <1>4, CursorIndexIs DEF CursorThere, OnList
<1>6. Len(NodesOf(h, l)) = n
  <2>1. Len(u) = n
    BY <1>1 DEF Intact, Threaded
  <2>. QED  BY <1>1, <2>1, IntactChains
<1>7. /\ h.list[l].curr = NULL <=> i = 0
      /\ i # 0 /\ h.list[l].curr = h.list[l].head => i = 1
      /\ i # 0 /\ h.list[l].curr = h.list[l].tail => i = n
      /\ i = 0 \/ i \in 1 .. n
  BY <1>4, <1>5
<1>8. s \in {"LIST_OOB_START", "LIST_OOB_END", "LIST_OOB_NONE"}
  BY <1>2 DEF Status
<1>9. CASE fn = "List_insert_after"
  <2>1. /\ s = "LIST_OOB_START" => PlaceTaken(h, l, fn) = OfLibrary(i + 1, 1)
        /\ s = "LIST_OOB_END" => PlaceTaken(h, l, fn) = n + 1
        /\ s = "LIST_OOB_NONE" => PlaceTaken(h, l, fn) = i + 1
        /\ PromisedPosition(h, l, fn) =
              IF i = 0 THEN IF s = "LIST_OOB_START" THEN 1 ELSE n + 1 ELSE i + 1
    <3>1. /\ s = "LIST_OOB_START" => PlaceTaken(h, l, "List_insert_after") = OfLibrary(i + 1, 1)
          /\ s = "LIST_OOB_END" => PlaceTaken(h, l, "List_insert_after") = n + 1
          /\ s = "LIST_OOB_NONE" => PlaceTaken(h, l, "List_insert_after") = i + 1
      BY <1>1, <1>2, <1>3, PositionIs
    <3>2. PromisedPosition(h, l, "List_insert_after") =
              IF i = 0 THEN IF s = "LIST_OOB_START" THEN 1 ELSE n + 1 ELSE i + 1
      BY <1>2, <1>3, <1>6 DEF PromisedPosition
    <3>. QED  BY <1>9, <3>1, <3>2
  <2>2. CASE library = "list.c"
    <3>1. ~(n > 0 /\ s = "LIST_OOB_START" /\ i = 0)
          /\ ~(n > 0 /\ s = "LIST_OOB_END" /\ i \in 1 .. n - 1)
      BY <1>2, <1>3, <1>6, <1>9, <2>2 DEF Misled
    <3>2. OfLibrary(i + 1, 1) = i + 1
      BY <2>2 DEF OfLibrary
    <3>3. s = "LIST_OOB_START" /\ i = 0 => n + 1 = 1 /\ i + 1 = 1
      BY <1>4, <3>1
    <3>4. s = "LIST_OOB_END" => i = 0 \/ n + 1 = i + 1
      BY <1>4, <1>7, <3>1
    <3>5. s = "LIST_OOB_NONE" => i # 0
      BY <1>5, <1>7
    <3>. QED  BY <1>8, <2>1, <3>2, <3>3, <3>4, <3>5
  <2>3. CASE library # "list.c"
    <3>1. ~(n > 0 /\ s = "LIST_OOB_START" /\ i > 0)
      BY <1>2, <1>3, <1>6, <1>9, <2>3 DEF Misled
    <3>2. s = "LIST_OOB_END" => i = 0 \/ i = n
      BY <1>2, <1>7, <2>3 DEF HeedsAt, StatusFits
    <3>3. OfLibrary(i + 1, 1) = 1
      BY <2>3 DEF OfLibrary
    <3>4. s = "LIST_OOB_START" => i = 0
      BY <1>4, <1>7, <3>1
    <3>5. s = "LIST_OOB_NONE" => i # 0
      BY <1>5, <1>7
    <3>. QED  BY <1>8, <2>1, <3>2, <3>3, <3>4, <3>5
  <2>. QED  BY <2>2, <2>3
<1>10. CASE fn = "List_insert_before"
  <2>1. /\ s = "LIST_OOB_START" => PlaceTaken(h, l, fn) = 1
        /\ s = "LIST_OOB_END" =>
             PlaceTaken(h, l, fn) = OfLibrary(IF i = 0 THEN 1 ELSE i, n + 1)
        /\ s = "LIST_OOB_NONE" => PlaceTaken(h, l, fn) = i
        /\ PromisedPosition(h, l, fn) =
              IF i = 0 THEN IF s = "LIST_OOB_START" THEN 1 ELSE n + 1 ELSE i
    <3>1. /\ s = "LIST_OOB_START" => PlaceTaken(h, l, "List_insert_before") = 1
          /\ s = "LIST_OOB_END" =>
               PlaceTaken(h, l, "List_insert_before") = OfLibrary(IF i = 0 THEN 1 ELSE i, n + 1)
          /\ s = "LIST_OOB_NONE" => PlaceTaken(h, l, "List_insert_before") = i
      BY <1>1, <1>2, <1>3, PositionIs
    <3>2. PromisedPosition(h, l, "List_insert_before") =
              IF i = 0 THEN IF s = "LIST_OOB_START" THEN 1 ELSE n + 1 ELSE i
      BY <1>2, <1>3, <1>6 DEF PromisedPosition
    <3>. QED  BY <1>10, <3>1, <3>2
  <2>2. s = "LIST_OOB_START" => i = 0 \/ i = 1
    BY <1>2, <1>7, <1>10 DEF HeedsAt, StatusFits
  <2>3. CASE library = "list.c"
    <3>1. ~(n > 0 /\ s = "LIST_OOB_END" /\ i = 0)
      BY <1>2, <1>3, <1>6, <1>10, <2>3 DEF Misled
    <3>. QED  BY <1>4, <1>5, <1>7, <1>8, <2>1, <2>2, <2>3, <3>1 DEF OfLibrary
  <2>4. CASE library # "list.c"
    <3>1. ~(n > 0 /\ s = "LIST_OOB_END" /\ i > 0)
      BY <1>2, <1>3, <1>6, <1>10, <2>4 DEF Misled
    <3>. QED  BY <1>4, <1>5, <1>7, <1>8, <2>1, <2>2, <2>4, <3>1 DEF OfLibrary
  <2>. QED  BY <2>3, <2>4
<1>11. CASE fn \in {"List_append", "List_prepend"}
  <2>1. PlaceTaken(h, l, "List_prepend") = 1 /\ PlaceTaken(h, l, "List_append") = n + 1
    BY <1>1, <1>2, <1>3, PositionIs
  <2>2. PromisedPosition(h, l, "List_prepend") = 1
        /\ PromisedPosition(h, l, "List_append") = n + 1
    BY <1>6 DEF PromisedPosition
  <2>. QED  BY <1>11, <2>1, <2>2
<1>. QED  BY <1>9, <1>10, <1>11 DEF Insertions

\* The insertions of list.c put the item there, or fault.
LEMMA InsertionsFollow ==
  ASSUME NEW h \in Heap, NEW l \in ListId, NEW item \in Item, Whole(h, l), CursorThere(h, l),
         library = "list.c",
         NEW fn \in Insertions, NEW r, r.heap \in Heap,
         ~r.heap.fault \/ ~Misled(h, l, fn),
         \/ fn = "List_insert_after" /\ r = List_insert_after(h, l, item)
         \/ /\ fn = "List_insert_before" /\ r = List_insert_before(h, l, item)
            /\ h.list[l].status = "LIST_OOB_START" => h.list[l].curr \in {NULL, h.list[l].head}
         \/ fn = "List_append" /\ r = List_append(h, l, item)
         \/ fn = "List_prepend" /\ r = List_prepend(h, l, item)
  PROVE  InsertedAt(h, r, l, item, PlaceTaken(h, l, fn))
<1>1. PICK u, n, p, m : Intact(h, l, u, n, p, m)
  BY DEF Whole
<1>2. PICK s \in Status : s = h.list[l].status
  BY Fields, Pointers
<1>3. PICK i : i = CursorIndex(h, l)
  OBVIOUS
<1>4. /\ n \in Nat /\ 1 \in 1 .. n + 1 /\ n + 1 \in 1 .. n + 1
      /\ \A j \in 1 .. n : j \in 1 .. n + 1 /\ j + 1 \in 1 .. n + 1 /\ j # 0
      /\ n = 0 => n + 1 = 1 /\ h.list[l].curr = NULL
      /\ n # 0 => h.list[l].head = u[1] /\ 1 \in 1 .. n
      /\ OnList(h.list[l].curr, u, n)
  BY <1>1, IntactEnds
<1>5. /\ h.list[l].curr = NULL => i = 0 /\ s # "LIST_OOB_NONE"
      /\ h.list[l].curr # NULL => i \in 1 .. n /\ h.list[l].curr = u[i]
      /\ \A j \in 1 .. n : h.list[l].curr = u[j] => i = j
  BY <1>1, <1>2, <1>3, <1>4, CursorIndexIs DEF CursorThere, OnList
<1>6. /\ PlaceTaken(h, l, "List_prepend") = 1
      /\ PlaceTaken(h, l, "List_append") = n + 1
      /\ PlaceTaken(h, l, "List_insert_after") =
           IF s = "LIST_OOB_END" THEN n + 1 ELSE i + 1
      /\ PlaceTaken(h, l, "List_insert_before") =
           IF s = "LIST_OOB_START" \/ i = 0 THEN 1 ELSE i
  <2>1. \A a, b : OfLibrary(a, b) = a
    BY DEF OfLibrary
  <2>. QED  BY <1>1, <1>2, <1>3, <1>5, <2>1, PositionIs DEF Status
<1>7. ASSUME NEW k \in 1 .. n + 1, Inserts(h, r, l, item, u, n, p, m, k)
      PROVE  InsertedAt(h, r, l, item, k)
  <2>1. Moved(h, h, l)
    BY DEF Moved, SameRest
  <2>. QED  BY <1>1, <1>7, <2>1, InsertsFollow
<1>8. CASE fn = "List_insert_after" /\ r = List_insert_after(h, l, item)
  <2>1. /\ n = 0 => Inserts(h, r, l, item, u, n, p, m, 1)
        /\ n # 0 /\ s = "LIST_OOB_END" => Inserts(h, r, l, item, u, n, p, m, n + 1)
        /\ \A j \in 1 .. n : s # "LIST_OOB_END" /\ h.list[l].curr = u[j] =>
             Inserts(h, r, l, item, u, n, p, m, j + 1)
        /\ n # 0 /\ m # 0 /\ s # "LIST_OOB_END" /\ h.list[l].curr = NULL => r.heap.fault
    BY <1>1, <1>2, <1>8, InsertAfterIs
  <2>2. CASE n = 0
    BY <1>4, <1>5, <1>6, <1>7, <1>8, <2>1, <2>2
  <2>3. CASE n # 0 /\ s = "LIST_OOB_END"
    BY <1>4, <1>6, <1>7, <1>8, <2>1, <2>3
  <2>4. CASE n # 0 /\ s # "LIST_OOB_END" /\ h.list[l].curr # NULL
    BY <1>4, <1>5, <1>6, <1>7, <1>8, <2>1, <2>4
  <2>5. CASE n # 0 /\ s # "LIST_OOB_END" /\ h.list[l].curr = NULL
    <3>0. Misled(h, l, fn)
      <4>1. Len(u) = n
        <5>1. n \in Nat /\ u \in [1 .. n -> NodeId]
          BY <1>1, IntactEnds
        <5>. QED  BY <5>1
      <4>2. Len(NodesOf(h, l)) = n /\ n > 0
        <5>1. NodesOf(h, l) = u
          BY <1>1, IntactChains
        <5>2. n > 0
          BY <1>4, <2>5
        <5>. QED  BY <4>1, <5>1, <5>2
      <4>3. s = "LIST_OOB_START"
        BY <1>2, <1>5, <2>5 DEF Status
      <4>. QED  BY <1>2, <1>3, <1>5, <1>8, <2>5, <4>2, <4>3 DEF Misled
    <3>1. m = 0
      BY <2>1, <2>5, <3>0
    <3>2. /\ consumeFreeNode(h, item).heap = h /\ consumeFreeNode(h, item).ret = NULL
      BY <1>1, <3>1, ConsumeIs DEF Intact
    <3>3. r = Failed(h)
      BY <1>8, <3>2 DEF List_insert_after
    <3>4. Inserts(h, r, l, item, u, n, p, m, 1)
      BY <3>1, <3>3 DEF Failed, Inserts
    <3>5. InsertedAt(h, r, l, item, 1)
      BY <1>4, <1>7, <3>4
    <3>. QED  BY <1>5, <1>6, <1>8, <2>5, <3>5
  <2>. QED  BY <2>2, <2>3, <2>4, <2>5
<1>9. CASE /\ fn = "List_insert_before" /\ r = List_insert_before(h, l, item)
           /\ s = "LIST_OOB_START" => h.list[l].curr \in {NULL, h.list[l].head}
  <2>1. /\ n = 0 => Inserts(h, r, l, item, u, n, p, m, 1)
        /\ n # 0 /\ h.list[l].curr = NULL => Inserts(h, r, l, item, u, n, p, m, 1)
        /\ \A j \in 1 .. n : h.list[l].curr = u[j] /\ (s = "LIST_OOB_START" => j = 1) =>
             Inserts(h, r, l, item, u, n, p, m, j)
    BY <1>1, <1>2, <1>9, InsertBeforeIs
  <2>2. CASE n = 0 \/ h.list[l].curr = NULL
    BY <1>4, <1>5, <1>6, <1>7, <1>9, <2>1, <2>2
  <2>3. CASE n # 0 /\ h.list[l].curr # NULL
    <3>1. s = "LIST_OOB_START" => i = 1
      BY <1>4, <1>5, <1>9, <2>3
    <3>2. Inserts(h, r, l, item, u, n, p, m, i) /\ i \in 1 .. n + 1 /\ i # 0
      BY <1>4, <1>5, <2>1, <2>3, <3>1
    <3>. QED  BY <1>6, <1>7, <1>9, <3>1, <3>2
  <2>. QED  BY <2>2, <2>3
<1>10. CASE \/ fn = "List_append" /\ r = List_append(h, l, item)
            \/ fn = "List_prepend" /\ r = List_prepend(h, l, item)
  <2>1. ASSUME NEW f \in {List_first(h, l).heap, List_last(h, l).heap},
               NEW k \in 1 .. n + 1, Inserts(f, r, l, item, u, n, p, m, k)
        PROVE  InsertedAt(h, r, l, item, k)
    <3>1. f \in Heap /\ Moved(h, f, l) /\ Intact(f, l, u, n, p, m)
      BY <1>1, MoveToIntact
    <3>2. CursorThere(f, l)
      BY <1>1, EndThere
    <3>. QED  BY <1>1, <2>1, <3>1, <3>2, InsertsFollow
  <2>. QED  BY <1>1, <1>4, <1>6, <1>10, <2>1, EndInsertsAre
<1>. QED  BY <1>2, <1>8, <1>9, <1>10

\* So do those of dump/list.c.
LEMMA DumpInsertionsFollow ==
  ASSUME NEW h \in Heap, NEW l \in ListId, NEW item \in Item, Whole(h, l), CursorThere(h, l),
         StatusFits(h, l), library # "list.c",
         NEW fn \in Insertions, NEW r, r.heap \in Heap,
         \/ fn = "List_insert_after" /\ r = List_add(h, l, item)
         \/ fn = "List_insert_before" /\ r = List_insert(h, l, item)
         \/ fn = "List_append" /\ r = DumpAppend(h, l, item)
         \/ fn = "List_prepend" /\ r = DumpPrepend(h, l, item)
  PROVE  InsertedAt(h, r, l, item, PlaceTaken(h, l, fn))
<1>1. PICK u, n, p, m : Intact(h, l, u, n, p, m)
  BY DEF Whole
<1>2. PICK s \in Status : s = h.list[l].status
  BY Fields, Pointers
<1>3. PICK i : i = CursorIndex(h, l)
  OBVIOUS
<1>4. /\ n \in Nat /\ 1 \in 1 .. n + 1 /\ n + 1 \in 1 .. n + 1
      /\ \A j \in 1 .. n : j \in 1 .. n + 1 /\ j + 1 \in 1 .. n + 1
      /\ n = 0 => n + 1 = 1 /\ h.list[l].curr = NULL
      /\ OnList(h.list[l].curr, u, n)
  BY <1>1, IntactEnds
<1>5. s = "LIST_OOB_NONE" => i \in 1 .. n /\ h.list[l].curr = u[i]
  BY <1>1, <1>2, <1>3, <1>4, CursorIndexIs DEF CursorThere, OnList
<1>6. /\ PlaceTaken(h, l, "List_prepend") = 1
      /\ PlaceTaken(h, l, "List_append") = n + 1
      /\ PlaceTaken(h, l, "List_insert_after") =
           CASE s = "LIST_OOB_START" -> 1
             [] s = "LIST_OOB_END"   -> n + 1
             [] s = "LIST_OOB_NONE"  -> i + 1
      /\ PlaceTaken(h, l, "List_insert_before") =
           CASE s = "LIST_OOB_START" -> 1
             [] s = "LIST_OOB_END"   -> n + 1
             [] s = "LIST_OOB_NONE"  -> i
  <2>1. \A a, b : OfLibrary(a, b) = b
    BY DEF OfLibrary
  <2>. QED  BY <1>1, <1>2, <1>3, <2>1, PositionIs DEF Status
<1>7. ASSUME NEW k \in 1 .. n + 1, Inserts(h, r, l, item, u, n, p, m, k)
      PROVE  InsertedAt(h, r, l, item, k)
  <2>1. Moved(h, h, l)
    BY DEF Moved, SameRest
  <2>. QED  BY <1>1, <1>7, <2>1, InsertsFollow
<1>8. CASE \/ fn = "List_insert_after" /\ r = List_add(h, l, item)
           \/ fn = "List_insert_before" /\ r = List_insert(h, l, item)
  <2>1. PICK k : k = PlaceTaken(h, l, fn)
    OBVIOUS
  <2>2. /\ s = "LIST_OOB_START" => Inserts(h, r, l, item, u, n, p, m, 1)
        /\ s = "LIST_OOB_END" => Inserts(h, r, l, item, u, n, p, m, n + 1)
        /\ s = "LIST_OOB_NONE" => /\ fn = "List_insert_after" =>
                                       Inserts(h, r, l, item, u, n, p, m, i + 1)
                                  /\ fn = "List_insert_before" =>
                                       Inserts(h, r, l, item, u, n, p, m, i)
    BY <1>1, <1>2, <1>5, <1>8, DumpInsertsAre
  <2>3. /\ s = "LIST_OOB_START" => k = 1
        /\ s = "LIST_OOB_END" => k = n + 1
        /\ s = "LIST_OOB_NONE" => k = IF fn = "List_insert_after" THEN i + 1 ELSE i
    BY <1>6, <1>8, <2>1
  <2>4. s \in {"LIST_OOB_START", "LIST_OOB_END", "LIST_OOB_NONE"}
    BY <1>2 DEF Status
  <2>5. k \in 1 .. n + 1 /\ Inserts(h, r, l, item, u, n, p, m, k)
    BY <1>4, <1>5, <1>8, <2>2, <2>3, <2>4
  <2>. QED  BY <1>7, <2>1, <2>5
<1>9. CASE \/ fn = "List_append" /\ r = DumpAppend(h, l, item)
           \/ fn = "List_prepend" /\ r = DumpPrepend(h, l, item)
  <2>1. ASSUME NEW f \in {List_first(h, l).heap, List_last(h, l).heap},
               NEW k \in 1 .. n + 1, Inserts(f, r, l, item, u, n, p, m, k)
        PROVE  InsertedAt(h, r, l, item, k)
    <3>1. f \in Heap /\ Moved(h, f, l) /\ Intact(f, l, u, n, p, m)
      BY <1>1, MoveToIntact
    <3>2. CursorThere(f, l)
      BY <1>1, EndThere
    <3>. QED  BY <1>1, <2>1, <3>1, <3>2, InsertsFollow
  <2>. QED  BY <1>1, <1>4, <1>6, <1>9, <2>1, DumpEndInsertsAre
<1>. QED  BY <1>8, <1>9

\* A call that leaves the items where they are.
SameItems(h, g, l) == ItemsOf(g, l) = ItemsOf(h, l) /\ CursorThere(g, l)

\* The same chain over the same nodes has the same items.
LEMMA MovedItems ==
  ASSUME NEW h \in Heap, NEW g \in Heap, NEW l \in ListId, NEW u, NEW n, NEW p, NEW m,
         Intact(h, l, u, n, p, m), Moved(h, g, l), Intact(g, l, u, n, p, m)
  PROVE  ItemsOf(g, l) = ItemsOf(h, l)
<1>1. g.node = h.node
  BY DEF Moved
<1>2. ItemsOf(g, l) = ItemsIn(g, u, n) /\ ItemsOf(h, l) = ItemsIn(h, u, n)
  BY ItemsAre
<1>. QED  BY <1>1, <1>2 DEF ItemsIn

\* Moving the cursor and searching do.
LEMMA MovesFollow ==
  ASSUME NEW h \in Heap, NEW l \in ListId, Whole(h, l), CursorThere(h, l),
         NEW g \in Heap, ~g.fault,
         \/ g \in {List_first(h, l).heap, List_last(h, l).heap, List_next(h, l).heap,
                   List_prev(h, l).heap, List_curr(h, l).heap}
         \/ \E match : g = List_search(h, l, match).heap
         \/ StatusFits(h, l) /\ \E match : g = DumpSearch(h, l, match).heap
  PROVE  SameItems(h, g, l)
<1>1. PICK u, n, p, m : Intact(h, l, u, n, p, m)
  BY DEF Whole
<1>2. SUFFICES Moved(h, g, l) /\ Intact(g, l, u, n, p, m) /\ CursorThere(g, l)
  BY <1>1, MovedItems DEF SameItems
<1>3. CASE g \in {List_first(h, l).heap, List_last(h, l).heap, List_next(h, l).heap,
                  List_prev(h, l).heap, List_curr(h, l).heap}
  BY <1>1, <1>3, MovesKeep
<1>4. ASSUME NEW match, g = List_search(h, l, match).heap
      PROVE  Moved(h, g, l) /\ Intact(g, l, u, n, p, m) /\ CursorThere(g, l)
  <2>1. PICK r : r = List_search(h, l, match)
    OBVIOUS
  <2>2. PICK start \in Heap : /\ Moved(h, start, l) /\ Intact(start, l, u, n, p, m)
                              /\ CursorThere(start, l) /\ Searched(start, r, l, match, u, n)
    BY <1>1, <2>1, SearchIs
  <2>3. n \in Nat /\ \A j \in 1 .. n : u[j] # NULL
    <3>1. n \in Nat /\ u \in [1 .. n -> NodeId]
      BY <1>1, IntactEnds
    <3>. QED  BY <3>1, Pointers
  <2>4. CASE g = start
    BY <2>2, <2>4
  <2>5. ASSUME NEW c, NEW t, Cursor(start, g, l, c, t), OnList(c, u, n),
               t = "LIST_OOB_NONE" => c # NULL
        PROVE  Moved(h, g, l) /\ Intact(g, l, u, n, p, m) /\ CursorThere(g, l)
    <3>1. Moved(start, g, l) /\ g.list[l].curr = c /\ g.list[l].status = t
      BY <2>5 DEF Cursor
    <3>2. Intact(g, l, u, n, p, m) /\ Moved(h, g, l)
      BY <2>2, <2>5, <3>1, MovedIntact, MovedOn
    <3>. QED  BY <2>5, <3>1, <3>2 DEF CursorThere
  <2>6. CASE g # start
    <3>1. \/ \E i \in 1 .. n : \E j \in i .. n :
               Cursor(start, g, l, u[j], start.list[l].status)
          \/ Cursor(start, g, l, NULL, "LIST_OOB_END")
      BY <1>4, <2>1, <2>2, <2>6 DEF Searched
    <3>2. \A i \in 1 .. n : \A j \in i .. n : OnList(u[j], u, n) /\ u[j] # NULL
      BY <2>3 DEF OnList
    <3>3. OnList(NULL, u, n)
      BY DEF OnList
    <3>. QED  BY <2>5, <3>1, <3>2, <3>3
  <2>. QED  BY <2>4, <2>6
<1>5. ASSUME NEW match, StatusFits(h, l), g = DumpSearch(h, l, match).heap
      PROVE  Moved(h, g, l) /\ Intact(g, l, u, n, p, m) /\ CursorThere(g, l)
  BY <1>1, <1>5, DumpSearchIs
<1>. QED  BY <1>3, <1>4, <1>5

\* List_trim takes the last item, of a list of at most two in list.c.
LEMMA TrimsFollow ==
  ASSUME NEW h \in Heap, NEW l \in ListId, Whole(h, l), CursorThere(h, l),
         NEW r, r.heap \in Heap,
         \/ r = List_trim(h, l) /\ h.list[l].num_nodes <= 2
         \/ r = DumpTrim(h, l)
  PROVE  /\ ItemsOf(h, l) = <<>> => ItemsOf(r.heap, l) = <<>>
         /\ ItemsOf(h, l) # <<>> => /\ r.ret = Last(ItemsOf(h, l))
                                    /\ ItemsOf(r.heap, l) = Front(ItemsOf(h, l))
         /\ CursorThere(r.heap, l)
<1>1. PICK u, n, p, m : Intact(h, l, u, n, p, m)
  BY DEF Whole
<1>2. /\ n \in Nat /\ u \in [1 .. n -> NodeId] /\ h.list[l].num_nodes = n
      /\ (emptyList(h, l) <=> n = 0) /\ \A i, j \in 1 .. n : u[i] = u[j] => i = j
  <2>1. h.list[l].num_nodes = n /\ \A i, j \in 1 .. n : u[i] = u[j] => i = j
    BY <1>1 DEF Intact, Ends, Threaded
  <2>. QED  BY <1>1, <2>1, IntactEnds
<1>3. PICK s : s = ItemsIn(h, u, n)
  OBVIOUS
<1>4. /\ s \in [1 .. n -> Item \union {NoItem}] /\ ItemsOf(h, l) = s
      /\ \A i \in 1 .. n : s[i] = h.node[u[i]].item
  <2>1. s \in [1 .. n -> Item \union {NoItem}]
    BY <1>2, <1>3, ItemsTyped
  <2>2. \A i \in 1 .. n : s[i] = h.node[u[i]].item
    BY <1>3 DEF ItemsIn
  <2>. QED  BY <1>1, <1>3, <2>1, <2>2, ItemsAre
<1>5. s = <<>> <=> n = 0
  <2>1. Len(s) = n /\ (n = 0 => s = <<>>)
    BY <1>2, <1>4
  <2>2. s = <<>> => Len(s) = 0
    OBVIOUS
  <2>. QED  BY <2>1, <2>2
<1>6. CASE n = 0
  <2>1. r.heap = h
    <3>1. emptyList(h, l) /\ isListEmpty(h, l)
      BY <1>2, <1>6 DEF isListEmpty
    <3>2. List_trim(h, l) = [heap |-> h, ret |-> NoItem]
      BY <3>1, ZenonT(30) DEF List_trim
    <3>3. DumpTrim(h, l) = [heap |-> h, ret |-> NoItem]
      BY <3>1, ZenonT(30) DEF DumpTrim
    <3>. QED  BY <3>2, <3>3
  <2>. QED  BY <1>4, <1>5, <1>6, <2>1
<1>7. CASE n # 0
  <2>1. Trimmed(h, r.heap, l, u, n, p, m) /\ r.ret = h.node[u[n]].item
    BY <1>1, <1>2, <1>7, TrimIs, DumpTrimIs
  <2>2. PICK v : v = Without(u, n, n)
    OBVIOUS
  <2>3. PICK q : q = Ahead(u[n], p, m)
    OBVIOUS
  <2>4. /\ Intact(r.heap, l, v, n - 1, q, m + 1)
        /\ r.heap.list[l].curr = IF n = 1 THEN NULL ELSE u[n - 1]
        /\ r.heap.list[l].status = IF n = 1 THEN "LIST_OOB_START" ELSE "LIST_OOB_NONE"
        /\ \A y \in NodeId \ {u[n]} : r.heap.node[y].item = h.node[y].item
    BY <2>1, <2>2, <2>3 DEF Trimmed
  <2>5. CursorThere(r.heap, l)
    <3>1. n # 1 => u[n - 1] \in NodeId
      BY <1>2, <1>7
    <3>. QED  BY <2>4, <3>1, Pointers DEF CursorThere
  <2>6. ItemsOf(r.heap, l) = ItemsIn(r.heap, v, n - 1)
    BY <2>4, ItemsAre
  <2>7. \A i \in 1 .. n - 1 : i \in 1 .. n /\ v[i] = u[i] /\ u[i] \in NodeId \ {u[n]}
    BY <1>2, <2>2 DEF Without
  <2>8. ItemsIn(r.heap, v, n - 1) = Without(s, n, n)
    <3>1. \A i \in 1 .. n - 1 : r.heap.node[v[i]].item = IF i < n THEN s[i] ELSE s[i + 1]
      BY <1>2, <1>4, <2>4, <2>7
    <3>. QED  BY <3>1 DEF ItemsIn, Without
  <2>9. n \in 1 .. n /\ Without(s, n, n) = Front(s) /\ Last(s) = s[n]
    <3>1. n \in 1 .. n
      BY <1>2, <1>7
    <3>2. s \in [1 .. n -> Item \union {NoItem}]
      BY <1>4
    <3>3. n \in Nat /\ n # 0
      BY <1>2, <1>7
    <3>. QED  BY <3>1, <3>2, <3>3, FrontIs, ZenonT(30)
  <2>. QED  BY <1>4, <1>5, <1>7, <2>1, <2>5, <2>6, <2>8, <2>9
<1>. QED  BY <1>6, <1>7

\* List_remove of dump/list.c takes the cursor's item and the cursor goes on to the
\* next, unless it was the last.
LEMMA RemovesFollow ==
  ASSUME NEW h \in Heap, NEW l \in ListId, Whole(h, l), CursorThere(h, l),
         NEW r, r = DumpRemove(h, l), r.heap \in Heap, ~TailLost(r.heap, l),
         NEW lost, lost = CursorIndex(h, l)
  PROVE  /\ lost \in Nat
         /\ isListOOB(h, l) \/ lost = 0 => SameItems(h, r.heap, l)
         /\ ~isListOOB(h, l) /\ lost # 0 =>
              /\ r.ret = ItemsOf(h, l)[lost]
              /\ ItemsOf(r.heap, l) = RemoveAt(ItemsOf(h, l), lost)
              /\ CursorIndex(r.heap, l) = lost
              /\ CursorThere(r.heap, l)
<1>1. PICK u, n, p, m : Intact(h, l, u, n, p, m)
  BY DEF Whole
<1>2. /\ n \in Nat /\ u \in [1 .. n -> NodeId]
      /\ \A i, j \in 1 .. n : u[i] = u[j] => i = j
      /\ OnList(h.list[l].curr, u, n)
  <2>1. \A i, j \in 1 .. n : u[i] = u[j] => i = j
    BY <1>1 DEF Intact, Threaded
  <2>. QED  BY <1>1, <2>1, IntactEnds
<1>3. /\ h.list[l].curr = NULL => lost = 0
      /\ \A i \in 1 .. n : h.list[l].curr = u[i] => lost = i
      /\ lost \in Nat
  <2>1. /\ h.list[l].curr = NULL => lost = 0
        /\ \A i \in 1 .. n : h.list[l].curr = u[i] => lost = i
    BY <1>1, CursorIndexIs
  <2>. QED  BY <1>2, <2>1 DEF OnList
<1>4. CASE isListOOB(h, l) \/ h.list[l].curr = NULL
  <2>1. r.heap = h
    <3>1. NULL # Wild /\ NULL \notin NodeId
      BY Pointers
    <3>. QED  BY <1>4, <3>1, ZenonT(30) DEF DumpRemove
  <2>2. SameItems(h, r.heap, l)
    BY <2>1 DEF SameItems
  <2>. QED  BY <1>3, <1>4, <2>2
<1>5. CASE ~isListOOB(h, l) /\ h.list[l].curr # NULL
  <2>1. PICK k \in 1 .. n : h.list[l].curr = u[k]
    BY <1>2, <1>5 DEF OnList
  <2>2. Removed(h, r.heap, l, u, n, p, m, k) /\ r.ret = h.node[u[k]].item
    BY <1>1, <1>5, <2>1, DumpRemoveIs
  <2>3. lost = k /\ k # 0
    BY <1>3, <2>1
  <2>4. PICK v : v = Without(u, n, k)
    OBVIOUS
  <2>5. PICK q : q = Ahead(u[k], p, m)
    OBVIOUS
  <2>6. k # n
    <3>1. SUFFICES ASSUME k = n PROVE FALSE
      OBVIOUS
    <3>2. Headed(r.heap, l, v, n - 1, q, m + 1) /\ r.heap.list[l].tail = u[n]
      BY <2>2, <2>4, <2>5 DEF Removed
    <3>3. NodesOf(r.heap, l) = v
      BY <3>2, HeadedChains
    <3>4. DOMAIN v = 1 .. n - 1 /\ \A i \in 1 .. n - 1 : v[i] = u[i] /\ i \in 1 .. n /\ i # n
      BY <1>2, <2>4, <3>1 DEF Without
    <3>5. u[n] \notin NodesIn(v) /\ u[n] # NULL
      BY <1>2, <2>1, <3>1, <3>4, Pointers DEF NodesIn
    <3>. QED  BY <3>2, <3>3, <3>5 DEF TailLost
  <2>7. /\ Intact(r.heap, l, v, n - 1, q, m + 1)
        /\ r.heap.list[l].curr = u[k + 1]
        /\ \A y \in NodeId \ {u[k]} : r.heap.node[y].item = h.node[y].item
    BY <2>2, <2>4, <2>5, <2>6 DEF Removed
  <2>8. /\ k \in 1 .. n - 1 /\ k + 1 \in 1 .. n
        /\ \A i \in 1 .. n - 1 : v[i] = IF i < k THEN u[i] ELSE u[i + 1]
    BY <1>2, <2>4, <2>6 DEF Without
  <2>9. CursorIndex(r.heap, l) = k
    <3>1. r.heap.list[l].curr = v[k]
      BY <2>7, <2>8
    <3>. QED  BY <2>7, <2>8, <3>1, CursorIndexIs
  <2>10. CursorThere(r.heap, l)
    <3>1. u[k + 1] # NULL
      BY <1>2, <2>8, Pointers
    <3>. QED  BY <2>7, <3>1 DEF CursorThere
  <2>11. PICK s : s = ItemsIn(h, u, n)
    OBVIOUS
  <2>12. /\ s \in [1 .. n -> Item \union {NoItem}] /\ ItemsOf(h, l) = s
         /\ \A i \in 1 .. n : s[i] = h.node[u[i]].item
    <3>1. s \in [1 .. n -> Item \union {NoItem}]
      BY <1>2, <2>11, ItemsTyped
    <3>2. \A i \in 1 .. n : s[i] = h.node[u[i]].item
      BY <2>11 DEF ItemsIn
    <3>. QED  BY <1>1, <2>11, <3>1, <3>2, ItemsAre
  <2>13. ItemsOf(r.heap, l) = ItemsIn(r.heap, v, n - 1)
    BY <2>7, ItemsAre
  <2>14. ItemsIn(r.heap, v, n - 1) = Without(s, n, k)
    <3>1. ASSUME NEW i \in 1 .. n - 1
          PROVE  r.heap.node[v[i]].item = IF i < k THEN s[i] ELSE s[i + 1]
      <4>1. PICK j \in 1 .. n : j = (IF i < k THEN i ELSE i + 1) /\ j # k
        BY <1>2
      <4>2. v[i] = u[j] /\ u[j] \in NodeId \ {u[k]}
        BY <1>2, <2>8, <4>1
      <4>. QED  BY <2>7, <2>12, <4>1, <4>2
    <3>. QED  BY <3>1 DEF ItemsIn, Without
  <2>15. Without(s, n, k) = RemoveAt(s, k)
    <3>1. s \in [1 .. n -> Item \union {NoItem}]
      BY <2>12
    <3>. QED  BY <1>2, <3>1, WithoutIs, ZenonT(60)
  <2>. QED  BY <1>5, <2>2, <2>3, <2>9, <2>10, <2>12, <2>13, <2>14, <2>15
<1>. QED  BY <1>3, <1>4, <1>5

\* What ContentsFollow says of one list.
FollowsFor(l) ==
  LET old  == ItemsOf(heap, l)  new == ItemsOf(heap', l)
      fn   == call'.fn
      at   == CursorIndex(heap', l)
      lost == CursorIndex(heap, l)
  IN  CASE fn \in Insertions /\ UnusedNodes(heap) # <<>> ->
             /\ call'.ret = "LIST_SUCCESS"
             /\ at > 0 /\ new = InsertAt(old, at, call'.arg)
             /\ ~Misled(heap, l, fn) => at = PromisedPosition(heap, l, fn)
        [] fn \in Insertions /\ UnusedNodes(heap) = <<>> ->
             call'.ret = "LIST_FAIL" /\ new = old
        [] fn = "List_trim" /\ old # <<>> ->
             call'.ret = Last(old) /\ new = Front(old)
        [] fn = "List_remove" /\ ~isListOOB(heap, l) /\ lost > 0 ->
             /\ call'.ret = old[lost]
             /\ new = RemoveAt(old, lost)
             /\ CursorIndex(heap', l) = lost
        [] OTHER -> new = old

\* An insertion by the client follows,
LEMMA InsertCallFollows ==
  ASSUME NEW l, Calls(l), l \in HeldLists, CursorThere(heap, l), heap' \in Heap,
         ~heap'.fault \/ ~Misled(heap, l, call'.fn),
         HeedsStatus, NEW item \in Item, Insert(l, item)
  PROVE  FollowsFor(l) /\ CursorThere(heap', l) /\ ~heap'.fault
<1>1. PICK fn, newer, older :
        /\ Perform(fn, item, OfLibrary(newer, older))
        /\ \/ /\ fn = "List_insert_after"
              /\ newer = List_insert_after(heap, l, item) /\ older = List_add(heap, l, item)
           \/ /\ fn = "List_insert_before"
              /\ newer = List_insert_before(heap, l, item) /\ older = List_insert(heap, l, item)
           \/ /\ fn = "List_append"
              /\ newer = List_append(heap, l, item) /\ older = DumpAppend(heap, l, item)
           \/ /\ fn = "List_prepend"
              /\ newer = List_prepend(heap, l, item) /\ older = DumpPrepend(heap, l, item)
  BY DEF Insert
<1>2. PICK r : r = OfLibrary(newer, older)
  OBVIOUS
<1>3. /\ heap' = r.heap /\ call'.fn = fn /\ call'.ret = r.ret /\ call'.arg = item
      /\ fn \in Insertions
  BY <1>1, <1>2 DEF Perform, Insertions
<1>4. /\ heap \in Heap /\ l \in ListId /\ Whole(heap, l)
      /\ library # "list.c" => StatusFits(heap, l)
  BY DEF Calls
<1>5. InsertedAt(heap, r, l, item, PlaceTaken(heap, l, fn))
  <2>1. CASE library = "list.c"
    <3>1. r = newer
      BY <1>2, <2>1 DEF OfLibrary
    <3>2. fn = "List_insert_before" =>
            (heap.list[l].status = "LIST_OOB_START" =>
               heap.list[l].curr \in {NULL, heap.list[l].head})
      BY <1>3, <2>1 DEF HeedsStatus
    <3>. QED  BY <1>1, <1>3, <1>4, <2>1, <3>1, <3>2, InsertionsFollow
  <2>2. CASE library # "list.c"
    <3>1. r = older
      BY <1>2, <2>2 DEF OfLibrary
    <3>. QED  BY <1>1, <1>3, <1>4, <2>2, <3>1, DumpInsertionsFollow
  <2>. QED  BY <2>1, <2>2
<1>6. CursorThere(heap', l) /\ ~heap'.fault
  BY <1>3, <1>5 DEF InsertedAt, Calls
<1>7. UnusedNodes(heap) # <<>> =>
        /\ call'.ret = "LIST_SUCCESS" /\ CursorIndex(heap', l) > 0
        /\ ItemsOf(heap', l) = InsertAt(ItemsOf(heap, l), CursorIndex(heap', l), call'.arg)
        /\ ~Misled(heap, l, fn) => CursorIndex(heap', l) = PromisedPosition(heap, l, fn)
  <2>1. HeedsAt(heap, l, fn)
    BY <1>3, <1>4 DEF HeedsAt, HeedsStatus
  <2>2. ~Misled(heap, l, fn) => PlaceTaken(heap, l, fn) = PromisedPosition(heap, l, fn)
    BY <1>3, <1>4, <2>1, PlaceIsPromised
  <2>. QED  BY <1>3, <1>5, <2>2 DEF InsertedAt
<1>8. UnusedNodes(heap) = <<>> =>
        call'.ret = "LIST_FAIL" /\ ItemsOf(heap', l) = ItemsOf(heap, l)
  BY <1>3, <1>5 DEF InsertedAt
<1>9. call'.fn \notin {"List_trim", "List_remove"}
  BY <1>3 DEF Insertions
<1>. QED  BY <1>3, <1>6, <1>7, <1>8, <1>9 DEF FollowsFor

\* so does a removal or a trim,
LEMMA TakeOutFollows ==
  ASSUME NEW l, Calls(l), l \in HeldLists, CursorThere(heap, l), heap' \in Heap, ~Ended',
         TrimsShort, TakeOut(l)
  PROVE  FollowsFor(l) /\ CursorThere(heap', l)
<1>1. /\ heap \in Heap /\ l \in ListId /\ Whole(heap, l) /\ l \in HeldLists'
      /\ library' = library
  BY DEF Calls, HeldLists, Holding
<1>2. PICK old, new : old = ItemsOf(heap, l) /\ new = ItemsOf(heap', l)
  OBVIOUS
<1>3. CASE Perform("List_trim", <<>>, OfLibrary(List_trim(heap, l), DumpTrim(heap, l)))
  <2>1. PICK r : r = OfLibrary(List_trim(heap, l), DumpTrim(heap, l))
    OBVIOUS
  <2>2. heap' = r.heap /\ call'.fn = "List_trim" /\ call'.ret = r.ret
    BY <1>3, <2>1 DEF Perform
  <2>3. \/ r = List_trim(heap, l) /\ heap.list[l].num_nodes <= 2
        \/ r = DumpTrim(heap, l)
    BY <2>1, <2>2 DEF OfLibrary, TrimsShort
  <2>4. /\ old = <<>> => new = <<>>
        /\ old # <<>> => call'.ret = Last(old) /\ new = Front(old)
        /\ CursorThere(heap', l)
    BY <1>1, <1>2, <2>2, <2>3, TrimsFollow
  <2>. QED  BY <1>2, <2>2, <2>4 DEF FollowsFor, Insertions
<1>4. CASE Perform("List_remove", <<>>, OfLibrary(List_remove(heap, l), DumpRemove(heap, l)))
  <2>1. PICK r : r = OfLibrary(List_remove(heap, l), DumpRemove(heap, l))
    OBVIOUS
  <2>2. heap' = r.heap /\ call'.fn = "List_remove" /\ call'.ret = r.ret
    BY <1>4, <2>1 DEF Perform
  <2>3. library # "list.c" /\ ~TailLost(heap', l)
    BY <1>1, <2>2 DEF Ended, TailLost
  <2>4. r = DumpRemove(heap, l)
    BY <2>1, <2>3 DEF OfLibrary
  <2>5. PICK lost : lost = CursorIndex(heap, l)
    OBVIOUS
  <2>6. /\ lost \in Nat
        /\ isListOOB(heap, l) \/ lost = 0 => SameItems(heap, heap', l)
        /\ ~isListOOB(heap, l) /\ lost # 0 =>
             /\ call'.ret = old[lost] /\ new = RemoveAt(old, lost)
             /\ CursorIndex(heap', l) = lost /\ CursorThere(heap', l)
    BY <1>1, <1>2, <2>2, <2>3, <2>4, <2>5, RemovesFollow
  <2>7. CursorThere(heap', l)
    BY <2>6 DEF SameItems
  <2>8. lost > 0 <=> lost # 0
    BY <2>6
  <2>9. isListOOB(heap, l) \/ lost = 0 => new = old
    BY <1>2, <2>6 DEF SameItems
  <2>. QED  BY <1>2, <2>2, <2>5, <2>6, <2>7, <2>8, <2>9 DEF FollowsFor, Insertions
<1>. QED  BY <1>3, <1>4 DEF TakeOut

\* and a move of the cursor, the count or a search.
LEMMA OthersFollow ==
  ASSUME NEW l, Calls(l), CursorThere(heap, l), heap' \in Heap, ~heap'.fault,
         Navigate(l) \/ \E match \in SUBSET Item : Search(l, match)
  PROVE  FollowsFor(l) /\ CursorThere(heap', l)
<1>1. /\ heap \in Heap /\ l \in ListId /\ Whole(heap, l)
      /\ library # "list.c" => StatusFits(heap, l)
  BY DEF Calls
<1>2. call'.fn \notin Insertions \union {"List_trim", "List_remove"}
  BY DEF Navigate, Search, Perform, Insertions
<1>3. SameItems(heap, heap', l)
  <2>1. CASE Navigate(l)
    <3>1. \/ heap' = heap
          \/ heap' \in {List_first(heap, l).heap, List_last(heap, l).heap,
                        List_next(heap, l).heap, List_prev(heap, l).heap,
                        List_curr(heap, l).heap}
      BY <2>1 DEF Navigate, Perform
    <3>2. SameItems(heap, heap, l)
      BY DEF SameItems
    <3>. QED  BY <1>1, <3>1, <3>2, MovesFollow
  <2>2. ASSUME NEW match \in SUBSET Item, Search(l, match) PROVE SameItems(heap, heap', l)
    <3>1. PICK r : r = OfLibrary(List_search(heap, l, match), DumpSearch(heap, l, match))
      OBVIOUS
    <3>2. heap' = r.heap
      BY <2>2, <3>1 DEF Search, Perform
    <3>3. \/ heap' = List_search(heap, l, match).heap
          \/ StatusFits(heap, l) /\ heap' = DumpSearch(heap, l, match).heap
      BY <1>1, <3>1, <3>2 DEF OfLibrary
    <3>. QED  BY <1>1, <3>3, MovesFollow
  <2>. QED  BY <2>1, <2>2
<1>. QED  BY <1>2, <1>3 DEF SameItems, FollowsFor

\* When the status says that the cursor is on the list, it is.
CursorKept == heap.fault \/ Ended \/ \A l \in HeldLists : CursorThere(heap, l)

\* Every call that leaves a list behind follows and keeps the cursor there.
LEMMA FollowStep ==
  ASSUME KeptSafely, KeptSafely', CursorKept, Next, TrimsShort, HeedsStatus, ~Ended
  PROVE  ContentsFollow /\ CursorKept'
<1>1. /\ heap \in Heap /\ heap' \in Heap /\ TheList \in ListId
      /\ \A x \in HeldLists' : x = TheList
  BY HeapAssumption DEF KeptSafely, WellTyped, HeldIsLast, HeldLists, Holding, TheList, ListId
<1>2. ASSUME ~heap'.fault, ~Ended', call'.fn # "List_create", NEW l \in HeldLists
      PROVE  FollowsFor(l) /\ CursorThere(heap', l)
  <2>1. Calls(l)
    BY <1>2, StepCalls DEF Ended
  <2>2. CursorThere(heap, l)
    BY <1>2, <2>1 DEF CursorKept, Calls
  <2>3. CASE \E item \in Item : Insert(l, item)
    BY <1>1, <1>2, <2>1, <2>2, <2>3, InsertCallFollows
  <2>4. CASE TakeOut(l)
    BY <1>1, <1>2, <2>1, <2>2, <2>4, TakeOutFollows
  <2>5. CASE Navigate(l) \/ \E match \in SUBSET Item : Search(l, match)
    BY <1>1, <1>2, <2>1, <2>2, <2>5, OthersFollow
  <2>. QED  BY <2>1, <2>3, <2>4, <2>5 DEF Calls
<1>3. ContentsFollow
  <2>1. ASSUME NEW l \in HeldLists, call'.fn \in Insertions, ~Misled(heap, l, call'.fn)
        PROVE  ~heap'.fault
    <3>1. call'.fn \notin {"List_create", "List_concat", "List_free", "List_trim",
                          "List_remove", "List_search"}
      BY <2>1 DEF Insertions
    <3>2. Calls(l)
      BY <3>1, StepCalls
    <3>3. CursorThere(heap, l)
      BY <3>2 DEF CursorKept, Calls
    <3>4. PICK item \in Item : Insert(l, item)
      BY <2>1, <3>1, <3>2 DEF Calls, TakeOut, Navigate, Search, Perform, Insertions
    <3>. QED  BY <1>1, <2>1, <3>2, <3>3, <3>4, InsertCallFollows
  <2>. QED  BY <1>2, <2>1 DEF ContentsFollow, FollowsFor
<1>4. CursorKept'
  <2>1. SUFFICES ASSUME ~heap'.fault, ~Ended', NEW l \in HeldLists' PROVE CursorThere(heap', l)
    BY DEF CursorKept
  <2>2. CASE call'.fn = "List_create"
    <3>1. \E o \in Owner : Create(o)
      BY <2>2 DEF Next, Navigate, TakeOut, Insert, Search, Perform, Free, Concat, GiveUp
    <3>2. heap' \in {List_create(heap).heap, DumpCreate(heap).heap}
      BY <3>1 DEF Create, OfLibrary
    <3>. QED  BY <1>1, <3>2, CreateIs
  <2>3. CASE call'.fn # "List_create"
    <3>1. held' = held
      BY <2>1, <2>3 DEF Next, Create, Navigate, TakeOut, Insert, Search, Perform,
                        Free, Concat, GiveUp, Ended
    <3>2. l \in HeldLists
      BY <3>1 DEF HeldLists, Holding
    <3>. QED  BY <1>2, <2>1, <2>3, <3>2
  <2>. QED  BY <2>2, <2>3
<1>. QED  BY <1>3, <1>4

\* An insertion that the status does not mislead (Misled) puts its item where list.h
\* says, and every one puts it into the contents as they were and moves the cursor
\* to it; it fails only for want of a node; List_trim takes the last item; List_remove of
\* dump/list.c takes the cursor's; and no other call changes the contents
\* (list.c:146-388, 464-487, dump/list.c:166-432), for a client that neither trims
\* a list of three of list.c nor inserts before a cursor that the status misplaces.
THEOREM ContentsAlwaysFollow == CarefulSpec => ContentsFollowCalls
<1>1. Init => CursorKept
  BY DEF Init, CursorKept, HeldLists, Holding
<1>2. KeptSafely /\ KeptSafely' /\ CursorKept
        /\ [Next /\ TrimsShort /\ HeedsStatus /\ ~Ended]_vars => CursorKept'
  <2>1. CASE UNCHANGED vars
    BY <2>1 DEF vars, CursorKept, Ended, HeldLists, Holding
  <2>. QED  BY <2>1, FollowStep
<1>3. KeptSafely /\ KeptSafely' /\ CursorKept
        /\ [Next /\ TrimsShort /\ HeedsStatus /\ ~Ended]_vars => [ContentsFollow]_vars
  BY FollowStep
<1>. QED  BY <1>1, <1>2, <1>3, KeptAlways, PTL DEF CarefulSpec, ContentsFollowCalls
=============================================================================
