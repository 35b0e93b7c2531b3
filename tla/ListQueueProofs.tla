-------------------------- MODULE ListQueueProofs --------------------------
(***************************************************************************)
(* What the mailboxes have of a list, whatever calls of theirs come in     *)
(* whatever order, is the queue of ListQueue, for every value of the       *)
(* constants; and List_free gives everything back after them too.          *)
(*                                                                         *)
(* The mailboxes cut the list of list.c at any length, which the careful   *)
(* client of ListClientProofs does not: a prev link goes, then the tail,   *)
(* and what is left to name the nodes by is the chain of next links.       *)
(***************************************************************************)
EXTENDS ListClientProofs

-----------------------------------------------------------------------------
(* The names of the nodes of a list that may be broken.                    *)

\* What the mailboxes of s-talk call.
MailboxOps == {"List_create", "List_prepend", "List_trim", "List_count", "List_free"}

\* The nodes of a list as List_prepend and List_trim need them: linked forwards,
\* with nothing before the first, and with the items of the client.  No node is
\* lost; behind the last one a broken list may go on into unused nodes.
Strung(h, l, u, n, p, m) ==
  /\ n \in Nat /\ u \in [1 .. n -> NodeId]
  /\ \A i, j \in 1 .. n : u[i] = u[j] => i = j
  /\ \A i \in 1 .. n - 1 : h.node[u[i]].next = u[i + 1]
  /\ n # 0 => h.node[u[1]].prev = NULL
  /\ h.list[l].head = IF n = 0 THEN NULL ELSE u[1]
  /\ h.list[l].num_nodes = n
  /\ \A i \in 1 .. n : h.node[u[i]].item \in Item
  /\ Pooled(h, p, m) /\ Apart(u, n, p, m) /\ n + m = LIST_MAX_NUM_NODES

\* What List_trim of list.c leaves of a longer list.
Broken(h, l, u, n) ==
  \/ n >= 2 /\ h.list[l].tail = u[n] /\ h.node[u[n]].prev = NULL
  \/ n >= 1 /\ h.list[l].tail = NULL

\* A list that either library may have, which is whole, or one of list.c that is
\* broken.  In dump/list.c the cursor is on a list that is not empty.
Usable(lib, h, u, n, p, m) ==
  /\ Strung(h, TheList, u, n, p, m)
  /\ \/ /\ Intact(h, TheList, u, n, p, m)
        /\ lib # "list.c" /\ n # 0 => h.list[TheList].status = "LIST_OOB_NONE"
     \/ lib = "list.c" /\ Broken(h, TheList, u, n)

\* A chain begins with the nodes that follow one another from its first on.
LEMMA ChainStarts ==
  ASSUME NEW h \in Heap, NEW p \in Pointer, NEW field \in {"next", "prev"},
         NEW n \in Nat, NEW c \in [1 .. n -> NodeId], n <= LIST_MAX_NUM_NODES,
         p = IF n = 0 THEN NULL ELSE c[1],
         \A i \in 1 .. n - 1 : h.node[c[i]][field] = c[i + 1]
  PROVE  \A i \in 1 .. n : Chain(h, p, field)[i] = c[i]
<1>1. PICK d : d = Chain(h, p, field)
  OBVIOUS
<1>2. /\ d \in Seq(NodeId)
      /\ p \in NodeId => d # <<>> /\ d[1] = p
      /\ \A i \in 1 .. Len(d) - 1 : d[i + 1] = h.node[d[i]][field]
      /\ p \in NodeId /\ ~Cyclic(d) => h.node[d[Len(d)]][field] \notin NodeId
  BY <1>1, ChainFollows
<1>3. PICK k \in Nat : k = Len(d)
  BY <1>2
<1>4. SUFFICES ASSUME n # 0 PROVE \A i \in 1 .. n : d[i] = c[i]
  BY <1>1
<1>5. 1 \in 1 .. n /\ p = c[1] /\ p \in NodeId /\ d[1] = c[1] /\ k >= 1
  BY <1>2, <1>3, <1>4
<1>6. \A i \in 1 .. n : i <= k => d[i] = c[i]
  <2>. DEFINE Bad == {i \in 1 .. n : i <= k /\ d[i] # c[i]}
  <2>1. SUFFICES ASSUME Bad # {} PROVE FALSE
    OBVIOUS
  <2>2. PICK i \in Bad : \A j \in Bad : i <= j
    <3>1. Bad \in SUBSET Nat
      OBVIOUS
    <3>. QED  BY <2>1, <3>1, Smallest
  <2>3. i \in 1 .. n /\ i <= k /\ d[i] # c[i] /\ i # 1
    BY <1>5, <2>2
  <2>4. i - 1 \in 1 .. n - 1 /\ i - 1 \in 1 .. n /\ i - 1 \in 1 .. k - 1 /\ ~ (i <= i - 1)
        /\ (i - 1) + 1 = i
    BY <2>3
  <2>5. d[i - 1] = c[i - 1]
    BY <2>2, <2>4
  <2>6. d[i] = h.node[d[i - 1]][field]
    BY <1>2, <1>3, <2>4
  <2>7. h.node[c[i - 1]][field] = c[i]
    BY <2>4
  <2>. QED  BY <2>3, <2>5, <2>6, <2>7
<1>7. k >= n
  <2>1. SUFFICES ASSUME k < n PROVE FALSE
    BY <1>3
  <2>2. k \in 1 .. n - 1 /\ k \in 1 .. n /\ k + 1 \in 1 .. n /\ k <= k
    BY <1>5, <2>1
  <2>3. d[k] = c[k]
    BY <1>6, <2>2
  <2>4. ~Cyclic(d)
    BY <1>3, <2>1, HeapAssumption DEF Cyclic
  <2>5. h.node[d[k]][field] \notin NodeId
    BY <1>2, <1>3, <1>5, <2>4
  <2>6. h.node[c[k]][field] = c[k + 1]
    BY <2>2
  <2>. QED  BY <2>2, <2>3, <2>5, <2>6
<1>. QED  BY <1>3, <1>6, <1>7

\* The queue that a list is: its items, from the last node to the first.
ItemsBack(h, u, n) == [i \in 1 .. n |-> h.node[u[n + 1 - i]].item]

\* What the refinement reads from the memory is what the nodes of the list say.
QueueOf(h) ==
  LET chain == NodesOf(h, TheList)  n == h.list[TheList].num_nodes
  IN  [i \in 1 .. n |-> h.node[chain[n + 1 - i]].item]

LEMMA QueueIs ==
  ASSUME NEW h \in Heap, NEW u, NEW n, NEW p, NEW m, Strung(h, TheList, u, n, p, m)
  PROVE  /\ QueueOf(h) = ItemsBack(h, u, n)
         /\ ItemsBack(h, u, n) \in [1 .. n -> Item]
         /\ ItemsBack(h, u, n) \in Seq(Item) /\ Len(ItemsBack(h, u, n)) = n
         /\ n <= LIST_MAX_NUM_NODES
<1>1. PICK l \in ListId : l = TheList
  BY HeapAssumption DEF TheList, ListId
<1>2. /\ n \in Nat /\ u \in [1 .. n -> NodeId] /\ n <= LIST_MAX_NUM_NODES
      /\ \A i \in 1 .. n - 1 : h.node[u[i]].next = u[i + 1]
      /\ h.list[l].head = IF n = 0 THEN NULL ELSE u[1]
      /\ h.list[l].num_nodes = n
      /\ \A i \in 1 .. n : h.node[u[i]].item \in Item
  BY <1>1, HeapAssumption DEF Strung, Pooled
<1>3. PICK chain : chain = Chain(h, h.list[l].head, "next")
  OBVIOUS
<1>4. \A i \in 1 .. n : chain[i] = u[i]
  <2>1. h.list[l].head \in Pointer
    BY <1>1, Fields, Pointers
  <2>. QED  BY <1>2, <1>3, <2>1, ChainStarts
<1>5. \A i \in 1 .. n : n + 1 - i \in 1 .. n
  BY <1>2
<1>6. QueueOf(h) = [i \in 1 .. n |-> h.node[chain[n + 1 - i]].item]
  BY <1>1, <1>2, <1>3 DEF QueueOf, NodesOf
<1>7. QueueOf(h) = ItemsBack(h, u, n)
  BY <1>4, <1>5, <1>6 DEF ItemsBack
<1>8. ItemsBack(h, u, n) \in [1 .. n -> Item]
  BY <1>2, <1>5 DEF ItemsBack
<1>. QED  BY <1>2, <1>7, <1>8

\* One item more is the queue with that item at its end,
Joins(h, g, u, n, x, item) ==
  /\ n \in Nat /\ item \in Item /\ ItemsBack(h, u, n) \in Seq(Item)
  /\ g.node[x].item = item /\ \A i \in 1 .. n : g.node[u[i]].item = h.node[u[i]].item

LEMMA QueueGrows ==
  ASSUME NEW h, NEW g, NEW u, NEW n, NEW x, NEW item, Joins(h, g, u, n, x, item)
  PROVE  ItemsBack(g, Into(u, n, 1, x), n + 1) = Append(ItemsBack(h, u, n), item)
<1>. USE DEF Joins
<1>1. PICK v : v = Into(u, n, 1, x)
  OBVIOUS
<1>2. \A i \in 1 .. n + 1 : v[i] = IF i = 1 THEN x ELSE u[i - 1]
  BY <1>1 DEF Into
<1>3. \A i \in 1 .. n + 1 : g.node[v[(n + 1) + 1 - i]].item =
                              IF i = n + 1 THEN item ELSE h.node[u[n + 1 - i]].item
  <2>1. ASSUME NEW i \in 1 .. n + 1
        PROVE  g.node[v[(n + 1) + 1 - i]].item =
                 IF i = n + 1 THEN item ELSE h.node[u[n + 1 - i]].item
    <3>1. CASE i = n + 1
      BY <1>2, <3>1
    <3>2. CASE i # n + 1
      <4>1. /\ (n + 1) + 1 - i \in 1 .. n + 1 /\ (n + 1) + 1 - i # 1
            /\ ((n + 1) + 1 - i) - 1 = n + 1 - i /\ n + 1 - i \in 1 .. n
        BY <3>2
      <4>2. v[(n + 1) + 1 - i] = u[n + 1 - i]
        BY <1>2, <4>1
      <4>. QED  BY <3>2, <4>1, <4>2
    <3>. QED  BY <3>1, <3>2
  <2>. QED  BY <2>1
<1>4. PICK s : s = ItemsBack(h, u, n)
  OBVIOUS
<1>5. Len(s) = n /\ DOMAIN s = 1 .. n /\ \A i \in 1 .. n : s[i] = h.node[u[n + 1 - i]].item
  BY <1>4 DEF ItemsBack
<1>6. Append(s, item) = [i \in 1 .. n + 1 |-> IF i = n + 1 THEN item ELSE s[i]]
  <2>1. PICK t : t = Append(s, item)
    OBVIOUS
  <2>2. /\ t \in Seq(Item) /\ Len(t) = n + 1
        /\ \A i \in 1 .. n + 1 : t[i] = IF i = n + 1 THEN item ELSE s[i]
    BY <1>4, <1>5, <2>1
  <2>3. t = [i \in 1 .. n + 1 |-> t[i]]
    BY <2>2
  <2>. QED  BY <2>1, <2>2, <2>3
<1>7. ItemsBack(g, v, n + 1) = [i \in 1 .. n + 1 |-> g.node[v[(n + 1) + 1 - i]].item]
  BY DEF ItemsBack
<1>8. \A i \in 1 .. n + 1 : g.node[v[(n + 1) + 1 - i]].item = IF i = n + 1 THEN item ELSE s[i]
  BY <1>3, <1>5
<1>9. ItemsBack(g, v, n + 1) = Append(s, item)
  BY <1>6, <1>7, <1>8
<1>. QED  BY <1>1, <1>4, <1>9

\* and one less the queue without its first.
LEMMA QueueShrinks ==
  ASSUME NEW h, NEW g, NEW n \in Nat, n # 0, NEW u,
         \A i \in 1 .. n - 1 : g.node[u[i]].item = h.node[u[i]].item,
         ItemsBack(h, u, n) \in Seq(Item)
  PROVE  /\ Head(ItemsBack(h, u, n)) = h.node[u[n]].item
         /\ Tail(ItemsBack(h, u, n)) = ItemsBack(g, Without(u, n, n), n - 1)
<1>1. PICK v : v = Without(u, n, n)
  OBVIOUS
<1>2. \A i \in 1 .. n - 1 : v[i] = u[i]
  BY <1>1 DEF Without
<1>3. PICK s : s = ItemsBack(h, u, n)
  OBVIOUS
<1>4. Len(s) = n /\ \A i \in 1 .. n : s[i] = h.node[u[n + 1 - i]].item
  BY <1>3 DEF ItemsBack
<1>5. s \in Seq(Item) /\ s # <<>>
  BY <1>3, <1>4
<1>6. Head(s) = h.node[u[n]].item
  <2>1. n + 1 - 1 = n /\ 1 \in 1 .. n
    OBVIOUS
  <2>. QED  BY <1>4, <1>5, <2>1
<1>7. Tail(s) = [i \in 1 .. n - 1 |-> s[i + 1]]
  <2>1. PICK t : t = Tail(s)
    OBVIOUS
  <2>2. t \in Seq(Item) /\ Len(t) = n - 1 /\ \A i \in 1 .. n - 1 : t[i] = s[i + 1]
    BY <1>4, <1>5, <2>1
  <2>3. t = [i \in 1 .. n - 1 |-> t[i]]
    BY <2>2
  <2>. QED  BY <2>1, <2>2, <2>3
<1>8. \A i \in 1 .. n - 1 : s[i + 1] = g.node[v[(n - 1) + 1 - i]].item
  <2>1. ASSUME NEW i \in 1 .. n - 1 PROVE s[i + 1] = g.node[v[(n - 1) + 1 - i]].item
    <3>1. /\ i + 1 \in 1 .. n /\ n + 1 - (i + 1) = n - i /\ (n - 1) + 1 - i = n - i
          /\ n - i \in 1 .. n - 1
      OBVIOUS
    <3>. QED  BY <1>2, <1>4, <3>1
  <2>. QED  BY <2>1
<1>9. ItemsBack(g, v, n - 1) = [i \in 1 .. n - 1 |-> g.node[v[(n - 1) + 1 - i]].item]
  BY DEF ItemsBack
<1>. QED  BY <1>1, <1>3, <1>6, <1>7, <1>8, <1>9

\* The state of the links, as the refinement reads it from the memory.
LinksOf(lib, h) ==
  LET list == h.list[TheList]
  IN  CASE lib = "dump/list.c" -> "sound"
        [] list.head # NULL /\ list.tail = NULL -> "lost"
        [] lib = "list.c" /\ list.head # list.tail /\ list.tail # NULL
             /\ h.node[list.tail].prev = NULL -> "cut"
        [] OTHER -> "whole"

\* It tells a whole list from a broken one.
LEMMA LinksAre ==
  ASSUME NEW h \in Heap, NEW u, NEW n, NEW p, NEW m, Strung(h, TheList, u, n, p, m)
  PROVE  LET l == TheList
         IN  /\ Intact(h, l, u, n, p, m) =>
                  /\ LinksOf("list.c", h) = "whole"
                  /\ LinksOf("dump/list.c", h) = "sound"
             /\ n >= 2 /\ h.list[l].tail = u[n] /\ h.node[u[n]].prev = NULL =>
                  LinksOf("list.c", h) = "cut"
             /\ n >= 1 /\ h.list[l].tail = NULL => LinksOf("list.c", h) = "lost"
<1>1. PICK l : l = TheList
  OBVIOUS
<1>2. /\ n \in Nat /\ u \in [1 .. n -> NodeId] /\ \A i, j \in 1 .. n : u[i] = u[j] => i = j
      /\ h.list[l].head = IF n = 0 THEN NULL ELSE u[1]
  BY <1>1 DEF Strung
<1>3. \A i \in 1 .. n : u[i] # NULL
  BY <1>2, Pointers
<1>4. LinksOf("list.c", h) =
        CASE h.list[l].head # NULL /\ h.list[l].tail = NULL -> "lost"
          [] h.list[l].head # h.list[l].tail /\ h.list[l].tail # NULL
               /\ h.node[h.list[l].tail].prev = NULL -> "cut"
          [] OTHER -> "whole"
  BY <1>1 DEF LinksOf
<1>5. ASSUME Intact(h, l, u, n, p, m)
      PROVE  LinksOf("list.c", h) = "whole" /\ LinksOf("dump/list.c", h) = "sound"
  <2>1. LinksOf("list.c", h) = "whole"
    <3>1. CASE n = 0
      <4>1. h.list[l].head = NULL /\ h.list[l].tail = NULL
        BY <1>5, <3>1, IntactEnds
      <4>. QED  BY <1>4, <4>1
    <3>2. CASE n # 0
      <4>1. h.list[l].head = u[1] /\ h.list[l].tail = u[n] /\ u[n] # NULL
        BY <1>3, <1>5, <3>2, IntactEnds
      <4>2. n # 1 => h.node[u[n]].prev = u[n - 1] /\ u[n - 1] # NULL
        <5>1. n # 1 => n \in 1 .. n /\ n - 1 \in 1 .. n
          BY <1>2, <3>2
        <5>. QED  BY <1>3, <1>5, <5>1 DEF Intact, Threaded
      <4>. QED  BY <1>4, <4>1, <4>2
    <3>. QED  BY <3>1, <3>2
  <2>2. ~ (h.list[l].head # NULL /\ h.list[l].tail = NULL)
    <3>1. n # 0 => h.list[l].tail = u[n] /\ n \in 1 .. n
      BY <1>5, IntactEnds
    <3>. QED  BY <1>2, <1>3, <3>1
  <2>3. LinksOf("dump/list.c", h) = "sound"
    BY <1>1, <2>2, Zenon DEF LinksOf
  <2>. QED  BY <2>1, <2>3
<1>6. ASSUME n >= 2, h.list[l].tail = u[n], h.node[u[n]].prev = NULL
      PROVE  LinksOf("list.c", h) = "cut"
  <2>1. 1 \in 1 .. n /\ n \in 1 .. n /\ n # 0 /\ n # 1
    BY <1>2, <1>6
  <2>2. u[1] # u[n] /\ u[n] # NULL /\ h.list[l].head = u[1]
    BY <1>2, <1>3, <2>1
  <2>. QED  BY <1>4, <1>6, <2>2
<1>7. ASSUME n >= 1, h.list[l].tail = NULL
      PROVE  LinksOf("list.c", h) = "lost"
  <2>1. 1 \in 1 .. n /\ n # 0
    BY <1>2, <1>7
  <2>. QED  BY <1>2, <1>3, <1>4, <1>7, <2>1
<1>. QED  BY <1>1, <1>5, <1>6, <1>7

\* Whole lists are linked forwards,
LEMMA IntactStrung ==
  ASSUME NEW h, NEW l, NEW u, NEW n, NEW p, NEW m, Intact(h, l, u, n, p, m),
         n + m = LIST_MAX_NUM_NODES, \A i \in 1 .. n : h.node[u[i]].item \in Item
  PROVE  Strung(h, l, u, n, p, m)
<1>1. \A i \in 1 .. n - 1 : h.node[u[i]].next = u[i + 1]
  <2>1. n \in Nat
    BY DEF Intact, Threaded
  <2>2. \A i \in 1 .. n - 1 : i \in 1 .. n /\ i # n
    BY <2>1
  <2>. QED  BY <2>2 DEF Intact, Threaded
<1>2. n # 0 => h.node[u[1]].prev = NULL
  BY IntactEnds DEF Intact, Threaded
<1>. QED  BY <1>1, <1>2 DEF Strung, Intact, Threaded, Ends

\* and moves of the cursor change nothing of what is asked of a list.
LEMMA MovedStrung ==
  ASSUME NEW h, NEW l \in ListId, NEW u, NEW n, NEW p, NEW m, NEW g, Moved(h, g, l)
  PROVE  /\ Strung(h, l, u, n, p, m) => Strung(g, l, u, n, p, m)
         /\ Broken(h, l, u, n) => Broken(g, l, u, n)
         /\ ItemsBack(g, u, n) = ItemsBack(h, u, n)
<1>1. g.node = h.node /\ g.list[freeNodes] = h.list[freeNodes]
      /\ g.list[l].head = h.list[l].head /\ g.list[l].tail = h.list[l].tail
      /\ g.list[l].num_nodes = h.list[l].num_nodes
  BY Pointers, HeapAssumption DEF Moved, ListId, freeNodes
<1>. QED  BY <1>1 DEF Strung, Broken, Pooled, ItemsBack

\* List_first() and List_last() go to the end they are named for, when there is one.
LEMMA GoesTo ==
  ASSUME NEW h \in Heap, NEW l \in ListId, NEW end \in {"head", "tail"},
         NEW x \in NodeId, h.list[l][end] = x, NEW f, f = MoveTo(h, l, end).heap
  PROVE  Cursor(h, f, l, x, "LIST_OOB_NONE") /\ f \in Heap
<1>1. x \in Pointer /\ x # NULL /\ "LIST_OOB_NONE" \in Status
  BY Pointers DEF Status
<1>2. ~emptyList(h, l)
  BY <1>1 DEF emptyList
<1>3. PICK g : g = Set(Set(h, l, "curr", x), l, "status", "LIST_OOB_NONE")
  OBVIOUS
<1>4. Cursor(h, g, l, x, "LIST_OOB_NONE") /\ g \in Heap
  BY <1>1, <1>3, CursorsSet
<1>5. MoveTo(h, l, end) = ItemAt(g, x)
  BY <1>2, <1>3 DEF MoveTo
<1>6. f = g
  BY <1>5 DEF ItemAt
<1>. QED  BY <1>4, <1>6

\* Nodes of a list, each of them once.
Distinct(u, n) ==
  n \in Nat /\ u \in [1 .. n -> NodeId] /\ \A i, j \in 1 .. n : u[i] = u[j] => i = j

\* The first of the unused nodes is taken away.
Drawn(h, g, p, m) ==
  /\ \A j \in 2 .. m : g.node[p[j]].prev = h.node[p[j]].prev
  /\ g.list[freeNodes].tail = IF m = 1 THEN NULL ELSE p[2]
  /\ g.list[freeNodes].num_nodes = m - 1

\* The list that it joins, as its first.
Joining(g, v, u, n, p, m) ==
  /\ Pooled(g, Rest(p, m), m - 1) /\ Apart(v, n + 1, Rest(p, m), m - 1)
  /\ Distinct(v, n + 1)
  /\ v[1] = p[1] /\ \A i \in 1 .. n : v[i + 1] = u[i]

\* The nodes are then in one of the two still.
LEMMA PoolShrinks ==
  ASSUME NEW h, NEW g, NEW u, NEW n, Distinct(u, n),
         NEW p, NEW m, Pooled(h, p, m), m # 0, Apart(u, n, p, m), Drawn(h, g, p, m)
  PROVE  Joining(g, Into(u, n, 1, p[1]), u, n, p, m)
<1>0. PICK v : v = Into(u, n, 1, p[1])
  OBVIOUS
<1>. USE DEF Distinct, Drawn
<1>1. /\ m \in Nat /\ p \in [1 .. m -> NodeId] /\ 1 \in 1 .. m
      /\ \A i, j \in 1 .. m : p[i] = p[j] => i = j
      /\ \A i \in 1 .. n : \A j \in 1 .. m : u[i] # p[j]
  BY DEF Pooled, Apart
<1>2. PICK x \in NodeId : x = p[1]
  BY <1>1
<1>3. PICK q : q = Rest(p, m)
  OBVIOUS
<1>4. /\ v \in [1 .. n + 1 -> NodeId]
      /\ \A i \in 1 .. n + 1 : v[i] = IF i = 1 THEN x ELSE u[i - 1]
  BY <1>0, <1>2 DEF Into
<1>5. /\ q \in [1 .. m - 1 -> NodeId]
      /\ \A j \in 1 .. m - 1 : q[j] = p[j + 1] /\ j + 1 \in 2 .. m
  BY <1>1, <1>3 DEF Rest
<1>6. \A i \in 1 .. n : u[i] # x
  BY <1>1, <1>2
<1>7. \A i, j \in 1 .. n + 1 : v[i] = v[j] => i = j
  BY <1>4, <1>6
<1>8. Pooled(g, q, m - 1)
  <2>1. m - 1 \in Nat
    BY <1>1
  <2>2. \A i, j \in 1 .. m - 1 : q[i] = q[j] => i = j
    BY <1>1, <1>5
  <2>3. g.list[freeNodes].tail = IF m - 1 = 0 THEN NULL ELSE q[1]
    BY <1>1, <1>5
  <2>4. ASSUME NEW j \in 1 .. m - 1
        PROVE  g.node[q[j]].prev = IF j = m - 1 THEN NULL ELSE q[j + 1]
    <3>1. j + 1 \in 2 .. m /\ j + 1 \in 1 .. m /\ q[j] = p[j + 1]
      BY <1>1, <1>5
    <3>2. h.node[p[j + 1]].prev = IF j + 1 = m THEN NULL ELSE p[(j + 1) + 1]
      BY <3>1 DEF Pooled
    <3>. QED  BY <1>1, <1>5, <3>1, <3>2
  <2>. QED  BY <1>5, <2>1, <2>2, <2>3, <2>4 DEF Pooled
<1>9. Apart(v, n + 1, q, m - 1)
  <2>1. ASSUME NEW i \in 1 .. n + 1, NEW j \in 1 .. m - 1 PROVE v[i] # q[j]
    <3>1. j + 1 \in 1 .. m /\ q[j] = p[j + 1] /\ p[j + 1] # p[1]
      BY <1>1, <1>5
    <3>2. v[i] = x \/ \E a \in 1 .. n : v[i] = u[a]
      BY <1>4
    <3>. QED  BY <1>1, <1>2, <3>1, <3>2
  <2>. QED  BY <2>1 DEF Apart
<1>10. v[1] = x /\ \A i \in 1 .. n : v[i + 1] = u[i]
  <2>1. 1 \in 1 .. n + 1 /\ \A i \in 1 .. n : i + 1 \in 1 .. n + 1 /\ i + 1 # 1 /\ (i + 1) - 1 = i
    OBVIOUS
  <2>. QED  BY <1>4, <2>1
<1>11. n + 1 \in Nat
  OBVIOUS
<1>. QED  BY <1>0, <1>2, <1>3, <1>4, <1>7, <1>8, <1>9, <1>10, <1>11 DEF Joining

\* What an item put in front of a list that may be broken leaves.
Fronted(h, g, l, u, n, p, m, item) ==
  /\ Strung(g, l, Into(u, n, 1, p[1]), n + 1, Rest(p, m), m - 1)
  /\ g.list[l].tail = h.list[l].tail
  /\ n >= 2 => g.node[u[n]].prev = h.node[u[n]].prev
  /\ g.node[p[1]].item = item
  /\ \A i \in 1 .. n : g.node[u[i]].item = h.node[u[i]].item
  /\ g \in Heap /\ SameRest(h, g)

\* List_prepend of list.c on a list with items, whole or not (list.c:323-331).
LEMMA PrependFronts ==
  ASSUME NEW h \in Heap, NEW l \in ListId, NEW item \in Item, NEW u, NEW n, NEW p, NEW m,
         Strung(h, l, u, n, p, m), n # 0, NEW r, r = List_prepend(h, l, item)
  PROVE  /\ m = 0 => r.ret = "LIST_FAIL" /\ Moved(h, r.heap, l) /\ r.heap \in Heap
         /\ m # 0 => r.ret = "LIST_SUCCESS" /\ Fronted(h, r.heap, l, u, n, p, m, item)
<1>1. /\ n \in Nat /\ u \in [1 .. n -> NodeId] /\ 1 \in 1 .. n /\ u[1] \in NodeId
      /\ h.list[l].head = u[1] /\ m \in Nat
  BY DEF Strung, Pooled
<1>2. PICK f : f = List_first(h, l).heap
  OBVIOUS
<1>3. f \in Heap /\ Cursor(h, f, l, u[1], "LIST_OOB_NONE")
  BY <1>1, <1>2, GoesTo DEF List_first
<1>4. /\ Moved(h, f, l) /\ f.list[l].curr = u[1] /\ f.list[l].head = u[1]
      /\ f.list[l].tail = h.list[l].tail /\ f.list[l].num_nodes = h.list[l].num_nodes
      /\ f.node = h.node /\ SameRest(h, f) /\ Strung(f, l, u, n, p, m)
  <2>1. Moved(h, f, l) /\ f.list[l].curr = u[1]
    BY <1>3 DEF Cursor
  <2>. QED  BY <1>1, <2>1, MovedStrung DEF Moved
<1>5. r = List_insert_before(f, l, item)
  BY <1>2 DEF List_prepend
<1>6. PICK new : new = consumeFreeNode(f, item)
  OBVIOUS
<1>7. PICK g \in Heap : g = new.heap
  BY <1>3, <1>6, ConsumeTyped
<1>8. PICK x : x = new.ret
  OBVIOUS
<1>9. /\ m = 0 => g = f /\ x = NULL
      /\ m # 0 => x = p[1] /\ Consumed(f, g, item, p, m)
  <2>1. Pooled(f, p, m)
    BY <1>4 DEF Strung
  <2>. QED  BY <1>3, <1>6, <1>7, <1>8, <2>1, ConsumeIs
<1>10. CASE m = 0
  <2>1. r = Failed(g)
    BY <1>5, <1>6, <1>7, <1>8, <1>9, <1>10 DEF List_insert_before
  <2>. QED  BY <1>4, <1>7, <1>9, <1>10, <2>1 DEF Failed
<1>11. CASE m # 0
  <2>1. x = p[1] /\ Consumed(f, g, item, p, m) /\ g.list[l] = f.list[l]
        /\ x \in NodeId /\ x # NULL
    BY <1>9, <1>11, Pointers DEF Consumed
  <2>2. \A i \in 1 .. n : u[i] # x /\ u[i] \in NodeId
    <3>1. 1 \in 1 .. m
      BY <1>1, <1>11
    <3>. QED  BY <1>1, <2>1, <3>1 DEF Strung, Apart
  <2>3. g.node[u[1]].prev = NULL
    <3>1. g.node[u[1]] = f.node[u[1]]
      BY <1>1, <2>1, <2>2 DEF Consumed
    <3>. QED  BY <1>4, <3>1 DEF Strung
  <2>4. PICK linked : linked = linkNodes(g, x, u[1])
    OBVIOUS
  <2>5. Joined(g, linked, x, u[1]) /\ linked \in Heap
    BY <1>1, <2>1, <2>4, NodesLinked
  <2>6. PICK ended : ended = [linked EXCEPT !.list[l].status = "LIST_OOB_NONE",
                                            !.list[l].head = x]
    OBVIOUS
  <2>7. HeadSet(linked, ended, l, x, linked.list[l].tail, "LIST_OOB_NONE")
    BY <2>1, <2>5, <2>6, HeadsSet
  <2>8. PICK e : e = Inserted(ended, l, x).heap
    OBVIOUS
  <2>9. HeadBecomes(linked, e, l, x, linked.list[l].tail, "LIST_OOB_NONE", x)
    BY <2>1, <2>5, <2>7, <2>8, CountedAfter
  <2>10. r = Inserted(ended, l, x)
    <3>1. linked = linkNodes(linkNodes(g, g.node[u[1]].prev, x), x, u[1])
      BY <2>3, <2>4 DEF linkNodes
    <3>2. PICK temp : temp = IF g.list[l].curr # NULL THEN g.list[l].curr
                             ELSE g.list[l].head
      OBVIOUS
    <3>3. temp = u[1]
      BY <1>4, <2>1, <3>2
    <3>4. temp = g.list[l].head /\ temp \in NodeId
      BY <1>1, <1>4, <2>1, <3>3
    <3>5. ~emptyList(g, l)
      BY <1>1, <1>4, <2>1, Pointers DEF emptyList
    <3>6. linked = linkNodes(linkNodes(g, g.node[temp].prev, x), x, temp)
      BY <3>1, <3>3
    <3>7. g = consumeFreeNode(f, item).heap /\ x = consumeFreeNode(f, item).ret
      BY <1>6, <1>7, <1>8
    <3>. QED  BY <1>5, <2>1, <2>6, <3>2, <3>4, <3>5, <3>6, <3>7, ZenonT(30)
              DEF List_insert_before
  <2>11. r.heap = e /\ r.ret = "LIST_SUCCESS"
    BY <2>8, <2>10 DEF Inserted
  <2>12. e \in Heap
    <3>1. l \in AnyList /\ x \in Pointer /\ ended \in Heap
      BY <2>1, <2>7, Pointers DEF HeadSet
    <3>. QED  BY <2>8, <3>1, InsertedTyped
  <2>13. /\ \A i \in 1 .. n : /\ e.node[u[i]].next = h.node[u[i]].next
                              /\ e.node[u[i]].prev = IF u[i] = u[1] THEN x ELSE h.node[u[i]].prev
                              /\ e.node[u[i]].item = h.node[u[i]].item
         /\ e.node[x].next = u[1] /\ e.node[x].prev = NULL /\ e.node[x].item = item
    <3>1. e.node = linked.node
      BY <2>9 DEF HeadBecomes
    <3>2. \A i \in 1 .. n : g.node[u[i]] = h.node[u[i]]
      BY <1>4, <2>1, <2>2 DEF Consumed
    <3>3. g.node[x].item = item /\ g.node[x].prev = NULL /\ x # u[1] /\ u[1] # NULL
      BY <1>1, <2>1, <2>2, Pointers DEF Consumed
    <3>. QED  BY <2>1, <2>2, <2>5, <3>1, <3>2, <3>3 DEF Joined
  <2>14. \A j \in 2 .. m : e.node[p[j]].prev = f.node[p[j]].prev
    <3>1. ASSUME NEW j \in 2 .. m PROVE e.node[p[j]].prev = f.node[p[j]].prev
      <4>1. j \in 1 .. m /\ 1 \in 1 .. m /\ j # 1
        BY <1>1
      <4>2. p[j] \in NodeId \ {p[1]} /\ p[j] # u[1]
        BY <1>1, <1>4, <4>1 DEF Strung, Pooled, Apart
      <4>3. e.node = linked.node /\ g.node[p[j]] = f.node[p[j]]
        BY <2>1, <2>9, <4>2 DEF HeadBecomes, Consumed
      <4>. QED  BY <2>5, <4>2, <4>3 DEF Joined
    <3>. QED  BY <3>1
  <2>15. /\ e.list[freeNodes].tail = IF m = 1 THEN NULL ELSE p[2]
         /\ e.list[freeNodes].num_nodes = m - 1
         /\ e.list[l].head = x /\ e.list[l].tail = h.list[l].tail
         /\ e.list[l].num_nodes = n + 1 /\ SameRest(h, e)
    <3>1. linked.list = g.list
      BY <2>5 DEF Joined
    <3>2. h.list[l].num_nodes = n
      BY DEF Strung
    <3>3. SameRest(h, e)
      BY <1>4, <2>1, <2>5, <2>9 DEF SameRest, Consumed, Joined, HeadBecomes
    <3>. QED  BY <1>4, <2>1, <2>9, <3>1, <3>2, <3>3 DEF HeadBecomes, Consumed
  <2>16. PICK v : v = Into(u, n, 1, p[1])
    OBVIOUS
  <2>17. PICK q : q = Rest(p, m)
    OBVIOUS
  <2>18. /\ Pooled(e, q, m - 1) /\ Apart(v, n + 1, q, m - 1)
         /\ v \in [1 .. n + 1 -> NodeId] /\ \A i, j \in 1 .. n + 1 : v[i] = v[j] => i = j
         /\ v[1] = x /\ \A i \in 1 .. n : v[i + 1] = u[i]
    <3>1. Distinct(u, n) /\ Pooled(f, p, m) /\ Apart(u, n, p, m)
      BY <1>4 DEF Strung, Distinct
    <3>2. Drawn(f, e, p, m)
      BY <2>14, <2>15 DEF Drawn
    <3>3. Joining(e, v, u, n, p, m)
      BY <1>11, <2>16, <3>1, <3>2, PoolShrinks
    <3>. QED  BY <2>1, <2>17, <3>3 DEF Joining, Distinct
  <2>19. \A i \in 1 .. n + 1 : i # 1 => i - 1 \in 1 .. n /\ v[i] = u[i - 1]
    <3>1. \A i \in 1 .. n + 1 : i # 1 => i - 1 \in 1 .. n /\ (i - 1) + 1 = i
      BY <1>1
    <3>. QED  BY <2>18, <3>1
  <2>20. Strung(e, l, v, n + 1, q, m - 1)
    <3>1. ASSUME NEW i \in 1 .. n PROVE e.node[v[i]].next = v[i + 1]
      <4>1. CASE i = 1
        BY <1>1, <2>13, <2>18, <4>1
      <4>2. CASE i # 1
        <5>1. i \in 1 .. n + 1 /\ i - 1 \in 1 .. n - 1 /\ i - 1 \in 1 .. n /\ (i - 1) + 1 = i
          BY <1>1, <4>2
        <5>2. v[i] = u[i - 1] /\ v[i + 1] = u[i] /\ h.node[u[i - 1]].next = u[i]
          BY <2>18, <2>19, <4>2, <5>1 DEF Strung
        <5>. QED  BY <2>13, <5>1, <5>2
      <4>. QED  BY <4>1, <4>2
    <3>2. ASSUME NEW i \in 1 .. n + 1 PROVE e.node[v[i]].item \in Item
      <4>1. CASE i = 1
        BY <2>13, <2>18, <4>1
      <4>2. CASE i # 1
        <5>1. i - 1 \in 1 .. n /\ v[i] = u[i - 1]
          BY <2>19, <4>2
        <5>2. h.node[u[i - 1]].item \in Item
          BY <5>1 DEF Strung
        <5>. QED  BY <2>13, <5>1, <5>2
      <4>. QED  BY <4>1, <4>2
    <3>3. (n + 1) - 1 = n /\ n + 1 \in Nat /\ n + 1 # 0
          /\ (n + 1) + (m - 1) = LIST_MAX_NUM_NODES
      <4>1. n + m = LIST_MAX_NUM_NODES
        BY DEF Strung
      <4>. QED  BY <1>1, <4>1
    <3>4. \A i \in 1 .. (n + 1) - 1 : e.node[v[i]].next = v[i + 1]
      BY <3>1, <3>3
    <3>. QED  BY <2>13, <2>15, <2>18, <3>2, <3>3, <3>4 DEF Strung
  <2>21. n >= 2 => e.node[u[n]].prev = h.node[u[n]].prev
    <3>1. n >= 2 => n \in 1 .. n /\ u[n] # u[1]
      BY <1>1 DEF Strung
    <3>. QED  BY <2>13, <3>1
  <2>22. Fronted(h, e, l, u, n, p, m, item)
    BY <2>1, <2>12, <2>13, <2>15, <2>16, <2>17, <2>20, <2>21 DEF Fronted
  <2>. QED  BY <1>11, <2>11, <2>22
<1>. QED  BY <1>10, <1>11

\* The last of the nodes is no longer linked to the others.
Parted(h, c, l, u, n, p, m, tail) ==
  /\ c \in Heap /\ SameRest(h, c) /\ c.list[freeNodes] = h.list[freeNodes]
  /\ c.list[l].head = h.list[l].head /\ c.list[l].tail = tail
  /\ c.list[l].num_nodes = n
  /\ \A y \in NodeId \ {u[n]} : c.node[y].item = h.node[y].item
  /\ \A i \in 1 .. n - 2 : c.node[u[i]].next = h.node[u[i]].next
  /\ c.node[u[1]].prev = NULL
  /\ \A j \in 1 .. m : c.node[p[j]].prev = h.node[p[j]].prev

\* It is with the unused ones.
Shortened(h, g, l, u, n, p, m, tail) ==
  /\ Strung(g, l, Without(u, n, n), n - 1, Ahead(u[n], p, m), m + 1)
  /\ g.list[l].tail = tail
  /\ \A i \in 1 .. n - 1 : g.node[u[i]].item = h.node[u[i]].item
  /\ g \in Heap /\ SameRest(h, g)

\* The end of List_trim, after the links (list.c:379-387).
LEMMA GivenBack ==
  ASSUME NEW h \in Heap, NEW l \in ListId, NEW u, NEW n, NEW p, NEW m,
         Strung(h, l, u, n, p, m), n >= 2, NEW tail, NEW c, Parted(h, c, l, u, n, p, m, tail),
         NEW g, g = produceFreeNode([c EXCEPT !.list[l].num_nodes = @ - 1], u[n])
  PROVE  /\ Shortened(h, g, l, u, n, p, m, tail)
         /\ g.node[u[n - 1]].prev = c.node[u[n - 1]].prev
<1>1. /\ n \in Nat /\ u \in [1 .. n -> NodeId] /\ m \in Nat /\ p \in [1 .. m -> NodeId]
      /\ n \in 1 .. n /\ 1 \in 1 .. n /\ n - 1 \in 1 .. n
      /\ \A i, j \in 1 .. n : u[i] = u[j] => i = j
      /\ \A i \in 1 .. n : \A j \in 1 .. m : u[i] # p[j]
      /\ h.list[l].num_nodes = n
      /\ h.list[freeNodes].num_nodes = m
      /\ h.list[freeNodes].tail = IF m = 0 THEN NULL ELSE p[1]
  BY DEF Strung, Pooled, Apart
<1>2. PICK x \in NodeId : x = u[n]
  BY <1>1
<1>3. c \in Heap /\ c.list \in [AnyList -> ListHead] /\ l \in AnyList /\ c.list[l] \in ListHead
      /\ freeNodes \in AnyList /\ l # freeNodes
  BY Pointers, HeapAssumption DEF Parted, Heap, ListId, freeNodes
<1>4. PICK d : d = [c EXCEPT !.list[l].num_nodes = @ - 1]
  OBVIOUS
<1>5. /\ d.list = [c.list EXCEPT ![l] = [c.list[l] EXCEPT !.num_nodes = @ - 1]]
      /\ d.node = c.node /\ SameRest(c, d) /\ d \in Heap
  <2>1. c.list[l].num_nodes - 1 \in Int
    BY <1>3, Fields
  <2>2. [c EXCEPT !.list[l].num_nodes = c.list[l].num_nodes - 1] \in Heap
    BY <1>3, <2>1, HeadUpdated
  <2>3. d = [c EXCEPT !.list[l].num_nodes = c.list[l].num_nodes - 1]
    BY <1>4
  <2>. QED  BY <1>3, <1>4, <2>2, <2>3 DEF Heap, SameRest
<1>6. /\ d.list[l] = [c.list[l] EXCEPT !.num_nodes = @ - 1]
      /\ d.list[freeNodes] = h.list[freeNodes]
  BY <1>3, <1>5 DEF Parted
<1>7. /\ d.list[l].head = h.list[l].head /\ d.list[l].tail = tail
      /\ d.list[l].num_nodes = n - 1
  BY <1>3, <1>6 DEF ListHead, Parted
<1>8. d.list[freeNodes].tail \in NodeId \union {NULL} /\ d.list[freeNodes].tail # x
  <2>1. CASE m = 0
    BY <1>1, <1>2, <1>6, <2>1, Pointers
  <2>2. CASE m # 0
    <3>1. 1 \in 1 .. m
      BY <1>1, <2>2
    <3>. QED  BY <1>1, <1>2, <1>6, <2>2, <3>1
  <2>. QED  BY <2>1, <2>2
<1>9. Produced(d, g, x) /\ g \in Heap
  BY <1>2, <1>4, <1>5, <1>8, ProduceIs
<1>10. g.list[l] = d.list[l]
  BY <1>9 DEF Produced
<1>11. ASSUME NEW i \in 1 .. n - 1
       PROVE  /\ g.node[u[i]].next = c.node[u[i]].next /\ g.node[u[i]].prev = c.node[u[i]].prev
              /\ g.node[u[i]].item = h.node[u[i]].item
  <2>1. i \in 1 .. n /\ u[i] \in NodeId /\ u[i] # x /\ u[i] # NULL
    BY <1>1, <1>2, Pointers
  <2>2. u[i] # d.list[freeNodes].tail
    <3>1. m # 0 => 1 \in 1 .. m
      BY <1>1
    <3>. QED  BY <1>1, <1>6, <2>1, <3>1
  <2>. QED  BY <1>2, <1>5, <1>9, <2>1, <2>2 DEF Produced, Parted
<1>12. PICK v : v = Without(u, n, n)
  OBVIOUS
<1>13. \A i \in 1 .. n - 1 : v[i] = u[i] /\ i \in 1 .. n
  BY <1>1, <1>12 DEF Without
<1>14. v \in [1 .. n - 1 -> NodeId]
  BY <1>1, <1>12, <1>13 DEF Without
<1>15. PICK q : q = Ahead(x, p, m)
  OBVIOUS
<1>16. Pooled(g, q, m + 1)
  <2>1. Pooling(c, g, x, p, m)
    <3>1. ASSUME NEW j \in 1 .. m PROVE g.node[p[j]].prev = c.node[p[j]].prev
      <4>1. p[j] \in NodeId \ {x}
        BY <1>1, <1>2
      <4>. QED  BY <1>5, <1>9, <4>1 DEF Produced
    <3>2. g.node[x].prev = IF m = 0 THEN NULL ELSE p[1]
      BY <1>1, <1>6, <1>9 DEF Produced
    <3>3. g.list[freeNodes].tail = x /\ g.list[freeNodes].num_nodes = m + 1
      BY <1>1, <1>6, <1>9 DEF Produced
    <3>. QED  BY <3>1, <3>2, <3>3 DEF Pooling
  <2>2. Pooled(c, p, m)
    BY DEF Strung, Pooled, Parted
  <2>3. \A j \in 1 .. m : p[j] # x
    BY <1>1, <1>2
  <2>. QED  BY <1>15, <2>1, <2>2, <2>3, PoolGrows
<1>17. Apart(v, n - 1, q, m + 1)
  <2>1. ASSUME NEW i \in 1 .. n - 1, NEW j \in 1 .. m + 1 PROVE v[i] # q[j]
    <3>1. i # n /\ v[i] = u[i] /\ i \in 1 .. n
      BY <1>1, <1>13
    <3>2. q[j] = IF j = 1 THEN x ELSE p[j - 1]
      BY <1>15 DEF Ahead
    <3>3. j # 1 => j - 1 \in 1 .. m
      BY <1>1
    <3>. QED  BY <1>1, <1>2, <3>1, <3>2, <3>3
  <2>. QED  BY <2>1 DEF Apart
<1>18. Strung(g, l, v, n - 1, q, m + 1)
  <2>1. \A i, j \in 1 .. n - 1 : v[i] = v[j] => i = j
    BY <1>1, <1>13
  <2>2. ASSUME NEW i \in 1 .. (n - 1) - 1 PROVE g.node[v[i]].next = v[i + 1]
    <3>1. i \in 1 .. n - 2 /\ i \in 1 .. n - 1 /\ i + 1 \in 1 .. n - 1
      BY <1>1
    <3>2. h.node[u[i]].next = u[i + 1]
      BY <3>1 DEF Strung
    <3>3. c.node[u[i]].next = u[i + 1]
      BY <3>1, <3>2 DEF Parted
    <3>. QED  BY <1>11, <1>13, <3>1, <3>3
  <2>3. 1 \in 1 .. n - 1 /\ n - 1 # 0 /\ n - 1 \in Nat
    BY <1>1
  <2>4. g.node[v[1]].prev = NULL
    BY <1>11, <1>13, <2>3 DEF Parted
  <2>5. g.list[l].head = v[1] /\ g.list[l].num_nodes = n - 1
    BY <1>7, <1>10, <1>13, <2>3 DEF Strung
  <2>6. \A i \in 1 .. n - 1 : g.node[v[i]].item \in Item
    BY <1>11, <1>13 DEF Strung
  <2>7. (n - 1) + (m + 1) = LIST_MAX_NUM_NODES
    <3>1. n + m = LIST_MAX_NUM_NODES
      BY DEF Strung
    <3>. QED  BY <1>1, <3>1
  <2>. QED  BY <1>14, <1>16, <1>17, <2>1, <2>2, <2>3, <2>4, <2>5, <2>6, <2>7 DEF Strung
<1>19. SameRest(h, g)
  BY <1>5, <1>9 DEF SameRest, Parted, Produced
<1>20. n - 1 \in 1 .. n - 1
  BY <1>1
<1>. QED  BY <1>2, <1>7, <1>9, <1>10, <1>11, <1>12, <1>15, <1>18, <1>19, <1>20 DEF Shortened

\* The heaps that List_trim of list.c goes through when the list has a last node.
TrimSteps(h, l, x, last, moved, before, tailed, headed, c) ==
  /\ ~emptyList(h, l) /\ last = List_last(h, l).heap /\ x = last.list[l].curr
  /\ moved = List_prev(last, l).heap /\ before = moved.list[l].curr
  /\ tailed = Set(moved, l, "tail", before)
  /\ headed = IF x = tailed.list[l].head THEN Set(tailed, l, "head", before) ELSE tailed
  /\ c = unlinkNodes(headed, x, last.node[x].prev, last.node[x].next)

\* What it gives then (list.c:358-388).
LEMMA TrimRuns ==
  ASSUME NEW h, NEW l, NEW x \in NodeId, NEW last, NEW moved, NEW before, NEW tailed,
         NEW headed, NEW c, TrimSteps(h, l, x, last, moved, before, tailed, headed, c)
  PROVE  List_trim(h, l) =
           [heap |-> produceFreeNode([c EXCEPT !.list[l].num_nodes = @ - 1], x),
            ret |-> last.node[x].item]
<1>1. /\ ~emptyList(h, l) /\ last = List_last(h, l).heap /\ x = last.list[l].curr
      /\ moved = List_prev(last, l).heap /\ before = moved.list[l].curr
      /\ tailed = Set(moved, l, "tail", before)
      /\ headed = IF x = tailed.list[l].head THEN Set(tailed, l, "head", before) ELSE tailed
      /\ c = unlinkNodes(headed, x, last.node[x].prev, last.node[x].next)
  BY DEF TrimSteps
<1>2. List_trim(h, l) =
        CASE emptyList(h, l) -> [heap |-> h, ret |-> NoItem]
          [] ~emptyList(h, l) /\ x \notin NodeId -> [heap |-> Fault(h), ret |-> NoItem]
          [] ~emptyList(h, l) /\ x \in NodeId ->
               [heap |-> produceFreeNode([c EXCEPT !.list[l].num_nodes = @ - 1], x),
                ret |-> last.node[x].item]
  BY <1>1, ZenonT(30) DEF List_trim
<1>. QED  BY <1>1, <1>2

\* List_trim of list.c cuts the last but one node loose of a whole list of three or
\* more (list.c:375-377: the arguments of unlinkNodes are shifted by one).
LEMMA TrimCuts ==
  ASSUME NEW h \in Heap, NEW l \in ListId, NEW u, NEW n, NEW p, NEW m,
         Intact(h, l, u, n, p, m), Strung(h, l, u, n, p, m), n >= 3, NEW r, r = List_trim(h, l)
  PROVE  /\ Shortened(h, r.heap, l, u, n, p, m, u[n - 1]) /\ r.ret = h.node[u[n]].item
         /\ r.heap.node[u[n - 1]].prev = NULL
<1>1. /\ n \in Nat /\ u \in [1 .. n -> NodeId] /\ n \in 1 .. n /\ n - 1 \in 1 .. n
      /\ ~emptyList(h, l) /\ 1 \in 1 .. n /\ n # 0 /\ n # 1 /\ n # 2
  <2>1. n \in Nat /\ n # 0
    BY DEF Strung
  <2>. QED  BY <2>1, IntactEnds
<1>2. PICK x \in NodeId : x = u[n]
  BY <1>1
<1>3. PICK before \in NodeId : before = u[n - 1]
  BY <1>1
<1>4. PICK last : last = List_last(h, l).heap
  OBVIOUS
<1>5. PICK moved : moved = List_prev(last, l).heap
  OBVIOUS
<1>6. PICK tailed : tailed = Set(moved, l, "tail", before)
  OBVIOUS
<1>7. PICK headed : headed = IF x = tailed.list[l].head
                             THEN Set(tailed, l, "head", before) ELSE tailed
  OBVIOUS
<1>8. /\ last.node = h.node /\ last.list[l].curr = x
      /\ moved \in Heap /\ Moved(h, moved, l) /\ moved.list[l].curr = before
      /\ EndsSet(moved, headed, l, h.list[l].head, before)
  <2>1. before = IF n = 1 THEN NULL ELSE u[n - 1]
    BY <1>1, <1>3
  <2>2. headed = IF u[n] = tailed.list[l].head
                 THEN Set(tailed, l, "head", before) ELSE tailed
    BY <1>2, <1>7
  <2>3. /\ last.node = h.node /\ last.list[l].curr = u[n]
        /\ moved \in Heap /\ Moved(h, moved, l) /\ moved.list[l].curr = before
        /\ EndsSet(moved, headed, l, IF n = 1 THEN NULL ELSE h.list[l].head, before)
    BY <1>1, <1>4, <1>5, <1>6, <2>1, <2>2, TrimMoves
  <2>. QED  BY <1>1, <1>2, <2>3
<1>9. h.node[x].prev = before /\ h.node[x].next = NULL /\ before # x
  BY <1>1, <1>2, <1>3 DEF Intact, Threaded
<1>10. PICK c : c = unlinkNodes(headed, x, before, NULL)
  OBVIOUS
<1>11. List_trim(h, l) = [heap |-> produceFreeNode([c EXCEPT !.list[l].num_nodes = @ - 1], x),
                          ret |-> last.node[x].item]
  <2>1. c = unlinkNodes(headed, x, last.node[x].prev, last.node[x].next)
    BY <1>8, <1>9, <1>10
  <2>2. TrimSteps(h, l, x, last, moved, before, tailed, headed, c)
    BY <1>1, <1>4, <1>5, <1>6, <1>7, <1>8, <2>1 DEF TrimSteps
  <2>. QED  BY <2>2, TrimRuns
<1>12. headed \in Heap /\ headed.node = h.node /\ SameRest(h, headed)
       /\ headed.list[freeNodes] = h.list[freeNodes] /\ headed.list[l].head = h.list[l].head
       /\ headed.list[l].tail = before /\ headed.list[l].num_nodes = h.list[l].num_nodes
  <2>1. moved.list[freeNodes] = h.list[freeNodes]
    BY <1>8, Pointers, HeapAssumption DEF Moved, ListId, freeNodes
  <2>. QED  BY <1>8, <2>1 DEF EndsSet, Moved, SameRest
<1>13. /\ Cut(headed, c, before, x, NULL) /\ c \in Heap
       /\ c.node[before].next = NULL /\ c.node[before].prev = NULL
       /\ c.node[before].item = headed.node[before].item
  <2>1. x \in NodeId \union {NULL} /\ NULL \in NodeId \union {NULL} /\ before # NULL
    BY <1>3, Pointers
  <2>. QED  BY <1>9, <1>10, <1>12, <2>1, UnlinkIs
<1>14. Parted(h, c, l, u, n, p, m, before)
  <2>1. c.list = headed.list /\ SameRest(headed, c)
    BY <1>13 DEF Cut
  <2>2. SameRest(h, c)
    BY <1>12, <2>1 DEF SameRest
  <2>3. \A y \in NodeId : y # before =>
          /\ c.node[y].next = IF y = x THEN NULL ELSE h.node[y].next
          /\ c.node[y].prev = h.node[y].prev /\ c.node[y].item = h.node[y].item
    BY <1>12, <1>13, Pointers DEF Cut
  <2>4. \A y \in NodeId : c.node[y].item = h.node[y].item
    BY <1>12, <1>13, <2>3
  <2>5. ASSUME NEW i \in 1 .. n - 2 PROVE c.node[u[i]].next = h.node[u[i]].next
    <3>1. i \in 1 .. n /\ i # n /\ i # n - 1
      BY <1>1
    <3>2. u[i] \in NodeId /\ u[i] # x /\ u[i] # before
      BY <1>1, <1>2, <1>3, <3>1 DEF Strung
    <3>. QED  BY <2>3, <3>2
  <2>6. c.node[u[1]].prev = NULL
    <3>1. u[1] \in NodeId /\ u[1] # before
      <4>1. 1 # n - 1
        BY <1>1
      <4>. QED  BY <1>1, <1>3, <4>1 DEF Strung
    <3>. QED  BY <1>1, <2>3, <3>1 DEF Strung
  <2>7. ASSUME NEW j \in 1 .. m PROVE c.node[p[j]].prev = h.node[p[j]].prev
    <3>1. p[j] \in NodeId /\ p[j] # before
      BY <1>1, <1>3 DEF Strung, Pooled, Apart
    <3>. QED  BY <2>3, <3>1
  <2>8. h.list[l].num_nodes = n
    BY DEF Strung
  <2>. QED  BY <1>12, <1>13, <2>1, <2>2, <2>4, <2>5, <2>6, <2>7, <2>8 DEF Parted
<1>15. PICK g : g = produceFreeNode([c EXCEPT !.list[l].num_nodes = @ - 1], x)
  OBVIOUS
<1>16. /\ Shortened(h, g, l, u, n, p, m, before)
       /\ g.node[u[n - 1]].prev = c.node[u[n - 1]].prev
  <2>1. n >= 2
    BY <1>1
  <2>. QED  BY <1>2, <1>14, <1>15, <2>1, GivenBack
<1>. QED  BY <1>2, <1>3, <1>8, <1>11, <1>13, <1>15, <1>16

\* The next time there is no node before the last one, and the list has no tail.
LEMMA TrimLoses ==
  ASSUME NEW h \in Heap, NEW l \in ListId, NEW u, NEW n, NEW p, NEW m,
         Strung(h, l, u, n, p, m), n >= 2,
         h.list[l].tail = u[n], h.node[u[n]].prev = NULL, NEW r, r = List_trim(h, l)
  PROVE  Shortened(h, r.heap, l, u, n, p, m, NULL) /\ r.ret = h.node[u[n]].item
<1>1. /\ n \in Nat /\ u \in [1 .. n -> NodeId] /\ n \in 1 .. n
      /\ 1 \in 1 .. n /\ n # 0 /\ n # 1
      /\ h.list[l].head = u[1] /\ h.list[l].num_nodes = n
      /\ \A i, j \in 1 .. n : u[i] = u[j] => i = j
  BY DEF Strung
<1>2. PICK x \in NodeId : x = u[n]
  BY <1>1
<1>3. ~emptyList(h, l) /\ u[1] # x /\ x # NULL
  BY <1>1, <1>2, Pointers DEF emptyList
<1>4. PICK last : last = List_last(h, l).heap
  OBVIOUS
<1>5. Cursor(h, last, l, x, "LIST_OOB_NONE") /\ last \in Heap
  BY <1>2, <1>4, GoesTo DEF List_last
<1>6. Moved(h, last, l) /\ last.list[l].curr = x /\ last.node = h.node
      /\ last.list[l].status = "LIST_OOB_NONE"
  BY <1>5 DEF Cursor, Moved
<1>7. PICK moved : moved = List_prev(last, l).heap
  OBVIOUS
<1>8. Cursor(last, moved, l, NULL, "LIST_OOB_START")
  <2>1. ~isListOOB(last, l) /\ "LIST_OOB_START" \in Status
    BY <1>6 DEF isListOOB, Status
  <2>2. PICK q \in NodeId \union {NULL} : q = NULL
    OBVIOUS
  <2>3. q = last.node[last.list[l].curr]["prev"]
    BY <1>2, <1>6, <2>2
  <2>4. last.list[l].curr \in NodeId
    BY <1>6
  <2>5. Cursor(last, Advance(last, l, "prev", "LIST_OOB_START").heap, l, NULL, "LIST_OOB_START")
    BY <1>5, <2>1, <2>2, <2>3, <2>4, FollowIs
  <2>. QED  BY <1>7, <2>5 DEF List_prev
<1>9. moved \in Heap /\ Moved(h, moved, l) /\ moved.list[l].curr = NULL
  <2>1. moved \in Heap
    BY <1>5, <1>7, AdvanceTyped, Pointers
  <2>2. Moved(last, moved, l) /\ moved.list[l].curr = NULL
    BY <1>8 DEF Cursor
  <2>. QED  BY <1>6, <2>1, <2>2, MovedOn
<1>10. PICK tailed : tailed = Set(moved, l, "tail", NULL)
  OBVIOUS
<1>11. EndsSet(moved, tailed, l, u[1], NULL)
  <2>1. EndsSet(moved, tailed, l, moved.list[l].head, NULL)
    BY <1>9, <1>10, EndSet, Pointers
  <2>. QED  BY <1>1, <1>9, <2>1 DEF Moved
<1>12. List_trim(h, l) =
         [heap |-> produceFreeNode([tailed EXCEPT !.list[l].num_nodes = @ - 1], x),
          ret |-> last.node[x].item]
  <2>1. tailed = IF x = tailed.list[l].head
                 THEN Set(tailed, l, "head", NULL) ELSE tailed
    BY <1>3, <1>11 DEF EndsSet
  <2>2. tailed = unlinkNodes(tailed, x, last.node[x].prev, last.node[x].next)
    BY <1>2, <1>6 DEF unlinkNodes
  <2>3. x = last.list[l].curr /\ NULL = moved.list[l].curr
    BY <1>6, <1>9
  <2>4. TrimSteps(h, l, x, last, moved, NULL, tailed, tailed, tailed)
    BY <1>3, <1>4, <1>7, <1>10, <2>1, <2>2, <2>3 DEF TrimSteps
  <2>. QED  BY <2>4, TrimRuns
<1>13. Parted(h, tailed, l, u, n, p, m, NULL)
  <2>1. moved.list[freeNodes] = h.list[freeNodes]
    BY <1>9, Pointers, HeapAssumption DEF Moved, ListId, freeNodes
  <2>2. /\ tailed \in Heap /\ tailed.node = h.node /\ SameRest(h, tailed)
        /\ tailed.list[freeNodes] = h.list[freeNodes]
        /\ tailed.list[l].head = u[1] /\ tailed.list[l].tail = NULL
        /\ tailed.list[l].num_nodes = n
    BY <1>1, <1>9, <1>11, <2>1 DEF EndsSet, Moved, SameRest
  <2>3. h.node[u[1]].prev = NULL
    BY <1>1 DEF Strung
  <2>. QED  BY <1>1, <2>2, <2>3 DEF Parted
<1>14. Shortened(h, produceFreeNode([tailed EXCEPT !.list[l].num_nodes = @ - 1], x),
                 l, u, n, p, m, NULL)
  BY <1>2, <1>13, GivenBack
<1>. QED  BY <1>2, <1>6, <1>12, <1>14

\* After that it uses a null pointer.
LEMMA TrimFaults ==
  ASSUME NEW h \in Heap, NEW l \in ListId, h.list[l].head \in NodeId, h.list[l].tail = NULL
  PROVE  List_trim(h, l) = [heap |-> Fault(h), ret |-> NoItem]
<1>1. ~emptyList(h, l) /\ NULL \notin NodeId /\ NULL \in Pointer
      /\ "LIST_OOB_NONE" \in Status
  BY Pointers DEF emptyList, Status
<1>2. PICK f : f = Set(Set(h, l, "curr", NULL), l, "status", "LIST_OOB_NONE")
  OBVIOUS
<1>3. Cursor(h, f, l, NULL, "LIST_OOB_NONE") /\ f \in Heap
  BY <1>1, <1>2, CursorsSet
<1>4. PICK last : last = List_last(h, l).heap
  OBVIOUS
<1>5. last = Fault(f)
  <2>1. List_last(h, l) = ItemAt(f, NULL)
    BY <1>1, <1>2 DEF List_last, MoveTo
  <2>. QED  BY <1>1, <1>4, <2>1 DEF ItemAt
<1>6. last.list[l].curr = NULL
  <2>1. last.list = f.list
    BY <1>3, <1>5 DEF Fault, Heap
  <2>. QED  BY <1>3, <2>1 DEF Cursor
<1>7. last.list[l].curr \notin NodeId
  BY <1>1, <1>6
<1>. QED  BY <1>1, <1>4, <1>7, ZenonT(30) DEF List_trim

\* produceFreeList() resets the head.
LEMMA FreeListResets ==
  ASSUME NEW h \in Heap, NEW l \in ListId, NEW g, g = produceFreeList(h, l)
  PROVE  g.list[l] = EmptyHead("LIST_OOB_START") /\ g.fault = h.fault
<1>1. PICK s : s = [h EXCEPT !.list[l] = EmptyHead("LIST_OOB_START")]
  OBVIOUS
<1>2. s.list[l] = EmptyHead("LIST_OOB_START") /\ s.fault = h.fault
  BY <1>1, Pointers DEF Heap
<1>3. g = s \/ g = [s EXCEPT !.flIndex = @ + 1, !.freeLists[h.flIndex + 1] = l]
  BY <1>1, Zenon DEF produceFreeList
<1>4. [s EXCEPT !.flIndex = @ + 1, !.freeLists[h.flIndex + 1] = l].list = s.list
      /\ [s EXCEPT !.flIndex = @ + 1, !.freeLists[h.flIndex + 1] = l].fault = s.fault
  BY <1>1 DEF Heap
<1>. QED  BY <1>2, <1>3, <1>4

\* List_free of list.c on a list with items.
LEMMA FreeFaults ==
  ASSUME NEW h \in Heap, NEW l \in ListId, h.list[l].head \in NodeId
  PROVE  List_free(h, l) = Fault(h)
<1>. DEFINE D == {f \in Heap : f.fault \/ f.list[l].curr # NULL}
<1>0. ~emptyList(h, l)
  BY Pointers DEF emptyList
<1>1. FreeStart(h, l) \in D
  <2>1. h.list[l].head \in Pointer /\ h.list[l].head # NULL
    BY Pointers
  <2>2. FreeStart(h, l) \in Heap /\ FreeStart(h, l).list[l].curr = h.list[l].head
    BY <2>1, CursorSet, SetTyped, Pointers, ZenonT(60) DEF FreeStart, Cursor
  <2>. QED  BY <2>1, <2>2
<1>2. ASSUME NEW f \in D, ~f.fault, f.list[l].curr # NULL PROVE FreeRound(f, l) \in D
  <2>1. Fault(f) \in D
    BY FaultTyped DEF Fault, Heap
  <2>2. CASE f.list[l].curr \notin NodeId \/ isListOOB(f, l)
    <3>1. FreeRound(f, l) = Fault(f)
      BY <2>2 DEF FreeRound
    <3>. QED  BY <2>1, <3>1
  <2>3. CASE ~(f.list[l].curr \notin NodeId \/ isListOOB(f, l))
    <3>1. FreeRound(f, l) = List_remove(f, l).heap
      BY <2>3 DEF FreeRound
    <3>2. List_remove(f, l).heap.list[l].curr # NULL /\ List_remove(f, l).heap \in Heap
      BY <2>3, RemoveStepsBack, RemoveTyped, Pointers
    <3>. QED  BY <3>1, <3>2
  <2>. QED  BY <2>2, <2>3
<1>3. \A f \in D : ~f.fault /\ f.list[l].curr # NULL => FreeRound(f, l) \in D
  BY <1>2
<1>4. PICK done \in D : List_free(h, l) =
         CASE emptyList(h, l) -> produceFreeList(h, l)
           [] ~emptyList(h, l) /\ ~done.fault /\ done.list[l].curr = NULL ->
                produceFreeList(done, l)
           [] OTHER -> Fault(h)
  <2>. HIDE DEF D
  <2>. QED  BY <1>1, <1>3, FreeEnds
<1>. QED  BY <1>0, <1>4

\* Each round of List_free in dump/list.c takes out the first node, and there are
\* enough of them.
LEMMA DumpFreeEmpties ==
  ASSUME NEW h \in Heap, NEW l \in ListId, NEW u, NEW n, NEW p, NEW m,
         Intact(h, l, u, n, p, m), n # 0, h.list[l].status = "LIST_OOB_NONE", ~h.fault,
         NEW g, g = DumpFree(h, l)
  PROVE  g.list[l] = EmptyHead("LIST_OOB_START") /\ ~g.fault
<1>1. /\ n \in Nat /\ u \in [1 .. n -> NodeId] /\ ~emptyList(h, l)
      /\ h.list[l].head \in NodeId /\ h.list[l].head = u[1] /\ 1 \in 1 .. n
      /\ n <= LIST_MAX_NUM_NODES /\ LIST_MAX_NUM_NODES \in Nat
  <2>1. \A i, j \in 1 .. n : u[i] = u[j] => i = j
    BY DEF Intact, Threaded
  <2>. QED  BY <2>1, IntactEnds, Fits, HeapAssumption
<1>2. PICK N \in Nat : N = LIST_MAX_NUM_NODES
  BY <1>1
<1>3. PICK loop \in [0 .. N -> Heap] :
        /\ loop[0] = FreeStart(h, l)
        /\ \A k \in 1 .. N :
             loop[k] = IF loop[k - 1].fault \/ loop[k - 1].list[l].curr = NULL
                       THEN loop[k - 1] ELSE DumpFreeRound(loop[k - 1], l)
        /\ DumpFree(h, l) =
             LET done == loop[N]
             IN  CASE isListEmpty(h, l) -> returnFreeList(h, l)
                   [] ~isListEmpty(h, l) /\ ~done.fault /\ done.list[l].curr = NULL ->
                        returnFreeList(done, l)
                   [] OTHER -> Fault(h)
  BY <1>2, DumpFreeLoops
<1>. DEFINE First(f, a) == \E v, q, b : Intact(f, l, v, a, q, b) /\ f.list[l].curr = v[1]
            After(k, f) == /\ f \in Heap /\ ~f.fault
                           /\ k < n => f.list[l].status = "LIST_OOB_NONE" /\ First(f, n - k)
                           /\ k >= n => f.list[l].curr = NULL
            Right == {k \in 0 .. N : After(k, loop[k])}
<1>4. After(0, loop[0])
  <2>1. h.list[l].head \in Pointer
    BY <1>1, Pointers
  <2>2. PICK f : f = FreeStart(h, l)
    OBVIOUS
  <2>3. f \in Heap /\ Moved(h, f, l) /\ f.list[l].curr = u[1]
        /\ f.list[l].status = "LIST_OOB_NONE"
    <3>1. f = Set(h, l, "curr", u[1]) /\ u[1] \in Pointer /\ l \in AnyList
      BY <1>1, <2>1, <2>2, Pointers DEF FreeStart
    <3>2. Cursor(h, f, l, u[1], h.list[l].status)
      BY <3>1, CursorSet
    <3>3. f \in Heap
      BY <3>1, SetTyped
    <3>. QED  BY <3>2, <3>3 DEF Cursor
  <2>4. Intact(f, l, u, n, p, m)
    BY <1>1, <2>3, MovedIntact DEF OnList
  <2>5. ~f.fault
    BY <2>3 DEF Moved, SameRest
  <2>6. n - 0 = n /\ 0 < n /\ ~ (0 >= n)
    BY <1>1
  <2>. QED  BY <1>3, <2>2, <2>3, <2>4, <2>5, <2>6
<1>5. ASSUME NEW k \in 1 .. N, After(k - 1, loop[k - 1]) PROVE After(k, loop[k])
  <2>1. PICK f : f = loop[k - 1]
    OBVIOUS
  <2>2. loop[k] = IF f.fault \/ f.list[l].curr = NULL THEN f ELSE DumpFreeRound(f, l)
    BY <1>3, <2>1
  <2>3. f \in Heap /\ ~f.fault
    BY <1>5, <2>1
  <2>4. CASE k - 1 >= n
    <3>1. f.list[l].curr = NULL /\ ~ (k < n)
      BY <1>1, <1>5, <2>1, <2>4
    <3>. QED  BY <2>2, <2>3, <3>1
  <2>5. CASE ~ (k - 1 >= n)
    <3>1. PICK a \in Nat : a = n - (k - 1) /\ a # 0 /\ (a = 1 <=> k >= n) /\ a - 1 = n - k
                           /\ (a # 1 <=> k < n)
      BY <1>1, <2>5
    <3>2. PICK v, q, b : Intact(f, l, v, a, q, b) /\ f.list[l].curr = v[1]
      BY <1>1, <1>5, <2>1, <2>5, <3>1
    <3>3. f.list[l].status = "LIST_OOB_NONE"
      BY <1>1, <1>5, <2>1, <2>5
    <3>4. v \in [1 .. a -> NodeId] /\ 1 \in 1 .. a /\ v[1] \in NodeId /\ v[1] # NULL
      <4>1. v \in [1 .. a -> NodeId] /\ 1 \in 1 .. a
        BY <3>1, <3>2, IntactEnds
      <4>. QED  BY <4>1, Pointers
    <3>5. PICK e : e = DumpRemove(f, l).heap
      OBVIOUS
    <3>6. ~isListOOB(f, l)
      BY <3>3 DEF isListOOB
    <3>7. loop[k] = e
      BY <2>2, <2>3, <3>2, <3>4, <3>5, <3>6 DEF DumpFreeRound
    <3>8. Removed(f, e, l, v, a, q, b, 1) /\ e \in Heap
      BY <2>3, <3>2, <3>4, <3>5, <3>6, DumpRemoveIs
    <3>9. ~e.fault
      BY <2>3, <3>8 DEF Removed, SameRest
    <3>10. CASE a = 1
      <4>1. e.list[l].curr = NULL /\ ~ (k < n)
        BY <1>1, <3>1, <3>8, <3>10 DEF Removed
      <4>. QED  BY <3>7, <3>8, <3>9, <4>1
    <3>11. CASE a # 1
      <4>1. /\ Intact(e, l, Without(v, a, 1), a - 1, Ahead(v[1], q, b), b + 1)
            /\ e.list[l].curr = v[1 + 1] /\ e.list[l].status = "LIST_OOB_NONE"
        BY <3>3, <3>8, <3>11 DEF Removed
      <4>2. Without(v, a, 1)[1] = v[1 + 1]
        BY <3>1, <3>4, <3>11 DEF Without
      <4>3. First(e, n - k)
        BY <3>1, <4>1, <4>2
      <4>4. ~ (k >= n)
        BY <3>1, <3>11
      <4>. QED  BY <3>7, <3>8, <3>9, <4>1, <4>3, <4>4
    <3>. QED  BY <3>10, <3>11
  <2>. QED  BY <2>4, <2>5
<1>6. \A k \in 0 .. N : k \in Right
  <2>. HIDE DEF After
  <2>1. PICK id : id = [k \in 0 .. N |-> k]
    OBVIOUS
  <2>2. id[0] \in Right
    BY <1>4, <2>1
  <2>3. \A k \in 1 .. N : id[k - 1] \in Right => id[k] \in Right
    BY <1>5, <2>1
  <2>4. \A k \in 0 .. N : id[k] \in Right
    <3>. HIDE DEF Right
    <3>. QED  BY <2>2, <2>3, LoopStays
  <2>. QED  BY <2>1, <2>4
<1>7. PICK done \in Heap : done = loop[N] /\ ~done.fault /\ done.list[l].curr = NULL
  <2>1. N \in Right /\ N >= n
    BY <1>1, <1>2, <1>6
  <2>. QED  BY <2>1
<1>8. g = produceFreeList(done, l)
  BY <1>1, <1>3, <1>7 DEF isListEmpty, returnFreeList
<1>. QED  BY <1>7, <1>8, FreeListResets

-----------------------------------------------------------------------------
(* What each call of the mailboxes does to the queue.                      *)

\* An empty list is the empty queue, and not broken.
LEMMA EmptySeen ==
  ASSUME NEW h, emptyList(h, TheList)
  PROVE  /\ QueueOf(h) = <<>>
         /\ LinksOf("list.c", h) = "whole" /\ LinksOf("dump/list.c", h) = "sound"
<1>1. h.list[TheList].num_nodes = 0 /\ h.list[TheList].head = NULL
      /\ h.list[TheList].tail = NULL
  BY DEF emptyList
<1>2. QueueOf(h) = [i \in 1 .. 0 |->
                      h.node[NodesOf(h, TheList)[h.list[TheList].num_nodes + 1 - i]].item]
  BY <1>1 DEF QueueOf
<1>3. QueueOf(h) = <<>>
  BY <1>2
<1>. QED  BY <1>1, <1>3 DEF LinksOf

\* After it the list is one that the library may have, and no head has been
\* handed out or given back.
StaysUsable(lib, h, g) ==
  SameRest(h, g) /\ \E u, n, p, m : Usable(lib, g, u, n, p, m)

\* List_create gives one that is empty (list.c:106-143).
LEMMA CreateUsable ==
  ASSUME NEW h \in Heap, NEW g \in {List_create(h).heap, DumpCreate(h).heap}, NEW lib
  PROVE  /\ emptyList(g, TheList) /\ OneGiven(g) /\ g.fault = h.fault
         /\ \E u, n, p, m : Usable(lib, g, u, n, p, m)
<1>1. PICK l \in ListId : l = TheList
  BY HeapAssumption DEF TheList, ListId
<1>2. /\ OneGiven(g) /\ g.fault = h.fault
      /\ \E u, p : Intact(g, l, u, 0, p, LIST_MAX_NUM_NODES)
  BY CreateIs
<1>3. PICK u, p : Intact(g, l, u, 0, p, LIST_MAX_NUM_NODES)
  BY <1>2
<1>4. emptyList(g, l)
  BY <1>3, IntactEnds
<1>5. 0 + LIST_MAX_NUM_NODES = LIST_MAX_NUM_NODES /\ \A i \in 1 .. 0 : FALSE
  BY HeapAssumption
<1>6. Strung(g, l, u, 0, p, LIST_MAX_NUM_NODES)
  BY <1>3, <1>5, IntactStrung
<1>7. Usable(lib, g, u, 0, p, LIST_MAX_NUM_NODES)
  BY <1>1, <1>3, <1>6 DEF Usable
<1>. QED  BY <1>1, <1>2, <1>4, <1>7

\* What is seen of a list of one library.
LEMMA UsableSeen ==
  ASSUME NEW h \in Heap, NEW lib \in {"list.c", "dump/list.c"},
         NEW u, NEW n, NEW p, NEW m, Usable(lib, h, u, n, p, m)
  PROVE  /\ QueueOf(h) = ItemsBack(h, u, n) /\ QueueOf(h) \in Seq(Item)
         /\ Len(QueueOf(h)) = n /\ n \in Nat /\ m \in Nat
         /\ (QueueOf(h) = <<>> <=> n = 0)
         /\ n + m = LIST_MAX_NUM_NODES
         /\ \/ Intact(h, TheList, u, n, p, m) /\ LinksOf(lib, h) =
                 IF lib = "list.c" THEN "whole" ELSE "sound"
            \/ /\ n >= 2 /\ h.list[TheList].tail = u[n] /\ h.node[u[n]].prev = NULL
               /\ lib = "list.c" /\ LinksOf(lib, h) = "cut"
            \/ /\ n >= 1 /\ h.list[TheList].tail = NULL
               /\ lib = "list.c" /\ LinksOf(lib, h) = "lost"
<1>1. Strung(h, TheList, u, n, p, m)
  BY DEF Usable
<1>2. /\ QueueOf(h) = ItemsBack(h, u, n) /\ QueueOf(h) \in Seq(Item) /\ Len(QueueOf(h)) = n
  BY <1>1, QueueIs
<1>3. n \in Nat /\ m \in Nat /\ n + m = LIST_MAX_NUM_NODES
  BY <1>1 DEF Strung, Pooled
<1>4. QueueOf(h) = <<>> <=> n = 0
  BY <1>2
<1>5. /\ Intact(h, TheList, u, n, p, m) =>
           LinksOf("list.c", h) = "whole" /\ LinksOf("dump/list.c", h) = "sound"
      /\ n >= 2 /\ h.list[TheList].tail = u[n] /\ h.node[u[n]].prev = NULL =>
           LinksOf("list.c", h) = "cut"
      /\ n >= 1 /\ h.list[TheList].tail = NULL => LinksOf("list.c", h) = "lost"
  BY <1>1, LinksAre
<1>. QED  BY <1>2, <1>3, <1>4, <1>5 DEF Usable, Broken

\* An insertion at the front of a whole list, after the cursor has gone there.
LEMMA FirstInserts ==
  ASSUME NEW h \in Heap, NEW lib \in {"list.c", "dump/list.c"}, NEW item \in Item,
         NEW u, NEW n, NEW p, NEW m, Intact(h, TheList, u, n, p, m),
         Strung(h, TheList, u, n, p, m), NEW f, f = List_first(h, TheList).heap,
         NEW r, r.heap \in Heap, Inserts(f, r, TheList, item, u, n, p, m, 1)
  PROVE  /\ m = 0 => /\ r.ret = "LIST_FAIL" /\ StaysUsable(lib, h, r.heap)
                     /\ QueueOf(r.heap) = QueueOf(h)
         /\ m # 0 => /\ r.ret = "LIST_SUCCESS" /\ StaysUsable(lib, h, r.heap)
                     /\ QueueOf(r.heap) = Append(QueueOf(h), item)
         /\ LinksOf(lib, r.heap) = IF lib = "list.c" THEN "whole" ELSE "sound"
<1>0. PICK l \in ListId : l = TheList
  BY HeapAssumption DEF TheList, ListId
<1>1. /\ f \in Heap /\ Moved(h, f, l) /\ Intact(f, l, u, n, p, m)
      /\ n # 0 => f.list[l].status = "LIST_OOB_NONE"
  BY <1>0, MoveToIntact
<1>2. Strung(f, l, u, n, p, m) /\ ItemsBack(f, u, n) = ItemsBack(h, u, n)
  BY <1>0, <1>1, MovedStrung
<1>3. QueueOf(f) = QueueOf(h) /\ QueueOf(f) = ItemsBack(f, u, n)
      /\ ItemsBack(f, u, n) \in Seq(Item)
  BY <1>0, <1>1, <1>2, QueueIs
<1>4. SameRest(h, f)
  BY <1>1 DEF Moved
<1>5. CASE m = 0
  <2>1. r.heap = f /\ r.ret = "LIST_FAIL"
    BY <1>5 DEF Inserts
  <2>2. Usable(lib, f, u, n, p, m)
    BY <1>0, <1>1, <1>2 DEF Usable
  <2>3. LinksOf("list.c", f) = "whole" /\ LinksOf("dump/list.c", f) = "sound"
    BY <1>0, <1>1, <1>2, LinksAre
  <2>. QED  BY <1>3, <1>4, <1>5, <2>1, <2>2, <2>3 DEF StaysUsable
<1>6. CASE m # 0
  <2>1. PICK g \in Heap : g = r.heap
    OBVIOUS
  <2>2. /\ r.ret = "LIST_SUCCESS" /\ Spliced(f, g, l, u, n, p, m, 1)
        /\ g.node[p[1]].item = item
        /\ \A i \in 1 .. n : g.node[u[i]].item = f.node[u[i]].item
        /\ g.list[l].status = "LIST_OOB_NONE" /\ SameRest(f, g)
    BY <1>0, <1>6, <2>1 DEF Inserts, Put
  <2>3. PICK v : v = Into(u, n, 1, p[1])
    OBVIOUS
  <2>4. PICK q : q = Rest(p, m)
    OBVIOUS
  <2>5. n \in Nat /\ m \in Nat /\ n + m = LIST_MAX_NUM_NODES /\ 1 \in 1 .. n + 1
        /\ \A i \in 1 .. n : f.node[u[i]].item \in Item
    BY <1>2 DEF Strung, Pooled
  <2>6. Intact(g, l, v, n + 1, q, m - 1)
    BY <1>1, <1>6, <2>2, <2>3, <2>4, <2>5, SplicedIntact
  <2>7. \A i \in 1 .. n + 1 : g.node[v[i]].item \in Item
    <3>1. \A i \in 1 .. n + 1 : v[i] = IF i = 1 THEN p[1] ELSE u[i - 1]
      BY <2>3, <2>5 DEF Into
    <3>2. \A i \in 1 .. n + 1 : i # 1 => i - 1 \in 1 .. n
      BY <2>5
    <3>. QED  BY <2>2, <2>5, <3>1, <3>2
  <2>8. (n + 1) + (m - 1) = LIST_MAX_NUM_NODES
    BY <2>5, HeapAssumption
  <2>9. Strung(g, l, v, n + 1, q, m - 1)
    BY <2>6, <2>7, <2>8, IntactStrung
  <2>10. Usable(lib, g, v, n + 1, q, m - 1)
    BY <1>0, <2>2, <2>6, <2>9 DEF Usable
  <2>11. QueueOf(g) = ItemsBack(g, v, n + 1)
    BY <1>0, <2>9, QueueIs
  <2>12. ItemsBack(g, v, n + 1) = Append(ItemsBack(f, u, n), item)
    <3>1. PICK x : x = p[1]
      OBVIOUS
    <3>2. Joins(f, g, u, n, x, item)
      BY <1>3, <2>2, <2>5, <3>1 DEF Joins
    <3>. QED  BY <2>3, <3>1, <3>2, QueueGrows
  <2>13. LinksOf("list.c", g) = "whole" /\ LinksOf("dump/list.c", g) = "sound"
    BY <1>0, <2>6, <2>9, LinksAre
  <2>14. StaysUsable(lib, h, g)
    BY <1>4, <2>2, <2>10 DEF StaysUsable, SameRest
  <2>. QED  BY <1>3, <1>6, <2>1, <2>2, <2>11, <2>12, <2>13, <2>14
<1>. QED  BY <1>5, <1>6

\* What List_prepend is to the queue: it puts the item at its end if a node is
\* unused, and fails otherwise.
PrependSeen(lib, h, item, r) ==
  /\ StaysUsable(lib, h, r.heap) /\ LinksOf(lib, r.heap) = LinksOf(lib, h)
  /\ \/ /\ r.ret = "LIST_FAIL" /\ Len(QueueOf(h)) = LIST_MAX_NUM_NODES
        /\ QueueOf(r.heap) = QueueOf(h)
     \/ /\ r.ret = "LIST_SUCCESS" /\ Len(QueueOf(h)) < LIST_MAX_NUM_NODES
        /\ QueueOf(r.heap) = Append(QueueOf(h), item)

\* In list.c it does so on a broken list too, which stays as broken as it is.
LEMMA BrokenPrepends ==
  ASSUME NEW h \in Heap, NEW item \in Item, NEW u, NEW n, NEW p, NEW m,
         Strung(h, TheList, u, n, p, m), Broken(h, TheList, u, n),
         NEW r, r = List_prepend(h, TheList, item)
  PROVE  PrependSeen("list.c", h, item, r)
<1>0. PICK l \in ListId : l = TheList
  BY HeapAssumption DEF TheList, ListId
<1>1. n \in Nat /\ m \in Nat /\ n + m = LIST_MAX_NUM_NODES /\ n # 0
  BY DEF Strung, Pooled, Broken
<1>2. /\ m = 0 => r.ret = "LIST_FAIL" /\ Moved(h, r.heap, l) /\ r.heap \in Heap
      /\ m # 0 => r.ret = "LIST_SUCCESS" /\ Fronted(h, r.heap, l, u, n, p, m, item)
  BY <1>0, <1>1, PrependFronts
<1>3. /\ QueueOf(h) = ItemsBack(h, u, n) /\ QueueOf(h) \in Seq(Item) /\ Len(QueueOf(h)) = n
  BY QueueIs
<1>4. PICK g : g = r.heap
  OBVIOUS
<1>5. ASSUME NEW f \in Heap, NEW v, NEW a, NEW q, NEW b, Strung(f, l, v, a, q, b),
             Broken(f, l, v, a)
      PROVE  /\ \E x, y, z, w : Usable("list.c", f, x, y, z, w)
             /\ LinksOf("list.c", f) = IF f.list[l].tail = NULL THEN "lost" ELSE "cut"
  <2>1. Usable("list.c", f, v, a, q, b)
    BY <1>0, <1>5 DEF Usable
  <2>2. a \in Nat /\ \A i \in 1 .. a : v[i] # NULL
    BY <1>5, Pointers DEF Strung
  <2>3. a >= 2 => v[a] # NULL
    BY <2>2
  <2>4. LinksOf("list.c", f) = IF f.list[l].tail = NULL THEN "lost" ELSE "cut"
    BY <1>0, <1>5, <2>3, LinksAre DEF Broken
  <2>. QED  BY <2>1, <2>4
<1>6. CASE m = 0
  <2>1. g \in Heap /\ Moved(h, g, l) /\ Strung(g, l, u, n, p, m) /\ Broken(g, l, u, n)
        /\ ItemsBack(g, u, n) = ItemsBack(h, u, n)
    BY <1>0, <1>2, <1>4, <1>6, MovedStrung
  <2>2. QueueOf(g) = ItemsBack(g, u, n)
    BY <1>0, <2>1, QueueIs
  <2>3. g.list[l].tail = h.list[l].tail /\ SameRest(h, g)
    BY <2>1 DEF Moved
  <2>4. \E x, y, z, w : Usable("list.c", g, x, y, z, w)
    BY <1>5, <2>1
  <2>5. LinksOf("list.c", g) = LinksOf("list.c", h)
    BY <1>0, <1>5, <2>1, <2>3
  <2>6. r.ret = "LIST_FAIL" /\ Len(QueueOf(h)) = LIST_MAX_NUM_NODES
    BY <1>1, <1>2, <1>3, <1>6, HeapAssumption
  <2>. QED  BY <1>3, <1>4, <2>1, <2>2, <2>3, <2>4, <2>5, <2>6 DEF PrependSeen, StaysUsable
<1>7. CASE m # 0
  <2>1. PICK v : v = Into(u, n, 1, p[1])
    OBVIOUS
  <2>2. PICK q : q = Rest(p, m)
    OBVIOUS
  <2>3. /\ Strung(g, l, v, n + 1, q, m - 1)
        /\ g.list[l].tail = h.list[l].tail
        /\ n >= 2 => g.node[u[n]].prev = h.node[u[n]].prev
        /\ g.node[p[1]].item = item
        /\ \A i \in 1 .. n : g.node[u[i]].item = h.node[u[i]].item
        /\ g \in Heap /\ SameRest(h, g)
    BY <1>2, <1>4, <1>7, <2>1, <2>2 DEF Fronted
  <2>4. v[n + 1] = u[n]
    <3>1. n + 1 \in 1 .. n + 1 /\ n + 1 # 1 /\ (n + 1) - 1 = n /\ ~ (n + 1 < 1)
      BY <1>1
    <3>. QED  BY <2>1, <3>1 DEF Into
  <2>5. Broken(g, l, v, n + 1)
    <3>1. n + 1 >= 2 /\ n + 1 >= 1
      BY <1>1
    <3>. QED  BY <1>0, <2>3, <2>4, <3>1 DEF Broken
  <2>6. QueueOf(g) = ItemsBack(g, v, n + 1)
    BY <1>0, <2>3, QueueIs
  <2>7. QueueOf(g) = Append(QueueOf(h), item)
    <3>1. Joins(h, g, u, n, p[1], item)
      BY <1>1, <1>3, <2>3 DEF Joins
    <3>. QED  BY <1>3, <2>1, <2>6, <3>1, QueueGrows
  <2>8. LinksOf("list.c", g) = LinksOf("list.c", h)
    BY <1>0, <1>5, <2>3, <2>5
  <2>9. \E x, y, z, w : Usable("list.c", g, x, y, z, w)
    BY <1>5, <2>3, <2>5
  <2>10. r.ret = "LIST_SUCCESS" /\ Len(QueueOf(h)) < LIST_MAX_NUM_NODES
    <3>1. n < LIST_MAX_NUM_NODES
      BY <1>1, <1>7, HeapAssumption
    <3>. QED  BY <1>2, <1>3, <1>7, <3>1
  <2>. QED  BY <1>4, <2>3, <2>7, <2>8, <2>9, <2>10 DEF PrependSeen, StaysUsable
<1>. QED  BY <1>6, <1>7

\* List_prepend of both (list.c:323-331, dump/list.c:311-314).
LEMMA PrependUsable ==
  ASSUME NEW h \in Heap, NEW lib \in {"list.c", "dump/list.c"}, NEW item \in Item,
         \E u, n, p, m : Usable(lib, h, u, n, p, m), NEW r,
         r = IF lib = "list.c" THEN List_prepend(h, TheList, item)
                               ELSE DumpPrepend(h, TheList, item)
  PROVE  PrependSeen(lib, h, item, r)
<1>0. PICK l \in ListId : l = TheList /\ l \in AnyList
  BY HeapAssumption, Pointers DEF TheList, ListId
<1>1. PICK u, n, p, m : Usable(lib, h, u, n, p, m)
  OBVIOUS
<1>2. Strung(h, l, u, n, p, m)
  BY <1>0, <1>1 DEF Usable
<1>3. /\ Len(QueueOf(h)) = n /\ n \in Nat /\ m \in Nat /\ n + m = LIST_MAX_NUM_NODES
      /\ Intact(h, l, u, n, p, m) =>
           LinksOf(lib, h) = IF lib = "list.c" THEN "whole" ELSE "sound"
  <2>1. lib = "list.c" \/ lib = "dump/list.c"
    OBVIOUS
  <2>2. Intact(h, l, u, n, p, m) =>
           LinksOf("list.c", h) = "whole" /\ LinksOf("dump/list.c", h) = "sound"
    BY <1>0, <1>2, LinksAre
  <2>. QED  BY <1>1, <2>1, <2>2, UsableSeen
<1>4. CASE Intact(h, l, u, n, p, m)
  <2>1. PICK f : f = List_first(h, l).heap
    OBVIOUS
  <2>2. lib = "list.c" => Inserts(f, r, l, item, u, n, p, m, 1)
    BY <1>0, <1>4, <2>1, EndInsertsAre
  <2>3. lib # "list.c" => Inserts(f, r, l, item, u, n, p, m, 1)
    <3>1. SUFFICES ASSUME lib # "list.c" PROVE Inserts(f, r, l, item, u, n, p, m, 1)
      OBVIOUS
    <3>2. StatusFits(h, l)
      <4>1. n = 0 => h.list[l].curr = NULL
        BY <1>4, IntactEnds
      <4>2. n # 0 => h.list[l].status = "LIST_OOB_NONE"
        BY <1>0, <1>1, <3>1 DEF Usable
      <4>. QED  BY <4>1, <4>2 DEF StatusFits
    <3>. QED  BY <1>0, <1>4, <2>1, <3>1, <3>2, DumpEndInsertsAre
  <2>4. r.heap \in Heap
    BY <1>0, EndInsertTyped, DumpInsertTyped
  <2>5. /\ m = 0 => /\ r.ret = "LIST_FAIL" /\ StaysUsable(lib, h, r.heap)
                    /\ QueueOf(r.heap) = QueueOf(h)
        /\ m # 0 => /\ r.ret = "LIST_SUCCESS" /\ StaysUsable(lib, h, r.heap)
                    /\ QueueOf(r.heap) = Append(QueueOf(h), item)
        /\ LinksOf(lib, r.heap) = IF lib = "list.c" THEN "whole" ELSE "sound"
    BY <1>0, <1>2, <1>4, <2>1, <2>2, <2>3, <2>4, FirstInserts
  <2>6. (m = 0 => n = LIST_MAX_NUM_NODES) /\ (m # 0 => n < LIST_MAX_NUM_NODES)
    BY <1>3, HeapAssumption
  <2>. QED  BY <1>3, <1>4, <2>5, <2>6 DEF PrependSeen
<1>5. CASE lib = "list.c" /\ Broken(h, l, u, n)
  BY <1>0, <1>2, <1>5, BrokenPrepends
<1>. QED  BY <1>0, <1>1, <1>4, <1>5 DEF Usable

\* What List_trim is to the queue: it takes the first item, or finds none, or
\* faults when the tail is lost.
TrimSeen(lib, h, r) ==
  \/ QueueOf(h) = <<>> /\ r = [heap |-> h, ret |-> NoItem]
  \/ /\ QueueOf(h) # <<>> /\ LinksOf(lib, h) # "lost"
     /\ r.ret = Head(QueueOf(h)) /\ r.ret \in Item
     /\ QueueOf(r.heap) = Tail(QueueOf(h))
     /\ LinksOf(lib, r.heap) =
          CASE LinksOf(lib, h) = "cut" -> "lost"
            [] LinksOf(lib, h) = "whole" /\ Len(QueueOf(h)) >= 3 -> "cut"
            [] OTHER -> LinksOf(lib, h)
     /\ StaysUsable(lib, h, r.heap)
  \/ LinksOf(lib, h) = "lost" /\ r = [heap |-> Fault(h), ret |-> NoItem]

\* A list that has lost its last node is the queue without its first item.
LEMMA ShortSeen ==
  ASSUME NEW h \in Heap, NEW g \in Heap, NEW l \in ListId, l = TheList,
         NEW u, NEW n, NEW p, NEW m, Strung(h, l, u, n, p, m), n # 0,
         Strung(g, l, Without(u, n, n), n - 1, Ahead(u[n], p, m), m + 1),
         \A i \in 1 .. n - 1 : g.node[u[i]].item = h.node[u[i]].item
  PROVE  /\ QueueOf(h) # <<>> /\ h.node[u[n]].item = Head(QueueOf(h))
         /\ h.node[u[n]].item \in Item /\ QueueOf(g) = Tail(QueueOf(h))
<1>1. /\ QueueOf(h) = ItemsBack(h, u, n) /\ ItemsBack(h, u, n) \in Seq(Item)
      /\ Len(ItemsBack(h, u, n)) = n
  BY QueueIs
<1>2. n \in Nat /\ n \in 1 .. n /\ h.node[u[n]].item \in Item
  BY DEF Strung
<1>3. QueueOf(g) = ItemsBack(g, Without(u, n, n), n - 1)
  BY QueueIs
<1>4. /\ Head(ItemsBack(h, u, n)) = h.node[u[n]].item
      /\ Tail(ItemsBack(h, u, n)) = ItemsBack(g, Without(u, n, n), n - 1)
  BY <1>1, <1>2, QueueShrinks
<1>. QED  BY <1>1, <1>2, <1>3, <1>4

\* The trim that leaves a list whole.
LEMMA WholeTrims ==
  ASSUME NEW h \in Heap, NEW lib \in {"list.c", "dump/list.c"}, NEW u, NEW n, NEW p, NEW m,
         Intact(h, TheList, u, n, p, m), Strung(h, TheList, u, n, p, m), n # 0,
         lib = "list.c" => n <= 2,
         NEW r, r.heap \in Heap, Trimmed(h, r.heap, TheList, u, n, p, m),
         r.ret = h.node[u[n]].item
  PROVE  TrimSeen(lib, h, r)
<1>0. PICK l \in ListId : l = TheList
  BY HeapAssumption DEF TheList, ListId
<1>1. PICK g \in Heap : g = r.heap
  OBVIOUS
<1>2. PICK v : v = Without(u, n, n)
  OBVIOUS
<1>3. PICK q : q = Ahead(u[n], p, m)
  OBVIOUS
<1>4. /\ Intact(g, l, v, n - 1, q, m + 1) /\ SameRest(h, g)
      /\ g.list[l].status = IF n = 1 THEN "LIST_OOB_START" ELSE "LIST_OOB_NONE"
      /\ \A y \in NodeId \ {u[n]} : g.node[y].item = h.node[y].item
  BY <1>0, <1>1, <1>2, <1>3 DEF Trimmed
<1>5. /\ n \in Nat /\ m \in Nat /\ n + m = LIST_MAX_NUM_NODES
      /\ u \in [1 .. n -> NodeId] /\ \A i, j \in 1 .. n : u[i] = u[j] => i = j
      /\ \A i \in 1 .. n : h.node[u[i]].item \in Item
  BY DEF Strung, Pooled
<1>6. \A i \in 1 .. n - 1 : v[i] = u[i] /\ i \in 1 .. n /\ i # n
  BY <1>2, <1>5 DEF Without
<1>7. \A i \in 1 .. n - 1 : g.node[u[i]].item = h.node[u[i]].item
  <2>1. n \in 1 .. n
    BY <1>5
  <2>. QED  BY <1>4, <1>5, <1>6, <2>1
<1>8. \A i \in 1 .. n - 1 : g.node[v[i]].item \in Item
  BY <1>5, <1>6, <1>7
<1>9. (n - 1) + (m + 1) = LIST_MAX_NUM_NODES
  BY <1>5, HeapAssumption
<1>10. Strung(g, l, v, n - 1, q, m + 1)
  BY <1>4, <1>8, <1>9, IntactStrung
<1>11. /\ QueueOf(h) # <<>> /\ h.node[u[n]].item = Head(QueueOf(h))
       /\ h.node[u[n]].item \in Item /\ QueueOf(g) = Tail(QueueOf(h))
  BY <1>0, <1>2, <1>3, <1>7, <1>10, ShortSeen
<1>12. /\ LinksOf("list.c", g) = "whole" /\ LinksOf("dump/list.c", g) = "sound"
       /\ LinksOf("list.c", h) = "whole" /\ LinksOf("dump/list.c", h) = "sound"
  BY <1>0, <1>4, <1>10, LinksAre
<1>13. Len(QueueOf(h)) = n
  BY QueueIs
<1>14. Usable(lib, g, v, n - 1, q, m + 1)
  <2>1. n - 1 # 0 => g.list[l].status = "LIST_OOB_NONE"
    BY <1>4, <1>5
  <2>. QED  BY <1>0, <1>4, <1>10, <2>1 DEF Usable
<1>15. StaysUsable(lib, h, g)
  BY <1>4, <1>14 DEF StaysUsable
<1>16. LinksOf(lib, g) = CASE LinksOf(lib, h) = "cut" -> "lost"
            [] LinksOf(lib, h) = "whole" /\ Len(QueueOf(h)) >= 3 -> "cut"
            [] OTHER -> LinksOf(lib, h)
  <2>1. CASE lib = "list.c"
    <3>1. ~ (Len(QueueOf(h)) >= 3)
      BY <1>5, <1>13, <2>1
    <3>. QED  BY <1>12, <2>1, <3>1
  <2>2. CASE lib = "dump/list.c"
    BY <1>12, <2>2
  <2>. QED  BY <2>1, <2>2
<1>17. LinksOf(lib, h) # "lost"
  BY <1>12
<1>. QED  BY <1>1, <1>11, <1>15, <1>16, <1>17 DEF TrimSeen

\* One of list.c that breaks a list, or a broken one further.
LEMMA BreakingTrims ==
  ASSUME NEW h \in Heap, NEW u, NEW n, NEW p, NEW m,
         Strung(h, TheList, u, n, p, m), n >= 2, NEW tail,
         NEW r, Shortened(h, r.heap, TheList, u, n, p, m, tail), r.ret = h.node[u[n]].item,
         \/ /\ LinksOf("list.c", h) = "whole" /\ n >= 3
            /\ tail = u[n - 1] /\ r.heap.node[u[n - 1]].prev = NULL
         \/ LinksOf("list.c", h) = "cut" /\ tail = NULL
  PROVE  TrimSeen("list.c", h, r)
<1>0. PICK l \in ListId : l = TheList
  BY HeapAssumption DEF TheList, ListId
<1>1. PICK g : g = r.heap
  OBVIOUS
<1>2. PICK v : v = Without(u, n, n)
  OBVIOUS
<1>3. PICK q : q = Ahead(u[n], p, m)
  OBVIOUS
<1>4. /\ Strung(g, l, v, n - 1, q, m + 1) /\ g.list[l].tail = tail
      /\ \A i \in 1 .. n - 1 : g.node[u[i]].item = h.node[u[i]].item
      /\ g \in Heap /\ SameRest(h, g)
  BY <1>0, <1>1, <1>2, <1>3 DEF Shortened
<1>5. n \in Nat /\ n # 0 /\ n - 1 >= 1 /\ n - 1 \in Nat
  BY DEF Strung
<1>6. /\ QueueOf(h) # <<>> /\ h.node[u[n]].item = Head(QueueOf(h))
      /\ h.node[u[n]].item \in Item /\ QueueOf(g) = Tail(QueueOf(h))
  BY <1>0, <1>2, <1>3, <1>4, <1>5, ShortSeen
<1>7. Len(QueueOf(h)) = n
  BY QueueIs
<1>8. CASE /\ LinksOf("list.c", h) = "whole" /\ n >= 3
           /\ tail = u[n - 1] /\ r.heap.node[u[n - 1]].prev = NULL
  <2>1. v[n - 1] = u[n - 1] /\ n - 1 >= 2
    <3>1. n - 1 \in 1 .. n - 1 /\ n - 1 < n
      BY <1>5
    <3>2. n - 1 >= 2
      BY <1>5, <1>8
    <3>. QED  BY <1>2, <3>1, <3>2 DEF Without
  <2>2. g.list[l].tail = v[n - 1] /\ g.node[v[n - 1]].prev = NULL
    BY <1>1, <1>4, <1>8, <2>1
  <2>3. LinksOf("list.c", g) = "cut"
    BY <1>0, <1>4, <2>1, <2>2, LinksAre
  <2>4. Broken(g, l, v, n - 1)
    BY <2>1, <2>2 DEF Broken
  <2>5. StaysUsable("list.c", h, g)
    BY <1>0, <1>4, <2>4 DEF StaysUsable, Usable
  <2>. QED  BY <1>1, <1>6, <1>7, <1>8, <2>3, <2>5 DEF TrimSeen
<1>9. CASE LinksOf("list.c", h) = "cut" /\ tail = NULL
  <2>1. LinksOf("list.c", g) = "lost"
    BY <1>0, <1>4, <1>5, <1>9, LinksAre
  <2>2. Broken(g, l, v, n - 1)
    BY <1>4, <1>5, <1>9 DEF Broken
  <2>3. StaysUsable("list.c", h, g)
    BY <1>0, <1>4, <2>2 DEF StaysUsable, Usable
  <2>. QED  BY <1>1, <1>6, <1>9, <2>1, <2>3 DEF TrimSeen
<1>. QED  BY <1>8, <1>9

\* List_trim of both (list.c:358-388, dump/list.c:378-406).
LEMMA TrimUsable ==
  ASSUME NEW h \in Heap, NEW lib \in {"list.c", "dump/list.c"},
         \E u, n, p, m : Usable(lib, h, u, n, p, m), NEW r,
         r = IF lib = "list.c" THEN List_trim(h, TheList) ELSE DumpTrim(h, TheList)
  PROVE  TrimSeen(lib, h, r)
<1>0. PICK l \in ListId : l = TheList /\ l \in AnyList
  BY HeapAssumption, Pointers DEF TheList, ListId
<1>1. PICK u, n, p, m : Usable(lib, h, u, n, p, m)
  OBVIOUS
<1>2. Strung(h, l, u, n, p, m) /\ n \in Nat
  BY <1>0, <1>1 DEF Usable, Strung
<1>3. /\ QueueOf(h) = <<>> <=> n = 0
      /\ \/ Intact(h, l, u, n, p, m) /\ LinksOf(lib, h) =
              IF lib = "list.c" THEN "whole" ELSE "sound"
         \/ /\ n >= 2 /\ h.list[l].tail = u[n] /\ h.node[u[n]].prev = NULL
            /\ lib = "list.c" /\ LinksOf(lib, h) = "cut"
         \/ /\ n >= 1 /\ h.list[l].tail = NULL
            /\ lib = "list.c" /\ LinksOf(lib, h) = "lost"
  BY <1>0, <1>1, UsableSeen
<1>4. r.heap \in Heap
  BY <1>0, TrimTyped, DumpTakeOutTyped
<1>5. CASE Intact(h, l, u, n, p, m) /\ LinksOf(lib, h) =
              IF lib = "list.c" THEN "whole" ELSE "sound"
  <2>1. CASE n = 0
    <3>1. emptyList(h, l)
      BY <1>5, <2>1, IntactEnds
    <3>2. List_trim(h, l) = [heap |-> h, ret |-> NoItem]
      BY <3>1, Zenon DEF List_trim
    <3>3. DumpTrim(h, l) = [heap |-> h, ret |-> NoItem]
      BY <3>1, Zenon DEF DumpTrim, isListEmpty
    <3>. QED  BY <1>0, <1>3, <2>1, <3>2, <3>3 DEF TrimSeen
  <2>2. CASE n # 0 /\ (lib = "list.c" => n <= 2)
    <3>1. Trimmed(h, r.heap, l, u, n, p, m) /\ r.ret = h.node[u[n]].item
      BY <1>0, <1>5, <2>2, TrimIs, DumpTrimIs
    <3>. QED  BY <1>0, <1>2, <1>4, <1>5, <2>2, <3>1, WholeTrims
  <2>3. CASE lib = "list.c" /\ n >= 3
    <3>1. n >= 2 /\ r = List_trim(h, l)
      BY <1>0, <1>2, <2>3
    <3>2. /\ Shortened(h, r.heap, l, u, n, p, m, u[n - 1]) /\ r.ret = h.node[u[n]].item
          /\ r.heap.node[u[n - 1]].prev = NULL
      BY <1>2, <1>5, <2>3, <3>1, TrimCuts
    <3>3. LinksOf("list.c", h) = "whole"
      BY <1>5, <2>3
    <3>. QED  BY <1>0, <1>2, <2>3, <3>1, <3>2, <3>3, BreakingTrims
  <2>. QED  BY <1>2, <2>1, <2>2, <2>3
<1>6. CASE /\ n >= 2 /\ h.list[l].tail = u[n] /\ h.node[u[n]].prev = NULL
           /\ lib = "list.c" /\ LinksOf(lib, h) = "cut"
  <2>1. Shortened(h, r.heap, l, u, n, p, m, NULL) /\ r.ret = h.node[u[n]].item
    BY <1>0, <1>2, <1>6, TrimLoses
  <2>2. LinksOf("list.c", h) = "cut"
    BY <1>6
  <2>. QED  BY <1>0, <1>2, <1>6, <2>1, <2>2, BreakingTrims
<1>7. CASE /\ n >= 1 /\ h.list[l].tail = NULL
           /\ lib = "list.c" /\ LinksOf(lib, h) = "lost"
  <2>1. h.list[l].head \in NodeId
    <3>1. n # 0 /\ 1 \in 1 .. n
      BY <1>2, <1>7
    <3>. QED  BY <1>2, <3>1 DEF Strung
  <2>2. r = [heap |-> Fault(h), ret |-> NoItem]
    BY <1>0, <1>7, <2>1, TrimFaults
  <2>. QED  BY <1>7, <2>2 DEF TrimSeen
<1>. QED  BY <1>3, <1>5, <1>6, <1>7

\* What a fault leaves of the queue: everything.
LEMMA FaultSeen ==
  ASSUME NEW h \in Heap, NEW lib, \E u, n, p, m : Usable(lib, h, u, n, p, m)
  PROVE  /\ QueueOf(Fault(h)) = QueueOf(h) /\ LinksOf(lib, Fault(h)) = LinksOf(lib, h)
         /\ Fault(h).fault
<1>1. PICK u, n, p, m : Strung(h, TheList, u, n, p, m)
  BY DEF Usable
<1>2. PICK g : g = Fault(h)
  OBVIOUS
<1>3. g.node = h.node /\ g.list = h.list /\ g.fault /\ g \in Heap
  BY <1>2, FaultTyped DEF Fault, Heap
<1>4. Strung(g, TheList, u, n, p, m) /\ ItemsBack(g, u, n) = ItemsBack(h, u, n)
  BY <1>1, <1>3 DEF Strung, Pooled, ItemsBack
<1>5. QueueOf(g) = QueueOf(h)
  BY <1>1, <1>3, <1>4, QueueIs
<1>6. LinksOf(lib, g) = LinksOf(lib, h)
  BY <1>3 DEF LinksOf
<1>. QED  BY <1>2, <1>3, <1>5, <1>6

\* num_nodes is the length of the queue (list.c:236-239, dump/list.c:239-246).
LEMMA CountUsable ==
  ASSUME NEW h \in Heap, NEW lib \in {"list.c", "dump/list.c"},
         \E u, n, p, m : Usable(lib, h, u, n, p, m)
  PROVE  (IF lib = "list.c" THEN List_count(h, TheList) ELSE DumpCount(h, TheList))
           = Len(QueueOf(h))
<1>1. PICK u, n, p, m : Usable(lib, h, u, n, p, m)
  OBVIOUS
<1>2. Len(QueueOf(h)) = n /\ h.list[TheList].num_nodes = n
  BY <1>1, UsableSeen DEF Usable, Strung
<1>. QED  BY <1>2 DEF List_count, DumpCount, isListEmpty, emptyList

\* What List_free is to the queue: it gives all back, or faults when list.c has
\* an item left.
FreeSeen(lib, h, g) ==
  \/ /\ QueueOf(h) = <<>> \/ LinksOf(lib, h) = "sound"
     /\ QueueOf(g) = <<>> /\ LinksOf(lib, g) = LinksOf(lib, h) /\ ~g.fault /\ AllBack(g)
     /\ emptyList(g, TheList)
  \/ QueueOf(h) # <<>> /\ LinksOf(lib, h) # "sound" /\ g = Fault(h)

\* List_free of both (list.c:426-450, dump/list.c:362-376).
LEMMA FreeUsable ==
  ASSUME NEW h \in Heap, ~h.fault, OneGiven(h), NEW lib \in {"list.c", "dump/list.c"},
         \E u, n, p, m : Usable(lib, h, u, n, p, m),
         NEW g, g = IF lib = "list.c" THEN List_free(h, TheList) ELSE DumpFree(h, TheList)
  PROVE  FreeSeen(lib, h, g)
<1>0. PICK l \in ListId : l = TheList
  BY HeapAssumption DEF TheList, ListId
<1>1. PICK u, n, p, m : Usable(lib, h, u, n, p, m)
  OBVIOUS
<1>2. Strung(h, l, u, n, p, m) /\ n \in Nat
  BY <1>0, <1>1 DEF Usable, Strung
<1>3. /\ QueueOf(h) = <<>> <=> n = 0
      /\ \/ Intact(h, l, u, n, p, m) /\ LinksOf(lib, h) =
              IF lib = "list.c" THEN "whole" ELSE "sound"
         \/ n # 0 /\ lib = "list.c" /\ LinksOf(lib, h) \in {"cut", "lost"}
  BY <1>0, <1>1, <1>2, UsableSeen
<1>4. ASSUME g.list[l] = EmptyHead("LIST_OOB_START")
      PROVE  /\ QueueOf(g) = <<>> /\ emptyList(g, TheList)
             /\ LinksOf(lib, g) = IF lib = "list.c" THEN "whole" ELSE "sound"
  <2>1. emptyList(g, TheList)
    BY <1>0, <1>4 DEF emptyList, EmptyHead
  <2>. QED  BY <2>1, EmptySeen
<1>5. CASE n = 0
  <2>1. Intact(h, l, u, n, p, m)
        /\ LinksOf(lib, h) = IF lib = "list.c" THEN "whole" ELSE "sound"
    BY <1>3, <1>5
  <2>2. emptyList(h, l) /\ Whole(h, l)
    BY <1>5, <2>1, IntactEnds DEF Whole
  <2>3. g = produceFreeList(h, l)
    <3>1. List_free(h, l) = produceFreeList(h, l)
      BY <2>2, Zenon DEF List_free
    <3>2. DumpFree(h, l) = produceFreeList(h, l)
      BY <2>2, Zenon DEF DumpFree, isListEmpty, returnFreeList
    <3>. QED  BY <1>0, <3>1, <3>2
  <2>4. g.list[l] = EmptyHead("LIST_OOB_START") /\ ~g.fault
    BY <2>3, FreeListResets
  <2>5. AllBack(g)
    BY <1>0, <2>2, <2>4, FreeIs, DumpFreeIs
  <2>. QED  BY <1>3, <1>4, <1>5, <2>1, <2>4, <2>5 DEF FreeSeen
<1>6. CASE n # 0 /\ lib = "list.c"
  <2>1. h.list[l].head \in NodeId
    <3>1. 1 \in 1 .. n
      BY <1>2, <1>6
    <3>. QED  BY <1>2, <1>6, <3>1 DEF Strung
  <2>2. g = Fault(h)
    BY <1>0, <1>6, <2>1, FreeFaults
  <2>. QED  BY <1>3, <1>6, <2>2 DEF FreeSeen
<1>7. CASE n # 0 /\ lib = "dump/list.c"
  <2>1. Intact(h, l, u, n, p, m) /\ LinksOf(lib, h) = "sound"
    BY <1>3, <1>7
  <2>2. h.list[l].status = "LIST_OOB_NONE"
    BY <1>0, <1>1, <1>7 DEF Usable
  <2>3. g = DumpFree(h, l)
    BY <1>0, <1>7
  <2>4. g.list[l] = EmptyHead("LIST_OOB_START") /\ ~g.fault
    BY <1>7, <2>1, <2>2, <2>3, DumpFreeEmpties
  <2>5. AllBack(g)
    <3>1. Whole(h, TheList)
      BY <1>0, <2>1 DEF Whole
    <3>. QED  BY <1>0, <2>3, <2>4, <3>1, DumpFreeIs
  <2>. QED  BY <1>4, <1>7, <2>1, <2>4, <2>5 DEF FreeSeen
<1>. QED  BY <1>5, <1>6, <1>7

-----------------------------------------------------------------------------
(* The queue that the mailboxes have.                                      *)

\* The list may be one that either library can have, until a call ends it.
ListUsable ==
  \/ heap.fault
  \/ Ended
  \/ HeldLists = {}
  \/ OneGiven(heap) /\ \E u, n, p, m : Usable(library, heap, u, n, p, m)

\* Before the first call on a list it is empty.
EmptyAtFirst ==
  call.fn \in {"none", "List_create"} => ~heap.fault /\ emptyList(heap, TheList)

\* After a List_free that returned it is, and all nodes and heads are given back.
EmptyOnceFreed ==
  call.fn = "List_free" => heap.fault \/ (emptyList(heap, TheList) /\ AllBack(heap))

\* The inductive invariant of the client who calls what the mailboxes call.
QueueKept ==
  /\ Ops \subseteq MailboxOps /\ WellTyped /\ HeldIsLast
  /\ library \in {"list.c", "dump/list.c"}
  /\ EmptyAtFirst /\ ListUsable /\ EmptyOnceFreed

\* What such a client does, with the list that it holds.
LEMMA QueueCalls ==
  ASSUME QueueKept, Next
  PROVE  \/ \E o \in Owner : Create(o)
         \/ /\ HeldLists # {} /\ ~heap.fault
            /\ \/ Perform("List_count", <<>>,
                    [heap |-> heap, ret |-> OfLibrary(List_count(heap, TheList),
                                                      DumpCount(heap, TheList))])
               \/ Perform("List_trim", <<>>,
                    OfLibrary(List_trim(heap, TheList), DumpTrim(heap, TheList)))
               \/ \E item \in Item :
                    Perform("List_prepend", item,
                      OfLibrary(List_prepend(heap, TheList, item),
                                DumpPrepend(heap, TheList, item)))
               \/ \E o \in Owner :
                    GiveUp("List_free", o,
                      OfLibrary(List_free(heap, TheList), DumpFree(heap, TheList)))
<1>1. Ops \subseteq MailboxOps /\ HeldIsLast
  BY DEF QueueKept
<1>2. \A o \in Holding : held[o] = TheList /\ held[o] \in HeldLists
  BY <1>1 DEF HeldIsLast, Holding, TheList, HeldLists
<1>3. ASSUME NEW l \in HeldLists,
             \/ Navigate(l)
             \/ TakeOut(l)
             \/ \E item \in Item : Insert(l, item)
             \/ \E match \in SUBSET Item : Search(l, match)
      PROVE  /\ HeldLists # {} /\ ~heap.fault
             /\ \/ Perform("List_count", <<>>,
                     [heap |-> heap, ret |-> OfLibrary(List_count(heap, TheList),
                                                       DumpCount(heap, TheList))])
                \/ Perform("List_trim", <<>>,
                     OfLibrary(List_trim(heap, TheList), DumpTrim(heap, TheList)))
                \/ \E item \in Item :
                     Perform("List_prepend", item,
                       OfLibrary(List_prepend(heap, TheList, item),
                                 DumpPrepend(heap, TheList, item)))
  <2>1. l = TheList
    BY <1>2 DEF HeldLists
  <2>2. HeldLists # {}
    OBVIOUS
  <2>3. ASSUME NEW fn, NEW arg, NEW r, Perform(fn, arg, r) PROVE fn \in MailboxOps /\ ~heap.fault
    BY <1>1, <2>3 DEF Perform
  <2>4. CASE Navigate(l)
    <3>1. ~ \E r : Perform("List_first", <<>>, r) \/ Perform("List_last", <<>>, r)
            \/ Perform("List_next", <<>>, r) \/ Perform("List_prev", <<>>, r)
            \/ Perform("List_curr", <<>>, r)
      BY <2>3 DEF MailboxOps
    <3>. QED  BY <2>1, <2>2, <2>3, <2>4, <3>1 DEF Navigate
  <2>5. CASE TakeOut(l)
    <3>1. ~ \E r : Perform("List_remove", <<>>, r)
      BY <2>3 DEF MailboxOps
    <3>. QED  BY <2>1, <2>2, <2>3, <2>5, <3>1 DEF TakeOut
  <2>6. ASSUME NEW item \in Item, Insert(l, item)
        PROVE  ~heap.fault /\ Perform("List_prepend", item,
                 OfLibrary(List_prepend(heap, TheList, item), DumpPrepend(heap, TheList, item)))
    <3>1. ~ \E r : Perform("List_insert_after", item, r) \/ Perform("List_append", item, r)
            \/ Perform("List_insert_before", item, r)
      BY <2>3 DEF MailboxOps
    <3>. QED  BY <2>1, <2>3, <2>6, <3>1 DEF Insert
  <2>7. ~ \E match \in SUBSET Item : Search(l, match)
    BY <2>3 DEF MailboxOps, Search
  <2>. QED  BY <1>3, <2>2, <2>4, <2>5, <2>6, <2>7
<1>4. ASSUME NEW o \in Holding, Free(o) \/ \E o2 \in Holding \ {o} : Concat(o, o2)
      PROVE  /\ HeldLists # {} /\ ~heap.fault
             /\ GiveUp("List_free", o,
                  OfLibrary(List_free(heap, TheList), DumpFree(heap, TheList)))
  <2>1. ASSUME NEW fn, NEW x, NEW h, GiveUp(fn, x, h) PROVE fn \in MailboxOps /\ ~heap.fault
    BY <1>1, <2>1 DEF GiveUp
  <2>2. ~ \E o2 \in Holding \ {o} : Concat(o, o2)
    BY <2>1 DEF MailboxOps, Concat
  <2>3. GiveUp("List_free", o, OfLibrary(List_free(heap, TheList), DumpFree(heap, TheList)))
    BY <1>2, <1>4, <2>2 DEF Free
  <2>. QED  BY <1>2, <2>1, <2>3
<1>. QED  BY <1>3, <1>4 DEF Next, Holding

\* A call that does not end the list keeps it usable, or faults.
LEMMA PerformUsable ==
  ASSUME OneGiven(heap), NEW fn \in {"List_count", "List_trim", "List_prepend"},
         NEW arg, NEW r, Perform(fn, arg, r),
         StaysUsable(library, heap, r.heap) \/ r.heap.fault
  PROVE  EmptyAtFirst' /\ ListUsable' /\ EmptyOnceFreed'
<1>1. heap' = r.heap /\ library' = library /\ call'.fn = fn
  BY DEF Perform
<1>2. EmptyAtFirst' /\ EmptyOnceFreed'
  BY <1>1 DEF EmptyAtFirst, EmptyOnceFreed
<1>3. StaysUsable(library, heap, r.heap) =>
        OneGiven(heap') /\ \E u, n, p, m : Usable(library', heap', u, n, p, m)
  BY <1>1 DEF StaysUsable, SameRest, OneGiven
<1>. QED  BY <1>1, <1>2, <1>3 DEF ListUsable

\* What the refinement reads from the state.
LEMMA QueueRead ==
  /\ Queue = QueueOf(heap) /\ Queue' = QueueOf(heap')
  /\ Links = LinksOf(library, heap) /\ Links' = LinksOf(library', heap')
BY DEF Queue, QueueOf, Links, LinksOf

\* Each call keeps the invariant and is a step of the queue, or none.
LEMMA CreateIsNone ==
  ASSUME QueueKept, NEW o \in Owner, Create(o)
  PROVE  /\ EmptyAtFirst' /\ ListUsable' /\ EmptyOnceFreed'
         /\ UNCHANGED <<Queue, Links, Result>>
<1>1. PICK r : /\ r = OfLibrary(List_create(heap), DumpCreate(heap))
               /\ heap' = r.heap /\ call'.fn = "List_create" /\ library' = library
  BY DEF Create
<1>2. r.heap \in {List_create(heap).heap, DumpCreate(heap).heap}
  BY <1>1 DEF OfLibrary
<1>3. heap \in Heap /\ library \in {"list.c", "dump/list.c"}
      /\ call.fn \in {"none", "List_create"} /\ ~heap.fault /\ emptyList(heap, TheList)
  BY DEF QueueKept, WellTyped, EmptyAtFirst, Create
<1>4. /\ emptyList(heap', TheList) /\ OneGiven(heap') /\ ~heap'.fault
      /\ \E u, n, p, m : Usable(library', heap', u, n, p, m)
  BY <1>1, <1>2, <1>3, CreateUsable
<1>5. EmptyAtFirst' /\ ListUsable' /\ EmptyOnceFreed'
  BY <1>1, <1>4 DEF EmptyAtFirst, ListUsable, EmptyOnceFreed
<1>6. UNCHANGED <<Queue, Links>>
  <2>1. QueueOf(heap) = QueueOf(heap')
    BY <1>3, <1>4, EmptySeen
  <2>2. LinksOf(library, heap) = LinksOf(library', heap')
    BY <1>1, <1>3, <1>4, EmptySeen
  <2>. QED  BY <2>1, <2>2, QueueRead
<1>7. Result = <<"none">> /\ Result' = <<"none">>
  BY <1>1, <1>3, <1>4 DEF Result
<1>. QED  BY <1>5, <1>6, <1>7

LEMMA CountIsStep ==
  ASSUME heap \in Heap, library \in {"list.c", "dump/list.c"}, ~heap.fault, OneGiven(heap),
         \E u, n, p, m : Usable(library, heap, u, n, p, m),
         Perform("List_count", <<>>,
           [heap |-> heap, ret |-> OfLibrary(List_count(heap, TheList),
                                             DumpCount(heap, TheList))])
  PROVE  /\ EmptyAtFirst' /\ ListUsable' /\ EmptyOnceFreed'
         /\ AbstractQueue!Count
<1>1. PICK k : k = OfLibrary(List_count(heap, TheList), DumpCount(heap, TheList))
  OBVIOUS
<1>2. k = Len(QueueOf(heap))
  BY <1>1, CountUsable DEF OfLibrary
<1>3. PICK r : r = [heap |-> heap, ret |-> k]
  OBVIOUS
<1>4. Perform("List_count", <<>>, r)
  BY <1>1, <1>3
<1>5. StaysUsable(library, heap, r.heap)
  BY <1>3 DEF StaysUsable, SameRest
<1>6. EmptyAtFirst' /\ ListUsable' /\ EmptyOnceFreed'
  BY <1>4, <1>5, PerformUsable
<1>7. heap' = heap /\ library' = library /\ call'.fn = "List_count" /\ call'.ret = k
  BY <1>3, <1>4 DEF Perform
<1>8. Result' = <<"count", k>>
  BY <1>7 DEF Result
<1>9. UNCHANGED <<Queue, Links>>
  BY <1>7, QueueRead
<1>. QED  BY <1>2, <1>6, <1>8, <1>9, QueueRead DEF AbstractQueue!Count

LEMMA TrimIsStep ==
  ASSUME heap \in Heap, library \in {"list.c", "dump/list.c"}, ~heap.fault, OneGiven(heap),
         \E u, n, p, m : Usable(library, heap, u, n, p, m),
         Perform("List_trim", <<>>,
           OfLibrary(List_trim(heap, TheList), DumpTrim(heap, TheList)))
  PROVE  /\ EmptyAtFirst' /\ ListUsable' /\ EmptyOnceFreed'
         /\ \/ AbstractQueue!Get
            \/ AbstractQueue!GetNothing
            \/ AbstractQueue!GetFaults
<1>1. PICK r : r = OfLibrary(List_trim(heap, TheList), DumpTrim(heap, TheList))
  OBVIOUS
<1>2. Perform("List_trim", <<>>, r)
  BY <1>1
<1>3. heap' = r.heap /\ library' = library /\ call'.fn = "List_trim" /\ call'.ret = r.ret
  BY <1>2 DEF Perform
<1>4. r = IF library = "list.c" THEN List_trim(heap, TheList) ELSE DumpTrim(heap, TheList)
  BY <1>1 DEF OfLibrary
<1>5. TrimSeen(library, heap, r)
  BY <1>4, TrimUsable
<1>6. CASE QueueOf(heap) = <<>> /\ r = [heap |-> heap, ret |-> NoItem]
  <2>1. heap' = heap /\ r.ret = NoItem /\ r.heap = heap
    BY <1>3, <1>6
  <2>2. StaysUsable(library, heap, r.heap)
    BY <2>1 DEF StaysUsable, SameRest
  <2>3. EmptyAtFirst' /\ ListUsable' /\ EmptyOnceFreed'
    BY <1>2, <2>2, PerformUsable
  <2>4. Result' = <<"empty">>
    BY <1>3, <2>1 DEF Result
  <2>5. Queue = <<>> /\ UNCHANGED <<Queue, Links>>
    BY <1>3, <1>6, <2>1, QueueRead
  <2>. QED  BY <2>3, <2>4, <2>5 DEF AbstractQueue!GetNothing
<1>7. CASE /\ QueueOf(heap) # <<>> /\ LinksOf(library, heap) # "lost"
           /\ r.ret = Head(QueueOf(heap)) /\ r.ret \in Item
           /\ QueueOf(r.heap) = Tail(QueueOf(heap))
           /\ LinksOf(library, r.heap) =
                CASE LinksOf(library, heap) = "cut" -> "lost"
                  [] LinksOf(library, heap) = "whole" /\ Len(QueueOf(heap)) >= 3 -> "cut"
                  [] OTHER -> LinksOf(library, heap)
           /\ StaysUsable(library, heap, r.heap)
  <2>1. EmptyAtFirst' /\ ListUsable' /\ EmptyOnceFreed'
    BY <1>2, <1>7, PerformUsable
  <2>2. ~heap'.fault /\ r.ret # NoItem
    BY <1>3, <1>7, ClientAssumption DEF StaysUsable, SameRest
  <2>3. Result' = <<"got", r.ret>>
    BY <1>3, <2>2 DEF Result
  <2>4. Queue # <<>> /\ Links # "lost" /\ r.ret = Head(Queue) /\ Queue' = Tail(Queue)
    BY <1>3, <1>7, QueueRead
  <2>5. Links' = AbstractQueue!Trimmed(Links, Queue)
    BY <1>3, <1>7, QueueRead DEF AbstractQueue!Trimmed
  <2>. QED  BY <2>1, <2>3, <2>4, <2>5 DEF AbstractQueue!Get
<1>8. CASE LinksOf(library, heap) = "lost" /\ r = [heap |-> Fault(heap), ret |-> NoItem]
  <2>1. heap' = Fault(heap) /\ heap'.fault /\ QueueOf(heap') = QueueOf(heap)
        /\ LinksOf(library', heap') = LinksOf(library, heap)
    BY <1>3, <1>8, FaultSeen
  <2>2. EmptyAtFirst' /\ ListUsable' /\ EmptyOnceFreed'
    BY <1>2, <1>3, <2>1, PerformUsable
  <2>3. Result' = <<"fault">>
    BY <2>1 DEF Result
  <2>4. Links = "lost" /\ UNCHANGED <<Queue, Links>>
    BY <1>8, <2>1, QueueRead
  <2>. QED  BY <2>2, <2>3, <2>4 DEF AbstractQueue!GetFaults
<1>. QED  BY <1>5, <1>6, <1>7, <1>8 DEF TrimSeen

LEMMA PrependIsStep ==
  ASSUME heap \in Heap, library \in {"list.c", "dump/list.c"}, ~heap.fault, OneGiven(heap),
         \E u, n, p, m : Usable(library, heap, u, n, p, m), NEW item \in Item,
         Perform("List_prepend", item,
           OfLibrary(List_prepend(heap, TheList, item), DumpPrepend(heap, TheList, item)))
  PROVE  /\ EmptyAtFirst' /\ ListUsable' /\ EmptyOnceFreed'
         /\ AbstractQueue!Put(item) \/ AbstractQueue!PutFails
<1>1. PICK r : r = OfLibrary(List_prepend(heap, TheList, item),
                             DumpPrepend(heap, TheList, item))
  OBVIOUS
<1>2. Perform("List_prepend", item, r)
  BY <1>1
<1>3. heap' = r.heap /\ library' = library /\ call'.fn = "List_prepend" /\ call'.ret = r.ret
  BY <1>2 DEF Perform
<1>4. r = IF library = "list.c" THEN List_prepend(heap, TheList, item)
                                ELSE DumpPrepend(heap, TheList, item)
  BY <1>1 DEF OfLibrary
<1>5. PrependSeen(library, heap, item, r)
  BY <1>4, PrependUsable
<1>6. StaysUsable(library, heap, r.heap) /\ LinksOf(library, r.heap) = LinksOf(library, heap)
  BY <1>5 DEF PrependSeen
<1>7. EmptyAtFirst' /\ ListUsable' /\ EmptyOnceFreed'
  BY <1>2, <1>6, PerformUsable
<1>8. ~heap'.fault
  BY <1>3, <1>6 DEF StaysUsable, SameRest
<1>9. UNCHANGED Links
  BY <1>3, <1>6, QueueRead
<1>10. CASE /\ r.ret = "LIST_FAIL" /\ Len(QueueOf(heap)) = LIST_MAX_NUM_NODES
            /\ QueueOf(r.heap) = QueueOf(heap)
  <2>1. Result' = <<"full">>
    BY <1>3, <1>8, <1>10 DEF Result
  <2>2. Len(Queue) = LIST_MAX_NUM_NODES /\ UNCHANGED Queue
    BY <1>3, <1>10, QueueRead
  <2>. QED  BY <1>7, <1>9, <2>1, <2>2 DEF AbstractQueue!PutFails
<1>11. CASE /\ r.ret = "LIST_SUCCESS" /\ Len(QueueOf(heap)) < LIST_MAX_NUM_NODES
            /\ QueueOf(r.heap) = Append(QueueOf(heap), item)
  <2>1. Result' = <<"put">>
    BY <1>3, <1>8, <1>11 DEF Result
  <2>2. Len(Queue) < LIST_MAX_NUM_NODES /\ Queue' = Append(Queue, item)
    BY <1>3, <1>11, QueueRead
  <2>. QED  BY <1>7, <1>9, <2>1, <2>2 DEF AbstractQueue!Put
<1>. QED  BY <1>5, <1>10, <1>11 DEF PrependSeen

LEMMA FreeIsStep ==
  ASSUME heap \in Heap, library \in {"list.c", "dump/list.c"}, ~heap.fault, OneGiven(heap),
         \E u, n, p, m : Usable(library, heap, u, n, p, m), NEW o,
         GiveUp("List_free", o,
           OfLibrary(List_free(heap, TheList), DumpFree(heap, TheList)))
  PROVE  /\ EmptyAtFirst' /\ ListUsable' /\ EmptyOnceFreed'
         /\ AbstractQueue!Free
<1>1. PICK g : g = OfLibrary(List_free(heap, TheList), DumpFree(heap, TheList))
  OBVIOUS
<1>2. GiveUp("List_free", o, g)
  BY <1>1
<1>3. heap' = g /\ library' = library /\ call'.fn = "List_free"
  BY <1>2 DEF GiveUp
<1>4. g = IF library = "list.c" THEN List_free(heap, TheList) ELSE DumpFree(heap, TheList)
  BY <1>1 DEF OfLibrary
<1>5. FreeSeen(library, heap, g)
  BY <1>4, FreeUsable
<1>6. EmptyAtFirst' /\ ListUsable'
  BY <1>3 DEF EmptyAtFirst, ListUsable, Ended
<1>7. CASE /\ QueueOf(heap) = <<>> \/ LinksOf(library, heap) = "sound"
           /\ QueueOf(g) = <<>> /\ LinksOf(library, g) = LinksOf(library, heap)
           /\ ~g.fault /\ AllBack(g) /\ emptyList(g, TheList)
  <2>1. Result' = <<"freed">>
    BY <1>3, <1>7 DEF Result
  <2>2. EmptyOnceFreed'
    BY <1>3, <1>7 DEF EmptyOnceFreed
  <2>3. (Queue = <<>> \/ Links = "sound") /\ Queue' = <<>> /\ UNCHANGED Links
    BY <1>3, <1>7, QueueRead
  <2>. QED  BY <1>6, <2>1, <2>2, <2>3 DEF AbstractQueue!Free
<1>8. CASE QueueOf(heap) # <<>> /\ LinksOf(library, heap) # "sound" /\ g = Fault(heap)
  <2>1. heap'.fault /\ QueueOf(heap') = QueueOf(heap)
        /\ LinksOf(library', heap') = LinksOf(library, heap)
    BY <1>3, <1>8, FaultSeen
  <2>2. Result' = <<"fault">> /\ EmptyOnceFreed'
    BY <2>1 DEF Result, EmptyOnceFreed
  <2>3. Queue # <<>> /\ Links # "sound" /\ UNCHANGED <<Queue, Links>>
    BY <1>8, <2>1, QueueRead
  <2>. QED  BY <1>6, <2>2, <2>3 DEF AbstractQueue!Free
<1>. QED  BY <1>5, <1>7, <1>8 DEF FreeSeen

\* A List_free of the list that is free already changes nothing (list.c:436-448).
LEMMA FreedAgain ==
  ASSUME QueueKept, call.fn = "List_free", ~heap.fault, NEW o,
         GiveUp("List_free", o,
           OfLibrary(List_free(heap, TheList), DumpFree(heap, TheList)))
  PROVE  /\ EmptyAtFirst' /\ ListUsable' /\ EmptyOnceFreed'
         /\ UNCHANGED <<Queue, Links, Result>>
<1>1. PICK l \in ListId : l = TheList /\ l # freeNodes
  BY HeapAssumption DEF TheList, ListId, freeNodes
<1>2. /\ heap \in Heap /\ library \in {"list.c", "dump/list.c"}
      /\ emptyList(heap, l) /\ AllBack(heap)
  BY <1>1 DEF QueueKept, WellTyped, EmptyOnceFreed
<1>3. library' = library /\ call'.fn = "List_free"
  BY DEF GiveUp
<1>4. heap' = produceFreeList(heap, l)
  <2>1. heap' = OfLibrary(List_free(heap, l), DumpFree(heap, l))
    BY <1>1 DEF GiveUp
  <2>2. List_free(heap, l) = produceFreeList(heap, l)
    BY <1>2, Zenon DEF List_free
  <2>3. DumpFree(heap, l) = produceFreeList(heap, l)
    BY <1>2, Zenon DEF DumpFree, isListEmpty, returnFreeList
  <2>. QED  BY <2>1, <2>2, <2>3 DEF OfLibrary
<1>5. /\ heap'.list[l] = EmptyHead("LIST_OOB_START") /\ ~heap'.fault
      /\ heap'.node = heap.node /\ heap'.list[freeNodes] = heap.list[freeNodes]
      /\ heap'.flIndex = heap.flIndex /\ heap'.freeLists = heap.freeLists
  <2>1. ~(heap.flIndex < LIST_MAX_NUM_HEADS - 1)
    BY <1>2, HeapAssumption DEF AllBack
  <2>2. PICK h \in Heap : h = heap /\ ~h.fault
    BY <1>2
  <2>3. PICK g : g = [h EXCEPT !.list[l] = EmptyHead("LIST_OOB_START")]
    OBVIOUS
  <2>4. heap' = g
    BY <1>4, <2>1, <2>2, <2>3, Zenon DEF produceFreeList
  <2>5. /\ g.list[l] = EmptyHead("LIST_OOB_START") /\ ~g.fault /\ g.node = h.node
        /\ g.list[freeNodes] = h.list[freeNodes]
        /\ g.flIndex = h.flIndex /\ g.freeLists = h.freeLists
    BY <1>1, <2>2, <2>3, Pointers DEF Heap
  <2>. QED  BY <2>2, <2>4, <2>5
<1>6. emptyList(heap', l) /\ emptyList(heap, l)
  BY <1>2, <1>5 DEF emptyList, EmptyHead
<1>7. AllBack(heap')
  <2>1. UnusedNodes(heap') = UnusedNodes(heap)
    BY <1>5 DEF UnusedNodes, Chain
  <2>. QED  BY <1>2, <1>5, <2>1 DEF AllBack
<1>8. EmptyAtFirst' /\ ListUsable' /\ EmptyOnceFreed'
  BY <1>1, <1>3, <1>6, <1>7 DEF EmptyAtFirst, ListUsable, Ended, EmptyOnceFreed
<1>9. UNCHANGED <<Queue, Links>>
  BY <1>1, <1>2, <1>3, <1>6, EmptySeen, QueueRead
<1>10. UNCHANGED Result
  BY <1>3, <1>5 DEF Result
<1>. QED  BY <1>8, <1>9, <1>10

LEMMA QueueStep ==
  QueueKept /\ [Next /\ (Ended => FreesAgain)]_vars => QueueKept' /\ [AbstractQueue!Next]_<<Queue, Links, Result>>
<1>1. SUFFICES ASSUME QueueKept, [Next /\ (Ended => FreesAgain)]_vars
               PROVE  QueueKept' /\ [AbstractQueue!Next]_<<Queue, Links, Result>>
  OBVIOUS
<1>2. CASE UNCHANGED vars
  <2>1. heap' = heap /\ library' = library /\ call' = call /\ held' = held
    BY <1>2 DEF vars
  <2>2. QueueKept'
    BY <1>1, <2>1 DEF QueueKept, WellTyped, HeldIsLast, EmptyAtFirst, ListUsable, Ended,
                      HeldLists, Holding, EmptyOnceFreed
  <2>3. UNCHANGED <<Queue, Links>>
    BY <2>1, QueueRead
  <2>4. UNCHANGED Result
    BY <2>1 DEF Result
  <2>. QED  BY <2>2, <2>3, <2>4
<1>3. CASE Next /\ ~Ended
  <2>1. heap \in Heap /\ library \in {"list.c", "dump/list.c"} /\ WellTyped /\ HeldIsLast
        /\ Ops \subseteq MailboxOps
    BY <1>1 DEF QueueKept, WellTyped
  <2>2. WellTyped' /\ HeldIsLast'
    BY <1>3, <2>1, WellTypedStep, HeldStep
  <2>3. library' = library
    BY <1>3 DEF Next, Create, Navigate, TakeOut, Insert, Search, Perform, Free, Concat, GiveUp
  <2>4. SUFFICES /\ EmptyAtFirst' /\ ListUsable' /\ EmptyOnceFreed'
                 /\ [AbstractQueue!Next]_<<Queue, Links, Result>>
    BY <2>1, <2>2, <2>3 DEF QueueKept
  <2>5. CASE \E o \in Owner : Create(o)
    BY <1>1, <2>5, CreateIsNone
  <2>6. ASSUME HeldLists # {}, ~heap.fault
        PROVE  /\ OneGiven(heap) /\ \E u, n, p, m : Usable(library, heap, u, n, p, m)
               /\ AbstractQueue!Working
    <3>1. OneGiven(heap) /\ \E u, n, p, m : Usable(library, heap, u, n, p, m)
      BY <1>1, <1>3, <2>6 DEF QueueKept, ListUsable
    <3>2. Result # <<"fault">>
      BY <2>6 DEF Result
    <3>. QED  BY <3>1, <3>2 DEF AbstractQueue!Working
  <2>7. CASE /\ HeldLists # {} /\ ~heap.fault
             /\ Perform("List_count", <<>>,
                  [heap |-> heap, ret |-> OfLibrary(List_count(heap, TheList),
                                                    DumpCount(heap, TheList))])
    BY <2>1, <2>6, <2>7, CountIsStep DEF AbstractQueue!Next
  <2>8. CASE /\ HeldLists # {} /\ ~heap.fault
             /\ Perform("List_trim", <<>>,
                  OfLibrary(List_trim(heap, TheList), DumpTrim(heap, TheList)))
    BY <2>1, <2>6, <2>8, TrimIsStep DEF AbstractQueue!Next
  <2>9. ASSUME HeldLists # {}, ~heap.fault, NEW item \in Item,
               Perform("List_prepend", item,
                 OfLibrary(List_prepend(heap, TheList, item),
                           DumpPrepend(heap, TheList, item)))
        PROVE  /\ EmptyAtFirst' /\ ListUsable' /\ EmptyOnceFreed'
               /\ AbstractQueue!Next
    BY <2>1, <2>6, <2>9, PrependIsStep DEF AbstractQueue!Next
  <2>10. ASSUME HeldLists # {}, ~heap.fault, NEW o \in Owner,
                GiveUp("List_free", o,
                  OfLibrary(List_free(heap, TheList), DumpFree(heap, TheList)))
         PROVE  /\ EmptyAtFirst' /\ ListUsable' /\ EmptyOnceFreed'
                /\ AbstractQueue!Next
    BY <2>1, <2>6, <2>10, FreeIsStep DEF AbstractQueue!Next
  <2>. QED  BY <1>1, <1>3, <2>5, <2>7, <2>8, <2>9, <2>10, QueueCalls
<1>4. CASE Next /\ FreesAgain
  <2>1. /\ library \in {"list.c", "dump/list.c"} /\ WellTyped /\ HeldIsLast
        /\ Ops \subseteq MailboxOps
    BY <1>1 DEF QueueKept
  <2>2. WellTyped' /\ HeldIsLast'
    BY <1>4, <2>1, WellTypedStep, HeldStep
  <2>3. library' = library
    BY <1>4 DEF Next, Create, Navigate, TakeOut, Insert, Search, Perform, Free, Concat, GiveUp
  <2>4. call.fn = "List_free" /\ call'.fn = "List_free"
    BY <1>4 DEF FreesAgain
  <2>5. PICK o \in Owner : ~heap.fault /\ GiveUp("List_free", o,
                             OfLibrary(List_free(heap, TheList), DumpFree(heap, TheList)))
    BY <1>1, <1>4, <2>4, QueueCalls DEF Create, Perform
  <2>. QED  BY <1>1, <2>1, <2>2, <2>3, <2>4, <2>5, FreedAgain DEF QueueKept
<1>. QED  BY <1>1, <1>2, <1>3, <1>4

\* It starts empty, with the links of its library.
LEMMA QueueStarts ==
  Ops \subseteq MailboxOps /\ Init => QueueKept /\ AbstractQueue!Init
<1>1. SUFFICES ASSUME Ops \subseteq MailboxOps, Init PROVE QueueKept /\ AbstractQueue!Init
  OBVIOUS
<1>2. heap = StaticHeap /\ held = [o \in Owner |-> NoList] /\ call = NoCall
      /\ library \in {"list.c", "dump/list.c"}
  BY <1>1 DEF Init
<1>3. ~heap.fault /\ emptyList(heap, TheList)
  <2>1. TheList \in ListId
    BY HeapAssumption DEF TheList, ListId
  <2>2. heap.list[TheList] = EmptyHead("LIST_OOB_START") /\ heap.fault = FALSE
    BY <1>2, <2>1 DEF StaticHeap
  <2>. QED  BY <2>2 DEF emptyList, EmptyHead
<1>4. WellTyped /\ HeldIsLast
  BY <1>2, StaticTyped DEF WellTyped, HeldIsLast
<1>5. HeldLists = {} /\ EmptyOnceFreed /\ EmptyAtFirst
  BY <1>2, <1>3 DEF HeldLists, Holding, EmptyOnceFreed, NoCall, EmptyAtFirst
<1>6. QueueKept
  BY <1>1, <1>2, <1>4, <1>5 DEF QueueKept, ListUsable
<1>7. Queue = <<>>
  BY <1>3, EmptySeen, QueueRead
<1>8. Links \in {"whole", "sound"}
  BY <1>2, <1>3, EmptySeen, QueueRead
<1>9. Result = <<"none">>
  BY <1>2, <1>3 DEF Result, NoCall
<1>10. AbstractQueue!Init
  BY <1>7, <1>8, <1>9 DEF AbstractQueue!Init, AbstractQueue!NewLinks
<1>. QED  BY <1>6, <1>10

\* For whoever calls only what the mailboxes call, the list of either library is a
\* first-in first-out queue with room for every node, and that of list.c breaks
\* exactly as QueueLinks says: List_trim of a list of three or more cuts it, the
\* next loses the tail and the third faults, and so does List_free of a list
\* with an item (list.c:318-450, dump/list.c:306-406).
THEOREM MailboxListIsQueue == Ops \subseteq MailboxOps => (EndSpec => IsListQueue)
<1>1. Ops \subseteq MailboxOps /\ Init => QueueKept /\ AbstractQueue!Init
  BY QueueStarts
<1>2. QueueKept /\ [Next /\ (Ended => FreesAgain)]_vars
        => QueueKept' /\ [AbstractQueue!Next]_(AbstractQueue!vars)
  BY QueueStep DEF AbstractQueue!vars
<1>. QED  BY <1>1, <1>2, PTL DEF EndSpec, IsListQueue, AbstractQueue!Spec

\* Then List_free, when it returns, has given all nodes and heads back too, in
\* list.c whatever List_trim has broken before; freed a second time, through the
\* other mailbox, the list is not given back twice (list.c:426-450).
THEOREM MailboxFreeGivesAllBack ==
  Ops \subseteq MailboxOps => (EndSpec => []FreeReturnsEverything)
<1>1. Ops \subseteq MailboxOps /\ Init => QueueKept
  BY QueueStarts
<1>2. QueueKept /\ [Next /\ (Ended => FreesAgain)]_vars => QueueKept'
  BY QueueStep
<1>3. QueueKept => FreeReturnsEverything
  BY DEF QueueKept, EmptyOnceFreed, AllBack, FreeReturnsEverything
<1>. QED  BY <1>1, <1>2, <1>3, PTL DEF EndSpec
=============================================================================
