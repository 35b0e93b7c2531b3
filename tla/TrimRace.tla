------------------------------ MODULE TrimRace ------------------------------
(***************************************************************************)
(* The sender and the display of s-talk in produce() at the same time.     *)
(* The mailboxes they take from have a mutex each and, after List_create,  *)
(* one list (ListClientProofs): List_trim runs here in the steps of its    *)
(* code, where STalk only says that the list may be torn.                  *)
(*                                                                         *)
(* A statement, or a call that ListHeap has as an operator, is one step;   *)
(* a finer interleaving only has more behaviours.                          *)
(***************************************************************************)
EXTENDS ListHeap

CONSTANTS
  Thread,   \* the threads in produce()
  Mutex,
  MutexOf,  \* the mutex each of them takes
  Stored    \* the messages in the list, distinct, the oldest first; they fit

VARIABLES
  heap,
  access,   \* is each mutex taken?
  at,       \* each thread: program point, its local current, and message
  freed     \* the messages given to free()

vars == <<heap, access, at, freed>>

pList == LIST_MAX_NUM_HEADS - 1

\* The list after consume() of all stored messages.
Filled ==
  LET put[i \in 0 .. Len(Stored)] ==
        IF i = 0 THEN List_create(StaticHeap).heap
        ELSE List_prepend(put[i - 1], pList, Stored[i]).heap
  IN  put[Len(Stored)]

Init ==
  /\ heap = Filled
  /\ access = [m \in Mutex |-> FALSE]
  /\ at = [t \in Thread |-> [pc |-> "lock", current |-> NULL, message |-> NoItem]]
  /\ freed = <<>>

\* Thread t, at program point p, goes on at q; its locals are not touched.
Step(t, p, q) ==
  /\ ~heap.fault
  /\ at[t].pc = p
  /\ at' = [at EXCEPT ![t].pc = q]
  /\ UNCHANGED <<access, freed>>

\* The same, with a local variable.
StepWith(t, p, q, local, value) ==
  /\ ~heap.fault
  /\ at[t].pc = p
  /\ at' = [at EXCEPT ![t].pc = q, ![t][local] = value]
  /\ UNCHANGED <<heap, access, freed>>

\* pthread_mutex_lock, and a while test that lets the thread pass.
Lock(t) ==
  /\ at[t].pc = "lock"
  /\ ~access[MutexOf[t]] /\ heap.list[pList].num_nodes # 0 /\ ~heap.fault
  /\ access' = [access EXCEPT ![MutexOf[t]] = TRUE]
  /\ at' = [at EXCEPT ![t].pc = "last"]
  /\ UNCHANGED <<heap, freed>>

CallLast(t) ==
  /\ Step(t, "last", IF emptyList(heap, pList) THEN "unlock" ELSE "current")
  /\ heap' = IF emptyList(heap, pList) THEN heap ELSE List_last(heap, pList).heap

Current(t) ==
  LET current == heap.list[pList].curr
  IN  StepWith(t, "current", IF current = NULL THEN "unlock" ELSE "prev",
               "current", current)

CallPrev(t) ==
  /\ Step(t, "prev", "tail")
  /\ heap' = List_prev(heap, pList).heap

\* The end of the list moves to the cursor if current is that end.
MoveEnd(t, end, q) ==
  /\ Step(t, end, q)
  /\ heap' = IF at[t].current = heap.list[pList][end]
             THEN Set(heap, pList, end, heap.list[pList].curr) ELSE heap

Unlink(t) ==
  LET current == at[t].current
      gone    == heap.node[current]
  IN  /\ Step(t, "unlink", "count")
      /\ heap' = unlinkNodes(heap, current, gone.prev, gone.next)

Count(t) ==
  /\ Step(t, "count", "item")
  /\ heap' = [heap EXCEPT !.list[pList].num_nodes = @ - 1]

TakeItem(t) ==
  StepWith(t, "item", "give", "message", heap.node[at[t].current].item)

GiveBack(t) ==
  /\ Step(t, "give", "unlock")
  /\ heap' = produceFreeNode(heap, at[t].current)

\* The message is copied and freed, the mutex unlocked.
Unlock(t) ==
  /\ at[t].pc = "unlock" /\ ~heap.fault
  /\ freed' = IF at[t].message = NoItem THEN freed
              ELSE Append(freed, at[t].message)
  /\ access' = [access EXCEPT ![MutexOf[t]] = FALSE]
  /\ at' = [at EXCEPT ![t] = [pc |-> "lock", current |-> NULL, message |-> NoItem]]
  /\ UNCHANGED heap

Next ==
  \E t \in Thread :
    \/ Lock(t) \/ CallLast(t) \/ Current(t) \/ CallPrev(t)
    \/ MoveEnd(t, "tail", "head") \/ MoveEnd(t, "head", "unlink")
    \/ Unlink(t) \/ Count(t) \/ TakeItem(t) \/ GiveBack(t) \/ Unlock(t)

Spec == Init /\ [][Next]_vars

-----------------------------------------------------------------------------
\* README.txt:7 (item 6) says that the corruption of malloc's chunks, "unaligned
\* tcache chunk detected", is fixed: no message is given to free() twice.
FreedOnce ==
  \A i, j \in DOMAIN freed : i # j => freed[i] # freed[j]
=============================================================================
