------------------------------- MODULE IpcFifo -------------------------------
(***************************************************************************)
(* One ipc_fifo_t of drivers/ipc/ipc_fifo.h shared by tasks: a fifo_t      *)
(* (drivers/data_types/fifo.h) whose operations are wrapped in mtx_lock    *)
(* and mtx_release.  The steps are the accesses to the shared fields, with *)
(* a switch of tasks possible between any two.  The mutex is what module   *)
(* Mutex shows of it: one owner at a time, and a lock that waits.          *)
(***************************************************************************)
EXTENDS Integers, Sequences, FiniteSets

CONSTANTS
  Tasks,
  NULL,      \* nullptr
  Items,     \* the values of type T
  Garbage,   \* what an array element or a local holds before it is written
  Size,      \* the length of the array passed to init
  MaxItems,  \* bound: items accepted in a behaviour
  Locked     \* the mutex is used; FALSE is a bare fifo_t shared by tasks

ASSUME TasksAssumption == IsFiniteSet(Tasks) /\ NULL \notin Tasks
ASSUME ItemsAssumption == Garbage \notin Items
ASSUME SizeAssumption == Size \in Nat /\ Size > 0 /\ Size < 32768
ASSUME BoundAssumption == MaxItems \in Nat /\ Locked \in BOOLEAN

VARIABLES
  producers, consumers,        \* who calls enqueue and who calls dequeue
  owner,                       \* mtx.owner
  buffer, count, head, tail,   \* the fifo_t
  at,        \* at[t]: what t executes next
  op,        \* op[t]: the operation t has called
  item,      \* item[t]: the argument of enqueue, the local of dequeue
  reg,       \* reg[t]: count, while the processor increments or decrements it
  seen,      \* seen[t]: what t knows from get_used_size or is_full
  done,      \* done[t]: the call put an item into the array or took one out
  accepted,  \* history: how many items enqueue has put in
  taken      \* history: the items dequeue has taken out, in order

roles == <<producers, consumers>>
fifo == <<buffer, count, head, tail>>
locals == <<op, item, reg, seen, done>>
history == <<accepted, taken>>
vars == <<roles, owner, fifo, at, locals, history>>

Points == {"user", "lock", "body", "access", "index", "count", "update", "release"}
Operations == {"none", "enqueue", "dequeue", "get_used_size", "is_full"}
Knowledge == {"nothing", "empty", "not empty", "full", "not full"}

TypeOK ==
  /\ producers \subseteq Tasks /\ consumers \subseteq Tasks
  /\ owner \in Tasks \cup {NULL}
  /\ buffer \in [0..(Size - 1) -> Items \cup {Garbage}]
  /\ count \in 0..Size /\ head \in 0..(Size - 1) /\ tail \in 0..(Size - 1)
  /\ at \in [Tasks -> Points] /\ op \in [Tasks -> Operations]
  /\ item \in [Tasks -> Items \cup {Garbage}] /\ reg \in [Tasks -> 0..Size]
  /\ seen \in [Tasks -> Knowledge] /\ done \in [Tasks -> BOOLEAN]
  /\ accepted \in 0..MaxItems /\ taken \in Seq(Items)

\* ipc_fifo_t::init: fifo.init(buffer, size) and mtx_init.
Init ==
  /\ producers \in SUBSET Tasks /\ consumers \in SUBSET Tasks
  /\ producers # {} /\ consumers # {} /\ producers \cup consumers = Tasks
  /\ owner = NULL
  /\ buffer = [i \in 0..(Size - 1) |-> Garbage]
  /\ count = 0 /\ head = 0 /\ tail = 0
  /\ at = [t \in Tasks |-> "user"] /\ op = [t \in Tasks |-> "none"]
  /\ item = [t \in Tasks |-> Garbage] /\ reg = [t \in Tasks |-> 0]
  /\ seen = [t \in Tasks |-> "nothing"] /\ done = [t \in Tasks |-> FALSE]
  /\ accepted = 0 /\ taken = <<>>

Goto(t, from, to) == at[t] = from /\ at' = [at EXCEPT ![t] = to]

(***************************************************************************)
(* mtx_lock(&mtx) ... mtx_release(&mtx) around every operation.            *)
(***************************************************************************)
\* Mutant: the operation starts without waiting for the mutex.
LockForgotten(t) ==
  /\ Goto(t, "lock", "body")
  /\ UNCHANGED <<roles, owner, fifo, locals, history>>

Lock(t) ==
  /\ Goto(t, "lock", "body")
  /\ Locked => owner \in {NULL, t}
  /\ owner' = IF Locked THEN t ELSE owner
  /\ UNCHANGED <<roles, fifo, locals, history>>

\* The locals die with the call; what get_used_size or is_full said is kept by
\* the caller, and used up by the enqueue or dequeue it leads to.
Release(t) ==
  /\ Goto(t, "release", "user")
  /\ owner' = IF owner = t THEN NULL ELSE owner
  /\ op' = [op EXCEPT ![t] = "none"]
  /\ item' = [item EXCEPT ![t] = Garbage]
  /\ reg' = [reg EXCEPT ![t] = 0]
  /\ seen' = [seen EXCEPT ![t] = IF op[t] \in {"enqueue", "dequeue"} THEN "nothing" ELSE @]
  /\ done' = [done EXCEPT ![t] = FALSE]
  /\ UNCHANGED <<roles, fifo, history>>

(***************************************************************************)
(* fifo_t.                                                                 *)
(***************************************************************************)
\* The tests at the head of enqueue and dequeue.
Impossible(t) == IF op[t] = "enqueue" THEN count = Size ELSE count = 0

\* return 1, and return buffer[tail].
Refuse(t) ==
  /\ op[t] \in {"enqueue", "dequeue"} /\ Impossible(t)
  /\ Goto(t, "body", "release")
  /\ item' = [item EXCEPT ![t] = IF op[t] = "dequeue" THEN buffer[tail] ELSE @]
  /\ UNCHANGED <<roles, owner, fifo, op, reg, seen, done, history>>

Admit(t) ==
  /\ op[t] \in {"enqueue", "dequeue"} /\ ~Impossible(t)
  /\ Goto(t, "body", "access")
  /\ UNCHANGED <<roles, owner, fifo, locals, history>>

\* enqueue: buffer[head] = item.   dequeue: T item = buffer[tail].
Access(t) ==
  /\ Goto(t, "access", "index")
  /\ \/ /\ op[t] = "enqueue"
        /\ buffer' = [buffer EXCEPT ![head] = item[t]]
        /\ UNCHANGED item
     \/ /\ op[t] = "dequeue"
        /\ item' = [item EXCEPT ![t] = buffer[tail]]
        /\ UNCHANGED buffer
  /\ UNCHANGED <<roles, owner, count, head, tail, op, reg, seen, done, history>>

\* increment_head: head = (head + 1) % size (its own test for a full fifo
\* repeats the one of enqueue, as that of increment_tail repeats dequeue's).
increment_head(t) ==
  /\ op[t] = "enqueue"
  /\ Goto(t, "index", "count")
  /\ head' = (head + 1) % Size
  /\ UNCHANGED <<roles, owner, buffer, count, tail, locals, history>>

\* increment_tail: tail = (tail + 1) % size; the item is the caller's.
increment_tail(t) ==
  /\ op[t] = "dequeue"
  /\ Goto(t, "index", "count")
  /\ tail' = (tail + 1) % Size
  /\ taken' = Append(taken, item[t])
  /\ UNCHANGED <<roles, owner, buffer, count, head, locals, accepted>>

\* count += 1 and count -= 1: a load and a store of a volatile int.
LoadCount(t) ==
  /\ Goto(t, "count", "update")
  /\ reg' = [reg EXCEPT ![t] = count]
  /\ UNCHANGED <<roles, owner, fifo, op, item, seen, done, history>>

StoreCount(t) ==
  /\ Goto(t, "update", "release")
  /\ count' = IF op[t] = "enqueue" THEN reg[t] + 1 ELSE reg[t] - 1
  /\ accepted' = IF op[t] = "enqueue" THEN accepted + 1 ELSE accepted
  /\ done' = [done EXCEPT ![t] = TRUE]
  /\ UNCHANGED <<roles, owner, buffer, head, tail, op, item, reg, seen, taken>>

get_used_size(t) ==
  /\ op[t] = "get_used_size"
  /\ Goto(t, "body", "release")
  /\ seen' = [seen EXCEPT ![t] = IF count = 0 THEN "empty" ELSE "not empty"]
  /\ UNCHANGED <<roles, owner, fifo, op, item, reg, done, history>>

\* Mutant: the last place is not counted.
is_full_late(t) ==
  /\ op[t] = "is_full"
  /\ Goto(t, "body", "release")
  /\ seen' = [seen EXCEPT ![t] = IF count > Size THEN "full" ELSE "not full"]
  /\ UNCHANGED <<roles, owner, fifo, op, item, reg, done, history>>

is_full(t) ==
  /\ op[t] = "is_full"
  /\ Goto(t, "body", "release")
  /\ seen' = [seen EXCEPT ![t] = IF count = Size THEN "full" ELSE "not full"]
  /\ UNCHANGED <<roles, owner, fifo, op, item, reg, done, history>>

Inside(t) ==
  \/ Lock(t) \/ Release(t) \/ Refuse(t) \/ Admit(t) \/ Access(t)
  \/ increment_head(t) \/ increment_tail(t) \/ LoadCount(t) \/ StoreCount(t)
  \/ get_used_size(t) \/ is_full(t)

(***************************************************************************)
(* The tasks: producers ask is_full or not, consumers get_used_size.       *)
(***************************************************************************)
Call(t, o, i) ==
  /\ o \in {"enqueue", "is_full"} => t \in producers
  /\ o \in {"dequeue", "get_used_size"} => t \in consumers
  /\ o = "enqueue" => accepted + Cardinality({u \in Tasks : op[u] = "enqueue"}) < MaxItems
  /\ IF o = "enqueue" THEN i \in Items ELSE i = Garbage
  /\ Goto(t, "user", "lock")
  /\ op' = [op EXCEPT ![t] = o]
  /\ item' = [item EXCEPT ![t] = i]
  /\ UNCHANGED <<roles, owner, fifo, reg, seen, done, history>>

Next ==
  \E t \in Tasks :
    Inside(t) \/ \E o \in Operations \ {"none"}, i \in Items \cup {Garbage} : Call(t, o, i)

Spec == Init /\ [][Next]_vars

(***************************************************************************)
(* Properties.                                                             *)
(***************************************************************************)
\* The index has been moved and the count not yet.
Moved(t, o) == op[t] = o /\ at[t] \in {"count", "update"}
Entering == \E t \in Tasks : Moved(t, "enqueue")
Leaving == \E t \in Tasks : Moved(t, "dequeue")

\* While dequeue has moved tail and not yet count, the item is gone.
Stored == IF Leaving THEN count - 1 ELSE count
Contents == [i \in 1..Stored |-> buffer[(tail + i - 1) % Size]]

Queue == INSTANCE BoundedQueue WITH capacity <- Size, queue <- Contents

\* enqueue / dequeue: with their several writes, preempted anywhere, they are a
\* queue of size items: first in first out, none lost, doubled or invented.
ImplementsQueue == Queue!Spec

\* The distance from tail to head.
Extent == IF Entering THEN count + 1 ELSE Stored

\* fifo_t keeps the number of items twice: in count, and in head and tail.  The
\* three agree but for the index that a call has moved already.
IndexesAgree == (tail + Extent) % Size = head

Returning(t, o) == op[t] = o /\ at[t] = "release"

\* dequeue has no way to say that the queue was empty (fifo.h:94, "idk nothing
\* to return") and is used after get_used_size: for the only consumer that is
\* enough, although every call takes the mutex anew; so is is_full for the only
\* producer.
CheckedCallsSucceed ==
  \A t \in Tasks :
    /\ Returning(t, "dequeue") /\ consumers = {t} /\ seen[t] = "not empty" => done[t]
    /\ Returning(t, "enqueue") /\ producers = {t} /\ seen[t] = "not full" => done[t]

(***************************************************************************)
(* The inductive invariant behind these properties.                        *)
(***************************************************************************)
\* mtx: only its owner is between mtx_lock and mtx_release.
OneInside == \A t \in Tasks : at[t] \notin {"user", "lock"} => owner = t

\* Which call a task is in, and with what.
CallKnown ==
  \A t \in Tasks :
    /\ op[t] = "none" <=> at[t] = "user"
    /\ at[t] \in {"access", "index", "count", "update"} => op[t] \in {"enqueue", "dequeue"}
    /\ op[t] = "enqueue" => t \in producers /\ item[t] \in Items
    /\ op[t] = "dequeue" => t \in consumers

\* What a call has found out stays true until it acts on it.
StillPossible ==
  \A t \in Tasks :
    /\ at[t] \in {"access", "index", "count", "update"}
         => IF op[t] = "enqueue" THEN count < Size ELSE count > 0
    /\ at[t] = "index"
         => IF op[t] = "enqueue" THEN buffer[head] = item[t] ELSE item[t] = buffer[tail]
    /\ at[t] = "update" => reg[t] = count

\* Between tail and head there is nothing that was not enqueued.
OnlyItems == \A i \in 0..(Size - 1) : i < Extent => buffer[(tail + i) % Size] \in Items

\* Every call of enqueue in progress has a place below the bound.
Unfinished == {t \in Tasks : op[t] = "enqueue" /\ at[t] # "release"}
Bounded == accepted + Cardinality(Unfinished) <= MaxItems

\* fifo_t, ipc_fifo_t: the claims about mutex, indices and array that every
\* access preserves together.
FifoInv ==
  /\ TypeOK /\ OneInside /\ CallKnown /\ StillPossible
  /\ IndexesAgree /\ OnlyItems /\ Bounded

\* get_used_size, is_full: what the only consumer, or producer, was told stays
\* true until it has made use of it.
Promise ==
  \A t \in Tasks :
    /\ consumers = {t} /\ seen[t] = "not empty"
         => IF Returning(t, "dequeue") THEN done[t] ELSE count > 0
    /\ producers = {t} /\ seen[t] = "not full"
         => IF Returning(t, "enqueue") THEN done[t] ELSE count < Size
=============================================================================
