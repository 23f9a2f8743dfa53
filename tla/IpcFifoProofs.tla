--------------------------- MODULE IpcFifoProofs ---------------------------
(***************************************************************************)
(* The FIFO behind its mutex, for every number of tasks, items and places: *)
(* the invariant, the checked calls and the refinement of BoundedQueue.    *)
(***************************************************************************)
EXTENDS IpcFifo, FiniteSetTheorems, TLAPS

USE DEF Points, Operations, Knowledge, roles, fifo, locals, history

\* Below w the remainder is the number itself, below 2 w it is w less.
LEMMA ModBelow ==
  ASSUME NEW w \in Nat \ {0}, NEW x \in 0..(w - 1) PROVE x % w = x
BY Z3

LEMMA ModAbove ==
  ASSUME NEW w \in Nat \ {0}, NEW x \in w..(2 * w - 1) PROVE x % w = x - w
BY Z3

\* The array has a place.
LEMMA SizePositive == Size \in Nat /\ Size > 0
BY SizeAssumption

\* One trip round the array.
LEMMA Wrap == \A x \in 0..(2 * Size - 1) : x % Size = IF x < Size THEN x ELSE x - Size
<1> TAKE x \in 0..(2 * Size - 1)
<1>0. Size \in Nat \ {0} /\ x \in Nat
  BY SizeAssumption
<1>1. CASE x < Size
  <2>1. x \in 0..(Size - 1)
    BY <1>0, <1>1
  <2>2. x % Size = x
    BY ONLY <1>0, <2>1, ModBelow, Zenon
  <2> QED BY <1>1, <2>2
<1>2. CASE x >= Size
  <2>1. x \in Size..(2 * Size - 1)
    BY <1>0, <1>2
  <2>2. x % Size = x - Size
    BY ONLY <1>0, <2>1, ModAbove, Zenon
  <2> QED BY <1>0, <1>2, <2>2
<1> QED BY <1>0, <1>1, <1>2

\* Moving an index moves the remainder along.
LEMMA WrapStep ==
  ASSUME NEW x \in 0..(2 * Size - 2)
  PROVE  /\ (x + 1) % Size = ((x % Size) + 1) % Size
         /\ x % Size \in 0..(Size - 1)
<1>0. Size \in Nat /\ Size > 0
  BY SizePositive, Zenon
<1> DEFINE r == x % Size
<1>1. r = IF x < Size THEN x ELSE x - Size
  BY <1>0, Wrap
<1>2. (x + 1) % Size = IF x + 1 < Size THEN x + 1 ELSE x + 1 - Size
  BY <1>0, Wrap
<1> HIDE DEF r
<1>3. r \in 0..(Size - 1)
  BY <1>0, <1>1
<1>4. (r + 1) % Size = IF r + 1 < Size THEN r + 1 ELSE r + 1 - Size
  BY <1>0, <1>3, Wrap
<1>5. (x + 1) % Size = (r + 1) % Size
  BY <1>0, <1>1, <1>2, <1>4
<1> QED BY <1>3, <1>5 DEF r

\* The task that is inside decides whether an index is ahead of the count.
LEMMA Alone ==
  ASSUME OneInside, NEW t \in Tasks, at[t] \notin {"user", "lock"}
  PROVE  /\ Entering <=> Moved(t, "enqueue")
         /\ Leaving <=> Moved(t, "dequeue")
         /\ \A u \in Tasks : u # t => at[u] \in {"user", "lock"}
<1>1. \A u \in Tasks : at[u] \notin {"user", "lock"} => u = t
  BY DEF OneInside
<1> QED BY <1>1 DEF Entering, Leaving, Moved

\* The numbers of the fifo_t and the bound.
LEMMA Numbers ==
  ASSUME TypeOK
  PROVE  /\ Size \in Nat /\ Size > 0 /\ count \in 0..Size
         /\ head \in 0..(Size - 1) /\ tail \in 0..(Size - 1)
         /\ accepted \in Nat /\ MaxItems \in Nat
<1>1. /\ count \in 0..Size /\ head \in 0..(Size - 1) /\ tail \in 0..(Size - 1)
      /\ accepted \in 0..MaxItems
  BY DEF TypeOK
<1> QED BY <1>1, SizeAssumption, BoundAssumption

\* How far tail and head are apart fits into the array.
LEMMA ExtentRange ==
  ASSUME TypeOK, OneInside, CallKnown, StillPossible
  PROVE  /\ Extent \in 0..Size /\ Stored \in 0..Size
         /\ Entering => Extent = Stored + 1 /\ Extent = count + 1 /\ ~Leaving
         /\ ~Entering => Extent = Stored
<1>1. \A t \in Tasks : Moved(t, "enqueue") => count < Size
  BY DEF StillPossible, Moved
<1>2. \A t \in Tasks : Moved(t, "dequeue") => count > 0
  BY DEF StillPossible, Moved
<1>3. Entering => count < Size /\ ~Leaving
  BY <1>1, Alone DEF Entering, Moved
<1>4. Leaving => count > 0
  BY <1>2 DEF Leaving
<1>5. count \in 0..Size /\ Size \in Nat
  BY Numbers
<1> QED BY <1>3, <1>4, <1>5 DEF Extent, Stored

\* init leaves an empty queue and a free mutex.
LEMMA InitFifoInv == Init => FifoInv
<1> SUFFICES ASSUME Init PROVE FifoInv
  OBVIOUS
<1>1. TypeOK /\ OneInside /\ CallKnown /\ StillPossible
  BY SizeAssumption, BoundAssumption
     DEF Init, TypeOK, OneInside, CallKnown, StillPossible
<1>2. Extent = 0
  BY DEF Init, Extent, Stored, Entering, Leaving, Moved
<1>3. IndexesAgree /\ OnlyItems
  <2>1. Size \in Nat \ {0} /\ 0 \in 0..(Size - 1)
    BY SizeAssumption
  <2>2. 0 % Size = 0
    BY ONLY <2>1, ModBelow, Zenon
  <2>3. head = 0 /\ tail = 0 /\ tail + Extent = 0
    BY <1>2 DEF Init
  <2>4. IndexesAgree
    BY <2>2, <2>3 DEF IndexesAgree
  <2>5. \A i \in 0..(Size - 1) : ~(i < Extent)
    BY <1>2, <2>1
  <2>6. OnlyItems
    BY <2>5 DEF OnlyItems
  <2> QED BY <2>4, <2>6
<1>4. Unfinished = {}
  BY DEF Init, Unfinished
<1>5. Bounded
  BY <1>4, FS_EmptySet, BoundAssumption DEF Bounded, Init
<1> QED BY <1>1, <1>3, <1>5 DEF FifoInv

\* A step that leaves the array and the progress of every call alone.
LEMMA SameArray ==
  ASSUME IndexesAgree, OnlyItems, UNCHANGED fifo,
         \A t \in Tasks, o \in Operations : Moved(t, o)' <=> Moved(t, o)
  PROVE  IndexesAgree' /\ OnlyItems' /\ Extent' = Extent
<1>1. (Entering' <=> Entering) /\ (Leaving' <=> Leaving)
  BY DEF Entering, Leaving
<1>2. Extent' = Extent
  BY <1>1 DEF Extent, Stored
<1> QED BY <1>2 DEF IndexesAgree, OnlyItems

\* A step that starts no call of enqueue and accepts nothing.
LEMMA SameCalls ==
  ASSUME TypeOK, Bounded, UNCHANGED accepted, Unfinished' \subseteq Unfinished
  PROVE  Bounded'
<1>1. IsFiniteSet(Unfinished)
  BY FS_Subset, TasksAssumption DEF Unfinished
<1>2. Cardinality(Unfinished') <= Cardinality(Unfinished) /\ IsFiniteSet(Unfinished')
  BY <1>1, FS_Subset
<1>3. Cardinality(Unfinished) \in Nat /\ Cardinality(Unfinished') \in Nat
  BY <1>1, <1>2, FS_CardinalityType
<1> QED BY <1>2, <1>3, Numbers DEF Bounded

\* mtx_lock and mtx_release, the tests and the queries: they touch neither the
\* array nor the indices.
LEMMA QuietSteps ==
  ASSUME Locked, FifoInv, NEW t \in Tasks,
         Lock(t) \/ Release(t) \/ Refuse(t) \/ Admit(t) \/ LoadCount(t)
           \/ get_used_size(t) \/ is_full(t)
  PROVE  FifoInv'
<1> USE DEF FifoInv, Goto, Impossible
<1>0. tail \in 0..(Size - 1) /\ buffer[tail] \in Items \cup {Garbage}
  BY DEF TypeOK
<1>1. TypeOK' /\ OneInside'
  <2>1. CASE Lock(t)
    BY <2>1, TasksAssumption DEF Lock, TypeOK, OneInside
  <2>2. CASE Release(t)
    <3>1. OneInside'
      BY <2>2, TasksAssumption DEF Release, TypeOK, OneInside
    <3>2. 0 \in 0..Size
      BY Numbers
    <3>3. TypeOK'
      BY <2>2, <3>2 DEF Release, TypeOK
    <3> QED BY <3>1, <3>3
  <2>3. CASE Refuse(t)
    BY <2>3, <1>0 DEF Refuse, TypeOK, OneInside
  <2>4. CASE Admit(t)
    BY <2>4 DEF Admit, TypeOK, OneInside
  <2>5. CASE LoadCount(t)
    BY <2>5 DEF LoadCount, TypeOK, OneInside
  <2>6. CASE get_used_size(t) \/ is_full(t)
    BY <2>6 DEF get_used_size, is_full, TypeOK, OneInside
  <2> QED BY <2>1, <2>2, <2>3, <2>4, <2>5, <2>6
<1>2. CallKnown' /\ StillPossible'
  <2>1. CASE Lock(t)
    BY <2>1 DEF Lock, TypeOK, CallKnown, StillPossible
  <2>2. CASE Release(t)
    BY <2>2 DEF Release, TypeOK, CallKnown, StillPossible
  <2>3. CASE Refuse(t)
    BY <2>3 DEF Refuse, TypeOK, CallKnown, StillPossible
  <2>4. CASE Admit(t)
    <3>1. CallKnown'
      BY <2>4 DEF Admit, TypeOK, CallKnown
    <3>2. IF op[t] = "enqueue" THEN count < Size ELSE count > 0
      BY <2>4, Numbers DEF Admit
    <3>3. StillPossible'
      BY <2>4, <3>2 DEF Admit, TypeOK, StillPossible
    <3> QED BY <3>1, <3>3
  <2>5. CASE LoadCount(t)
    BY <2>5 DEF LoadCount, TypeOK, CallKnown, StillPossible
  <2>6. CASE get_used_size(t) \/ is_full(t)
    <3>1. at' = [at EXCEPT ![t] = "release"] /\ UNCHANGED <<roles, fifo, op, item, reg>>
      BY <2>6 DEF get_used_size, is_full
    <3> QED BY <2>6, <3>1 DEF get_used_size, is_full, TypeOK, CallKnown, StillPossible
  <2> QED BY <2>1, <2>2, <2>3, <2>4, <2>5, <2>6
<1>3. \A u \in Tasks, o \in Operations : Moved(u, o)' <=> Moved(u, o)
  BY DEF Lock, Release, Refuse, Admit, LoadCount, get_used_size, is_full, TypeOK, Moved
<1>4. UNCHANGED fifo /\ UNCHANGED accepted
  BY DEF Lock, Release, Refuse, Admit, LoadCount, get_used_size, is_full
<1>5. Unfinished' \subseteq Unfinished
  BY DEF Lock, Release, Refuse, Admit, LoadCount, get_used_size, is_full, TypeOK,
         Unfinished
<1> QED BY <1>1, <1>2, <1>3, <1>4, <1>5, SameArray, SameCalls

\* A call of enqueue takes a place below the bound.
LEMMA CallStep ==
  ASSUME FifoInv, NEW t \in Tasks, NEW o \in Operations \ {"none"},
         NEW i \in Items \cup {Garbage}, Call(t, o, i)
  PROVE  FifoInv'
<1> USE DEF FifoInv, Goto
<1>1. TypeOK' /\ OneInside'
  BY DEF Call, TypeOK, OneInside
<1>2. CallKnown'
  BY DEF Call, TypeOK, CallKnown
<1>3. StillPossible'
  BY DEF Call, TypeOK, StillPossible
<1>4. \A u \in Tasks, p \in Operations : Moved(u, p)' <=> Moved(u, p)
  BY DEF Call, TypeOK, Moved
<1>5. UNCHANGED fifo /\ UNCHANGED accepted
  BY DEF Call
<1>6. CASE o # "enqueue"
  <2>1. Unfinished' \subseteq Unfinished
    BY <1>6 DEF Call, TypeOK, Unfinished
  <2> QED BY <1>1, <1>2, <1>3, <1>4, <1>5, <2>1, SameArray, SameCalls
<1>7. CASE o = "enqueue"
  <2> DEFINE all == {u \in Tasks : op[u] = "enqueue"}
  <2>1. Unfinished \subseteq all /\ Unfinished' = Unfinished \cup {t}
    BY <1>7 DEF Call, TypeOK, Unfinished
  <2>2. accepted + Cardinality(all) < MaxItems
    BY <1>7 DEF Call
  <2>3. IsFiniteSet(all)
    BY FS_Subset, TasksAssumption
  <2> HIDE DEF all
  <2>4. IsFiniteSet(Unfinished) /\ Cardinality(Unfinished) <= Cardinality(all)
    BY <2>1, <2>3, FS_Subset
  <2>5. Cardinality(Unfinished') <= Cardinality(Unfinished) + 1
        /\ Cardinality(Unfinished') \in Nat
    <3>1. Cardinality(Unfinished \cup {t})
            = IF t \in Unfinished THEN Cardinality(Unfinished) ELSE Cardinality(Unfinished) + 1
      BY <2>4, FS_AddElement
    <3>2. Cardinality(Unfinished) \in Nat
      BY <2>4, FS_CardinalityType
    <3> QED BY <2>1, <3>1, <3>2
  <2>6. Cardinality(Unfinished) \in Nat /\ Cardinality(all) \in Nat
    BY <2>3, <2>4, FS_CardinalityType
  <2>7. Bounded'
    BY <1>5, <2>2, <2>4, <2>5, <2>6, Numbers DEF Bounded
  <2> QED BY <1>1, <1>2, <1>3, <1>4, <1>5, <2>7, SameArray
<1> QED BY <1>6, <1>7

\* enqueue writes beyond the last item, dequeue reads the first.
LEMMA AccessStep == ASSUME FifoInv, NEW t \in Tasks, Access(t) PROVE FifoInv'
<1> USE DEF FifoInv, Goto
<1>0. head \in 0..(Size - 1) /\ tail \in 0..(Size - 1)
  BY Numbers
<1>1. TypeOK' /\ OneInside'
  <2>1. OneInside'
    BY DEF Access, TypeOK, OneInside
  <2>2. CASE op[t] = "enqueue"
    BY <1>0, <2>1, <2>2 DEF Access, TypeOK
  <2>3. CASE op[t] = "dequeue"
    BY <1>0, <2>1, <2>3 DEF Access, TypeOK
  <2> QED BY <2>2, <2>3 DEF Access
<1>2. CallKnown'
  BY DEF Access, TypeOK, CallKnown
<1>3. \A u \in Tasks : u # t => at[u] \in {"user", "lock"}
  BY Alone DEF Access
<1>4. StillPossible'
  <2>1. at' = [at EXCEPT ![t] = "index"] /\ UNCHANGED <<op, count, head, tail>>
    BY DEF Access
  <2>2. IF op[t] = "enqueue" THEN count < Size ELSE count > 0
    BY DEF Access, StillPossible
  <2>3. IF op[t] = "enqueue" THEN buffer'[head] = item'[t] ELSE item'[t] = buffer'[tail]
    BY <1>0 DEF Access, TypeOK
  <2> QED BY <1>3, <2>1, <2>2, <2>3 DEF TypeOK, StillPossible
<1>5. \A u \in Tasks, o \in Operations : Moved(u, o)' <=> Moved(u, o)
  BY DEF Access, TypeOK, Moved
<1>6. Unfinished' \subseteq Unfinished /\ UNCHANGED accepted
  BY DEF Access, TypeOK, Unfinished
<1>7. CASE op[t] = "dequeue"
  <2>1. UNCHANGED fifo
    BY <1>7 DEF Access
  <2> QED BY <1>1, <1>2, <1>4, <1>5, <1>6, <2>1, SameArray, SameCalls
<1>8. CASE op[t] = "enqueue"
  <2>1. (Entering' <=> Entering) /\ (Leaving' <=> Leaving)
    BY <1>5 DEF Entering, Leaving
  <2>2. Extent' = Extent /\ UNCHANGED <<head, tail>>
    BY <2>1 DEF Extent, Stored, Access
  <2>3. IndexesAgree'
    BY <2>2 DEF IndexesAgree
  <2>4. item[t] \in Items /\ buffer' = [buffer EXCEPT ![head] = item[t]]
    BY <1>8 DEF Access, CallKnown
  <2>5. \A j : buffer[j] \in Items /\ j \in 0..(Size - 1) => buffer'[j] \in Items
    BY <2>4 DEF TypeOK
  <2>6. ASSUME NEW i \in 0..(Size - 1), i < Extent'
        PROVE  buffer'[(tail' + i) % Size] \in Items
    <3>1. (tail + i) % Size \in 0..(Size - 1)
      BY <1>0, Numbers, WrapStep
    <3>2. buffer[(tail + i) % Size] \in Items
      BY <2>2, <2>6 DEF OnlyItems
    <3> QED BY <2>2, <2>5, <3>1, <3>2
  <2>7. OnlyItems'
    BY <2>6 DEF OnlyItems
  <2> QED BY <1>1, <1>2, <1>4, <1>6, <2>3, <2>7, SameCalls
<1> QED BY <1>7, <1>8 DEF Access

\* increment_head takes the item that was written into the extent.
LEMMA HeadStep == ASSUME FifoInv, NEW t \in Tasks, increment_head(t) PROVE FifoInv'
<1> USE DEF FifoInv, Goto
<1>0. /\ at[t] = "index" /\ at' = [at EXCEPT ![t] = "count"] /\ op[t] = "enqueue"
      /\ UNCHANGED <<roles, owner, buffer, count, tail, locals, history>>
  BY DEF increment_head
<1>1. /\ Size \in Nat /\ Size > 0 /\ count \in 0..(Size - 1)
      /\ head \in 0..(Size - 1) /\ tail \in 0..(Size - 1)
  BY <1>0, Numbers DEF StillPossible
<1>2. /\ ~Entering /\ ~Leaving
      /\ \A u \in Tasks : u # t => at[u] \in {"user", "lock"}
  BY <1>0, Alone DEF Moved
<1>3. head' \in 0..(Size - 1)
  BY <1>1, WrapStep DEF increment_head
<1>4. TypeOK' /\ OneInside' /\ CallKnown'
  BY <1>0, <1>3 DEF TypeOK, OneInside, CallKnown
<1>5. StillPossible'
  BY <1>0, <1>2 DEF TypeOK, StillPossible
<1>6. Extent = count /\ Extent' = count + 1
  <2>1. Entering'
    BY <1>0 DEF Entering, Moved, TypeOK
  <2> QED BY <1>0, <1>2, <2>1 DEF Extent, Stored
<1>7. IndexesAgree'
  <2>1. tail + count \in 0..(2 * Size - 2) /\ (tail + count) % Size = head
    BY <1>1, <1>6 DEF IndexesAgree
  <2>2. (tail + count + 1) % Size = (head + 1) % Size
    BY <2>1, WrapStep
  <2>3. tail' + Extent' = tail + count + 1
    BY <1>0, <1>1, <1>6
  <2> QED BY <2>2, <2>3 DEF increment_head, IndexesAgree
<1>8. OnlyItems'
  <2> SUFFICES ASSUME NEW i \in 0..(Size - 1), i < count + 1
               PROVE  buffer[(tail + i) % Size] \in Items
    BY <1>0, <1>6 DEF OnlyItems
  <2>1. CASE i < count
    BY <1>6, <2>1 DEF OnlyItems
  <2>2. CASE i = count
    BY <1>0, <1>6, <2>2 DEF IndexesAgree, StillPossible, CallKnown
  <2> QED BY <1>1, <2>1, <2>2
<1>9. Unfinished' \subseteq Unfinished /\ UNCHANGED accepted
  BY <1>0 DEF TypeOK, Unfinished
<1> QED BY <1>4, <1>5, <1>7, <1>8, <1>9, SameCalls

\* What dequeue is about to hand out is an item.
LEMMA FirstItem ==
  ASSUME FifoInv, NEW t \in Tasks, op[t] = "dequeue", at[t] = "index"
  PROVE  item[t] = buffer[tail] /\ item[t] \in Items /\ Extent = count /\ Stored = count
         /\ count \in 1..Size /\ ~Entering /\ ~Leaving
<1>1. item[t] = buffer[tail] /\ count > 0
  BY DEF FifoInv, StillPossible
<1>2. ~Entering /\ ~Leaving
  BY Alone DEF FifoInv, Moved
<1>3. Extent = count /\ Stored = count
  BY <1>2 DEF Extent, Stored
<1>4. Size \in Nat /\ Size > 0 /\ count \in 1..Size /\ tail \in 0..(Size - 1)
  BY <1>1, Numbers DEF FifoInv
<1>5. (tail + 0) % Size = tail /\ 0 \in 0..(Size - 1) /\ 0 < Extent
  BY <1>3, <1>4, Wrap
<1>6. buffer[(tail + 0) % Size] \in Items
  BY <1>5 DEF FifoInv, OnlyItems
<1> QED BY <1>1, <1>2, <1>3, <1>4, <1>5, <1>6

\* increment_tail leaves the first item out of the extent.
LEMMA TailStep == ASSUME FifoInv, NEW t \in Tasks, increment_tail(t) PROVE FifoInv'
<1> USE DEF FifoInv, Goto
<1>0. /\ at[t] = "index" /\ at' = [at EXCEPT ![t] = "count"] /\ op[t] = "dequeue"
      /\ taken' = Append(taken, item[t])
      /\ UNCHANGED <<roles, owner, buffer, count, head, locals, accepted>>
  BY DEF increment_tail
<1>1. /\ Size \in Nat /\ Size > 0 /\ count \in 1..Size
      /\ head \in 0..(Size - 1) /\ tail \in 0..(Size - 1)
  BY <1>0, Numbers DEF StillPossible
<1>2. /\ item[t] \in Items /\ Extent = count /\ ~Entering /\ ~Leaving
      /\ \A u \in Tasks : u # t => at[u] \in {"user", "lock"}
  BY <1>0, FirstItem, Alone
<1>3. tail' \in 0..(Size - 1) /\ tail' = IF tail + 1 < Size THEN tail + 1 ELSE 0
  BY <1>1, Wrap DEF increment_tail
<1>4. TypeOK' /\ OneInside' /\ CallKnown'
  <2>1. taken \in Seq(Items)
    BY DEF TypeOK
  <2>2. taken' \in Seq(Items)
    BY <1>0, <1>2, <2>1
  <2> QED BY <1>0, <1>3, <2>2 DEF TypeOK, OneInside, CallKnown
<1>5. StillPossible'
  BY <1>0, <1>2 DEF TypeOK, StillPossible
<1>6. Extent' = count - 1
  <2>1. Leaving' /\ ~Entering'
    BY <1>0, <1>2 DEF Entering, Leaving, Moved, TypeOK
  <2> QED BY <1>0, <2>1 DEF Extent, Stored
<1>7. ASSUME NEW i \in 0..(Size - 1) PROVE (tail' + i) % Size = (tail + (i + 1)) % Size
  BY <1>1, <1>3, <1>7, Wrap
<1>8. IndexesAgree'
  <2> DEFINE last == count - 1
  <2>1. last \in 0..(Size - 1) /\ last + 1 = count /\ Extent' = last
    BY <1>1, <1>6
  <2> HIDE DEF last
  <2>2. (tail' + last) % Size = (tail + (last + 1)) % Size
    BY <1>7, <2>1
  <2> QED BY <1>0, <1>2, <2>1, <2>2 DEF IndexesAgree
<1>9. OnlyItems'
  <2> SUFFICES ASSUME NEW i \in 0..(Size - 1), i < count - 1
               PROVE  buffer[(tail' + i) % Size] \in Items
    BY <1>0, <1>6 DEF OnlyItems
  <2>1. i + 1 \in 0..(Size - 1) /\ i + 1 < Extent
    BY <1>1, <1>2
  <2>2. buffer[(tail + (i + 1)) % Size] \in Items
    BY <2>1 DEF OnlyItems
  <2> QED BY <1>7, <2>2
<1>10. Unfinished' \subseteq Unfinished /\ UNCHANGED accepted
  BY <1>0 DEF TypeOK, Unfinished
<1> QED BY <1>4, <1>5, <1>8, <1>9, <1>10, SameCalls

\* The store of count catches up with the index.
LEMMA StoreStep == ASSUME FifoInv, NEW t \in Tasks, StoreCount(t) PROVE FifoInv'
<1> USE DEF FifoInv, Goto
<1>0. /\ at[t] = "update" /\ at' = [at EXCEPT ![t] = "release"]
      /\ UNCHANGED <<roles, owner, buffer, head, tail, op, item, reg, seen, taken>>
      /\ done' = [done EXCEPT ![t] = TRUE]
  BY DEF StoreCount
<1>1. /\ Size \in Nat /\ Size > 0 /\ count \in 0..Size /\ accepted \in Nat
      /\ MaxItems \in Nat
  BY Numbers
<1>2. /\ op[t] \in {"enqueue", "dequeue"} /\ reg[t] = count
      /\ IF op[t] = "enqueue" THEN count < Size ELSE count > 0
  BY <1>0 DEF StillPossible, CallKnown
<1>3. /\ Entering <=> op[t] = "enqueue"
      /\ Leaving <=> op[t] = "dequeue"
      /\ \A u \in Tasks : u # t => at[u] \in {"user", "lock"}
  BY <1>0, Alone DEF Moved
<1>4. /\ count' = IF op[t] = "enqueue" THEN count + 1 ELSE count - 1
      /\ count' \in 0..Size
  BY <1>1, <1>2 DEF StoreCount
<1>5. ~Entering' /\ ~Leaving'
  BY <1>0, <1>3 DEF Entering, Leaving, Moved, TypeOK
<1>6. Extent' = Extent
  BY <1>2, <1>3, <1>4, <1>5 DEF Extent, Stored
<1>7. IndexesAgree' /\ OnlyItems'
  BY <1>0, <1>6 DEF IndexesAgree, OnlyItems
<1>8. Bounded' /\ accepted' \in 0..MaxItems
  <2>0. IsFiniteSet(Unfinished) /\ Cardinality(Unfinished) \in Nat
    BY FS_Subset, FS_CardinalityType, TasksAssumption DEF Unfinished
  <2>1. CASE op[t] = "enqueue"
    <3>1. t \in Unfinished /\ Unfinished' = Unfinished \ {t}
      BY <1>0, <2>1 DEF Unfinished, TypeOK
    <3>2. Cardinality(Unfinished \ {t}) = Cardinality(Unfinished) - 1
          /\ IsFiniteSet(Unfinished \ {t})
      BY <2>0, <3>1, FS_RemoveElement
    <3>3. Cardinality(Unfinished \ {t}) \in Nat
      BY <3>2, FS_CardinalityType
    <3>4. accepted' = accepted + 1
      BY <2>1 DEF StoreCount
    <3> QED BY <1>1, <2>0, <3>1, <3>2, <3>3, <3>4 DEF Bounded
  <2>2. CASE op[t] = "dequeue"
    <3>1. Unfinished' \subseteq Unfinished /\ UNCHANGED accepted
      BY <1>0, <2>2 DEF Unfinished, TypeOK, StoreCount
    <3>2. accepted \in 0..MaxItems
      BY DEF TypeOK
    <3> QED BY <3>1, <3>2, SameCalls
  <2> QED BY <1>2, <2>1, <2>2
<1>9. TypeOK' /\ OneInside'
  BY <1>0, <1>4, <1>8 DEF TypeOK, OneInside
<1>10. CallKnown'
  BY <1>0 DEF TypeOK, CallKnown
<1>11. StillPossible'
  BY <1>0, <1>3 DEF TypeOK, StillPossible
<1> QED BY <1>7, <1>8, <1>9, <1>10, <1>11

\* Every access keeps FifoInv.
LEMMA NextFifoInv == ASSUME Locked PROVE FifoInv /\ [Next]_vars => FifoInv'
<1> SUFFICES ASSUME FifoInv, [Next]_vars PROVE FifoInv'
  OBVIOUS
<1>1. CASE UNCHANGED vars
  BY <1>1 DEF vars, FifoInv, TypeOK, OneInside, CallKnown, StillPossible, IndexesAgree,
              OnlyItems, Bounded, Extent, Stored, Entering, Leaving, Moved, Unfinished
<1>2. ASSUME NEW t \in Tasks, Inside(t) PROVE FifoInv'
  BY <1>2, QuietSteps, AccessStep, HeadStep, TailStep, StoreStep DEF Inside
<1> QED BY <1>1, <1>2, CallStep DEF Next

\* fifo_t behind the mutex keeps its invariant, for every number of tasks and
\* places.
THEOREM FifoInvariant == ASSUME Locked PROVE Spec => []FifoInv
<1>1. Init => FifoInv
  BY InitFifoInv
<1>2. FifoInv /\ [Next]_vars => FifoInv'
  BY NextFifoInv
<1> QED BY <1>1, <1>2, PTL DEF Spec

\* Every step keeps what the only consumer and the only producer were told.
LEMMA NextPromise == FifoInv /\ Promise /\ [Next]_vars => Promise'
<1> SUFFICES ASSUME FifoInv, Promise, [Next]_vars PROVE Promise'
  OBVIOUS
<1> USE DEF FifoInv, Promise, Returning, Goto
<1>0. Size \in Nat /\ count \in 0..Size
  BY Numbers
<1>1. CASE UNCHANGED vars
  BY <1>1 DEF vars
<1>2. ASSUME NEW t \in Tasks, NEW o \in Operations \ {"none"},
             NEW i \in Items \cup {Garbage}, Call(t, o, i)
      PROVE  Promise'
  BY <1>2 DEF Call, TypeOK
<1>3. ASSUME NEW t \in Tasks, Inside(t) PROVE Promise'
  <2>1. CASE Lock(t) \/ Admit(t) \/ LoadCount(t)
    BY <2>1 DEF Lock, Admit, LoadCount, TypeOK
  <2>2. CASE Release(t)
    <3>1. /\ at[t] = "release" /\ at' = [at EXCEPT ![t] = "user"]
          /\ UNCHANGED <<roles, count>>
          /\ op[t] \in {"enqueue", "dequeue"} => seen'[t] = "nothing"
          /\ op[t] \notin {"enqueue", "dequeue"} => seen'[t] = seen[t]
          /\ \A u \in Tasks \ {t} : /\ at'[u] = at[u] /\ op'[u] = op[u]
                                    /\ seen'[u] = seen[u] /\ done'[u] = done[u]
      BY <2>2 DEF Release, TypeOK
    <3>2. at'[t] = "user"
      BY <3>1 DEF TypeOK
    <3> QED BY <3>1, <3>2
  <2>3. CASE Refuse(t)
    <3>1. IF op[t] = "enqueue" THEN ~(count < Size) ELSE ~(count > 0)
      BY ONLY <1>0, <2>3 DEF Refuse, Impossible
    <3>2. /\ at[t] = "body" /\ at' = [at EXCEPT ![t] = "release"]
          /\ UNCHANGED <<roles, count, op, seen, done>>
      BY <2>3 DEF Refuse
    <3> QED BY <3>1, <3>2 DEF TypeOK
  <2>4. CASE Access(t) \/ increment_head(t) \/ increment_tail(t)
    BY <2>4 DEF Access, increment_head, increment_tail, TypeOK
  <2>5. CASE StoreCount(t)
    <3>1. /\ op[t] \in {"enqueue", "dequeue"} /\ reg[t] = count
          /\ op[t] = "enqueue" => t \in producers /\ count < Size
          /\ op[t] = "dequeue" => t \in consumers /\ count > 0
      BY <2>5 DEF StoreCount, StillPossible, CallKnown
    <3>2. /\ op[t] = "enqueue" => count' > 0
          /\ op[t] = "dequeue" => count' < Size
      BY ONLY <1>0, <2>5, <3>1 DEF StoreCount
    <3>3. /\ at' = [at EXCEPT ![t] = "release"] /\ done' = [done EXCEPT ![t] = TRUE]
          /\ at[t] = "update" /\ UNCHANGED <<roles, op, seen>>
      BY <2>5 DEF StoreCount
    <3>4. at \in [Tasks -> Points] /\ done \in [Tasks -> BOOLEAN]
      BY DEF TypeOK
    <3>5. ASSUME NEW u \in Tasks, consumers = {u}, seen[u] = "not empty"
          PROVE  (IF Returning(u, "dequeue") THEN done[u] ELSE count > 0)'
      BY <3>1, <3>2, <3>3, <3>4, <3>5
    <3>6. ASSUME NEW u \in Tasks, producers = {u}, seen[u] = "not full"
          PROVE  (IF Returning(u, "enqueue") THEN done[u] ELSE count < Size)'
      BY <3>1, <3>2, <3>3, <3>4, <3>6
    <3> QED BY <3>3, <3>5, <3>6
  <2>6. CASE get_used_size(t)
    <3>1. seen \in [Tasks -> Knowledge]
      BY DEF TypeOK
    <3>2. seen'[t] # "not full" /\ (seen'[t] = "not empty" => count > 0)
      <4>1. seen'[t] = IF count = 0 THEN "empty" ELSE "not empty"
        BY <2>6, <3>1 DEF get_used_size
      <4>2. count = 0 \/ count > 0
        BY ONLY <1>0
      <4> QED BY ONLY <4>1, <4>2, Zenon
    <3>3. /\ op[t] = "get_used_size" /\ at' = [at EXCEPT ![t] = "release"]
          /\ UNCHANGED <<roles, count, op, done>>
          /\ \A u \in Tasks \ {t} : seen'[u] = seen[u]
      BY <2>6, <3>1 DEF get_used_size
    <3> QED BY <3>2, <3>3 DEF TypeOK
  <2>7. CASE is_full(t)
    <3>1. seen \in [Tasks -> Knowledge]
      BY DEF TypeOK
    <3>2. seen'[t] # "not empty" /\ (seen'[t] = "not full" => count < Size)
      <4>1. seen'[t] = IF count = Size THEN "full" ELSE "not full"
        BY <2>7, <3>1 DEF is_full
      <4>2. count = Size \/ count < Size
        BY ONLY <1>0
      <4> QED BY ONLY <4>1, <4>2, Zenon
    <3>3. /\ op[t] = "is_full" /\ at' = [at EXCEPT ![t] = "release"]
          /\ UNCHANGED <<roles, count, op, done>>
          /\ \A u \in Tasks \ {t} : seen'[u] = seen[u]
      BY <2>7, <3>1 DEF is_full
    <3> QED BY <3>2, <3>3 DEF TypeOK
  <2> QED BY <1>3, <2>1, <2>2, <2>3, <2>4, <2>5, <2>6, <2>7 DEF Inside
<1> QED BY <1>1, <1>2, <1>3 DEF Next

\* dequeue after get_used_size and enqueue after is_full succeed for the only
\* consumer and the only producer, whatever happens between the two calls.
THEOREM CheckedCalls == ASSUME Locked PROVE Spec => []CheckedCallsSucceed
<1>1. Init => Promise
  BY DEF Init, Promise
<1>2. FifoInv /\ Promise /\ [Next]_vars => Promise'
  BY NextPromise
<1>3. Promise => CheckedCallsSucceed
  BY DEF Promise, CheckedCallsSucceed
<1> QED BY <1>1, <1>2, <1>3, FifoInvariant, PTL DEF Spec

\* The items between tail and head as a sequence.
Readable ==
  /\ Contents \in Seq(Items) /\ Len(Contents) = Stored /\ Stored \in 0..Size
  /\ \A i \in 1..Stored : Contents[i] = buffer[(tail + i - 1) % Size]

LEMMA ContentsSeq == FifoInv => Readable
<1> SUFFICES ASSUME FifoInv PROVE Readable
  OBVIOUS
<1>1. Stored \in 0..Size /\ Stored <= Extent /\ Size \in Nat
  BY ExtentRange, Numbers DEF FifoInv
<1>2. ASSUME NEW i \in 1..Stored PROVE buffer[(tail + i - 1) % Size] \in Items
  <2> DEFINE j == i - 1
  <2>1. j \in 0..(Size - 1) /\ j < Extent /\ tail + i - 1 = tail + j
    BY <1>1, Numbers, ExtentRange DEF FifoInv
  <2> HIDE DEF j
  <2> QED BY <2>1 DEF FifoInv, OnlyItems
<1>3. Contents \in [1..Stored -> Items]
  BY <1>2 DEF Contents
<1>4. Contents \in Seq(Items) /\ Len(Contents) = Stored
  BY <1>1, <1>3
<1> QED BY <1>1, <1>4 DEF Contents, Readable

\* A step that keeps the stored items.
LEMMA Stutter ==
  ASSUME FifoInv, Stored' = Stored, tail' = tail, taken' = taken,
         \A i \in 1..Stored : buffer'[(tail + i - 1) % Size] = buffer[(tail + i - 1) % Size]
  PROVE  UNCHANGED <<Size, Contents, taken>>
BY DEF Contents

\* increment_tail is the moment at which an item leaves.
LEMMA TakeStep ==
  ASSUME FifoInv, FifoInv', NEW t \in Tasks, increment_tail(t) PROVE Queue!Take
<1>0. /\ at[t] = "index" /\ at' = [at EXCEPT ![t] = "count"] /\ op[t] = "dequeue"
      /\ taken' = Append(taken, item[t]) /\ tail' = (tail + 1) % Size
      /\ UNCHANGED <<buffer, count, op>>
  BY DEF increment_tail, Goto
<1>1. /\ item[t] = buffer[tail] /\ Stored = count /\ count \in 1..Size
      /\ Size \in Nat /\ tail \in 0..(Size - 1)
  BY <1>0, FirstItem, Numbers DEF FifoInv
<1>2. Stored' = count - 1
  <2>1. Leaving'
    BY <1>0 DEF Leaving, Moved, FifoInv, TypeOK
  <2> QED BY <1>0, <2>1 DEF Stored
<1>3. /\ Contents \in Seq(Items) /\ Len(Contents) = count
      /\ \A i \in 1..count : Contents[i] = buffer[(tail + i - 1) % Size]
  BY <1>1, ContentsSeq DEF Readable
<1>4. /\ Contents' \in Seq(Items) /\ Len(Contents') = count - 1
      /\ \A i \in 1..(count - 1) : Contents'[i] = buffer[(tail' + i - 1) % Size]
  <2>1. Readable'
    BY ContentsSeq, PTL
  <2> QED BY <1>0, <1>2, <2>1 DEF Readable
<1>5. Contents # <<>> /\ Head(Contents) = item[t]
  <2>1. (tail + 1 - 1) % Size = tail
    BY <1>1, Wrap
  <2>2. Contents[1] = buffer[tail]
    BY <1>1, <1>3, <2>1
  <2> QED BY <1>1, <1>3, <2>2
<1>6. ASSUME NEW i \in 1..(count - 1)
      PROVE  (tail' + i - 1) % Size = (tail + (i + 1) - 1) % Size
  <2>1. tail' = IF tail + 1 < Size THEN tail + 1 ELSE 0
    <3>1. tail + 1 \in 0..(2 * Size - 1)
      BY <1>1
    <3>2. (tail + 1) % Size = IF tail + 1 < Size THEN tail + 1 ELSE 0
      BY <1>1, <3>1, Wrap
    <3> QED BY <1>0, <3>2
  <2>2. /\ tail' + i - 1 \in 0..(2 * Size - 1)
        /\ tail + (i + 1) - 1 \in 0..(2 * Size - 1)
    BY <1>1, <2>1
  <2> QED BY <1>1, <2>1, <2>2, Wrap
<1>7. Contents' = Tail(Contents)
  <2>1. /\ Tail(Contents) \in Seq(Items) /\ Len(Tail(Contents)) = count - 1
        /\ \A i \in 1..(count - 1) : Tail(Contents)[i] = Contents[i + 1]
    BY <1>1, <1>3
  <2>2. \A i \in 1..(count - 1) : Contents'[i] = Tail(Contents)[i]
    <3> TAKE i \in 1..(count - 1)
    <3>1. i + 1 \in 1..count
      BY <1>1
    <3>2. Contents[i + 1] = buffer[(tail + (i + 1) - 1) % Size]
      BY <1>3, <3>1
    <3> QED BY <1>4, <1>6, <2>1, <3>2
  <2> QED BY <1>4, <2>1, <2>2
<1> QED BY <1>0, <1>5, <1>7 DEF Queue!Take

\* The store of count is the moment at which an item has entered.
LEMMA AcceptStep ==
  ASSUME FifoInv, FifoInv', NEW t \in Tasks, StoreCount(t), op[t] = "enqueue"
  PROVE  \E i \in Items : Queue!Accept(i)
<1>0. /\ at[t] = "update" /\ at' = [at EXCEPT ![t] = "release"] /\ reg[t] = count
      /\ count < Size /\ UNCHANGED <<buffer, tail, op, taken>>
  BY DEF StoreCount, Goto, FifoInv, StillPossible
<1>1. /\ Size \in Nat /\ count \in 0..(Size - 1) /\ tail \in 0..(Size - 1)
  BY <1>0, Numbers DEF FifoInv
<1>2. /\ Entering /\ ~Leaving /\ Extent = count + 1 /\ Stored = count
      /\ \A u \in Tasks : u # t => at[u] \in {"user", "lock"}
  BY <1>0, Alone DEF FifoInv, Moved, Extent, Stored
<1>3. ~Leaving' /\ count' = count + 1 /\ Stored' = count + 1
  <2>1. ~Leaving'
    BY <1>0, <1>2 DEF Leaving, Moved, FifoInv, TypeOK
  <2>2. count' = count + 1
    BY <1>0 DEF StoreCount
  <2> QED BY <2>1, <2>2 DEF Stored
<1> DEFINE x == buffer[(tail + count) % Size]
<1>4. x \in Items
  <2>1. count \in 0..(Size - 1) /\ count < Extent
    BY <1>1, <1>2
  <2> QED BY <2>1 DEF FifoInv, OnlyItems
<1>5. /\ Contents \in Seq(Items) /\ Len(Contents) = count
      /\ \A i \in 1..count : Contents[i] = buffer[(tail + i - 1) % Size]
  BY <1>2, ContentsSeq DEF Readable
<1>6. /\ Contents' \in Seq(Items) /\ Len(Contents') = count + 1
      /\ \A i \in 1..(count + 1) : Contents'[i] = buffer[(tail + i - 1) % Size]
  <2>1. Readable'
    BY ContentsSeq, PTL
  <2> QED BY <1>0, <1>3, <2>1 DEF Readable
<1>7. Contents' = Append(Contents, x)
  <2>1. tail + (count + 1) - 1 = tail + count
    BY <1>1
  <2>2. Contents'[count + 1] = x
    BY <1>1, <1>6, <2>1
  <2> HIDE DEF x
  <2>3. /\ Append(Contents, x) \in Seq(Items) /\ Len(Append(Contents, x)) = count + 1
        /\ \A i \in 1..count : Append(Contents, x)[i] = Contents[i]
        /\ Append(Contents, x)[count + 1] = x
    BY <1>1, <1>4, <1>5
  <2>4. ASSUME NEW i \in 1..(count + 1) PROVE Contents'[i] = Append(Contents, x)[i]
    <3>1. i \in 1..count \/ i = count + 1
      BY <1>1
    <3> QED BY <1>5, <1>6, <2>2, <2>3, <3>1
  <2> QED BY <1>6, <2>3, <2>4
<1> HIDE DEF x
<1>8. Queue!Accept(x)
  BY <1>0, <1>1, <1>5, <1>7 DEF Queue!Accept
<1> QED BY <1>4, <1>8

\* Every other access leaves the stored items as they are.
LEMMA OtherSteps ==
  ASSUME FifoInv, FifoInv', NEW t \in Tasks,
         Inside(t), ~increment_tail(t), ~(StoreCount(t) /\ op[t] = "enqueue")
  PROVE  UNCHANGED <<Size, Contents, taken>>
<1> USE DEF Goto
<1>1. CASE Lock(t) \/ Release(t) \/ Refuse(t) \/ Admit(t) \/ LoadCount(t)
             \/ get_used_size(t) \/ is_full(t) \/ increment_head(t)
  <2>1. \A u \in Tasks : Moved(u, "dequeue")' <=> Moved(u, "dequeue")
    <3>1. CASE increment_head(t)
      BY <3>1 DEF increment_head, FifoInv, TypeOK, Moved
    <3>2. CASE Release(t)
      BY <3>2 DEF Release, FifoInv, TypeOK, Moved
    <3>3. CASE Lock(t) \/ Refuse(t) \/ Admit(t) \/ get_used_size(t) \/ is_full(t)
      <4>1. PICK p \in {"lock", "body"}, q \in {"body", "access", "release"} : Goto(t, p, q)
        BY <3>3 DEF Lock, Refuse, Admit, get_used_size, is_full
      <4>2. UNCHANGED op
        BY <3>3 DEF Lock, Refuse, Admit, get_used_size, is_full
      <4> QED BY <4>1, <4>2 DEF FifoInv, TypeOK, Moved
    <3>4. CASE LoadCount(t)
      BY <3>4 DEF LoadCount, FifoInv, TypeOK, Moved
    <3> QED BY <1>1, <3>1, <3>2, <3>3, <3>4
  <2>2. UNCHANGED <<buffer, count, tail, taken>>
    BY <1>1 DEF Lock, Release, Refuse, Admit, LoadCount, get_used_size, is_full,
                increment_head
  <2>3. Stored' = Stored
    BY <2>1, <2>2 DEF Stored, Leaving
  <2> QED BY <2>2, <2>3, Stutter
<1>2. CASE Access(t)
  <2>1. \A u \in Tasks : Moved(u, "dequeue")' <=> Moved(u, "dequeue")
    BY <1>2 DEF Access, FifoInv, TypeOK, Moved
  <2>2. UNCHANGED <<count, tail, taken>> /\ op[t] \in {"enqueue", "dequeue"}
    BY <1>2 DEF Access
  <2>3. Stored' = Stored
    BY <2>1, <2>2 DEF Stored, Leaving
  <2>4. CASE op[t] = "dequeue"
    BY <1>2, <2>2, <2>3, <2>4, Stutter DEF Access
  <2>5. CASE op[t] = "enqueue"
    <3>1. /\ buffer' = [buffer EXCEPT ![head] = item[t]] /\ at[t] = "access"
          /\ ~Entering /\ ~Leaving /\ count < Size
      BY <1>2, <2>5, Alone DEF Access, FifoInv, Moved, StillPossible
    <3>2. /\ Size \in Nat /\ count \in 0..(Size - 1) /\ tail \in 0..(Size - 1)
          /\ head \in 0..(Size - 1)
      BY <3>1, Numbers DEF FifoInv
    <3>3. Stored = count /\ (tail + count) % Size = head
      BY <3>1 DEF FifoInv, IndexesAgree, Extent, Stored
    <3>4. ASSUME NEW i \in 1..Stored
          PROVE  buffer'[(tail + i - 1) % Size] = buffer[(tail + i - 1) % Size]
      <4> DEFINE x == tail + i - 1
                 y == tail + count
                 k == x % Size
      <4>1. x \in 0..(2 * Size - 1) /\ y \in 0..(2 * Size - 1) /\ x < y /\ y - x < Size
        BY <3>2, <3>3
      <4>2. y % Size = head
        BY <3>3
      <4> HIDE DEF x, y
      <4>3. /\ k = IF x < Size THEN x ELSE x - Size
            /\ head = IF y < Size THEN y ELSE y - Size
        BY <4>1, <4>2, Wrap
      <4> HIDE DEF k
      <4>4. k # head /\ k \in 0..(Size - 1)
        BY <3>2, <4>1, <4>3
      <4>5. buffer'[k] = buffer[k]
        BY <3>1, <4>4 DEF FifoInv, TypeOK
      <4> QED BY <4>5 DEF k, x
    <3> QED BY <2>2, <2>3, <3>4, Stutter
  <2> QED BY <2>2, <2>4, <2>5
<1>3. CASE StoreCount(t)
  <2>1. /\ at[t] = "update" /\ op[t] = "dequeue" /\ reg[t] = count /\ count' = count - 1
        /\ at' = [at EXCEPT ![t] = "release"] /\ UNCHANGED <<buffer, tail, op, taken>>
    BY <1>3 DEF StoreCount, FifoInv, StillPossible, CallKnown
  <2>2. Leaving /\ \A u \in Tasks : u # t => at[u] \in {"user", "lock"}
    BY <2>1, Alone DEF FifoInv, Moved
  <2>3. ~Leaving'
    <3>1. \A u \in Tasks : at'[u] = IF u = t THEN "release" ELSE at[u]
      BY <2>1 DEF FifoInv, TypeOK
    <3>2. \A u \in Tasks : at'[u] \notin {"count", "update"}
      BY <2>2, <3>1
    <3> QED BY <3>2 DEF Leaving, Moved
  <2>4. Stored' = Stored
    BY <2>1, <2>2, <2>3 DEF Stored
  <2> QED BY <2>1, <2>4, Stutter
<1> QED BY <1>1, <1>2, <1>3 DEF Inside

\* Every step is a step of the abstract queue or leaves it alone.
LEMMA NextQueue ==
  FifoInv /\ FifoInv' /\ [Next]_vars => [Queue!Next]_<<Size, Contents, taken>>
<1> SUFFICES ASSUME FifoInv, FifoInv', [Next]_vars
             PROVE  [Queue!Next]_<<Size, Contents, taken>>
  OBVIOUS
<1>1. CASE UNCHANGED vars
  BY <1>1 DEF vars, Contents, Stored, Leaving, Moved
<1>2. ASSUME NEW t \in Tasks, Inside(t)
      PROVE  [Queue!Next]_<<Size, Contents, taken>>
  BY <1>2, TakeStep, AcceptStep, OtherSteps DEF Queue!Next
<1>3. ASSUME NEW t \in Tasks, NEW o \in Operations \ {"none"},
             NEW i \in Items \cup {Garbage}, Call(t, o, i)
      PROVE  UNCHANGED <<Size, Contents, taken>>
  <2>1. \A u \in Tasks : Moved(u, "dequeue")' <=> Moved(u, "dequeue")
    BY <1>3 DEF Call, Goto, FifoInv, TypeOK, Moved
  <2>2. UNCHANGED <<buffer, count, tail, taken>>
    BY <1>3 DEF Call
  <2>3. Stored' = Stored
    BY <2>1, <2>2 DEF Stored, Leaving
  <2> QED BY <2>2, <2>3, Stutter
<1> QED BY <1>1, <1>2, <1>3 DEF Next

\* Behind its mutex the FIFO is a queue of Size items: what enqueue accepted
\* comes out once and in order, for every number of tasks and places.
THEOREM QueueRefinement == ASSUME Locked PROVE Spec => ImplementsQueue
<1>1. Init => Queue!Init
  <2> SUFFICES ASSUME Init PROVE Queue!Init
    OBVIOUS
  <2>1. Stored = 0 /\ taken = <<>>
    BY DEF Init, Stored, Leaving, Moved
  <2>2. Contents = <<>>
    BY <2>1 DEF Contents
  <2> QED BY <2>1, <2>2, SizeAssumption DEF Queue!Init
<1>2. FifoInv /\ FifoInv' /\ [Next]_vars => [Queue!Next]_<<Size, Contents, taken>>
  BY NextQueue
<1> QED BY <1>1, <1>2, FifoInvariant, PTL DEF Spec, ImplementsQueue, Queue!Spec
=============================================================================
