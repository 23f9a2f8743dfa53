--------------------------- MODULE TaskListProofs ---------------------------
(***************************************************************************)
(* The ready list, for any number of tasks: while the tasks respect the    *)
(* whole discipline (Allowed = {}), the list stays a list, no task is lost *)
(* and the scheduler always finds one, at every step of every removal.     *)
(***************************************************************************)
EXTENDS TaskList, FunctionTheorems, FiniteSetTheorems, SequenceTheorems, WellFoundedInduction, TLAPS

USE DEF list, locals, ghosts

(***************************************************************************)
(* Following next_node: Order is the only sequence that is linked.         *)
(***************************************************************************)
\* A set of numbers has a smallest element.
LEMMA Smallest ==
  ASSUME NEW T \in SUBSET Nat, T # {}
  PROVE  \E x \in T : \A y \in T : x <= y
<1>1. PICK x \in T : \A y \in T : ~ (<<y, x>> \in OpToRel(<, Nat))
  BY WFMin, NatLessThanWellFounded
<1>2. ASSUME NEW y \in T, y < x PROVE FALSE
  <2>1. <<y, x>> \in OpToRel(<, Nat)
    BY <1>2 DEF OpToRel
  <2> QED BY <1>1, <2>1
<1> QED BY <1>2

\* The equation that defines Nodes.
Follows(f) ==
  f = [i \in Nat |-> IF i = 0 THEN ready_list_head
                     ELSE IF f[i - 1] = NULL THEN NULL ELSE next_node[f[i - 1]]]

LEMMA NodesChosen == Nodes = CHOOSE f : Follows(f)
BY DEF Nodes, Follows

\* It has one solution.
LEMMA FollowsOnce ==
  ASSUME NEW f, NEW g, Follows(f), Follows(g)
  PROVE  \A i \in Nat : f[i] = g[i]
<1> DEFINE D == {i \in Nat : f[i] # g[i]}
<1>1. ASSUME D # {} PROVE FALSE
  <2>1. PICK x \in D : \A y \in D : x <= y
    <3>1. D \in SUBSET Nat
      OBVIOUS
    <3> HIDE DEF D
    <3> QED BY <1>1, <3>1, Smallest
  <2>2. x \in Nat /\ f[x] # g[x]
    OBVIOUS
  <2>3. /\ f[x] = IF x = 0 THEN ready_list_head
                  ELSE IF f[x - 1] = NULL THEN NULL ELSE next_node[f[x - 1]]
        /\ g[x] = IF x = 0 THEN ready_list_head
                  ELSE IF g[x - 1] = NULL THEN NULL ELSE next_node[g[x - 1]]
    BY <2>2 DEF Follows
  <2>4. x # 0
    BY <2>2, <2>3
  <2>5. x - 1 \in Nat /\ ~(x <= x - 1)
    BY <2>2, <2>4
  <2>6. f[x - 1] = g[x - 1]
    BY <2>1, <2>5
  <2> QED BY <2>2, <2>3, <2>4, <2>6
<1> QED BY <1>1

\* A list is no longer than the number of tasks.
LEMMA OrderFits ==
  ASSUME NEW s, IsOrder(s)
  PROVE  /\ Len(s) \in Nat /\ s \in [1..Len(s) -> Tasks] /\ (s = <<>> <=> Len(s) = 0)
         /\ Cardinality(Tasks) \in Nat /\ Len(s) <= Cardinality(Tasks)
<1> DEFINE n == Len(s)
<1>1. n \in Nat /\ s \in [1..n -> Tasks] /\ (s = <<>> <=> n = 0)
  BY LenProperties, EmptySeq DEF IsOrder
<1>2. \A i, j \in 1..n : s[i] = s[j] => i = j
  BY DEF IsOrder
<1> HIDE DEF n
<1>3. s \in Injection(1..n, Tasks)
  BY <1>1, <1>2, Fun_IsInj
<1>4. IsFiniteSet(Tasks)
  BY ListAssumption
<1>5. Cardinality(1..n) <= Cardinality(Tasks) /\ Cardinality(Tasks) \in Nat
  BY <1>3, <1>4, FS_Injection, FS_CardinalityType
<1>6. Cardinality(1..n) = n
  BY <1>1, FS_Interval
<1> QED BY <1>1, <1>5, <1>6 DEF n

\* Any sequence that is linked is what the walk from the head finds.
Determined ==
  \A s : IsOrder(s) => Order = s /\ Node(Cardinality(Tasks)) = NULL

LEMMA WalkFinds == Determined
<1> SUFFICES ASSUME NEW s, IsOrder(s) PROVE Order = s /\ Node(Cardinality(Tasks)) = NULL
  BY DEF Determined
<1> DEFINE n == Len(s)
           c == Cardinality(Tasks)
           g == [i \in Nat |-> IF i < n THEN s[i + 1] ELSE NULL]
<1>1. n \in Nat /\ s \in [1..n -> Tasks] /\ (s = <<>> <=> n = 0) /\ c \in Nat /\ n <= c
  BY OrderFits
<1>2. /\ ready_list_head = IF n = 0 THEN NULL ELSE s[1]
      /\ \A i \in 1..n : next_node[s[i]] = IF i = n THEN NULL ELSE s[i + 1]
  BY <1>1 DEF IsOrder
<1>3. \A i \in 1..n : s[i] # NULL
  BY <1>1, ListAssumption
<1> HIDE DEF n, c
<1>4. Follows(g)
  <2>1. ASSUME NEW i \in Nat
        PROVE  g[i] = IF i = 0 THEN ready_list_head
                      ELSE IF g[i - 1] = NULL THEN NULL ELSE next_node[g[i - 1]]
    <3>1. CASE i = 0
      BY <1>1, <1>2, <3>1
    <3>2. CASE i # 0 /\ i - 1 < n
      <4>1. i - 1 \in Nat /\ i \in 1..n /\ (i - 1) + 1 = i
        BY <1>1, <3>2
      <4>2. g[i - 1] = s[i] /\ g[i - 1] # NULL
        BY <1>3, <3>2, <4>1
      <4>3. next_node[s[i]] = IF i = n THEN NULL ELSE s[i + 1]
        BY <1>2, <4>1
      <4>4. g[i] = IF i = n THEN NULL ELSE s[i + 1]
        BY <1>1, <3>2, <4>1
      <4> QED BY <3>2, <4>2, <4>3, <4>4
    <3>3. CASE i # 0 /\ ~(i - 1 < n)
      <4>1. i - 1 \in Nat /\ ~(i < n)
        BY <1>1, <3>3
      <4> QED BY <3>3, <4>1
    <3> QED BY <3>1, <3>2, <3>3
  <2> DEFINE h == [i \in Nat |-> IF i = 0 THEN ready_list_head
                     ELSE IF g[i - 1] = NULL THEN NULL ELSE next_node[g[i - 1]]]
  <2>2. \A i \in Nat : g[i] = h[i]
    BY <2>1
  <2>3. g = h
    <3>1. DOMAIN g = Nat /\ DOMAIN h = Nat /\ g = [i \in Nat |-> g[i]] /\ h = [i \in Nat |-> h[i]]
      OBVIOUS
    <3> HIDE DEF g, h
    <3> QED BY <2>2, <3>1
  <2> QED BY <2>3 DEF Follows
<1>5. Follows(Nodes)
  BY <1>4, NodesChosen
<1>6. \A i \in Nat : Nodes[i] = g[i]
  <2> HIDE DEF g
  <2> QED BY <1>4, <1>5, FollowsOnce
<1>7. \A i \in Nat : Nodes[i] = IF i < n THEN s[i + 1] ELSE NULL
  BY <1>6
<1> HIDE DEF g
<1>8. Node(c) = NULL
  BY <1>1, <1>7 DEF Node
<1>9. \A k \in 1..c : Node(k - 1) = IF k <= n THEN s[k] ELSE NULL
  <2> TAKE k \in 1..c
  <2>1. k - 1 \in Nat /\ (k - 1) + 1 = k /\ (k - 1 < n <=> k <= n)
    BY <1>1
  <2> QED BY <1>7, <2>1 DEF Node
<1>10. {k \in 1..c : Node(k - 1) # NULL} = 1..n
  BY <1>1, <1>3, <1>9
<1>11. Order = [i \in 1..n |-> Node(i - 1)]
  BY <1>10 DEF Order, c
<1>12. \A i \in 1..n : Node(i - 1) = s[i]
  BY <1>1, <1>9
<1>13. Order = s
  BY <1>1, <1>11, <1>12
<1> QED BY <1>8, <1>13 DEF c

(***************************************************************************)
(* What the steps do to a list s.                                          *)
(***************************************************************************)
\* The members of a sequence.
LEMMA Members ==
  ASSUME NEW s, IsOrder(s)
  PROVE  /\ ToSet(s) = {s[i] : i \in 1..Len(s)} /\ ToSet(s) \subseteq Tasks
         /\ Len(s) \in Nat /\ s \in [1..Len(s) -> Tasks] /\ (s = <<>> <=> Len(s) = 0)
<1>1. Len(s) \in Nat /\ s \in [1..Len(s) -> Tasks] /\ (s = <<>> <=> Len(s) = 0)
  BY OrderFits
<1> QED BY <1>1 DEF ToSet

\* A write to a task that is not on the list does not matter.
LEMMA WriteOutside ==
  ASSUME NEW s, IsOrder(s), next_node \in [Tasks -> Pointers],
         NEW t \in Tasks \ ToSet(s), NEW p,
         next_node' = [next_node EXCEPT ![t] = p], ready_list_head' = ready_list_head
  PROVE  IsOrder(s)'
<1>1. ASSUME NEW i \in 1..Len(s) PROVE next_node'[s[i]] = next_node[s[i]]
  <2>1. s[i] \in Tasks /\ s[i] # t
    BY Members
  <2> QED BY <2>1
<1> QED BY <1>1 DEF IsOrder

\* A newcomer behind the tail.
LEMMA WriteTail ==
  ASSUME NEW s, IsOrder(s), next_node \in [Tasks -> Pointers], NEW t \in Tasks \ ToSet(s),
         \/ /\ s = <<>> /\ ready_list_head' = t
            /\ next_node' = [next_node EXCEPT ![t] = NULL]
         \/ /\ s # <<>> /\ ready_list_head' = ready_list_head
            /\ \E tail \in ToSet(s) :
                 /\ next_node[tail] = NULL
                 /\ next_node' = [next_node EXCEPT ![t] = NULL, ![tail] = t]
  PROVE  /\ IsOrder(Append(s, t))' /\ ToSet(Append(s, t)) = ToSet(s) \cup {t}
         /\ \A u \in Tasks \ (ToSet(s) \cup {t}) : next_node'[u] = next_node[u]
<1> DEFINE n == Len(s)
           r == Append(s, t)
<1>1. /\ n \in Nat /\ s \in [1..n -> Tasks] /\ (s = <<>> <=> n = 0)
      /\ ToSet(s) = {s[i] : i \in 1..n} /\ ToSet(s) \subseteq Tasks /\ s \in Seq(Tasks)
  BY Members DEF IsOrder
<1>2. /\ \A i, j \in 1..n : s[i] = s[j] => i = j
      /\ ready_list_head = IF s = <<>> THEN NULL ELSE s[1]
      /\ \A i \in 1..n : next_node[s[i]] = IF i = n THEN NULL ELSE s[i + 1]
  BY DEF IsOrder
<1>3. /\ r \in Seq(Tasks) /\ Len(r) = n + 1 /\ r[n + 1] = t
      /\ \A i \in 1..n : r[i] = s[i]
  BY <1>1, AppendProperties
<1>4. r \in [1..(n + 1) -> Tasks] /\ r # <<>>
  <2>1. r \in [1..Len(r) -> Tasks]
    BY <1>3, LenProperties
  <2>2. Len(<<>>) = 0 /\ n + 1 # 0
    BY <1>1, EmptySeq
  <2> QED BY <1>3, <2>1, <2>2
<1> HIDE DEF n, r
<1>5. \A i \in 1..n : s[i] # t /\ s[i] \in Tasks /\ s[i] # NULL
  BY <1>1, ListAssumption
<1>6. \A i, j \in 1..(n + 1) : r[i] = r[j] => i = j
  <2> TAKE i, j \in 1..(n + 1)
  <2>1. (i \in 1..n \/ i = n + 1) /\ (j \in 1..n \/ j = n + 1)
    BY <1>1
  <2> QED BY <1>2, <1>3, <1>5, <2>1
<1>7. ToSet(r) = ToSet(s) \cup {t}
  <2>1. ToSet(r) = {r[i] : i \in 1..(n + 1)}
    BY <1>4 DEF ToSet
  <2>2. 1..(n + 1) = (1..n) \cup {n + 1}
    BY <1>1
  <2> QED BY <1>1, <1>3, <2>1, <2>2
<1>8. CASE s = <<>>
  <2>1. n = 0 /\ ready_list_head' = t /\ next_node' = [next_node EXCEPT ![t] = NULL]
    BY <1>1, <1>8
  <2>2. r[1] = t /\ \A i \in 1..(n + 1) : i = 1 /\ i = n + 1
    BY <1>3, <2>1
  <2>3. \A i \in 1..(n + 1) : next_node'[r[i]] = IF i = n + 1 THEN NULL ELSE r[i + 1]
    BY <2>1, <2>2
  <2>4. ready_list_head' = IF r = <<>> THEN NULL ELSE r[1]
    BY <1>4, <2>1, <2>2
  <2>5. IsOrder(r)'
    BY <1>3, <1>6, <2>3, <2>4 DEF IsOrder
  <2> QED BY <1>7, <2>1, <2>5 DEF r
<1>9. CASE s # <<>>
  <2>1. PICK tail \in ToSet(s) :
          next_node[tail] = NULL /\ next_node' = [next_node EXCEPT ![t] = NULL, ![tail] = t]
    BY <1>9
  <2>2. n # 0 /\ n \in 1..n /\ 1 \in 1..n
    BY <1>1, <1>9
  <2>3. tail = s[n]
    <3>1. PICK i \in 1..n : tail = s[i]
      BY <1>1
    <3>2. i # n => i + 1 \in 1..n
      BY <1>1
    <3>3. i = n
      BY <1>2, <1>5, <2>1, <3>1, <3>2
    <3> QED BY <3>1, <3>3
  <2>4. /\ next_node'[t] = NULL /\ next_node'[s[n]] = t
        /\ \A u \in Tasks : u # t /\ u # s[n] => next_node'[u] = next_node[u]
    BY <1>5, <2>1, <2>2, <2>3
  <2>5. ASSUME NEW i \in 1..(n + 1)
        PROVE  next_node'[r[i]] = IF i = n + 1 THEN NULL ELSE r[i + 1]
    <3>1. CASE i = n + 1
      BY <1>3, <2>4, <3>1
    <3>2. CASE i = n
      <4>1. n # n + 1
        BY <1>1
      <4> QED BY <1>3, <2>2, <2>4, <3>2, <4>1
    <3>3. CASE i # n /\ i # n + 1
      <4>1. i \in 1..n /\ i + 1 \in 1..n
        BY <1>1, <3>3
      <4>2. s[i] # s[n] /\ r[i] = s[i] /\ r[i + 1] = s[i + 1]
        BY <1>2, <1>3, <2>2, <3>3, <4>1
      <4>3. next_node'[s[i]] = next_node[s[i]] /\ next_node[s[i]] = s[i + 1]
        BY <1>2, <1>5, <2>4, <3>3, <4>1, <4>2
      <4> QED BY <3>3, <4>2, <4>3
    <3> QED BY <3>1, <3>2, <3>3
  <2>6. ready_list_head' = IF r = <<>> THEN NULL ELSE r[1]
    BY <1>2, <1>3, <1>4, <1>9, <2>2
  <2>7. IsOrder(r)'
    BY <1>3, <1>6, <2>5, <2>6 DEF IsOrder
  <2>8. \A u \in Tasks \ (ToSet(s) \cup {t}) : next_node'[u] = next_node[u]
    BY <2>1, <2>3, <2>4
  <2> QED BY <1>7, <2>7, <2>8 DEF r
<1> QED BY <1>8, <1>9

\* s without its k-th member.
Without(s, k) == [i \in 1..(Len(s) - 1) |-> IF i < k THEN s[i] ELSE s[i + 1]]

LEMMA WithoutProperties ==
  ASSUME NEW s, IsOrder(s), NEW k \in 1..Len(s)
  PROVE  /\ Without(s, k) \in Seq(Tasks) /\ Len(Without(s, k)) = Len(s) - 1
         /\ Len(s) - 1 \in Nat
         /\ \A i \in 1..(Len(s) - 1) :
              Without(s, k)[i] = IF i < k THEN s[i] ELSE s[i + 1]
         /\ \A i, j \in 1..(Len(s) - 1) : Without(s, k)[i] = Without(s, k)[j] => i = j
         /\ ToSet(Without(s, k)) = ToSet(s) \ {s[k]}
<1> DEFINE n == Len(s)
           r == Without(s, k)
<1>1. /\ n \in Nat /\ s \in [1..n -> Tasks] /\ ToSet(s) = {s[i] : i \in 1..n}
      /\ \A i, j \in 1..n : s[i] = s[j] => i = j
      /\ k \in 1..n
  BY Members DEF IsOrder
<1>2. r = [i \in 1..(n - 1) |-> IF i < k THEN s[i] ELSE s[i + 1]]
  BY DEF Without
<1> HIDE DEF n, r
<1>3. n - 1 \in Nat /\ \A i \in 1..(n - 1) : i \in 1..n /\ i + 1 \in 1..n
  BY <1>1
<1>4. \A i \in 1..(n - 1) : r[i] = IF i < k THEN s[i] ELSE s[i + 1]
  BY <1>2
<1>5. r \in [1..(n - 1) -> Tasks]
  BY <1>1, <1>2, <1>3
<1>6. r \in Seq(Tasks) /\ Len(r) = n - 1
  BY <1>3, <1>5
<1>7. \A i, j \in 1..(n - 1) : r[i] = r[j] => i = j
  <2> TAKE i, j \in 1..(n - 1)
  <2> HAVE r[i] = r[j]
  <2> DEFINE x == IF i < k THEN i ELSE i + 1
             y == IF j < k THEN j ELSE j + 1
  <2>1. r[i] = s[x] /\ r[j] = s[y]
    BY <1>4
  <2>2. x \in 1..n /\ y \in 1..n
    BY <1>3
  <2> HIDE DEF x, y
  <2>3. x = y
    BY <1>1, <2>1, <2>2
  <2> QED BY <1>1, <2>3 DEF x, y
<1>8. ToSet(r) = ToSet(s) \ {s[k]}
  <2>1. ToSet(r) = {r[i] : i \in 1..(n - 1)}
    BY <1>5 DEF ToSet
  <2>2. ASSUME NEW i \in 1..(n - 1) PROVE r[i] \in ToSet(s) \ {s[k]}
    <3> DEFINE x == IF i < k THEN i ELSE i + 1
    <3>1. r[i] = s[x] /\ x \in 1..n /\ x # k
      BY <1>1, <1>3, <1>4
    <3> HIDE DEF x
    <3> QED BY <1>1, <3>1
  <2>3. ASSUME NEW j \in 1..n, j # k PROVE s[j] \in ToSet(r)
    <3>1. CASE j < k
      <4>1. j \in 1..(n - 1)
        BY <1>1, <3>1
      <4> QED BY <1>4, <2>1, <3>1, <4>1
    <3>2. CASE ~(j < k)
      <4>1. j - 1 \in 1..(n - 1) /\ ~(j - 1 < k) /\ (j - 1) + 1 = j
        BY <1>1, <2>3, <3>2
      <4>2. r[j - 1] = s[j]
        BY <1>4, <4>1
      <4> QED BY <2>1, <4>1, <4>2
    <3> QED BY <3>1, <3>2
  <2> QED BY <1>1, <2>1, <2>2, <2>3
<1> QED BY <1>3, <1>4, <1>6, <1>7, <1>8 DEF n, r

\* The k-th member is bypassed.
LEMMA Unlink ==
  ASSUME NEW s, IsOrder(s), next_node \in [Tasks -> Pointers],
         NEW k \in 1..Len(s), Len(s) >= 2,
         \/ k = 1 /\ ready_list_head' = s[2] /\ next_node' = next_node
         \/ /\ k # 1 /\ ready_list_head' = ready_list_head
            /\ next_node' = [next_node EXCEPT ![s[k - 1]] = next_node[s[k]]]
  PROVE  IsOrder(Without(s, k))' /\ next_node'[s[k]] \in ToSet(Without(s, k)) \cup {NULL}
<1> DEFINE n == Len(s)
           r == Without(s, k)
<1>1. /\ n \in Nat /\ n >= 2 /\ s \in [1..n -> Tasks] /\ k \in 1..n
      /\ \A i, j \in 1..n : s[i] = s[j] => i = j
      /\ ready_list_head = s[1]
      /\ \A i \in 1..n : next_node[s[i]] = IF i = n THEN NULL ELSE s[i + 1]
  BY Members DEF IsOrder
<1>2. /\ r \in Seq(Tasks) /\ Len(r) = n - 1
      /\ \A i \in 1..(n - 1) : r[i] = IF i < k THEN s[i] ELSE s[i + 1]
      /\ \A i, j \in 1..(n - 1) : r[i] = r[j] => i = j
      /\ ToSet(r) = ToSet(s) \ {s[k]} /\ ToSet(s) = {s[i] : i \in 1..n}
  BY WithoutProperties, Members
<1>3. r # <<>>
  <2>1. Len(<<>>) = 0 /\ n - 1 # 0
    BY <1>1, EmptySeq
  <2> QED BY <1>2, <2>1
<1> HIDE DEF n, r
<1>4. 1 \in 1..(n - 1) /\ \A i \in 1..(n - 1) : i \in 1..n /\ i + 1 \in 1..n
  BY <1>1
<1>5. \A i \in 1..(n - 1) : i + 1 \in 1..(n - 1) <=> i # n - 1
  BY <1>1
<1>6. next_node[s[k]] \in ToSet(r) \cup {NULL}
  <2>1. k # n => k + 1 \in 1..n /\ k + 1 # k
    BY <1>1
  <2>2. k # n => s[k + 1] # s[k]
    BY <1>1, <2>1
  <2> QED BY <1>1, <1>2, <2>1, <2>2
<1>7. CASE k = 1
  <2>1. ready_list_head' = s[2] /\ next_node' = next_node
    BY <1>7
  <2>2. \A i \in 1..(n - 1) : r[i] = s[i + 1]
    <3> TAKE i \in 1..(n - 1)
    <3>1. ~(i < k)
      BY <1>1, <1>7
    <3> QED BY <1>2, <3>1
  <2>3. r[1] = s[2]
    BY <1>4, <2>2
  <2>4. ASSUME NEW i \in 1..(n - 1)
        PROVE  next_node'[r[i]] = IF i = n - 1 THEN NULL ELSE r[i + 1]
    <3>1. r[i] = s[i + 1] /\ i + 1 \in 1..n /\ (i + 1 = n <=> i = n - 1)
      BY <1>1, <1>4, <2>2
    <3>2. next_node[s[i + 1]] = IF i + 1 = n THEN NULL ELSE s[(i + 1) + 1]
      BY <1>1, <3>1
    <3>3. i # n - 1 => r[i + 1] = s[(i + 1) + 1]
      BY <1>5, <2>2
    <3> QED BY <2>1, <3>1, <3>2, <3>3
  <2>5. IsOrder(r)'
    BY <1>2, <1>3, <2>1, <2>3, <2>4 DEF IsOrder
  <2> QED BY <1>6, <2>1, <2>5 DEF r
<1>8. CASE k # 1
  <2>1. /\ ready_list_head' = ready_list_head
        /\ next_node' = [next_node EXCEPT ![s[k - 1]] = next_node[s[k]]]
    BY <1>8
  <2>2. k - 1 \in 1..n /\ k - 1 < k /\ k - 1 # k /\ k - 1 \in 1..(n - 1) /\ 1 < k
    BY <1>1, <1>8
  <2>3. /\ next_node'[s[k - 1]] = next_node[s[k]]
        /\ \A i \in 1..n : i # k - 1 => next_node'[s[i]] = next_node[s[i]]
    <3>1. s[k - 1] \in Tasks
      BY <1>1, <2>2
    <3>2. \A i \in 1..n : i # k - 1 => s[i] # s[k - 1] /\ s[i] \in Tasks
      BY <1>1, <2>2
    <3> QED BY <2>1, <3>1, <3>2
  <2>4. r[1] = s[1]
    BY <1>2, <1>4, <2>2
  <2>5. ASSUME NEW i \in 1..(n - 1)
        PROVE  next_node'[r[i]] = IF i = n - 1 THEN NULL ELSE r[i + 1]
    <3>1. CASE i = k - 1
      <4>1. r[i] = s[k - 1]
        BY <1>2, <2>2, <3>1
      <4>2. next_node'[r[i]] = IF k = n THEN NULL ELSE s[k + 1]
        BY <1>1, <2>3, <4>1
      <4>3. k = n <=> i = n - 1
        BY <1>1, <3>1
      <4>4. i + 1 = k /\ ~(i + 1 < k)
        BY <1>1, <3>1
      <4>5. i # n - 1 => r[i + 1] = s[k + 1]
        BY <1>2, <1>5, <4>4
      <4> QED BY <4>2, <4>3, <4>5
    <3>2. CASE i < k - 1
      <4>1. i < k /\ i + 1 < k /\ i # k - 1 /\ i \in 1..n /\ i # n /\ i # n - 1
        BY <1>1, <3>2
      <4>2. i + 1 \in 1..(n - 1)
        BY <1>5, <4>1
      <4>3. r[i] = s[i] /\ r[i + 1] = s[i + 1]
        BY <1>2, <4>1, <4>2
      <4>4. next_node'[s[i]] = s[i + 1]
        BY <1>1, <2>3, <4>1
      <4> QED BY <4>1, <4>3, <4>4
    <3>3. CASE i >= k
      <4>1. /\ ~(i < k) /\ ~(i + 1 < k) /\ i + 1 # k - 1 /\ i + 1 \in 1..n
            /\ (i + 1 = n <=> i = n - 1)
        BY <1>1, <3>3
      <4>2. r[i] = s[i + 1] /\ (i # n - 1 => r[i + 1] = s[(i + 1) + 1])
        BY <1>2, <1>5, <4>1
      <4>3. next_node'[s[i + 1]] = IF i + 1 = n THEN NULL ELSE s[(i + 1) + 1]
        BY <1>1, <2>3, <4>1
      <4> QED BY <4>1, <4>2, <4>3
    <3>4. i = k - 1 \/ i < k - 1 \/ i >= k
      BY <1>1
    <3> QED BY <3>1, <3>2, <3>3, <3>4
  <2>6. ready_list_head' = r[1]
    BY <1>1, <2>1, <2>4
  <2>7. IsOrder(r)'
    BY <1>2, <1>3, <2>5, <2>6 DEF IsOrder
  <2>8. next_node'[s[k]] = next_node[s[k]]
    BY <1>1, <2>2, <2>3
  <2> QED BY <1>6, <2>7, <2>8 DEF r
<1> QED BY <1>7, <1>8

(***************************************************************************)
(* The inductive invariant.  ListInv describes the one removal under way;  *)
(* the other three speak of what the code promises to its callers.         *)
(***************************************************************************)
Discipline == Allowed = {}

Inv == ListInv /\ NoTaskLost /\ CTaskValid

\* The part of Inv that is not about types and links.
Rest == Removals /\ Current /\ Ready /\ NoTaskLost /\ CTaskValid

Linked == IsOrder(Order) /\ Node(Cardinality(Tasks)) = NULL

LEMMA InvParts == Inv <=> TypeOK /\ Linked /\ Rest
BY DEF Inv, Rest, Linked, ListInv

\* A step that leaves the list alone.
LEMMA Same ==
  ASSUME Linked, ready_list_head' = ready_list_head, next_node' = next_node
  PROVE  Order' = Order /\ Listed' = Listed /\ Linked'
<1>1. Nodes' = Nodes
  BY DEF Nodes
<1>2. \A i : Node(i)' = Node(i)
  BY <1>1 DEF Node
<1>3. Order' = Order
  BY <1>1 DEF Order, Node
<1>4. Listed' = Listed
  BY <1>3 DEF Listed
<1>5. Node(Cardinality(Tasks))' = Node(Cardinality(Tasks))
  BY <1>1 DEF Node
<1>6. IsOrder(Order)'
  BY <1>3 DEF Linked, IsOrder
<1> QED BY <1>3, <1>4, <1>5, <1>6 DEF Linked

\* A step that makes s the list.
LEMMA Became ==
  ASSUME NEW s, IsOrder(s)'
  PROVE  Order' = s /\ Listed' = ToSet(s) /\ Linked'
<1>1. Determined'
  BY WalkFinds, PTL
<1>2. Order' = s /\ Node(Cardinality(Tasks))' = NULL
  BY <1>1 DEF Determined
<1>3. Listed' = ToSet(s)
  BY <1>2 DEF Listed
<1>4. IsOrder(Order)'
  BY <1>2 DEF IsOrder
<1> QED BY <1>2, <1>3, <1>4 DEF Linked

\* The list by its members.
LEMMA ListMembers ==
  ASSUME Linked
  PROVE  /\ Len(Order) \in Nat /\ Order \in [1..Len(Order) -> Tasks]
         /\ (Order = <<>> <=> Len(Order) = 0)
         /\ Listed = {Order[i] : i \in 1..Len(Order)} /\ Listed \subseteq Tasks
         /\ \A i, j \in 1..Len(Order) : Order[i] = Order[j] => i = j
         /\ ready_list_head = IF Order = <<>> THEN NULL ELSE Order[1]
         /\ \A i \in 1..Len(Order) :
              next_node[Order[i]] = IF i = Len(Order) THEN NULL ELSE Order[i + 1]
<1>1. IsOrder(Order)
  BY DEF Linked
<1>2. /\ ToSet(Order) = {Order[i] : i \in 1..Len(Order)} /\ ToSet(Order) \subseteq Tasks
      /\ Len(Order) \in Nat /\ Order \in [1..Len(Order) -> Tasks]
      /\ (Order = <<>> <=> Len(Order) = 0)
  BY <1>1, Members
<1>3. /\ \A i, j \in 1..Len(Order) : Order[i] = Order[j] => i = j
      /\ ready_list_head = IF Order = <<>> THEN NULL ELSE Order[1]
      /\ \A i \in 1..Len(Order) :
           next_node[Order[i]] = IF i = Len(Order) THEN NULL ELSE Order[i + 1]
  BY <1>1 DEF IsOrder
<1> QED BY <1>2, <1>3 DEF Listed

\* The task that is inside remove_task is the only one.
LEMMA Acting ==
  ASSUME TypeOK, Removals, NEW u \in Tasks, NEW from, NEW to \in Points \ {"user"},
         from # "user", Goto(u, from, to)
  PROVE  /\ Removal(u) /\ started /\ c_task = u /\ at[u] = from /\ at'[u] = to
         /\ victim[u] \in Tasks /\ Inside' = {u}
<1>1. at[u] = from /\ started /\ c_task = u /\ at' = [at EXCEPT ![u] = to] /\ at \in [Tasks -> Points]
  BY DEF Goto, TypeOK
<1>2. u \in Inside
  BY <1>1 DEF Inside
<1>3. Removal(u)
  BY <1>2 DEF Removals
<1>4. Inside = {u} /\ victim[u] \in Tasks
  BY <1>3 DEF Removal
<1>5. at'[u] = to /\ \A w \in Tasks : w # u => at'[w] = at[w]
  BY <1>1
<1>6. Inside' = {u}
  BY <1>4, <1>5 DEF Inside
<1> QED BY <1>1, <1>3, <1>4, <1>5, <1>6

\* Every step keeps the types: a call in progress has a victim, and the walk
\* stays on the list.
LEMMA TypeStep ==
  ASSUME Inv, Next
  PROVE  TypeOK'
<1> USE DEF TypeOK
<1>1. TypeOK /\ Linked /\ Removals /\ Listed \subseteq Tasks
  BY InvParts, ListMembers DEF Rest
<1>2. NULL \in Pointers /\ Tasks \subseteq Pointers
  BY DEF Pointers
<1>3. CASE start_scheduler
  BY <1>1, <1>3 DEF start_scheduler
<1>4. CASE schedule_round_robin
  <2>1. c_task \in Tasks
    BY <1>1, <1>4 DEF schedule_round_robin, Pointers
  <2> QED BY <1>1, <1>4, <2>1 DEF schedule_round_robin
<1>5. ASSUME NEW t \in Tasks, create_task(t) PROVE TypeOK'
  <2>1. ready_list_head' \in Pointers /\ next_node' \in [Tasks -> Pointers]
    BY <1>1, <1>2, <1>5 DEF create_task, _add_task
  <2> QED BY <1>1, <1>2, <1>5, <2>1 DEF create_task, FreshLocals, States, Points
<1>6. ASSUME NEW t \in Tasks, create_task_fails(t) PROVE TypeOK'
  BY <1>1, <1>2, <1>6 DEF create_task_fails, States
<1>7. ASSUME NEW u \in Tasks, NEW v \in Tasks, remove_task(u, v) PROVE TypeOK'
  BY <1>1, <1>2, <1>7 DEF remove_task, Goto, Points
<1>8. ASSUME NEW u \in Tasks, RemoveStep(u) PROVE TypeOK'
  <2>1. CASE TestHead(u)
    BY <1>1, <2>1 DEF TestHead, Goto, Points
  <2>2. CASE HeadNext(u)
    <3>1. victim[u] \in Tasks
      BY <1>1, <2>2, Acting DEF HeadNext, Points
    <3> QED BY <1>1, <2>2, <3>1 DEF HeadNext, Goto, Points
  <2>3. CASE HeadStore(u)
    BY <1>1, <2>3 DEF HeadStore, Goto, Points
  <2>4. CASE SeekHead(u)
    BY <1>1, <2>4 DEF SeekHead, Goto, Points
  <2>5. CASE Walk(u)
    BY <1>1, <2>5 DEF Walk, Goto, Points
  <2>6. CASE Advance(u)
    <3>1. Removal(u) /\ at[u] = "advance"
      BY <1>1, <2>6, Acting DEF Advance, Points
    <3>2. PICK i \in 1..Len(Order) : seek[u] = Order[i]
      BY <3>1 DEF Removal
    <3>3. seek[u] \in Tasks
      BY <1>1, <3>2, ListMembers
    <3> QED BY <1>1, <2>6, <3>3 DEF Advance, Goto, Points
  <2>7. CASE NextTask(u)
    <3>1. victim[u] \in Tasks
      BY <1>1, <2>7, Acting DEF NextTask, Points
    <3> QED BY <1>1, <2>7, <3>1 DEF NextTask, Goto, Points
  <2>8. CASE Link(u)
    BY <1>1, <2>8 DEF Link, Goto, Points
  <2>9. CASE Clear(u)
    BY <1>1, <1>2, <2>9 DEF Clear, Goto, Points
  <2>10. CASE SetState(u)
    BY <1>1, <1>2, <2>10 DEF SetState, Goto, Points, FreshLocals, States
  <2> QED BY <1>8, <2>1, <2>2, <2>3, <2>4, <2>5, <2>6, <2>7, <2>8, <2>9, <2>10 DEF RemoveStep
<1> QED BY <1>3, <1>4, <1>5, <1>6, <1>7, <1>8 DEF Next

(***************************************************************************)
(* The steps that leave the list alone.                                    *)
(***************************************************************************)
\* A statement of remove_task that changes nothing but the locals of the call
\* keeps the rest, if it keeps what Removal says of the call.
LEMMA LocalStep ==
  ASSUME TypeOK, Linked, Rest, NEW u \in Tasks,
         ready_list_head' = ready_list_head, next_node' = next_node, state' = state,
         c_task' = c_task, started' = started, wanted' = wanted, wild' = wild,
         Inside' = {u}, Removal(u)'
  PROVE  Linked' /\ Rest'
<1>1. Order' = Order /\ Listed' = Listed /\ Linked'
  BY Same
<1>2. Removals'
  BY DEF Removals
<1>3. Current' /\ Ready' /\ NoTaskLost' /\ CTaskValid'
  BY <1>1 DEF Rest, Current, Ready, NoTaskLost, CTaskValid
<1> QED BY <1>1, <1>2, <1>3 DEF Rest

\* While a task is being removed there are two at the front.
LEMMA TwoListed ==
  ASSUME Linked, Len(Order) >= 2
  PROVE  /\ 1 \in 1..Len(Order) /\ 2 \in 1..Len(Order) /\ Order # <<>>
         /\ ready_list_head = Order[1] /\ Order[1] \in Tasks /\ next_node[Order[1]] = Order[2]
<1> DEFINE n == Len(Order)
<1>1. n \in Nat /\ n >= 2
  BY ListMembers
<1> HIDE DEF n
<1>2. 1 \in 1..n /\ 2 \in 1..n /\ n # 0 /\ 1 # n /\ 1 + 1 = 2
  BY <1>1
<1>3. Order # <<>> /\ ready_list_head = Order[1] /\ Order[1] \in Tasks
  BY <1>2, ListMembers DEF n
<1>4. next_node[Order[1]] = Order[1 + 1]
  BY <1>2, ListMembers DEF n
<1> QED BY <1>2, <1>3, <1>4 DEF n

LEMMA TestHeadStep ==
  ASSUME TypeOK, Linked, Rest, NEW u \in Tasks, TestHead(u)
  PROVE  Linked' /\ Rest'
<1> DEFINE to == IF victim[u] = ready_list_head THEN "head_next" ELSE "seek"
<1>1. to \in Points \ {"user"} /\ Goto(u, "test", to) /\ Removals
  BY DEF TestHead, Points, Rest
<1>2. /\ Removal(u) /\ started /\ c_task = u /\ at[u] = "test" /\ at'[u] = to
      /\ victim[u] \in Tasks /\ Inside' = {u}
  <2> HIDE DEF to
  <2> QED BY <1>1, Acting
<1>3. Order' = Order /\ Listed' = Listed
  BY Same DEF TestHead
<1>4. /\ u \in Listed /\ victim[u] \in Listed \ wanted /\ Len(Order) >= 2
  BY <1>2 DEF Removal, Unlinking
<1>5. ready_list_head = Order[1]
  BY <1>4, TwoListed
<1>6. Removal(u)'
  BY <1>2, <1>3, <1>4, <1>5 DEF Removal, TestHead, Unlinking
<1> QED BY <1>2, <1>6, LocalStep DEF TestHead

LEMMA HeadNextStep ==
  ASSUME TypeOK, Linked, Rest, NEW u \in Tasks, HeadNext(u)
  PROVE  Linked' /\ Rest'
<1>1. /\ Removal(u) /\ started /\ at[u] = "head_next" /\ at'[u] = "head_store"
      /\ victim[u] \in Tasks /\ Inside' = {u}
  BY Acting DEF HeadNext, Points, Rest
<1>2. Order' = Order /\ Listed' = Listed
  BY Same DEF HeadNext
<1>3. /\ u \in Listed /\ victim[u] \in Listed \ wanted /\ Len(Order) >= 2 /\ victim[u] = Order[1]
  BY <1>1 DEF Removal, Unlinking
<1>4. next_node[Order[1]] = Order[2]
  BY <1>3, TwoListed
<1>5. next_task'[u] = Order[2]
  BY <1>3, <1>4 DEF HeadNext, TypeOK
<1>6. Removal(u)'
  BY <1>1, <1>2, <1>3, <1>5 DEF Removal, HeadNext, Unlinking
<1> QED BY <1>1, <1>6, LocalStep DEF HeadNext

LEMMA SeekHeadStep ==
  ASSUME TypeOK, Linked, Rest, NEW u \in Tasks, SeekHead(u)
  PROVE  Linked' /\ Rest'
<1> DEFINE to == IF ready_list_head = NULL THEN "next" ELSE "walk"
<1>1. to \in Points \ {"user"} /\ Goto(u, "seek", to) /\ Removals
  BY DEF SeekHead, Points, Rest
<1>2. /\ Removal(u) /\ started /\ at[u] = "seek" /\ at'[u] = to
      /\ victim[u] \in Tasks /\ Inside' = {u}
  <2> HIDE DEF to
  <2> QED BY <1>1, Acting
<1>3. Order' = Order /\ Listed' = Listed
  BY Same DEF SeekHead
<1>4. /\ u \in Listed /\ victim[u] \in Listed \ wanted /\ Len(Order) >= 2 /\ victim[u] # Order[1]
  BY <1>2 DEF Removal, Unlinking
<1>5. 1 \in 1..Len(Order)
  BY <1>4, TwoListed
<1>6. ready_list_head = Order[1] /\ Order[1] \in Tasks
  BY <1>4, TwoListed
<1>7. at'[u] = "walk" /\ seek'[u] = Order[1]
  BY <1>2, <1>6, ListAssumption DEF SeekHead, TypeOK
<1>8. PICK k \in 1..Len(Order) : victim[u] = Order[k]
  BY <1>4, ListMembers
<1>9. 1 < k
  BY <1>4, <1>5, <1>8
<1>10. \E i, j \in 1..Len(Order) : i < j /\ seek'[u] = Order[i] /\ victim[u] = Order[j]
  BY <1>5, <1>7, <1>8, <1>9
<1>11. Removal(u)'
  <2>1. victim' = victim /\ started' = started /\ wanted' = wanted
    BY DEF SeekHead
  <2> QED BY <1>2, <1>3, <1>4, <1>7, <1>10, <2>1 DEF Removal, Unlinking
<1> QED BY <1>2, <1>11, LocalStep DEF SeekHead

LEMMA WalkStep ==
  ASSUME TypeOK, Linked, Rest, NEW u \in Tasks, Walk(u)
  PROVE  Linked' /\ Rest'
<1> DEFINE to == IF seek[u] = NULL THEN "next"
                 ELSE IF next_node[seek[u]] = victim[u] THEN "next" ELSE "advance"
<1>1. to \in Points \ {"user"} /\ Goto(u, "walk", to) /\ Removals
  BY DEF Walk, Points, Rest
<1>2. /\ Removal(u) /\ started /\ at[u] = "walk" /\ at'[u] = to
      /\ victim[u] \in Tasks /\ Inside' = {u}
  <2> HIDE DEF to
  <2> QED BY <1>1, Acting
<1>3. Order' = Order /\ Listed' = Listed
  BY Same DEF Walk
<1>4. /\ u \in Listed /\ victim[u] \in Listed \ wanted /\ Len(Order) >= 2 /\ victim[u] # Order[1]
      /\ \E i, k \in 1..Len(Order) : i < k /\ seek[u] = Order[i] /\ victim[u] = Order[k]
  BY <1>2 DEF Removal, Unlinking
<1>5. seek[u] \in Listed /\ seek[u] # NULL
  <2>1. PICK i \in 1..Len(Order) : seek[u] = Order[i]
    BY <1>4
  <2>2. Order[i] \in Listed /\ Listed \subseteq Tasks
    BY ListMembers
  <2> QED BY <2>1, <2>2, ListAssumption
<1>6. Removal(u)'
  <2>1. /\ victim' = victim /\ started' = started /\ wanted' = wanted /\ seek' = seek
        /\ next_node' = next_node
    BY DEF Walk
  <2> QED BY <1>2, <1>3, <1>4, <1>5, <2>1 DEF Removal, Unlinking
<1> QED BY <1>2, <1>6, LocalStep DEF Walk

LEMMA AdvanceStep ==
  ASSUME TypeOK, Linked, Rest, NEW u \in Tasks, Advance(u)
  PROVE  Linked' /\ Rest'
<1>1. /\ Removal(u) /\ started /\ at[u] = "advance" /\ at'[u] = "walk"
      /\ victim[u] \in Tasks /\ Inside' = {u}
  BY Acting DEF Advance, Points, Rest
<1>2. Order' = Order /\ Listed' = Listed
  BY Same DEF Advance
<1>3. /\ u \in Listed /\ victim[u] \in Listed \ wanted /\ Len(Order) >= 2 /\ victim[u] # Order[1]
      /\ next_node[seek[u]] # victim[u]
  BY <1>1 DEF Removal, Unlinking
<1>4. PICK i, k \in 1..Len(Order) : i < k /\ seek[u] = Order[i] /\ victim[u] = Order[k]
  BY <1>1 DEF Removal
<1>5. Len(Order) \in Nat /\ i # Len(Order) /\ i + 1 \in 1..Len(Order)
  BY <1>4, ListMembers
<1>6. next_node[seek[u]] = Order[i + 1]
  BY <1>4, <1>5, ListMembers
<1>7. i + 1 # k
  BY <1>3, <1>4, <1>6
<1>8. i + 1 < k
  BY <1>4, <1>7
<1>9. seek'[u] = Order[i + 1]
  BY <1>6 DEF Advance, TypeOK
<1>10. \E x, j \in 1..Len(Order) : x < j /\ seek'[u] = Order[x] /\ victim[u] = Order[j]
  BY <1>4, <1>5, <1>8, <1>9
<1>11. Removal(u)'
  <2>1. victim' = victim /\ started' = started /\ wanted' = wanted
    BY DEF Advance
  <2> QED BY <1>1, <1>2, <1>3, <1>10, <2>1 DEF Removal, Unlinking
<1> QED BY <1>1, <1>11, LocalStep DEF Advance

LEMMA NextTaskStep ==
  ASSUME TypeOK, Linked, Rest, NEW u \in Tasks, NextTask(u)
  PROVE  Linked' /\ Rest'
<1>1. /\ Removal(u) /\ started /\ at[u] = "next" /\ at'[u] = "link"
      /\ victim[u] \in Tasks /\ Inside' = {u}
  BY Acting DEF NextTask, Points, Rest
<1>2. Order' = Order /\ Listed' = Listed
  BY Same DEF NextTask
<1>3. /\ u \in Listed /\ victim[u] \in Listed \ wanted /\ Len(Order) >= 2 /\ victim[u] # Order[1]
      /\ seek[u] \in Listed /\ next_node[seek[u]] = victim[u]
  BY <1>1 DEF Removal, Unlinking
<1>4. /\ victim' = victim /\ started' = started /\ wanted' = wanted /\ seek' = seek
      /\ next_node' = next_node /\ next_task'[u] = next_node[victim[u]]
  BY DEF NextTask, TypeOK
<1>5. Removal(u)'
  BY <1>1, <1>2, <1>3, <1>4 DEF Removal, Unlinking
<1> QED BY <1>1, <1>5, LocalStep DEF NextTask

LEMMA SetStateStep ==
  ASSUME TypeOK, Linked, Rest, NEW u \in Tasks, SetState(u)
  PROVE  Linked' /\ Rest'
<1>1. /\ at[u] = "state" /\ at' = [at EXCEPT ![u] = "user"] /\ at \in [Tasks -> Points]
      /\ state' = [state EXCEPT ![victim[u]] = "UNDEFINED"] /\ state \in [Tasks -> States]
  BY DEF SetState, Goto, TypeOK
<1>2. u \in Inside
  BY <1>1 DEF Inside
<1>3. Removal(u)
  BY <1>2 DEF Rest, Removals
<1>4. Inside = {u} /\ victim[u] \notin Listed
  BY <1>1, <1>3 DEF Removal
<1>5. Inside' = {}
  BY <1>1, <1>4 DEF Inside
<1>6. Order' = Order /\ Listed' = Listed /\ Linked'
  BY Same DEF SetState
<1>7. Listed \subseteq Tasks
  BY ListMembers
<1>8. Ready'
  BY <1>1, <1>4, <1>6, <1>7 DEF Rest, Ready
<1>9. Removals'
  BY <1>5 DEF Removals
<1>10. Current' /\ NoTaskLost' /\ CTaskValid'
  BY <1>6 DEF Rest, Current, NoTaskLost, CTaskValid, SetState
<1> QED BY <1>6, <1>8, <1>9, <1>10 DEF Rest

\* Removal is about the call, not about the scheduler.
LEMMA RemovalsSame ==
  ASSUME Removals, Order' = Order, Listed' = Listed, next_node' = next_node,
         started => started', at' = at, victim' = victim, seek' = seek,
         next_task' = next_task, wanted' = wanted
  PROVE  Removals'
<1>1. Inside' = Inside
  BY DEF Inside
<1>2. ASSUME NEW u \in Inside PROVE Removal(u)'
  <2>1. Removal(u)
    BY DEF Removals
  <2> QED BY <1>1, <2>1 DEF Removal
<1> QED BY <1>1, <1>2 DEF Removals

LEMMA StartStep ==
  ASSUME TypeOK, Linked, Rest, start_scheduler
  PROVE  Linked' /\ Rest'
<1>1. Order' = Order /\ Listed' = Listed /\ Linked'
  BY Same DEF start_scheduler
<1>2. Removals'
  BY <1>1, RemovalsSame DEF start_scheduler, Rest
<1>3. Current' /\ Ready' /\ NoTaskLost'
  BY <1>1 DEF Rest, Current, Ready, NoTaskLost, start_scheduler
<1>4. CTaskValid'
  BY DEF CTaskValid, start_scheduler
<1> QED BY <1>1, <1>2, <1>3, <1>4 DEF Rest

\* The task after the last one is the first.
Turn(i) == IF i = Len(Order) THEN 1 ELSE i + 1

\* A switch finds a task of the list: the next in turn of the current task, if
\* that one is on the list.
LEMMA Dispatched ==
  ASSUME Linked, Current, schedule_round_robin
  PROVE  /\ Order # <<>> /\ c_task' \in Listed
         /\ \A i \in 1..Len(Order) :
              c_task = Order[i] => Turn(i) \in 1..Len(Order) /\ c_task' = Order[Turn(i)]
<1> DEFINE n == Len(Order)
           node == next_node[c_task]
<1>1. c_task # NULL /\ c_task' = IF node = NULL THEN ready_list_head ELSE node
  BY DEF schedule_round_robin
<1>2. Order # <<>> /\ (c_task \in Listed \/ node \in Listed \cup {NULL})
  BY <1>1 DEF Current
<1>3. /\ n \in Nat /\ Order \in [1..n -> Tasks] /\ n # 0
      /\ Listed = {Order[i] : i \in 1..n}
      /\ ready_list_head = Order[1]
      /\ \A i \in 1..n : next_node[Order[i]] = IF i = n THEN NULL ELSE Order[i + 1]
  BY <1>2, ListMembers
<1> HIDE DEF n
<1>4. 1 \in 1..n /\ \A i \in 1..n : i # n => i + 1 \in 1..n
  BY <1>3
<1>5. ready_list_head \in Listed
  BY <1>3, <1>4
<1>6. ASSUME NEW i \in 1..n, c_task = Order[i]
      PROVE  Turn(i) \in 1..n /\ c_task' = Order[Turn(i)]
  <2>1. node = IF i = n THEN NULL ELSE Order[i + 1]
    BY <1>3, <1>6
  <2>2. i # n => Order[i + 1] # NULL
    BY <1>3, <1>4, ListAssumption
  <2> QED BY <1>1, <1>3, <1>4, <2>1, <2>2 DEF Turn, n
<1>7. c_task' \in Listed
  <2>1. CASE c_task \in Listed
    <3>1. PICK i \in 1..n : c_task = Order[i]
      BY <1>3, <2>1
    <3> QED BY <1>3, <1>6, <3>1
  <2>2. CASE node \in Listed \cup {NULL}
    BY <1>1, <1>5, <2>2
  <2> QED BY <1>2, <2>1, <2>2
<1> QED BY <1>2, <1>6, <1>7 DEF n

LEMMA ScheduleStep ==
  ASSUME TypeOK, Linked, Rest, schedule_round_robin
  PROVE  Linked' /\ Rest'
<1>1. Order' = Order /\ Listed' = Listed /\ Linked'
  BY Same DEF schedule_round_robin
<1>2. Removals'
  BY <1>1, RemovalsSame DEF schedule_round_robin, Rest
<1>3. Order # <<>> /\ c_task' \in Listed
  BY Dispatched DEF Rest
<1>4. c_task' # NULL
  BY <1>3, ListMembers, ListAssumption
<1>5. Current'
  BY <1>1, <1>3, <1>4 DEF Current
<1>6. Ready' /\ NoTaskLost'
  BY <1>1 DEF Rest, Ready, NoTaskLost, schedule_round_robin
<1>7. CTaskValid'
  BY <1>4 DEF CTaskValid
<1> QED BY <1>1, <1>2, <1>5, <1>6, <1>7 DEF Rest

\* A call of remove_task that respects the discipline leaves a task.
LEMMA RemoveCall ==
  ASSUME Discipline, TypeOK, Linked, Rest, NEW u \in Tasks, NEW v \in Tasks, remove_task(u, v)
  PROVE  Linked' /\ Rest'
<1>1. Order' = Order /\ Listed' = Listed /\ Linked'
  BY Same DEF remove_task
<1>2. Inside = {} /\ v \in Listed /\ Listed # {v} /\ u \in Listed
  BY DEF remove_task, Discipline
<1>3. /\ at' = [at EXCEPT ![u] = "test"] /\ at \in [Tasks -> Points] /\ started /\ started' = started
      /\ victim' = [victim EXCEPT ![u] = v] /\ victim \in [Tasks -> Pointers]
      /\ wanted' = wanted \ {v}
  BY DEF remove_task, Goto, TypeOK
<1>4. at'[u] = "test" /\ victim'[u] = v
  BY <1>3
<1>5. Inside' = {u}
  BY <1>2, <1>3 DEF Inside
<1>6. Len(Order) >= 2
  <2> DEFINE n == Len(Order)
  <2>1. n \in Nat /\ Listed = {Order[i] : i \in 1..n}
    BY ListMembers
  <2> HIDE DEF n
  <2>2. PICK k \in 1..n : v = Order[k]
    BY <1>2, <2>1
  <2>3. PICK j \in 1..n : Order[j] # v
    BY <1>2, <2>1
  <2>4. j # k
    BY <2>2, <2>3
  <2>5. n >= 2
    BY <2>1, <2>4
  <2> QED BY <2>5 DEF n
<1>7. Removal(u)'
  BY <1>1, <1>2, <1>3, <1>4, <1>5, <1>6 DEF Removal, Unlinking
<1>8. Removals'
  BY <1>5, <1>7 DEF Removals
<1>9. Current' /\ Ready' /\ NoTaskLost' /\ CTaskValid'
  BY <1>1, <1>3 DEF Rest, Current, Ready, NoTaskLost, CTaskValid, remove_task
<1> QED BY <1>1, <1>8, <1>9 DEF Rest

(***************************************************************************)
(* The steps that change the list.                                         *)
(***************************************************************************)
\* Both stores of a removal take the victim, and nobody else, off the list.
LEMMA Bypassed ==
  ASSUME TypeOK, Linked, Rest, NEW u \in Tasks, HeadStore(u) \/ Link(u), NEW s, s = Order
  PROVE  \E k \in 1..Len(s) :
           /\ victim[u] = s[k] /\ IsOrder(Without(s, k))'
           /\ next_node'[victim[u]] \in ToSet(Without(s, k)) \cup {NULL}
           /\ wild' = wild
<1> DEFINE n == Len(s)
<1>1. IsOrder(s) /\ next_node \in [Tasks -> Pointers]
  BY DEF Linked, TypeOK
<1>2. CASE HeadStore(u)
  <2>1. Removal(u) /\ at[u] = "head_store"
    BY <1>2, Acting DEF HeadStore, Points, Rest
  <2>2. n >= 2 /\ victim[u] = s[1] /\ next_task[u] = s[2]
    BY <2>1 DEF Removal, Unlinking
  <2>3. 1 \in 1..n
    BY <2>2, TwoListed
  <2>4. ready_list_head' = s[2] /\ next_node' = next_node /\ wild' = wild
    BY <1>2, <2>2 DEF HeadStore
  <2>5. IsOrder(Without(s, 1))' /\ next_node'[s[1]] \in ToSet(Without(s, 1)) \cup {NULL}
    BY <1>1, <2>2, <2>3, <2>4, Unlink
  <2> QED BY <2>2, <2>3, <2>4, <2>5
<1>3. CASE Link(u)
  <2>1. Removal(u) /\ at[u] = "link" /\ victim[u] \in Tasks
    BY <1>3, Acting DEF Link, Points, Rest
  <2>2. /\ n >= 2 /\ seek[u] \in Listed /\ next_node[seek[u]] = victim[u]
        /\ next_task[u] = next_node[victim[u]]
    BY <2>1 DEF Removal, Unlinking
  <2>3. PICK i \in 1..n : seek[u] = s[i]
    BY <2>2, ListMembers
  <2>4. n \in Nat /\ s[i] \in Tasks /\ next_node[s[i]] = IF i = n THEN NULL ELSE s[i + 1]
    BY ListMembers
  <2>5. i # n /\ victim[u] = s[i + 1]
    BY <2>1, <2>2, <2>3, <2>4, ListAssumption
  <2>6. seek[u] # NULL
    BY <2>3, <2>4, ListAssumption
  <2>7. /\ wild' = wild /\ ready_list_head' = ready_list_head
        /\ next_node' = [next_node EXCEPT ![s[i]] = next_node[s[i + 1]]]
    BY <1>3, <2>2, <2>3, <2>5, <2>6 DEF Link
  <2> DEFINE k == i + 1
  <2>8. k \in 1..n /\ k # 1 /\ k - 1 = i
    <3> HIDE DEF n
    <3> QED BY <2>4, <2>5
  <2>9. next_node' = [next_node EXCEPT ![s[k - 1]] = next_node[s[k]]] /\ victim[u] = s[k]
    BY <2>5, <2>7, <2>8
  <2> HIDE DEF k
  <2>10. IsOrder(Without(s, k))' /\ next_node'[s[k]] \in ToSet(Without(s, k)) \cup {NULL}
    BY <1>1, <2>2, <2>7, <2>8, <2>9, Unlink
  <2> QED BY <2>7, <2>8, <2>9, <2>10
<1> QED BY <1>2, <1>3

LEMMA BypassStep ==
  ASSUME TypeOK, Linked, Rest, NEW u \in Tasks, HeadStore(u) \/ Link(u)
  PROVE  Linked' /\ Rest'
<1>1. PICK s : s = Order
  OBVIOUS
<1>2. PICK k \in 1..Len(s) :
        /\ victim[u] = s[k] /\ IsOrder(Without(s, k))'
        /\ next_node'[victim[u]] \in ToSet(Without(s, k)) \cup {NULL}
        /\ wild' = wild
  BY <1>1, Bypassed
<1>3. Order' = Without(s, k) /\ Listed' = ToSet(Without(s, k)) /\ Linked'
  BY <1>2, Became
<1>4. IsOrder(s)
  BY <1>1 DEF Linked
<1>5. /\ Len(Without(s, k)) = Len(s) - 1 /\ ToSet(Without(s, k)) = ToSet(s) \ {s[k]}
  BY <1>4, WithoutProperties
<1>6. Listed' = Listed \ {victim[u]}
  BY <1>1, <1>2, <1>3, <1>5 DEF Listed
<1>7. /\ Removal(u) /\ at[u] \in {"head_store", "link"} /\ at'[u] \in {"clear", "state"}
      /\ victim[u] \in Tasks /\ Inside' = {u} /\ c_task = u /\ started
  BY Acting DEF HeadStore, Link, Points, Rest
<1>8. u \in Listed /\ victim[u] \notin wanted /\ Len(s) >= 2
  BY <1>1, <1>7 DEF Removal, Unlinking
<1>9. Order' # <<>>
  <2>1. Len(<<>>) = 0
    BY EmptySeq
  <2>2. Len(s) - 1 # 0
    <3>1. Len(s) \in Nat
      BY <1>4, Members
    <3> QED BY <1>8, <3>1
  <2> QED BY <1>3, <1>5, <2>1, <2>2
<1>10. /\ c_task' = c_task /\ state' = state /\ started' = started /\ wanted' = wanted
       /\ victim' = victim
  BY DEF HeadStore, Link
<1>11. Removal(u)'
  BY <1>6, <1>7, <1>10 DEF Removal, Unlinking
<1>12. Removals'
  BY <1>7, <1>11 DEF Removals
<1>13. Current'
  <2>1. c_task # NULL
    BY <1>7, ListAssumption
  <2>2. u \in Listed' \/ next_node'[u] \in Listed' \cup {NULL}
    BY <1>2, <1>3, <1>6, <1>8
  <2> QED BY <1>7, <1>9, <1>10, <2>1, <2>2 DEF Current
<1>14. Ready' /\ NoTaskLost' /\ CTaskValid'
  BY <1>2, <1>6, <1>8, <1>10 DEF Rest, Ready, NoTaskLost, CTaskValid
<1> QED BY <1>3, <1>12, <1>13, <1>14 DEF Rest

LEMMA ClearStep ==
  ASSUME TypeOK, Linked, Rest, NEW u \in Tasks, Clear(u)
  PROVE  Order' = Order /\ Linked' /\ Rest'
<1>1. PICK s : s = Order
  OBVIOUS
<1>2. /\ Removal(u) /\ at[u] = "clear" /\ at'[u] = "state"
      /\ victim[u] \in Tasks /\ Inside' = {u} /\ c_task = u /\ started
  BY Acting DEF Clear, Points, Rest
<1>3. victim[u] \notin Listed
  BY <1>2 DEF Removal
<1>4. /\ next_node' = [next_node EXCEPT ![victim[u]] = NULL] /\ next_node \in [Tasks -> Pointers]
      /\ ready_list_head' = ready_list_head
  BY DEF Clear, TypeOK
<1>5. IsOrder(s) /\ victim[u] \in Tasks \ ToSet(s)
  BY <1>1, <1>2, <1>3 DEF Linked, Listed
<1>6. PICK v : v = victim[u]
  OBVIOUS
<1>7. IsOrder(s)'
  BY <1>4, <1>5, <1>6, WriteOutside
<1>8. Order' = Order /\ Listed' = Listed /\ Linked'
  BY <1>1, <1>7, Became DEF Listed
<1>9. /\ c_task' = c_task /\ state' = state /\ started' = started /\ wanted' = wanted
      /\ victim' = victim /\ wild' = wild
  BY DEF Clear
<1>10. Removal(u)'
  BY <1>2, <1>3, <1>8, <1>9 DEF Removal, Unlinking
<1>11. Removals'
  BY <1>2, <1>10 DEF Removals
<1>12. \A x \in Tasks : next_node'[x] = next_node[x] \/ next_node'[x] = NULL
  BY <1>4
<1>13. Current'
  BY <1>2, <1>8, <1>9, <1>12 DEF Rest, Current
<1>14. Ready' /\ NoTaskLost' /\ CTaskValid'
  BY <1>8, <1>9 DEF Rest, Ready, NoTaskLost, CTaskValid
<1> QED BY <1>8, <1>11, <1>13, <1>14 DEF Rest

LEMMA CreateFailsStep ==
  ASSUME Discipline, TypeOK, Linked, Rest, NEW t \in Tasks, create_task_fails(t)
  PROVE  Order' = Order /\ Linked' /\ Rest'
<1>1. PICK s : s = Order
  OBVIOUS
<1>2. t \notin Listed /\ t # c_task /\ Inside \subseteq {t}
  BY DEF create_task_fails, MayCreate, Discipline
<1>3. /\ next_node' = [next_node EXCEPT ![t] = NULL] /\ next_node \in [Tasks -> Pointers]
      /\ ready_list_head' = ready_list_head
      /\ state' = [state EXCEPT ![t] = "READY"] /\ state \in [Tasks -> States]
  BY DEF create_task_fails, TypeOK
<1>4. IsOrder(s) /\ t \in Tasks \ ToSet(s)
  BY <1>1, <1>2 DEF Linked, Listed
<1>5. IsOrder(s)'
  BY <1>3, <1>4, WriteOutside
<1>6. Order' = Order /\ Listed' = Listed /\ Linked' /\ Listed \subseteq Tasks
  BY <1>1, <1>5, Became, ListMembers DEF Listed
<1>7. /\ c_task' = c_task /\ at' = at /\ started' = started /\ wanted' = wanted
      /\ victim' = victim /\ wild' = wild
  BY DEF create_task_fails
<1>8. Inside' = Inside
  BY <1>7 DEF Inside
<1>9. ASSUME NEW u \in Inside PROVE Removal(u)'
  <2>1. Removal(u) /\ u = t
    BY <1>2 DEF Rest, Removals
  <2>2. at[u] \notin Unlinking
    BY <1>2, <2>1 DEF Removal
  <2> QED BY <1>6, <1>7, <1>8, <2>1, <2>2 DEF Removal, Unlinking
<1>10. Removals'
  BY <1>8, <1>9 DEF Removals
<1>11. Current'
  <2>1. c_task \in Tasks => next_node'[c_task] = next_node[c_task]
    BY <1>2, <1>3
  <2>2. c_task # NULL => c_task \in Tasks
    BY DEF TypeOK, Pointers
  <2> QED BY <1>6, <1>7, <2>1, <2>2 DEF Rest, Current
<1>12. Ready'
  BY <1>3, <1>6 DEF Rest, Ready
<1>13. NoTaskLost' /\ CTaskValid'
  BY <1>6, <1>7 DEF Rest, NoTaskLost, CTaskValid
<1> QED BY <1>6, <1>10, <1>11, <1>12, <1>13 DEF Rest

\* The newcomer is the last of the list.
LEMMA Created ==
  ASSUME Discipline, TypeOK, Linked, NEW t \in Tasks, create_task(t), NEW s, s = Order
  PROVE  /\ t \notin ToSet(s) /\ IsOrder(s) /\ IsOrder(Append(s, t))'
         /\ ToSet(Append(s, t)) = ToSet(s) \cup {t} /\ Append(s, t) # <<>>
         /\ \A u \in Tasks \ (ToSet(s) \cup {t}) : next_node'[u] = next_node[u]
         /\ s = <<>> => ready_list_head' = t
<1>1. t \notin ToSet(s) /\ Listed = ToSet(s)
  BY DEF create_task, MayCreate, Discipline, Listed
<1>2. IsOrder(s) /\ next_node \in [Tasks -> Pointers]
  BY DEF Linked, TypeOK
<1>3. ready_list_head = NULL <=> s = <<>>
  <2>1. s # <<>> => s[1] \in Tasks
    <3>1. Len(s) \in Nat /\ s \in [1..Len(s) -> Tasks] /\ (s = <<>> <=> Len(s) = 0)
      BY <1>2, Members
    <3>2. Len(s) # 0 => 1 \in 1..Len(s)
      BY <3>1
    <3> QED BY <3>1, <3>2
  <2> QED BY <1>2, <2>1, ListAssumption DEF IsOrder
<1>4. \/ /\ s = <<>> /\ ready_list_head' = t
         /\ next_node' = [next_node EXCEPT ![t] = NULL]
      \/ /\ s # <<>> /\ ready_list_head' = ready_list_head
         /\ \E tail \in ToSet(s) :
              /\ next_node[tail] = NULL
              /\ next_node' = [next_node EXCEPT ![t] = NULL, ![tail] = t]
  BY <1>1, <1>3 DEF create_task, _add_task
<1>5. /\ IsOrder(Append(s, t))' /\ ToSet(Append(s, t)) = ToSet(s) \cup {t}
      /\ \A u \in Tasks \ (ToSet(s) \cup {t}) : next_node'[u] = next_node[u]
  BY <1>1, <1>2, <1>4, WriteTail
<1>6. Append(s, t) # <<>>
  <2>1. s \in Seq(Tasks) /\ Len(s) \in Nat
    BY <1>2, Members DEF IsOrder
  <2>2. Len(Append(s, t)) = Len(s) + 1 /\ Len(<<>>) = 0
    BY <2>1, AppendProperties, EmptySeq
  <2> QED BY <2>1, <2>2
<1> QED BY <1>1, <1>2, <1>4, <1>5, <1>6

LEMMA CreateStep ==
  ASSUME Discipline, TypeOK, Linked, Rest, NEW t \in Tasks, create_task(t)
  PROVE  Linked' /\ Rest'
<1>1. PICK s : s = Order
  OBVIOUS
<1>2. /\ t \notin ToSet(s) /\ IsOrder(s) /\ IsOrder(Append(s, t))'
      /\ ToSet(Append(s, t)) = ToSet(s) \cup {t} /\ Append(s, t) # <<>>
      /\ \A u \in Tasks \ (ToSet(s) \cup {t}) : next_node'[u] = next_node[u]
      /\ s = <<>> => ready_list_head' = t
  BY <1>1, Created
<1>3. Order' = Append(s, t) /\ Listed' = ToSet(s) \cup {t} /\ Linked'
  BY <1>2, Became
<1>4. Listed = ToSet(s) /\ Listed \subseteq Tasks
  BY <1>1, ListMembers DEF Listed
<1>5. t # c_task /\ Inside \subseteq {t}
  BY DEF create_task, MayCreate, Discipline
<1>6. /\ state' = [state EXCEPT ![t] = "READY"] /\ state \in [Tasks -> States]
      /\ at' = [at EXCEPT ![t] = "user"] /\ at \in [Tasks -> Points]
      /\ c_task' = IF c_task = NULL THEN ready_list_head' ELSE c_task
      /\ wanted' = wanted \cup {t} /\ started' = started /\ wild' = wild
  BY DEF create_task, TypeOK
<1>7. Inside' = {}
  BY <1>5, <1>6 DEF Inside
<1>8. Removals'
  BY <1>7 DEF Removals
<1>9. Current' /\ c_task' # NULL
  <2>1. CASE c_task = NULL
    <3>1. c_task' = t
      BY <1>1, <1>2, <1>6, <2>1 DEF Rest, Current
    <3> QED BY <1>2, <1>3, <3>1, ListAssumption DEF Current
  <2>2. CASE c_task # NULL
    <3>1. c_task' = c_task /\ c_task \in Tasks
      BY <1>6, <2>2 DEF TypeOK, Pointers
    <3>2. c_task \in Listed \/ next_node[c_task] \in Listed \cup {NULL}
      BY <2>2 DEF Rest, Current
    <3>3. c_task \in Listed' \/ next_node'[c_task] \in Listed' \cup {NULL}
      BY <1>2, <1>3, <1>4, <1>5, <3>1, <3>2
    <3> QED BY <1>2, <1>3, <2>2, <3>1, <3>3 DEF Current
  <2> QED BY <2>1, <2>2
<1>10. Ready'
  BY <1>3, <1>4, <1>6 DEF Rest, Ready
<1>11. NoTaskLost'
  BY <1>3, <1>4, <1>6 DEF Rest, NoTaskLost
<1>12. CTaskValid'
  BY <1>6, <1>9 DEF Rest, CTaskValid
<1> QED BY <1>3, <1>8, <1>9, <1>10, <1>11, <1>12 DEF Rest

(***************************************************************************)
(* The theorems.                                                           *)
(***************************************************************************)
LEMMA InvInit ==
  ASSUME Init
  PROVE  Inv
<1> USE DEF Init
<1>1. TypeOK
  BY DEF TypeOK, Pointers, States, Points
<1>2. IsOrder(<<>>)
  BY EmptySeq DEF IsOrder
<1>3. Order = <<>> /\ Node(Cardinality(Tasks)) = NULL
  BY <1>2, WalkFinds DEF Determined
<1>4. Linked
  BY <1>2, <1>3 DEF Linked
<1>5. Listed = {}
  BY <1>2, <1>3, Members, EmptySeq DEF Listed, ToSet
<1>6. Inside = {}
  BY DEF Inside
<1>7. Rest
  BY <1>3, <1>5, <1>6
     DEF Rest, Removals, Current, Ready, NoTaskLost, CTaskValid
<1> QED BY <1>1, <1>4, <1>7, InvParts

LEMMA Stutter ==
  ASSUME TypeOK, Linked, Rest, UNCHANGED vars
  PROVE  Order' = Order /\ TypeOK' /\ Linked' /\ Rest'
<1> USE DEF vars
<1>1. Order' = Order /\ Listed' = Listed /\ Linked'
  BY Same
<1>2. TypeOK'
  BY DEF TypeOK
<1>3. Removals'
  BY <1>1, RemovalsSame DEF Rest
<1>4. Current' /\ Ready' /\ NoTaskLost' /\ CTaskValid'
  BY <1>1 DEF Rest, Current, Ready, NoTaskLost, CTaskValid
<1> QED BY <1>1, <1>2, <1>3, <1>4 DEF Rest

\* Every step of a system that respects the discipline keeps the invariant.
LEMMA InvStep ==
  ASSUME Discipline, Inv, [Next]_vars
  PROVE  Inv'
<1>1. TypeOK /\ Linked /\ Rest
  BY InvParts
<1>2. CASE Next
  <2>1. TypeOK'
    BY <1>2, TypeStep
  <2>2. ASSUME start_scheduler PROVE Linked' /\ Rest'
    BY <1>1, <2>2, StartStep
  <2>3. ASSUME schedule_round_robin PROVE Linked' /\ Rest'
    BY <1>1, <2>3, ScheduleStep
  <2>4. ASSUME NEW t \in Tasks, create_task(t) PROVE Linked' /\ Rest'
    BY <1>1, <2>4, CreateStep
  <2>5. ASSUME NEW t \in Tasks, create_task_fails(t) PROVE Linked' /\ Rest'
    BY <1>1, <2>5, CreateFailsStep
  <2>6. ASSUME NEW u \in Tasks, NEW v \in Tasks, remove_task(u, v) PROVE Linked' /\ Rest'
    BY <1>1, <2>6, RemoveCall
  <2>7. ASSUME NEW u \in Tasks, RemoveStep(u) PROVE Linked' /\ Rest'
    BY <1>1, <2>7, TestHeadStep, HeadNextStep, BypassStep, SeekHeadStep, WalkStep,
       AdvanceStep, NextTaskStep, ClearStep, SetStateStep DEF RemoveStep
  <2>8. Linked' /\ Rest'
    BY <1>2, <2>2, <2>3, <2>4, <2>5, <2>6, <2>7 DEF Next
  <2>9. (TypeOK /\ Linked /\ Rest => Inv)'
    BY InvParts, PTL
  <2> QED BY <2>1, <2>8, <2>9
<1>3. CASE UNCHANGED vars
  <2>1. (TypeOK /\ Linked /\ Rest => Inv)'
    BY InvParts, PTL
  <2> QED BY <1>1, <1>3, <2>1, Stutter
<1> QED BY <1>2, <1>3

LEMMA InvAlways ==
  ASSUME Discipline
  PROVE  Spec => []Inv
<1>1. Init => Inv
  BY InvInit
<1>2. Inv /\ [Next]_vars => Inv'
  BY InvStep
<1> QED BY <1>1, <1>2, PTL DEF Spec

\* _get_tail and _find_preceding_task terminate at every moment: the walk along
\* next_node ends and meets every ready task once, also half way through a
\* removal and after a removal that its own task abandoned.
THEOREM ListInvariant ==
  ASSUME Discipline
  PROVE  Spec => []ListInv
<1>1. Inv => ListInv
  BY DEF Inv
<1> QED BY <1>1, InvAlways, PTL

\* create_task, remove_task: no task is lost by the removal of another.
THEOREM NoneLost ==
  ASSUME Discipline
  PROVE  Spec => []NoTaskLost
<1>1. Inv => NoTaskLost
  BY DEF Inv
<1> QED BY <1>1, InvAlways, PTL

\* schedule_round_robin never leaves the scheduler without a current task.
THEOREM CurrentTask ==
  ASSUME Discipline
  PROVE  Spec => []CTaskValid
<1>1. Inv => CTaskValid
  BY DEF Inv
<1> QED BY <1>1, InvAlways, PTL

\* schedule_round_robin does not switch to a task whose removal is complete.
THEOREM RemovedTasks ==
  ASSUME Discipline
  PROVE  Spec => RemovedStaysOff
<1> DEFINE StaysOff == \A t \in Tasks : state[t] = "UNDEFINED" /\ c_task # t
                                        => c_task' # t \/ state'[t] = "READY"
<1>1. ASSUME Inv, [Next]_vars PROVE StaysOff
  <2>1. TypeOK /\ Linked /\ Rest
    BY <1>1, InvParts
  <2>2. CASE schedule_round_robin
    <3>1. c_task' \in Listed /\ \A t \in Listed : state[t] = "READY"
      BY <2>1, <2>2, Dispatched DEF Rest, Ready
    <3> QED BY <3>1
  <2>3. ASSUME NEW t \in Tasks, create_task(t) PROVE StaysOff
    <3>1. c_task' = c_task \/ c_task' = t
      <4>1. PICK s : s = Order
        OBVIOUS
      <4>2. s = <<>> => ready_list_head' = t
        BY <2>1, <2>3, <4>1, Created
      <4>3. c_task = NULL => s = <<>>
        BY <2>1, <4>1 DEF Rest, Current
      <4> QED BY <2>3, <4>2, <4>3 DEF create_task
    <3>2. state'[t] = "READY"
      BY <2>1, <2>3 DEF create_task, TypeOK
    <3> QED BY <3>1, <3>2
  <2>4. CASE UNCHANGED vars
    BY <2>4 DEF vars
  <2>5. CASE c_task' = c_task
    BY <2>5
  <2>6. \/ c_task' = c_task \/ schedule_round_robin \/ UNCHANGED vars
        \/ \E t \in Tasks : create_task(t)
    BY <1>1 DEF Next, start_scheduler, create_task_fails, remove_task, RemoveStep, TestHead,
       HeadNext, HeadStore, SeekHead, Walk, Advance, NextTask, Link, Clear, SetState
  <2> QED BY <2>2, <2>3, <2>4, <2>5, <2>6
<1>2. Inv /\ [Next]_vars => [StaysOff]_vars
  BY <1>1
<1> QED BY <1>2, InvAlways, PTL DEF Spec, RemovedStaysOff

(***************************************************************************)
(* The refinement.                                                         *)
(***************************************************************************)
LEMMA WithoutIsRemoveAt ==
  ASSUME NEW s, IsOrder(s), NEW k \in 1..Len(s)
  PROVE  Without(s, k) = RemoveAt(s, k)
<1> DEFINE n == Len(s)
           a == SubSeq(s, 1, k - 1)
           b == SubSeq(s, k + 1, n)
           r == Without(s, k)
<1>1. n \in Nat /\ s \in [1..n -> Tasks] /\ k \in 1..n
  BY Members
<1>2. /\ r \in Seq(Tasks) /\ Len(r) = n - 1 /\ n - 1 \in Nat
      /\ \A i \in 1..(n - 1) : r[i] = IF i < k THEN s[i] ELSE s[i + 1]
  BY WithoutProperties
<1> HIDE DEF n, r
<1>3. /\ 1 \in Int /\ k - 1 \in Int /\ k + 1 \in Int /\ n \in Int
      /\ (\A i \in 1..(k - 1) : s[i] \in Tasks) /\ (\A i \in (k + 1)..n : s[i] \in Tasks)
  BY <1>1
<1>4. /\ a \in Seq(Tasks) /\ Len(a) = IF 1 <= k - 1 THEN (k - 1) - 1 + 1 ELSE 0
      /\ \A i \in 1..((k - 1) - 1 + 1) : a[i] = s[1 + i - 1]
  BY <1>3, SubSeqProperties
<1>5. /\ b \in Seq(Tasks) /\ Len(b) = IF k + 1 <= n THEN n - (k + 1) + 1 ELSE 0
      /\ \A i \in 1..(n - (k + 1) + 1) : b[i] = s[(k + 1) + i - 1]
  BY <1>3, SubSeqProperties
<1>6. RemoveAt(s, k) = a \o b
  BY DEF RemoveAt, n
<1> HIDE DEF a, b
<1>7. Len(a) = k - 1 /\ Len(b) = n - k
  BY <1>1, <1>4, <1>5
<1>8. /\ a \o b \in Seq(Tasks) /\ Len(a \o b) = Len(a) + Len(b)
      /\ \A i \in 1..(Len(a) + Len(b)) :
           (a \o b)[i] = IF i <= Len(a) THEN a[i] ELSE b[i - Len(a)]
  BY <1>4, <1>5, ConcatProperties
<1>9. Len(a) + Len(b) = n - 1
  BY <1>1, <1>7
<1>10. ASSUME NEW i \in 1..(n - 1) PROVE (a \o b)[i] = r[i]
  <2>1. (a \o b)[i] = IF i <= k - 1 THEN a[i] ELSE b[i - (k - 1)]
    BY <1>7, <1>8, <1>9
  <2>2. CASE i < k
    <3>1. i <= k - 1 /\ i \in 1..((k - 1) - 1 + 1) /\ 1 + i - 1 = i
      BY <1>1, <2>2
    <3> QED BY <1>2, <1>4, <2>1, <2>2, <3>1
  <2>3. CASE ~(i < k)
    <3> DEFINE j == i - (k - 1)
    <3>1. ~(i <= k - 1) /\ j \in 1..(n - (k + 1) + 1) /\ (k + 1) + j - 1 = i + 1
      BY <1>1, <2>3
    <3>2. b[j] = s[(k + 1) + j - 1]
      <4> HIDE DEF j
      <4> QED BY <1>5, <3>1
    <3> QED BY <1>2, <2>1, <2>3, <3>1, <3>2
  <2> QED BY <2>2, <2>3
<1>11. a \o b = r
  <2>1. Len(a \o b) = Len(r)
    BY <1>2, <1>8, <1>9
  <2>2. \A i \in 1..Len(r) : (a \o b)[i] = r[i]
    BY <1>2, <1>10
  <2> QED BY <1>2, <1>8, <2>1, <2>2, SeqEqual
<1> QED BY <1>6, <1>11 DEF r

\* task.cpp, with the discipline: create_task is Enter, the store of remove_task
\* is Leave, a switch is Dispatch, and every other step is invisible.
THEOREM ReadyQueueRefinement ==
  ASSUME Discipline
  PROVE  Spec => ImplementsReadyQueue
<1> USE DEF Q!ToSet, ToSet
<1>1. ASSUME Init PROVE Q!Init
  <2>1. Inv
    BY <1>1, InvInit
  <2>2. c_task = NULL /\ Current
    BY <1>1, <2>1, InvParts DEF Init, Rest
  <2> QED BY <2>2 DEF Current, Q!Init
<1>2. ASSUME Inv, [Next]_vars PROVE [Q!Next]_(Q!vars)
  <2> USE DEF Q!vars
  <2>1. TypeOK /\ Linked /\ Rest
    BY <1>2, InvParts
  <2>2. CASE schedule_round_robin
    <3>1. /\ Order # <<>> /\ c_task' \in Listed
          /\ \A i \in 1..Len(Order) :
               c_task = Order[i] => Turn(i) \in 1..Len(Order) /\ c_task' = Order[Turn(i)]
      BY <2>1, <2>2, Dispatched DEF Rest
    <3>2. Order' = Order
      BY <2>1, <2>2, Same DEF schedule_round_robin
    <3>3. ASSUME NEW i \in 1..Len(Order) PROVE Turn(i) = (i % Len(Order)) + 1
      <4> DEFINE n == Len(Order)
      <4>1. n \in Nat
        BY <2>1, ListMembers
      <4> HIDE DEF n
      <4>2. i \in 1..n
        BY <3>3 DEF n
      <4>3. (IF i = n THEN 1 ELSE i + 1) = (i % n) + 1
        BY <4>1, <4>2
      <4> QED BY <4>3 DEF Turn, n
    <3>4. CASE c_task \in Listed
      <4>1. Listed = {Order[i] : i \in 1..Len(Order)}
        BY <2>1, ListMembers
      <4>2. PICK i \in 1..Len(Order) : c_task = Order[i]
        BY <3>4, <4>1
      <4>3. c_task' = Order[(i % Len(Order)) + 1]
        BY <3>1, <3>3, <4>2
      <4> QED BY <3>1, <3>2, <4>2, <4>3 DEF Q!Next, Q!Dispatch
    <3>5. CASE c_task \notin Listed
      BY <3>1, <3>2, <3>5 DEF Q!Next, Q!Dispatch, Listed
    <3> QED BY <3>4, <3>5
  <2>3. ASSUME NEW t \in Tasks, create_task(t) PROVE Q!Enter(t)
    <3>1. PICK s : s = Order
      OBVIOUS
    <3>2. t \notin ToSet(s) /\ IsOrder(Append(s, t))' /\ (s = <<>> => ready_list_head' = t)
      BY <2>1, <2>3, <3>1, Created
    <3>3. Order' = Append(Order, t)
      BY <3>1, <3>2, Became
    <3>4. c_task = NULL => s = <<>>
      BY <2>1, <3>1 DEF Rest, Current
    <3>5. c_task' = IF c_task = NULL THEN t ELSE c_task
      BY <2>3, <3>2, <3>4 DEF create_task
    <3> QED BY <3>1, <3>2, <3>3, <3>5 DEF Q!Enter
  <2>4. ASSUME NEW u \in Tasks, HeadStore(u) \/ Link(u) PROVE \E t \in Tasks : Q!Leave(t)
    <3>1. PICK s : s = Order
      OBVIOUS
    <3>2. PICK k \in 1..Len(s) : victim[u] = s[k] /\ IsOrder(Without(s, k))'
      BY <2>1, <2>4, <3>1, Bypassed
    <3>3. IsOrder(s)
      BY <2>1, <3>1 DEF Linked
    <3>4. Order' = RemoveAt(s, k)
      BY <3>2, <3>3, Became, WithoutIsRemoveAt
    <3>5. s[k] \in Tasks
      BY <3>3, Members
    <3>6. c_task' = c_task
      BY <2>4 DEF HeadStore, Link
    <3> QED BY <3>1, <3>4, <3>5, <3>6 DEF Q!Leave, Q!RemoveAt, RemoveAt
  <2>5. ASSUME NEW u \in Tasks, Clear(u) PROVE UNCHANGED Q!vars
    BY <2>1, <2>5, ClearStep DEF Clear
  <2>6. ASSUME NEW t \in Tasks, create_task_fails(t) PROVE UNCHANGED Q!vars
    BY <2>1, <2>6, CreateFailsStep DEF create_task_fails
  <2>7. CASE ready_list_head' = ready_list_head /\ next_node' = next_node /\ c_task' = c_task
    BY <2>1, <2>7, Same
  <2>8. \/ ready_list_head' = ready_list_head /\ next_node' = next_node /\ c_task' = c_task
        \/ schedule_round_robin
        \/ \E t \in Tasks : create_task(t) \/ create_task_fails(t) \/ Clear(t)
                            \/ HeadStore(t) \/ Link(t)
    BY <1>2 DEF Next, start_scheduler, remove_task, RemoveStep, TestHead, HeadNext,
       SeekHead, Walk, Advance, NextTask, SetState, vars
  <2> QED BY <2>2, <2>3, <2>4, <2>5, <2>6, <2>7, <2>8 DEF Q!Next
<1> QED BY <1>1, <1>2, InvAlways, PTL DEF Spec, ImplementsReadyQueue, Q!Spec
=============================================================================
