-------------------------- MODULE HeapIndex_proofs --------------------------
(***************************************************************************)
(* Proofs about the index of free blocks, for every page size, list limit, *)
(* memory size and set of requests.                                        *)
(***************************************************************************)
EXTENDS HeapIndex, Heap_proofs, Iteration

-----------------------------------------------------------------------------
(* Walks *)

\* What Walk computes: where p comes to stand within n steps.
LEMMA WalkUnfolds ==
  ASSUME NEW X, IsFiniteSet(X), NEW step \in [X -> X], NEW start \in X
  PROVE  \E end :
           /\ Walk(step, start) = end[Cardinality(X)][start]
           /\ \A n \in 0 .. Cardinality(X), p \in X :
                end[n][p] = IF step[p] = p THEN p
                            ELSE IF n = 0 THEN Lost ELSE end[n - 1][step[p]]
<1> DEFINE last == Cardinality(DOMAIN step)
           Body(f) == [n \in 0 .. last |->
                         [p \in DOMAIN step |-> IF step[p] = p THEN p
                                               ELSE IF n = 0 THEN Lost
                                               ELSE f[n - 1][step[p]]]]
           end == CHOOSE f : f = Body(f)
           Y == [X -> X \union {Lost}]
           first == [p \in X |-> IF step[p] = p THEN p ELSE Lost]
           F == [g \in Y |-> [p \in X |-> IF step[p] = p THEN p ELSE g[step[p]]]]
<1>1. last \in Nat /\ DOMAIN step = X
  BY FS_CardinalityType
<1>2. Walk(step, start) = end[last][start]
  BY DEF Walk
<1> HIDE DEF last
<1>3. first \in Y /\ F \in [Y -> Y]
  OBVIOUS
<1>4. PICK f \in [0 .. last -> Y] : Iterates(f, F, first, last)
  <2> HIDE DEF F, first, Y
  <2> QED
    BY <1>1, <1>3, IteratesExist
<1>5. f = Body(f)
  <2>1. f = [n \in 0 .. last |-> f[n]]
    OBVIOUS
  <2>2. f[0] = Body(f)[0]
    BY <1>1, <1>4 DEF Iterates
  <2>3. ASSUME NEW n \in 1 .. last PROVE f[n] = Body(f)[n]
    <3>1. f[n] = F[f[n - 1]] /\ f[n - 1] \in Y
      <4> HIDE DEF F, first, Y
      <4> QED
        BY <1>1, <1>4, <2>3 DEF Iterates
    <3>2. F[f[n - 1]] = [p \in X |-> IF step[p] = p THEN p ELSE f[n - 1][step[p]]]
      BY <3>1
    <3>3. Body(f)[n] = [p \in X |-> IF step[p] = p THEN p ELSE f[n - 1][step[p]]]
      <4>1. n \in 0 .. last /\ n # 0
        BY <1>1, <2>3
      <4> QED
        BY <1>1, <4>1
    <3> QED
      BY <3>1, <3>2, <3>3
  <2> DEFINE G == Body(f)
  <2>4. \A n \in 0 .. last : f[n] = G[n]
    <3>1. \A n \in 0 .. last : n = 0 \/ n \in 1 .. last
      BY <1>1
    <3>2. f[0] = G[0]
      BY <2>2
    <3>3. \A n \in 1 .. last : f[n] = G[n]
      BY <2>3
    <3> HIDE DEF G
    <3> QED
      BY <3>1, <3>2, <3>3
  <2>5. G = [n \in 0 .. last |-> G[n]]
    OBVIOUS
  <2> HIDE DEF G
  <2>6. f = G
    BY <2>1, <2>4, <2>5
  <2> QED
    BY <2>6 DEF G
<1>6. end = Body(end)
  BY <1>5
<1> HIDE DEF end
<1>7. \A n \in 0 .. last, p \in X :
        end[n][p] = IF step[p] = p THEN p ELSE IF n = 0 THEN Lost ELSE end[n - 1][step[p]]
  <2> TAKE n \in 0 .. last, p \in X
  <2>1. end[n] = Body(end)[n]
    BY <1>6
  <2> QED
    BY <1>1, <2>1
<1>8. last = Cardinality(X)
  BY <1>1 DEF last
<1> QED
  BY <1>2, <1>7, <1>8

\* A walk that starts in a set its steps never leave is lost, or comes to stand
\* in that set.
LEMMA WalkStays ==
  ASSUME NEW X, IsFiniteSet(X), NEW step \in [X -> X], NEW start \in X,
         NEW S \in SUBSET X, start \in S, \A p \in S : step[p] \in S
  PROVE  \/ Walk(step, start) = Lost
         \/ Walk(step, start) \in S /\ step[Walk(step, start)] = Walk(step, start)
<1> DEFINE last == Cardinality(X)
<1>1. last \in Nat
  BY FS_CardinalityType
<1>2. PICK end : /\ Walk(step, start) = end[last][start]
                 /\ \A n \in 0 .. last, p \in X :
                      end[n][p] = IF step[p] = p THEN p
                                  ELSE IF n = 0 THEN Lost ELSE end[n - 1][step[p]]
  BY WalkUnfolds
<1> HIDE DEF last
<1> DEFINE Ends == {n \in 0 .. last : \A p \in S : \/ end[n][p] = Lost
                                                   \/ end[n][p] \in S /\ step[end[n][p]] = end[n][p]}
<1>3. 0 \in Ends
  BY <1>1, <1>2
<1>4. \A n \in 1 .. last : n - 1 \in Ends => n \in Ends
  BY <1>1, <1>2
<1>5. last \in Ends
  <2> HIDE DEF Ends
  <2>1. \A n \in 0 .. last : n \in Ends
    BY <1>1, <1>3, <1>4, InductionTo
  <2> QED
    BY <1>1, <2>1
<1> QED
  BY <1>2, <1>5

\* A walk that neither comes back to its start nor comes to one place from two does
\* come to stand: it would have to be at more places than there are.
LEMMA WalkEnds ==
  ASSUME NEW X, IsFiniteSet(X), NEW step \in [X -> X], NEW start \in X,
         NEW R \in SUBSET X, start \notin R, step[start] \in R \union {start},
         \A p \in R : step[p] \in R,
         \A p, q \in R \union {start} :
           step[p] = step[q] /\ step[step[p]] # step[p] => p = q
  PROVE  /\ Walk(step, start) \in R \union {start}
         /\ step[Walk(step, start)] = Walk(step, start)
<1> DEFINE last == Cardinality(X)
           V == R \union {start}
<1>1. last \in Nat
  BY FS_CardinalityType
<1>2. PICK end : /\ Walk(step, start) = end[last][start]
                 /\ \A n \in 0 .. last, p \in X :
                      end[n][p] = IF step[p] = p THEN p
                                  ELSE IF n = 0 THEN Lost ELSE end[n - 1][step[p]]
  BY WalkUnfolds
<1>3. PICK it \in [0 .. last -> X] : Iterates(it, step, start, last)
  BY <1>1, IteratesExist
<1> HIDE DEF last
<1>4. it[0] = start /\ \A k \in 1 .. last : k - 1 \in 0 .. last /\ it[k] = step[it[k - 1]]
  BY <1>1, <1>3 DEF Iterates
<1>5. \A k \in 0 .. last : it[k] \in V
  <2> DEFINE S == {k \in 0 .. last : it[k] \in V}
  <2>1. 0 \in S
    BY <1>1, <1>4
  <2>2. \A k \in 1 .. last : k - 1 \in S => k \in S
    BY <1>4
  <2> HIDE DEF S
  <2>3. \A k \in 0 .. last : k \in S
    BY <1>1, <2>1, <2>2, InductionTo
  <2> QED
    BY <2>3 DEF S
<1>6. \A k \in 0 .. last : end[last][start] = end[last - k][it[k]]
  <2> DEFINE S == {k \in 0 .. last : end[last][start] = end[last - k][it[k]]}
  <2>1. 0 \in S
    BY <1>1, <1>4
  <2>2. ASSUME NEW k \in 1 .. last, k - 1 \in S PROVE k \in S
    <3> DEFINE p == it[k - 1]
               n == last - (k - 1)
    <3>1. n \in 0 .. last /\ n # 0 /\ n - 1 = last - k /\ n - 1 \in 0 .. last
      BY <1>1, <2>2
    <3>2. p \in X /\ it[k] = step[p] /\ end[last][start] = end[n][p]
      BY <1>4, <2>2
    <3> HIDE DEF n, p
    <3>3. end[n][p] = IF step[p] = p THEN p ELSE end[n - 1][step[p]]
      BY <1>2, <3>1, <3>2
    <3>4. step[p] = p => end[n - 1][p] = p
      BY <1>2, <3>1, <3>2
    <3>5. end[last][start] = end[last - k][it[k]]
      BY <3>1, <3>2, <3>3, <3>4
    <3> QED
      BY <1>1, <2>2, <3>5
  <2> HIDE DEF S
  <2>3. \A k \in 0 .. last : k \in S
    BY <1>1, <2>1, <2>2, InductionTo
  <2> QED
    BY <2>3 DEF S
<1>7. \E j \in 0 .. last : step[it[j]] = it[j]
  <2> SUFFICES ASSUME \A j \in 0 .. last : step[it[j]] # it[j] PROVE FALSE
    OBVIOUS
  <2> DEFINE S == {j \in 0 .. last : \A k \in 0 .. last : k > j => it[k] # it[j]}
  <2>1. 0 \in S
    <3>1. \A k \in 0 .. last : k > 0 => k \in 1 .. last
      BY <1>1
    <3>2. step[start] \in R
      BY <1>1, <1>4
    <3>3. \A k \in 1 .. last : it[k] \in R
      BY <1>4, <1>5, <3>2
    <3> QED
      BY <1>1, <1>4, <3>1, <3>3
  <2>2. ASSUME NEW j \in 1 .. last, j - 1 \in S PROVE j \in S
    <3>1. ASSUME NEW k \in 0 .. last, k > j, it[k] = it[j] PROVE FALSE
      <4>1. k \in 1 .. last /\ k - 1 \in 0 .. last /\ k - 1 > j - 1
        BY <1>1, <3>1
      <4>2. it[k - 1] # it[j - 1]
        BY <2>2, <4>1
      <4>3. step[it[k - 1]] = step[it[j - 1]] /\ step[step[it[k - 1]]] # step[it[k - 1]]
        BY <1>4, <3>1, <4>1
      <4>4. it[k - 1] \in V /\ it[j - 1] \in V
        BY <1>4, <1>5, <4>1
      <4> QED
        BY <4>2, <4>3, <4>4
    <3> QED
      BY <1>1, <3>1
  <2> HIDE DEF S
  <2>3. \A j \in 0 .. last : j \in S
    BY <1>1, <2>1, <2>2, InductionTo
  <2>4. IsFiniteSet(0 .. last) /\ Cardinality(0 .. last) = last + 1
    BY <1>1, FS_Interval
  <2>5. Cardinality(X) < Cardinality(0 .. last)
    BY <1>1, <2>4 DEF last
  <2>6. PICK j \in 0 .. last, k \in 0 .. last : j # k /\ it[j] = it[k]
    <3> DEFINE T == 0 .. last
    <3>1. IsFiniteSet(T) /\ IsFiniteSet(X) /\ Cardinality(X) < Cardinality(T) /\ it \in [T -> X]
      BY <2>4, <2>5
    <3> HIDE DEF T
    <3>2. \E j, k \in T : j # k /\ it[j] = it[k]
      <4> SUFFICES ASSUME \A j, k \in T : it[j] = it[k] => j = k PROVE FALSE
        OBVIOUS
      <4>1. it \in Injection(T, X)
        BY <3>1 DEF Injection, IsInjective
      <4>2. Cardinality(T) <= Cardinality(X)
        BY <3>1, <4>1, FS_Injection
      <4>3. Cardinality(T) \in Nat /\ Cardinality(X) \in Nat
        BY <3>1, FS_CardinalityType
      <4> QED
        BY <3>1, <4>2, <4>3
    <3> QED
      BY <3>2 DEF T
  <2>7. j > k \/ k > j
    BY <1>1, <2>6
  <2> QED
    BY <2>3, <2>6, <2>7 DEF S
<1>8. PICK j \in 0 .. last : step[it[j]] = it[j]
  BY <1>7
<1>9. last - j \in 0 .. last
  BY <1>1
<1>10. end[last - j][it[j]] = it[j]
  BY <1>2, <1>8, <1>9
<1> QED
  BY <1>2, <1>5, <1>6, <1>8, <1>10

-----------------------------------------------------------------------------
(* The inductive invariant *)

\* What a link holds.
Addresses == Int

NodeSet == [size : Nat, back : Addresses, fwd : Addresses, child : Addresses, parent : Addresses]

\* An index is three fields, and its links are nodes.
Shape(ix) ==
  /\ ix = [free |-> ix.free, link |-> ix.link, ok |-> ix.ok]
  /\ ix.free \in [0 .. ListCount -> Nat]
  /\ ix.ok \in BOOLEAN
  /\ ix.link \in [DOMAIN ix.link -> NodeSet]
  /\ DOMAIN ix.link \in SUBSET (Nat \ {0})
  /\ IsFiniteSet(DOMAIN ix.link)
  /\ \A p \in DOMAIN ix.link : ix.link[p].size >= Overhead /\ ix.link[p].size # ListMax

Listed(ix, i) == {p \in DOMAIN ix.link : ix.link[p].size = i + Overhead}

\* The free blocks of the list i are this row of last items.
RowOf(ix, i, row, last) ==
  /\ \A p \in Listed(ix, i) : \E k \in 1 .. last : row[k] = p
  /\ \A j, k \in 1 .. last : row[j] = row[k] => j = k
  /\ ix.free[i] = IF last = 0 THEN Null ELSE row[1]
  /\ \A k \in 1 .. last :
       /\ ix.link[row[k]].back = IF k = 1 THEN Null ELSE row[k - 1]
       /\ ix.link[row[k]].fwd = IF k = last THEN Null ELSE row[k + 1]

RowExact(ix, i) ==
  \E last \in Nat : \E row \in [1 .. last -> Listed(ix, i)] : RowOf(ix, i, row, last)

RowsExact(ix) == \A i \in 0 .. ListCount - 1 : RowExact(ix, i)

\* c is the child of p, and has no other neighbours.
ChildOf(ix, c, p) ==
  /\ IsNode(ix, c) /\ ix.link[c].parent = p
  /\ ix.link[c].size = ix.link[p].size
  /\ ix.link[c].back = Null /\ ix.link[c].fwd = Null
  /\ c # ix.free[Root]

\* Items of lists have no children; a node's child is as long as the node.
ChildrenBelow(ix) ==
  \A p \in DOMAIN ix.link :
    IF ix.link[p].size < ListMax
      THEN ix.link[p].child \in {Null, Junk}
      ELSE ix.link[p].child # Null => ChildOf(ix, ix.link[p].child, p)

\* p is shorter than q, or both are items of one list.
InOrder(ix, p, q) ==
  \/ ix.link[p].size < ix.link[q].size
  \/ ix.link[p].size = ix.link[q].size /\ ix.link[p].size < ListMax

\* Neighbours that lead to each other are in the order of their sizes.
Sorted(ix) ==
  \A p, q \in DOMAIN ix.link :
    ix.link[p].fwd = q /\ ix.link[q].back = p => InOrder(ix, p, q)

\* The list in the root's slot: the root is a free block; the items of the list, if
\* there are any, are the row that begins with it, whatever the last one leads to.
\* (That the items are one row: no set of them is closed under prev_block without
\* the first.)
RootRow(ix) ==
  LET items == Listed(ix, Root)
      root  == ix.free[Root]
  IN /\ Rooted(ix)
     /\ root \in items => ix.link[root].back = Null
     /\ \A p \in items \ {root} :
          ix.link[p].back \in items /\ ix.link[ix.link[p].back].fwd = p
     /\ \A T \in SUBSET items :
          T # {} /\ (\A p \in T \ {root} : ix.link[p].back \in T) => root \in T

\* What every insertion and removal keeps, while no stale link is followed.  The
\* lists are exact; of the tree little can be said, as the list that shares its
\* slot takes it apart: what is left of the order is between neighbours.
Sound(ix) ==
  /\ Shape(ix)
  /\ RowsExact(ix)
  /\ ChildrenBelow(ix)
  /\ Sorted(ix)
  /\ RootRow(ix)

LEMMA Slots ==
  /\ ListCount \in Nat /\ ListCount >= 1 /\ Root = ListCount /\ Overhead = 2
  /\ ListCount = ListMax - 3 /\ ListMax \in Nat /\ ListMax > 3
  /\ Null = 0 /\ Junk = -1 /\ Lost = -2
  /\ \A size \in Nat : size >= Overhead /\ size < ListMax =>
       SizeIdx(size) = size - 2 /\ SizeIdx(size) \in 0 .. ListCount
  /\ \A size \in Nat : size > ListMax => SizeIdx(size) = -1
BY HeapNumbers, HeapShape DEF ListCount, Root, Overhead, Null, Junk, Lost, SizeIdx

\* The neighbours of an item of a list are in the same list, and lead back.
LEMMA LowLinks ==
  ASSUME NEW ix, Sound(ix), NEW p \in DOMAIN ix.link, ix.link[p].size < ListMax - 1
  PROVE  LET i == SizeIdx(ix.link[p].size)
             n == ix.link[p]
         IN /\ i \in 0 .. ListCount - 1 /\ n.size = i + Overhead
            /\ n.fwd # Null => /\ n.fwd \in DOMAIN ix.link /\ ix.link[n.fwd].size = n.size
                               /\ ix.link[n.fwd].back = p
            /\ n.back # Null => /\ n.back \in DOMAIN ix.link /\ ix.link[n.back].size = n.size
                                /\ ix.link[n.back].fwd = p
            /\ n.back = Null => ix.free[i] = p
<1> DEFINE n == ix.link[p]
           i == n.size - 2
<1>1. n \in NodeSet /\ n.size \in Nat /\ n.size >= 2
  BY Slots DEF Sound, Shape, NodeSet, Addresses
<1>2. i \in 0 .. ListCount - 1 /\ SizeIdx(n.size) = i /\ n.size = i + Overhead
  BY <1>1, Slots
<1>3. PICK last \in Nat : \E row \in [1 .. last -> Listed(ix, i)] : RowOf(ix, i, row, last)
  <2> HIDE DEF i
  <2> QED
    BY <1>2 DEF Sound, RowsExact, RowExact
<1>4. PICK row \in [1 .. last -> Listed(ix, i)] : RowOf(ix, i, row, last)
  BY <1>3
<1>5. p \in Listed(ix, i)
  BY <1>2 DEF Listed
<1> HIDE DEF i
<1>6. PICK k \in 1 .. last : row[k] = p
  BY <1>4, <1>5 DEF RowOf
<1>7. /\ n.back = IF k = 1 THEN Null ELSE row[k - 1]
      /\ n.fwd = IF k = last THEN Null ELSE row[k + 1]
  BY <1>4, <1>6 DEF RowOf
<1>8. \A j \in 1 .. last : row[j] \in DOMAIN ix.link /\ ix.link[row[j]].size = n.size
  BY <1>2 DEF Listed
<1>9. ASSUME k # last
      PROVE  n.fwd \in DOMAIN ix.link /\ ix.link[n.fwd].size = n.size /\ ix.link[n.fwd].back = p
  <2>1. k + 1 \in 1 .. last /\ k + 1 # 1 /\ (k + 1) - 1 = k
    BY <1>9
  <2>2. ix.link[row[k + 1]].back = row[k]
    BY <1>4, <2>1 DEF RowOf
  <2> QED
    BY <1>6, <1>7, <1>8, <1>9, <2>1, <2>2
<1>10. ASSUME k # 1
       PROVE  n.back \in DOMAIN ix.link /\ ix.link[n.back].size = n.size /\ ix.link[n.back].fwd = p
  <2>1. k - 1 \in 1 .. last /\ k - 1 # last /\ (k - 1) + 1 = k
    BY <1>10
  <2>2. ix.link[row[k - 1]].fwd = row[k]
    BY <1>4, <2>1 DEF RowOf
  <2> QED
    BY <1>6, <1>7, <1>8, <1>10, <2>1, <2>2
<1>11. n.back = Null => k = 1
  BY <1>10, Slots DEF Sound, Shape
<1>12. k = 1 => ix.free[i] = p
  BY <1>4, <1>6 DEF RowOf
<1> QED
  BY <1>2, <1>7, <1>9, <1>10, <1>11, <1>12

\* What leads to an item of a list and is led back from there is in that list.
LEMMA LowNeighbours ==
  ASSUME NEW ix, Sound(ix), NEW p \in DOMAIN ix.link, NEW q \in DOMAIN ix.link,
         ix.link[q].size < ListMax - 1,
         \/ ix.link[p].fwd = q /\ ix.link[q].back = p
         \/ ix.link[p].back = q /\ ix.link[q].fwd = p
  PROVE  ix.link[p].size = ix.link[q].size
<1>1. p # 0 /\ q # 0
  BY DEF Sound, Shape
<1> QED
  BY <1>1, LowLinks, Slots

\* Neighbours of a long block are long, and children of none.
LEMMA LongNeighbours ==
  ASSUME NEW ix, Sound(ix), NEW p \in DOMAIN ix.link, NEW q \in DOMAIN ix.link,
         ix.link[p].size >= ListMax - 1,
         \/ ix.link[p].fwd = q /\ ix.link[q].back = p
         \/ ix.link[p].back = q /\ ix.link[q].fwd = p
  PROVE  /\ ix.link[q].size >= ListMax - 1
         /\ \A r \in DOMAIN ix.link : ix.link[r].child # q
<1>1. /\ p # 0 /\ q # 0 /\ q > 0 /\ ix.link[q].size \in Nat /\ ix.link[p].size \in Nat
  BY DEF Sound, Shape, NodeSet, Addresses
<1>2. ix.link[q].size >= ListMax - 1
  BY <1>1, LowNeighbours, Slots
<1>3. ASSUME NEW r \in DOMAIN ix.link, ix.link[r].child = q PROVE FALSE
  <2>1. ChildOf(ix, q, r)
    BY <1>1, <1>3, Slots DEF Sound, ChildrenBelow
  <2> QED
    BY <1>1, <2>1, Slots DEF ChildOf
<1> QED
  BY <1>2, <1>3

\* A list whose items keep their links is still exact.
LEMMA RowKept ==
  ASSUME NEW ix, NEW new, NEW i \in 0 .. ListCount - 1, RowExact(ix, i),
         Listed(new, i) = Listed(ix, i), new.free[i] = ix.free[i],
         \A p \in Listed(ix, i) : /\ new.link[p].back = ix.link[p].back
                                  /\ new.link[p].fwd = ix.link[p].fwd
  PROVE  RowExact(new, i)
<1>1. PICK last \in Nat : \E row \in [1 .. last -> Listed(ix, i)] : RowOf(ix, i, row, last)
  BY DEF RowExact
<1>2. PICK row \in [1 .. last -> Listed(ix, i)] : RowOf(ix, i, row, last)
  BY <1>1
<1>3. \A k \in 1 .. last : row[k] \in Listed(ix, i)
  OBVIOUS
<1>4. RowOf(new, i, row, last)
  BY <1>2, <1>3 DEF RowOf
<1> QED
  BY <1>4 DEF RowExact

\* Behind a root that is no item of its slot's list there are no such items.
LEMMA NoItems ==
  ASSUME NEW ix, RootRow(ix), ix.free[Root] \notin Listed(ix, Root)
  PROVE  Listed(ix, Root) = {}
<1> DEFINE items == Listed(ix, Root)
<1>1. \A p \in items \ {ix.free[Root]} : ix.link[p].back \in items
  BY DEF RootRow
<1>2. items \in SUBSET items
  OBVIOUS
<1>3. items # {} => ix.free[Root] \in items
  BY <1>1, <1>2 DEF RootRow
<1> QED
  BY <1>3

\* The list in the root's slot stays as it is when its items keep their links.
LEMMA RootRowKept ==
  ASSUME NEW ix, NEW new, RootRow(ix), Rooted(new),
         Listed(new, Root) = Listed(ix, Root),
         new.free[Root] = ix.free[Root] \/ Listed(ix, Root) = {},
         \A p \in Listed(ix, Root) :
           /\ new.link[p].back = ix.link[p].back
           /\ ix.link[p].fwd \in Listed(ix, Root) => new.link[p].fwd = ix.link[p].fwd
  PROVE  RootRow(new)
<1>1. CASE Listed(ix, Root) = {}
  BY <1>1 DEF RootRow
<1>2. CASE new.free[Root] = ix.free[Root]
  BY <1>2 DEF RootRow
<1> QED
  BY <1>1, <1>2

-----------------------------------------------------------------------------
(* Insertion and removal, link by link *)

Fields == {"size", "back", "fwd", "child", "parent"}

\* One link of one block is changed, if p is a block.
Assigned(new, ix, p, field, v) ==
  /\ Shape(new)
  /\ new.free = ix.free /\ new.ok = ix.ok
  /\ DOMAIN new.link = DOMAIN ix.link
  /\ \A q \in DOMAIN ix.link, f \in Fields :
       new.link[q][f] = IF q = p /\ f = field THEN v ELSE ix.link[q][f]

\* An assignment to one link.
LEMMA Stored ==
  ASSUME NEW ix, Shape(ix), NEW p \in DOMAIN ix.link, NEW v \in Addresses,
         NEW field \in {"back", "fwd", "child", "parent"}
  PROVE  Assigned(Store(ix, p, field, v), ix, p, field, v)
<1> DEFINE D == DOMAIN ix.link
           new == Store(ix, p, field, v)
           links == [ix.link EXCEPT ![p][field] = v]
<1>1. new = [free |-> ix.free, link |-> links, ok |-> ix.ok]
  <2>1. ASSUME NEW heads, NEW l, NEW ok
        PROVE  [[free |-> heads, link |-> l, ok |-> ok] EXCEPT !.link[p][field] = v]
                 = [free |-> heads, link |-> [l EXCEPT ![p][field] = v], ok |-> ok]
    OBVIOUS
  <2>2. ix = [free |-> ix.free, link |-> ix.link, ok |-> ix.ok]
    BY DEF Shape
  <2> DEFINE heads == ix.free
             l == ix.link
             ok == ix.ok
  <2>3. ix = [free |-> heads, link |-> l, ok |-> ok]
    BY <2>2
  <2> HIDE DEF heads, l, ok
  <2>4. Store(ix, p, field, v) = [free |-> heads, link |-> [l EXCEPT ![p][field] = v], ok |-> ok]
    BY <2>1, <2>3 DEF Store
  <2> QED
    BY <2>4 DEF heads, l, ok
<1>2. links \in [D -> NodeSet]
  BY DEF Shape, NodeSet, Addresses
<1>3. \A q \in D, f \in Fields : links[q][f] = IF q = p /\ f = field THEN v ELSE ix.link[q][f]
  BY DEF Shape, NodeSet, Addresses, Fields
<1>4. \A q \in D : links[q].size = ix.link[q].size
  BY <1>3 DEF Fields
<1> HIDE DEF links
<1>5. DOMAIN new.link = D
  BY <1>1, <1>2
<1>6. Shape(new)
  BY <1>1, <1>2, <1>4, <1>5 DEF Shape
<1> QED
  BY <1>1, <1>3, <1>5, <1>6 DEF Assigned

\* The same, guarded by a test of the pointer.
LEMMA StoredIf ==
  ASSUME NEW ix, Shape(ix), NEW p \in DOMAIN ix.link \union {Null}, NEW v \in Addresses,
         NEW field \in {"back", "fwd", "child", "parent"}
  PROVE  Assigned(StoreIf(ix, p, field, v), ix, p, field, v)
<1>1. CASE p = Null
  <2>1. StoreIf(ix, p, field, v) = ix
    BY <1>1 DEF StoreIf
  <2>2. \A q \in DOMAIN ix.link : q # p
    BY <1>1, Slots DEF Shape
  <2> QED
    BY <2>1, <2>2 DEF Assigned
<1>2. CASE p # Null
  BY <1>2, Stored DEF StoreIf
<1> QED
  BY <1>1, <1>2

\* A new block.
LEMMA Added ==
  ASSUME NEW ix, Shape(ix), NEW p \in Nat \ {0}, p \notin DOMAIN ix.link,
         NEW node \in NodeSet, node.size >= Overhead, node.size # ListMax
  PROVE  LET new == With(ix, p, node)
         IN /\ Shape(new)
            /\ new.free = ix.free /\ new.ok = ix.ok
            /\ DOMAIN new.link = DOMAIN ix.link \union {p}
            /\ new.link[p] = node
            /\ \A q \in DOMAIN ix.link : new.link[q] = ix.link[q]
<1> DEFINE D == DOMAIN ix.link
           new == With(ix, p, node)
           links == [q \in D \union {p} |-> IF q = p THEN node ELSE ix.link[q]]
<1>1. new = [free |-> ix.free, link |-> links, ok |-> ix.ok]
  BY DEF With, Shape
<1>2. links \in [D \union {p} -> NodeSet] /\ links[p] = node /\ \A q \in D : links[q] = ix.link[q]
  BY DEF Shape
<1>3. IsFiniteSet(D \union {p})
  BY FS_AddElement DEF Shape
<1> HIDE DEF links
<1>4. DOMAIN new.link = D \union {p}
  BY <1>1, <1>2
<1>5. Shape(new)
  BY <1>1, <1>2, <1>3, <1>4 DEF Shape
<1> QED
  BY <1>1, <1>2, <1>4, <1>5

\* A block that is taken out.
LEMMA Dropped ==
  ASSUME NEW ix, Shape(ix), NEW p \in DOMAIN ix.link
  PROVE  LET new == Drop(ix, p)
         IN /\ Shape(new)
            /\ new.free = ix.free /\ new.ok = ix.ok
            /\ DOMAIN new.link = DOMAIN ix.link \ {p}
            /\ \A q \in DOMAIN new.link : new.link[q] = ix.link[q]
<1> DEFINE D == DOMAIN ix.link
           new == Drop(ix, p)
           links == [q \in D \ {p} |-> ix.link[q]]
<1>1. new = [free |-> ix.free, link |-> links, ok |-> ix.ok]
  BY DEF Drop, Shape
<1>2. links \in [D \ {p} -> NodeSet] /\ \A q \in D \ {p} : links[q] = ix.link[q]
  BY DEF Shape
<1>3. IsFiniteSet(D \ {p})
  BY FS_RemoveElement DEF Shape
<1> HIDE DEF links
<1>4. DOMAIN new.link = D \ {p}
  BY <1>1, <1>2
<1>5. Shape(new)
  BY <1>1, <1>2, <1>3, <1>4 DEF Shape
<1> QED
  BY <1>1, <1>2, <1>4, <1>5

\* The slot has a new head.
HeadedAs(new, ix, slot, p) ==
  /\ Shape(new)
  /\ new.link = ix.link /\ new.ok = ix.ok
  /\ new.free[slot] = p
  /\ \A i \in 0 .. ListCount : i # slot => new.free[i] = ix.free[i]

LEMMA Headed ==
  ASSUME NEW ix, Shape(ix), NEW slot \in DOMAIN ix.free,
         NEW p \in DOMAIN ix.link \union {Null}
  PROVE  HeadedAs(SetHead(ix, slot, p), ix, slot, p)
<1> DEFINE new == SetHead(ix, slot, p)
           heads == [ix.free EXCEPT ![slot] = p]
<1>1. new = [free |-> heads, link |-> ix.link, ok |-> ix.ok]
  BY DEF SetHead, Shape
<1>2. p \in Nat
  BY Slots DEF Shape
<1>3. /\ heads \in [0 .. ListCount -> Nat] /\ heads[slot] = p
      /\ \A i \in 0 .. ListCount : i # slot => heads[i] = ix.free[i]
  BY <1>2 DEF Shape
<1> HIDE DEF heads
<1>4. new.free = heads /\ new.link = ix.link /\ new.ok = ix.ok
  BY <1>1
<1>5. Shape(new)
  BY <1>1, <1>3, <1>4 DEF Shape
<1> QED
  BY <1>3, <1>4, <1>5 DEF HeadedAs

\* heap_insert into a list.
LEMMA ListInsertLinks ==
  ASSUME NEW ix, Shape(ix), NEW p \in Nat \ {0}, p \notin DOMAIN ix.link,
         NEW size \in Nat, size >= Overhead, size < ListMax, NEW rest \in {Null, Junk},
         ix.free[SizeIdx(size)] \in DOMAIN ix.link \union {Null}
  PROVE  LET new  == ListInsert(ix, p, size, rest)
             slot == SizeIdx(size)
             head == ix.free[slot]
         IN /\ Shape(new) /\ new.ok = ix.ok
            /\ new.free[slot] = p
            /\ \A i \in 0 .. ListCount : i # slot => new.free[i] = ix.free[i]
            /\ DOMAIN new.link = DOMAIN ix.link \union {p}
            /\ new.link[p].size = size /\ new.link[p].back = Null /\ new.link[p].fwd = head
            /\ new.link[p].child \in {Null, Junk}
            /\ \A q \in DOMAIN ix.link :
                 /\ new.link[q].size = ix.link[q].size
                 /\ new.link[q].back = IF q = head THEN p ELSE ix.link[q].back
                 /\ new.link[q].fwd = ix.link[q].fwd
                 /\ new.link[q].child = ix.link[q].child
                 /\ new.link[q].parent = ix.link[q].parent
<1> DEFINE D    == DOMAIN ix.link
           slot == SizeIdx(size)
           head == ix.free[slot]
           past == IF size >= ListMax - 1 THEN rest ELSE Junk
           node == Node(size, Null, head, past, past)
           a    == With(ix, p, node)
           b    == StoreIf(a, head, "back", p)
           new  == SetHead(b, slot, p)
<1>1. slot \in 0 .. ListCount /\ head \in Nat
  BY Slots DEF Shape
<1>2. past \in {Null, Junk} /\ Null \in Addresses /\ Junk \in Addresses
  BY Slots DEF Addresses
<1>3. ListInsert(ix, p, size, rest) = new
  BY DEF ListInsert
<1> HIDE DEF slot, past
<1>4. node \in NodeSet /\ node.size = size /\ node.back = Null /\ node.fwd = head /\ node.child = past
  <2> HIDE DEF head
  <2> QED
    BY <1>1, <1>2 DEF Node, NodeSet, Addresses
<1>5. node.size >= Overhead /\ node.size # ListMax
  BY <1>4, Slots
<1> HIDE DEF node, head
<1>6. /\ Shape(a) /\ a.free = ix.free /\ a.ok = ix.ok
      /\ DOMAIN a.link = D \union {p} /\ a.link[p] = node
      /\ \A q \in D : a.link[q] = ix.link[q]
  BY <1>4, <1>5, Added
<1> HIDE DEF a
<1>7. head \in DOMAIN a.link \union {Null} /\ head # p
  BY <1>6, Slots DEF head, slot
<1>8. /\ Shape(b) /\ b.free = a.free /\ b.ok = a.ok /\ DOMAIN b.link = DOMAIN a.link
      /\ \A q \in DOMAIN a.link, f \in Fields :
           b.link[q][f] = IF q = head /\ f = "back" THEN p ELSE a.link[q][f]
  <2>1. p \in Addresses
    BY DEF Addresses
  <2> QED
    BY <1>6, <1>7, <2>1, StoredIf DEF Assigned
<1> HIDE DEF b
<1>9. /\ Shape(new) /\ new.link = b.link /\ new.ok = b.ok /\ new.free[slot] = p
      /\ \A i \in 0 .. ListCount : i # slot => new.free[i] = b.free[i]
  <2>1. Shape(b) /\ p \in DOMAIN b.link \union {Null} /\ slot \in DOMAIN b.free
    BY <1>1, <1>6, <1>8 DEF Shape
  <2> QED
    BY <2>1, Headed DEF HeadedAs
<1> HIDE DEF new
<1>10. \A q \in DOMAIN a.link :
         /\ new.link[q].size = a.link[q].size
         /\ new.link[q].back = IF q = head THEN p ELSE a.link[q].back
         /\ new.link[q].fwd = a.link[q].fwd
         /\ new.link[q].child = a.link[q].child
         /\ new.link[q].parent = a.link[q].parent
  BY <1>8, <1>9 DEF Fields
<1> QED
  BY <1>2, <1>3, <1>4, <1>6, <1>7, <1>8, <1>9, <1>10 DEF slot, head

\* What an insertion does to the index, apart from its order.
Inserted(new, ix, p, size) ==
  /\ Sound(new) /\ new.ok = ix.ok
  /\ DOMAIN new.link = DOMAIN ix.link \union {p}
  /\ new.link[p].size = size
  /\ \A q \in DOMAIN ix.link : new.link[q].size = ix.link[q].size

LEMMA ListInsertSound ==
  ASSUME NEW ix, Sound(ix), NEW p \in Nat \ {0}, p \notin DOMAIN ix.link,
         NEW size \in Nat, size >= Overhead, size < ListMax, NEW rest \in {Null, Junk},
         size < ListMax - 1 \/ Rooted(ix)
  PROVE  Inserted(ListInsert(ix, p, size, rest), ix, p, size)
<1> DEFINE D    == DOMAIN ix.link
           slot == SizeIdx(size)
           head == ix.free[slot]
           new  == ListInsert(ix, p, size, rest)
<1>1. slot = size - 2 /\ slot \in 0 .. ListCount /\ (slot = ListCount <=> size = ListMax - 1)
  BY Slots
<1>2. Shape(ix) /\ D \in SUBSET (Nat \ {0}) /\ ix.link \in [D -> NodeSet]
  BY DEF Sound, Shape
<1>3. head = Null \/ (head \in D /\ ix.link[head].size >= ListMax - 1 /\ slot = ListCount)
                  \/ (head \in D /\ ix.link[head].size = size /\ slot < ListCount /\ ix.link[head].back = Null)
  <2>1. CASE slot = ListCount
    BY <1>1, <2>1, Slots DEF Rooted, IsNode
  <2>2. CASE slot # ListCount
    <3> HIDE DEF slot
    <3>1. slot \in 0 .. ListCount - 1 /\ slot < ListCount /\ size = slot + Overhead
      BY <1>1, <2>2, Slots
    <3>2. PICK last \in Nat : \E row \in [1 .. last -> Listed(ix, slot)] : RowOf(ix, slot, row, last)
      BY <3>1 DEF Sound, RowsExact, RowExact
    <3>3. PICK row \in [1 .. last -> Listed(ix, slot)] : RowOf(ix, slot, row, last)
      BY <3>2
    <3>4. last # 0 => 1 \in 1 .. last
      BY <3>2
    <3>5. last # 0 => row[1] \in Listed(ix, slot) /\ ix.link[row[1]].back = Null
      BY <3>3, <3>4 DEF RowOf
    <3>6. head = IF last = 0 THEN Null ELSE row[1]
      BY <3>3 DEF RowOf, slot
    <3> HIDE DEF head
    <3> QED
      BY <3>1, <3>5, <3>6 DEF Listed
  <2> QED
    BY <2>1, <2>2
<1> DEFINE Links ==
         /\ Shape(new) /\ new.ok = ix.ok
         /\ new.free[slot] = p
         /\ \A i \in 0 .. ListCount : i # slot => new.free[i] = ix.free[i]
         /\ DOMAIN new.link = D \union {p}
         /\ new.link[p].size = size /\ new.link[p].back = Null /\ new.link[p].fwd = head
         /\ new.link[p].child \in {Null, Junk}
         /\ \A q \in D :
              /\ new.link[q].size = ix.link[q].size
              /\ new.link[q].back = IF q = head THEN p ELSE ix.link[q].back
              /\ new.link[q].fwd = ix.link[q].fwd
              /\ new.link[q].child = ix.link[q].child
              /\ new.link[q].parent = ix.link[q].parent
<1>4. Links
  BY <1>2, <1>3, ListInsertLinks
<1> HIDE DEF new, slot, head
<1>5. RowsExact(new)
  <2> SUFFICES ASSUME NEW i \in 0 .. ListCount - 1 PROVE RowExact(new, i)
    BY DEF RowsExact
  <2>1. RowExact(ix, i)
    BY DEF Sound, RowsExact
  <2>2. CASE i # slot
    <3>1. Listed(new, i) = Listed(ix, i)
      <4>1. new.link[p].size # i + Overhead
        BY <1>1, <1>4, <2>2, Slots
      <4> QED
        BY <1>4, <4>1 DEF Listed
    <3>2. \A q \in Listed(ix, i) : q \in D /\ q # head
      BY <1>1, <1>2, <1>3, <2>2, Slots DEF Listed
    <3>3. new.free[i] = ix.free[i]
      BY <1>4, <2>2, Slots
    <3> QED
      BY <1>4, <2>1, <3>1, <3>2, <3>3, RowKept
  <2>3. CASE i = slot
    <3>1. PICK last \in Nat : \E row \in [1 .. last -> Listed(ix, i)] : RowOf(ix, i, row, last)
      BY <2>1 DEF RowExact
    <3>2. PICK row \in [1 .. last -> Listed(ix, i)] : RowOf(ix, i, row, last)
      BY <3>1
    <3> DEFINE push == [k \in 1 .. last + 1 |-> IF k = 1 THEN p ELSE row[k - 1]]
    <3>3. Listed(new, i) = Listed(ix, i) \union {p}
      <4>1. new.link[p].size = i + Overhead
        BY <1>1, <1>4, <2>3, Slots
      <4> QED
        BY <1>4, <4>1 DEF Listed
    <3>4. \A k \in 1 .. last : row[k] \in Listed(ix, i) /\ row[k] \in D /\ row[k] # p
      BY DEF Listed
    <3>5. push[1] = p /\ \A k \in 1 .. last : push[k + 1] = row[k]
      BY <3>2
    <3>6. \A k \in 1 .. last + 1 : k = 1 \/ (k - 1 \in 1 .. last /\ push[k] = row[k - 1])
      OBVIOUS
    <3>7. push \in [1 .. last + 1 -> Listed(new, i)]
      BY <3>3, <3>4
    <3>8. head = IF last = 0 THEN Null ELSE row[1]
      BY <2>3, <3>2 DEF RowOf, head
    <3> HIDE DEF push
    <3>9. ASSUME NEW k \in 1 .. last + 1
          PROVE  /\ new.link[push[k]].back = IF k = 1 THEN Null ELSE push[k - 1]
                 /\ new.link[push[k]].fwd = IF k = last + 1 THEN Null ELSE push[k + 1]
      <4>1. CASE k = 1
        <5>1. last # 0 => push[2] = row[1]
          BY <3>5
        <5> QED
          BY <1>4, <3>5, <3>8, <4>1, <5>1
      <4>2. CASE k # 1
        <5>1. k - 1 \in 1 .. last /\ push[k] = row[k - 1]
          BY <3>6, <4>2
        <5>2. /\ ix.link[row[k - 1]].back = IF k - 1 = 1 THEN Null ELSE row[(k - 1) - 1]
              /\ ix.link[row[k - 1]].fwd = IF k - 1 = last THEN Null ELSE row[(k - 1) + 1]
          BY <3>2, <5>1 DEF RowOf
        <5>3. k - 1 = 1 => push[k] = head /\ push[k - 1] = p
          BY <3>5, <3>8, <5>1
        <5>4. k - 1 # 1 => push[k] # head /\ push[k - 1] = row[(k - 1) - 1]
          <6>1. k - 1 # 1 => (k - 1) - 1 \in 1 .. last /\ 1 \in 1 .. last /\ last # 0
            BY <5>1
          <6>2. k - 1 # 1 => row[k - 1] # row[1]
            BY <3>2, <5>1, <6>1 DEF RowOf
          <6>3. k - 1 # 1 => push[((k - 1) - 1) + 1] = row[(k - 1) - 1]
            BY <3>5, <6>1
          <6> QED
            BY <3>8, <5>1, <6>1, <6>2, <6>3
        <5>5. k # last + 1 => push[k + 1] = row[(k - 1) + 1]
          <6>1. k # last + 1 => k \in 1 .. last
            BY <5>1
          <6> QED
            BY <3>5, <6>1
        <5>6. new.link[push[k]].back = IF push[k] = head THEN p ELSE ix.link[push[k]].back
          BY <1>4, <3>4, <5>1
        <5>7. new.link[push[k]].fwd = ix.link[push[k]].fwd
          BY <1>4, <3>4, <5>1
        <5> QED
          BY <4>2, <5>1, <5>2, <5>3, <5>4, <5>5, <5>6, <5>7
      <4> QED
        BY <4>1, <4>2
    <3>10. \A q \in Listed(new, i) : \E k \in 1 .. last + 1 : push[k] = q
      <4> TAKE q \in Listed(new, i)
      <4>1. CASE q = p
        BY <3>5, <4>1
      <4>2. CASE q # p
        <5>1. PICK k \in 1 .. last : row[k] = q
          BY <3>2, <3>3, <4>2 DEF RowOf
        <5>2. k + 1 \in 1 .. last + 1 /\ push[k + 1] = q
          BY <3>5, <5>1
        <5> QED
          BY <5>2
      <4> QED
        BY <4>1, <4>2
    <3>11. \A j, k \in 1 .. last + 1 : push[j] = push[k] => j = k
      <4> SUFFICES ASSUME NEW j \in 1 .. last + 1, NEW k \in 1 .. last + 1, push[j] = push[k]
                   PROVE  j = k
        OBVIOUS
      <4>1. CASE j # 1 /\ k # 1
        <5>1. j - 1 = k - 1
          BY <3>2, <3>6, <4>1 DEF RowOf
        <5> QED
          BY <5>1
      <4>2. CASE j = 1 \/ k = 1
        BY <3>4, <3>5, <3>6, <4>2
      <4> QED
        BY <4>1, <4>2
    <3>12. new.free[i] = IF last + 1 = 0 THEN Null ELSE push[1]
      BY <1>4, <2>3, <3>5
    <3>13. last + 1 \in Nat
      OBVIOUS
    <3>14. RowOf(new, i, push, last + 1)
      BY <3>9, <3>10, <3>11, <3>12 DEF RowOf
    <3> QED
      BY <3>7, <3>13, <3>14 DEF RowExact
  <2> QED
    BY <2>2, <2>3
<1>6. ChildrenBelow(new)
  <2>1. \A q \in D : ix.link[q].size < ListMax => ix.link[q].child \in {Null, Junk}
    BY DEF Sound, ChildrenBelow
  <2>2. ASSUME NEW q \in D, ~(ix.link[q].size < ListMax), ix.link[q].child # Null
        PROVE  ChildOf(new, new.link[q].child, q)
    <3> DEFINE c == ix.link[q].child
    <3>1. ChildOf(ix, c, q)
      BY <2>2 DEF Sound, ChildrenBelow
    <3>2. c \in D /\ c # head
      BY <1>1, <1>2, <1>3, <2>2, <3>1, Slots DEF ChildOf, IsNode, head
    <3>3. new.free[Root] = ix.free[Root] \/ new.free[Root] = p
      BY <1>4, Slots
    <3>4. new.link[q].child = c
      BY <1>4
    <3> HIDE DEF c
    <3> QED
      BY <1>4, <3>1, <3>2, <3>3, <3>4 DEF ChildOf, IsNode
  <2>3. \A q \in DOMAIN new.link : q \in D \/ q = p
    BY <1>4
  <2>4. p \notin D
    OBVIOUS
  <2> QED
    BY <1>4, <2>1, <2>2, <2>3 DEF ChildrenBelow
<1>7. Sorted(new)
  <2> SUFFICES ASSUME NEW a \in DOMAIN new.link, NEW b \in DOMAIN new.link,
                      new.link[a].fwd = b, new.link[b].back = a
               PROVE  InOrder(new, a, b)
    BY DEF Sorted
  <2>1. CASE a = p
    <3>1. b = head /\ b # 0
      BY <1>2, <1>4, <2>1, Slots
    <3>2. b \in D
      BY <1>3, <3>1, Slots
    <3>3. ix.link[b].size \in Nat /\ size <= ix.link[b].size
      BY <1>1, <1>2, <1>3, <3>1, <3>2, Slots DEF NodeSet, Addresses
    <3> QED
      BY <1>4, <2>1, <3>2, <3>3 DEF InOrder
  <2>2. CASE a # p
    <3>1. a \in D /\ a # 0
      BY <1>2, <1>4, <2>2
    <3>2. b # p
      BY <1>4, <3>1, Slots
    <3>3. b \in D
      BY <1>4, <3>2
    <3>4. ix.link[a].fwd = b /\ ix.link[b].back = a
      BY <1>4, <2>2, <3>1, <3>3
    <3> QED
      BY <1>4, <3>1, <3>3, <3>4 DEF Sound, Sorted, InOrder
  <2> QED
    BY <2>1, <2>2
<1>8. /\ Shape(new) /\ DOMAIN new.link = D \union {p} /\ new.link[p].size = size
      /\ \A q \in D : new.link[q].size = ix.link[q].size
  BY <1>4
<1>10. RootRow(new)
  <2> DEFINE items == Listed(ix, Root)
  <2>1. RootRow(ix) /\ Rooted(ix)
    BY DEF Sound, RootRow
  <2>2. \A q \in items : q \in D /\ q # p /\ q # Null /\ ix.link[q].size = ListMax - 1
    BY <1>2, Slots DEF Listed
  <2>3. CASE size < ListMax - 1
    <3>1. Listed(new, Root) = items
      BY <1>4, <2>3, Slots DEF Listed
    <3>2. new.free[Root] = ix.free[Root]
      BY <1>1, <1>4, <2>3, Slots
    <3>3. \A q \in items : q # head
      BY <1>1, <1>3, <2>2, <2>3
    <3>4. Rooted(new)
      BY <1>4, <2>1, <3>2 DEF Rooted, IsNode
    <3> QED
      BY <1>4, <2>1, <2>2, <3>1, <3>2, <3>3, <3>4, RootRowKept
  <2>4. CASE size = ListMax - 1
    <3>1. Listed(new, Root) = items \union {p}
      BY <1>4, <2>4, Slots DEF Listed
    <3>2. head = ix.free[Root] /\ new.free[Root] = p
      BY <1>1, <1>4, <2>4, Slots DEF head
    <3>3. Rooted(new)
      BY <1>4, <2>4, <3>2, Slots DEF Rooted, IsNode
    <3>4. ASSUME NEW q \in items
          PROVE  new.link[q].back \in items \union {p} /\ new.link[new.link[q].back].fwd = q
      <4>1. CASE q = head
        BY <1>4, <2>2, <4>1
      <4>2. CASE q # head
        <5>1. ix.link[q].back \in items /\ ix.link[ix.link[q].back].fwd = q
          BY <2>1, <3>2, <4>2 DEF RootRow
        <5> QED
          BY <1>4, <2>2, <4>2, <5>1
      <4> QED
        BY <4>1, <4>2
    <3>5. ASSUME NEW T \in SUBSET (items \union {p}), T # {},
                 \A q \in T \ {p} : new.link[q].back \in T, p \notin T
          PROVE  FALSE
      <4>1. T \in SUBSET items
        BY <3>5
      <4>2. \A q \in T \ {head} : ix.link[q].back \in T
        BY <1>4, <2>2, <3>5, <4>1
      <4>3. head \in T
        BY <2>1, <3>2, <3>5, <4>1, <4>2 DEF RootRow
      <4> QED
        BY <1>4, <2>2, <3>5, <4>1, <4>3
    <3> HIDE DEF items
    <3> QED
      BY <1>4, <3>1, <3>2, <3>3, <3>4, <3>5 DEF RootRow
  <2> QED
    BY <1>1, <2>3, <2>4, Slots
<1>9. Sound(new)
  BY <1>5, <1>6, <1>7, <1>8, <1>10 DEF Sound
<1> QED
  BY <1>4, <1>8, <1>9 DEF Inserted, new

\* What a removal does to the index, apart from its order.
Removed(new, ix, p) ==
  /\ Sound(new) /\ new.ok = ix.ok
  /\ DOMAIN new.link = DOMAIN ix.link \ {p}
  /\ \A q \in DOMAIN new.link : new.link[q].size = ix.link[q].size

\* The links of a block that LinkedBack lets be removed.
LEMMA LinkedNeighbours ==
  ASSUME NEW ix, Shape(ix), NEW p \in DOMAIN ix.link, LinkedBack(ix, p)
  PROVE  LET n == ix.link[p] IN
         /\ n.fwd = Null \/ (n.fwd \in DOMAIN ix.link /\ n.fwd # p /\ ix.link[n.fwd].back = p)
         /\ n.back = Null \/ (n.back \in DOMAIN ix.link /\ n.back # p /\ ix.link[n.back].fwd = p)
         /\ n.size > ListMax =>
              /\ n.child = Null \/ (n.child \in DOMAIN ix.link /\ n.child # p /\ ix.link[n.child].parent = p)
              /\ n.parent = Null \/ (n.parent \in DOMAIN ix.link /\ n.parent # p /\ ix.link[n.parent].child = p)
<1> DEFINE n == ix.link[p]
<1>1. n \in NodeSet /\ n.size \in Nat
  BY DEF Shape, NodeSet, Addresses
<1>2. n.size > ListMax => SizeIdx(n.size) < 0
  BY <1>1, Slots
<1> QED
  BY <1>2 DEF LinkedBack, Led, IsNode

\* heap_remove from a list.
LEMMA ListRemoveLinks ==
  ASSUME NEW ix, Shape(ix), NEW p \in DOMAIN ix.link, ix.link[p].size < ListMax,
         ix.link[p].fwd \in DOMAIN ix.link \union {Null},
         ix.link[p].back \in DOMAIN ix.link \union {Null}
  PROVE  LET new  == ListRemove(ix, p)
             n    == ix.link[p]
             slot == SizeIdx(n.size)
         IN /\ Shape(new) /\ new.ok = ix.ok
            /\ new.free[slot] = IF n.back = Null THEN n.fwd ELSE ix.free[slot]
            /\ \A i \in 0 .. ListCount : i # slot => new.free[i] = ix.free[i]
            /\ DOMAIN new.link = DOMAIN ix.link \ {p}
            /\ \A q \in DOMAIN new.link :
                 /\ new.link[q].size = ix.link[q].size
                 /\ new.link[q].back = IF q = n.fwd THEN n.back ELSE ix.link[q].back
                 /\ new.link[q].fwd = IF q = n.back THEN n.fwd ELSE ix.link[q].fwd
                 /\ new.link[q].child = ix.link[q].child
                 /\ new.link[q].parent = ix.link[q].parent
<1> DEFINE D    == DOMAIN ix.link
           n    == ix.link[p]
           slot == SizeIdx(n.size)
           a    == StoreIf(ix, n.fwd, "back", n.back)
           b    == IF n.back = Null THEN SetHead(a, slot, n.fwd) ELSE Store(a, n.back, "fwd", n.fwd)
           new  == Drop(b, p)
<1>1. n \in NodeSet /\ n.size \in Nat /\ n.size >= Overhead /\ n.back \in Addresses /\ n.fwd \in Nat
  <2>1. n \in NodeSet /\ n.size >= Overhead
    BY DEF Shape
  <2>2. n.fwd \in Nat
    BY Slots DEF Shape
  <2> QED
    BY <2>1, <2>2 DEF NodeSet, Addresses
<1>2. slot \in 0 .. ListCount
  BY <1>1, Slots
<1>3. ListRemove(ix, p) = new
  BY DEF ListRemove
<1> HIDE DEF slot, n
<1>4. /\ Shape(a) /\ a.free = ix.free /\ a.ok = ix.ok /\ DOMAIN a.link = D
      /\ \A q \in D, f \in Fields :
           a.link[q][f] = IF q = n.fwd /\ f = "back" THEN n.back ELSE ix.link[q][f]
  <2>1. n.fwd \in DOMAIN ix.link \union {Null} /\ n.back \in Addresses /\ Shape(ix)
    BY <1>1 DEF n
  <2> DEFINE x == n.fwd
             y == n.back
  <2>2. x \in DOMAIN ix.link \union {Null} /\ y \in Addresses /\ a = StoreIf(ix, x, "back", y)
    BY <2>1
  <2> HIDE DEF a, x, y
  <2>3. /\ Shape(a) /\ a.free = ix.free /\ a.ok = ix.ok /\ DOMAIN a.link = DOMAIN ix.link
        /\ \A q \in DOMAIN ix.link, f \in Fields :
             a.link[q][f] = IF q = x /\ f = "back" THEN y ELSE ix.link[q][f]
    BY <2>2, StoredIf DEF Assigned
  <2> QED
    BY <2>3 DEF x, y
<1> HIDE DEF a
<1>5. /\ Shape(b) /\ b.ok = a.ok /\ DOMAIN b.link = D
      /\ b.free[slot] = IF n.back = Null THEN n.fwd ELSE a.free[slot]
      /\ \A i \in 0 .. ListCount : i # slot => b.free[i] = a.free[i]
      /\ \A q \in D, f \in Fields :
           b.link[q][f] = IF q = n.back /\ f = "fwd" THEN n.fwd ELSE a.link[q][f]
  <2>1. CASE n.back = Null
    <3>1. b = SetHead(a, slot, n.fwd)
      BY <2>1
    <3>2. \A q \in D : q # n.back
      BY <2>1, Slots DEF Shape
    <3>3. /\ Shape(SetHead(a, slot, n.fwd)) /\ SetHead(a, slot, n.fwd).link = a.link
          /\ SetHead(a, slot, n.fwd).ok = a.ok /\ SetHead(a, slot, n.fwd).free[slot] = n.fwd
          /\ \A i \in 0 .. ListCount : i # slot => SetHead(a, slot, n.fwd).free[i] = a.free[i]
      <4>1. Shape(a) /\ n.fwd \in DOMAIN a.link \union {Null} /\ slot \in DOMAIN a.free
        BY <1>2, <1>4 DEF Shape, n
      <4> QED
        BY <4>1, Headed DEF HeadedAs
    <3> HIDE DEF b
    <3> QED
      BY <1>4, <2>1, <3>1, <3>2, <3>3
  <2>2. CASE n.back # Null
    <3>1. b = Store(a, n.back, "fwd", n.fwd)
      BY <2>2
    <3>2. n.back \in DOMAIN a.link /\ n.fwd \in Addresses /\ Shape(a)
      BY <1>1, <1>4, <2>2 DEF n, Addresses
    <3> HIDE DEF b
    <3>3. /\ Shape(b) /\ b.free = a.free /\ b.ok = a.ok /\ DOMAIN b.link = DOMAIN a.link
          /\ \A q \in DOMAIN a.link, f \in Fields :
               b.link[q][f] = IF q = n.back /\ f = "fwd" THEN n.fwd ELSE a.link[q][f]
      BY <3>1, <3>2, Stored DEF Assigned
    <3> QED
      BY <1>4, <2>2, <3>3
  <2> QED
    BY <2>1, <2>2
<1> HIDE DEF b
<1>6. /\ Shape(new) /\ new.free = b.free /\ new.ok = b.ok
      /\ DOMAIN new.link = D \ {p}
      /\ \A q \in DOMAIN new.link : new.link[q] = b.link[q]
  BY <1>5, Dropped
<1> HIDE DEF new
<1>7. \A q \in D :
        /\ b.link[q].size = ix.link[q].size
        /\ b.link[q].back = IF q = n.fwd THEN n.back ELSE ix.link[q].back
        /\ b.link[q].fwd = IF q = n.back THEN n.fwd ELSE ix.link[q].fwd
        /\ b.link[q].child = ix.link[q].child
        /\ b.link[q].parent = ix.link[q].parent
  BY <1>4, <1>5 DEF Fields
<1>8. \A q \in DOMAIN new.link : q \in D
  BY <1>6
<1> QED
  BY <1>3, <1>4, <1>5, <1>6, <1>7, <1>8 DEF n, slot

LEMMA ListRemoveSound ==
  ASSUME NEW ix, Sound(ix), NEW p \in DOMAIN ix.link, ix.link[p].size < ListMax,
         LinkedBack(ix, p)
  PROVE  Removed(ListRemove(ix, p), ix, p)
<1> DEFINE D    == DOMAIN ix.link
           n    == ix.link[p]
           slot == SizeIdx(n.size)
           new  == ListRemove(ix, p)
<1>1. Shape(ix) /\ D \in SUBSET (Nat \ {0}) /\ ix.link \in [D -> NodeSet]
  BY DEF Sound, Shape
<1>2. n \in NodeSet /\ n.size \in Nat /\ n.size >= Overhead
  BY DEF Sound, Shape, NodeSet, Addresses
<1>3. slot = n.size - 2 /\ slot \in 0 .. ListCount /\ n.size = slot + Overhead
  BY <1>2, Slots
<1>4. /\ n.fwd = Null \/ (n.fwd \in D /\ ix.link[n.fwd].back = p)
      /\ n.back = Null \/ (n.back \in D /\ ix.link[n.back].fwd = p)
  BY <1>1, LinkedNeighbours
<1> DEFINE Links ==
         /\ Shape(new) /\ new.ok = ix.ok
         /\ new.free[slot] = IF n.back = Null THEN n.fwd ELSE ix.free[slot]
         /\ \A i \in 0 .. ListCount : i # slot => new.free[i] = ix.free[i]
         /\ DOMAIN new.link = D \ {p}
         /\ \A q \in DOMAIN new.link :
              /\ new.link[q].size = ix.link[q].size
              /\ new.link[q].back = IF q = n.fwd THEN n.back ELSE ix.link[q].back
              /\ new.link[q].fwd = IF q = n.back THEN n.fwd ELSE ix.link[q].fwd
              /\ new.link[q].child = ix.link[q].child
              /\ new.link[q].parent = ix.link[q].parent
<1>5. Links
  BY <1>1, <1>4, ListRemoveLinks
<1> HIDE DEF new, slot, n
<1>6. RowsExact(new)
  <2> SUFFICES ASSUME NEW i \in 0 .. ListCount - 1 PROVE RowExact(new, i)
    BY DEF RowsExact
  <2>1. RowExact(ix, i)
    BY DEF Sound, RowsExact
  <2>2. CASE i # slot
    <3>1. Listed(new, i) = Listed(ix, i)
      <4>1. p \notin Listed(ix, i)
        BY <1>3, <2>2, Slots DEF Listed, n
      <4> QED
        BY <1>5, <4>1 DEF Listed
    <3>2. \A q \in Listed(ix, i) : q \in DOMAIN new.link /\ q # n.fwd /\ q # n.back
      <4>1. TAKE q \in Listed(ix, i)
      <4>2. q \in D /\ ix.link[q].size = i + Overhead /\ ix.link[q].size < ListMax - 1
            /\ ix.link[q].size # n.size
        BY <1>3, <2>2, Slots DEF Listed
      <4>3. q # p
        BY <4>2 DEF n
      <4>4. q = n.fwd => ix.link[p].fwd = q /\ ix.link[q].back = p
        BY <1>1, <1>4, <4>2, Slots DEF n
      <4>5. q = n.back => ix.link[p].back = q /\ ix.link[q].fwd = p
        BY <1>1, <1>4, <4>2, Slots DEF n
      <4> QED
        BY <1>5, <4>2, <4>3, <4>4, <4>5, LowNeighbours DEF n
    <3>3. new.free[i] = ix.free[i]
      BY <1>5, <2>2, Slots
    <3> QED
      BY <1>5, <2>1, <3>1, <3>2, <3>3, RowKept
  <2>3. CASE i = slot
    <3>1. PICK last \in Nat : \E row \in [1 .. last -> Listed(ix, i)] : RowOf(ix, i, row, last)
      BY <2>1 DEF RowExact
    <3>2. PICK row \in [1 .. last -> Listed(ix, i)] : RowOf(ix, i, row, last)
      BY <3>1
    <3>3. p \in Listed(ix, i)
      BY <1>3, <2>3 DEF Listed, n
    <3>4. PICK j \in 1 .. last : row[j] = p
      BY <3>2, <3>3 DEF RowOf
    <3>5. /\ n.back = IF j = 1 THEN Null ELSE row[j - 1]
          /\ n.fwd = IF j = last THEN Null ELSE row[j + 1]
      BY <3>2, <3>4 DEF RowOf, n
    <3> DEFINE cut == [k \in 1 .. last - 1 |-> IF k < j THEN row[k] ELSE row[k + 1]]
    <3>6. \A k \in 1 .. last : /\ row[k] \in Listed(ix, i) /\ row[k] \in D /\ row[k] # Null
                               /\ row[k] = p <=> k = j
      BY <1>1, <3>2, <3>4, Slots DEF Listed, RowOf
    <3>7. Listed(new, i) = Listed(ix, i) \ {p}
      BY <1>5 DEF Listed
    <3>8. last - 1 \in Nat
      BY <3>4
    <3>9. \A k \in 1 .. last - 1 : /\ k < j => cut[k] = row[k] /\ k \in 1 .. last /\ k # j
                                   /\ ~(k < j) => cut[k] = row[k + 1] /\ k + 1 \in 1 .. last /\ k + 1 # j
      BY <3>4
    <3>10. cut \in [1 .. last - 1 -> Listed(new, i)]
      BY <3>6, <3>7, <3>9
    <3> HIDE DEF cut
    <3>11. \A k \in 1 .. last - 1 : cut[k] \in DOMAIN new.link
      BY <3>10 DEF Listed
    <3>12. \A k, m \in 1 .. last : row[k] = row[m] => k = m
      BY <3>2 DEF RowOf
    <3>13. \A k \in 1 .. last : /\ ix.link[row[k]].back = IF k = 1 THEN Null ELSE row[k - 1]
                                /\ ix.link[row[k]].fwd = IF k = last THEN Null ELSE row[k + 1]
      BY <3>2 DEF RowOf
    <3>14. \A k \in 1 .. last : /\ row[k] = n.fwd <=> k = j + 1
                                /\ row[k] = n.back <=> k = j - 1
      <4> TAKE k \in 1 .. last
      <4>1. j # last => j + 1 \in 1 .. last
        BY <3>4
      <4>2. j # 1 => j - 1 \in 1 .. last
        BY <3>4
      <4>3. (j = last => k # j + 1) /\ (j = 1 => k # j - 1)
        BY <3>4
      <4> QED
        BY <3>5, <3>6, <3>12, <4>1, <4>2, <4>3
    <3> DEFINE ItemLinks(k) ==
                 /\ new.link[row[k]].back = IF k = j + 1 THEN n.back
                                           ELSE IF k = 1 THEN Null ELSE row[k - 1]
                 /\ new.link[row[k]].fwd = IF k = j - 1 THEN n.fwd
                                          ELSE IF k = last THEN Null ELSE row[k + 1]
    <3>21. \A k \in 1 .. last : k # j => ItemLinks(k)
      <4> TAKE k \in 1 .. last
      <4> HAVE k # j
      <4>1. row[k] \in DOMAIN new.link
        BY <1>5, <3>6
      <4>2. /\ new.link[row[k]].back = IF row[k] = n.fwd THEN n.back ELSE ix.link[row[k]].back
            /\ new.link[row[k]].fwd = IF row[k] = n.back THEN n.fwd ELSE ix.link[row[k]].fwd
        BY <1>5, <4>1
      <4> QED
        BY <3>13, <3>14, <4>2
    <3> HIDE DEF ItemLinks
    <3>15. ASSUME NEW k \in 1 .. last - 1
           PROVE  new.link[cut[k]].back = IF k = 1 THEN Null ELSE cut[k - 1]
      <4>1. CASE k < j
        <5>1. cut[k] = row[k] /\ k \in 1 .. last /\ k # j + 1 /\ k # j
          BY <3>9, <4>1
        <5>2. new.link[cut[k]].back = IF k = 1 THEN Null ELSE row[k - 1]
          BY <3>21, <5>1 DEF ItemLinks
        <5>3. k # 1 => k - 1 \in 1 .. last - 1 /\ k - 1 < j
          BY <3>4, <4>1
        <5> QED
          BY <3>9, <5>2, <5>3
      <4>2. CASE k = j
        <5>1. cut[k] = row[j + 1] /\ j + 1 \in 1 .. last /\ j + 1 # j
          BY <3>9, <4>2
        <5>2. new.link[cut[k]].back = n.back
          BY <3>21, <5>1 DEF ItemLinks
        <5>3. k # 1 => k - 1 \in 1 .. last - 1 /\ k - 1 < j
          BY <3>4, <4>2
        <5> QED
          BY <3>5, <3>9, <4>2, <5>2, <5>3
      <4>3. CASE k > j
        <5>1. cut[k] = row[k + 1] /\ k + 1 \in 1 .. last /\ k + 1 # j + 1 /\ k + 1 # 1 /\ (k + 1) - 1 = k
              /\ k + 1 # j
          BY <3>4, <3>9, <4>3
        <5>2. new.link[cut[k]].back = row[k]
          BY <3>21, <5>1 DEF ItemLinks
        <5>3. k - 1 \in 1 .. last - 1 /\ ~(k - 1 < j) /\ (k - 1) + 1 = k /\ k # 1
          BY <3>4, <4>3
        <5> QED
          BY <3>9, <5>2, <5>3
      <4> QED
        BY <3>4, <4>1, <4>2, <4>3
    <3>16. ASSUME NEW k \in 1 .. last - 1
           PROVE  new.link[cut[k]].fwd = IF k = last - 1 THEN Null ELSE cut[k + 1]
      <4>1. CASE k < j - 1
        <5>1. cut[k] = row[k] /\ k \in 1 .. last /\ k # j - 1 /\ k # last /\ k # j
          BY <3>4, <3>9, <4>1
        <5>2. new.link[cut[k]].fwd = row[k + 1]
          BY <3>21, <5>1 DEF ItemLinks
        <5>3. k # last - 1 /\ k + 1 \in 1 .. last - 1 /\ k + 1 < j
          BY <3>4, <4>1
        <5> QED
          BY <3>9, <5>2, <5>3
      <4>2. CASE k = j - 1
        <5>1. cut[k] = row[k] /\ k \in 1 .. last /\ k # j
          BY <3>4, <3>9, <4>2
        <5>2. new.link[cut[k]].fwd = n.fwd
          BY <3>21, <4>2, <5>1 DEF ItemLinks
        <5>3. (k = last - 1 <=> j = last) /\ (k # last - 1 => k + 1 \in 1 .. last - 1 /\ ~(k + 1 < j))
              /\ k + 1 = j
          BY <3>4, <4>2
        <5>4. k # last - 1 => cut[k + 1] = row[j + 1]
          BY <3>9, <5>3
        <5> QED
          BY <3>5, <5>2, <5>3, <5>4
      <4>3. CASE k >= j
        <5>1. cut[k] = row[k + 1] /\ k + 1 \in 1 .. last /\ k + 1 # j - 1 /\ k + 1 # j
          BY <3>4, <3>9, <4>3
        <5>2. new.link[cut[k]].fwd = IF k + 1 = last THEN Null ELSE row[(k + 1) + 1]
          BY <3>21, <5>1 DEF ItemLinks
        <5>3. (k + 1 = last <=> k = last - 1)
              /\ (k # last - 1 => k + 1 \in 1 .. last - 1 /\ ~(k + 1 < j))
          BY <3>4, <4>3
        <5> QED
          BY <3>9, <5>2, <5>3
      <4> QED
        BY <3>4, <4>1, <4>2, <4>3
    <3>17. \A q \in Listed(new, i) : \E k \in 1 .. last - 1 : cut[k] = q
      <4> TAKE q \in Listed(new, i)
      <4>1. PICK k \in 1 .. last : row[k] = q
        BY <3>2, <3>7 DEF RowOf
      <4>2. k # j
        BY <3>6, <3>7, <4>1
      <4>3. CASE k < j
        <5>1. k \in 1 .. last - 1
          BY <3>4, <4>3
        <5> QED
          BY <3>9, <4>1, <4>3, <5>1
      <4>4. CASE k > j
        <5>1. k - 1 \in 1 .. last - 1 /\ ~(k - 1 < j) /\ (k - 1) + 1 = k
          BY <3>4, <4>4
        <5> QED
          BY <3>9, <4>1, <5>1
      <4> QED
        BY <4>2, <4>3, <4>4
    <3>18. \A k, m \in 1 .. last - 1 : cut[k] = cut[m] => k = m
      <4> SUFFICES ASSUME NEW k \in 1 .. last - 1, NEW m \in 1 .. last - 1, cut[k] = cut[m]
                   PROVE  k = m
        OBVIOUS
      <4>1. (IF k < j THEN k ELSE k + 1) = (IF m < j THEN m ELSE m + 1)
        BY <3>9, <3>12
      <4> QED
        BY <4>1
    <3>19. new.free[i] = IF last - 1 = 0 THEN Null ELSE cut[1]
      <4>1. ix.free[i] = row[1]
        BY <3>2, <3>4 DEF RowOf
      <4>2. new.free[i] = IF j = 1 THEN n.fwd ELSE row[1]
        <5>1. j # 1 => n.back # Null
          <6>1. j # 1 => j - 1 \in 1 .. last
            BY <3>4
          <6> QED
            BY <3>5, <3>6, <6>1
        <5> QED
          BY <1>5, <2>3, <3>5, <4>1, <5>1
      <4>3. CASE j = 1
        <5>1. last # 1 => 1 \in 1 .. last - 1 /\ cut[1] = row[2]
          BY <3>4, <3>9, <4>3
        <5> QED
          BY <3>5, <3>8, <4>2, <4>3, <5>1
      <4>4. CASE j # 1
        <5>1. 1 \in 1 .. last - 1 /\ 1 < j /\ last - 1 # 0
          BY <3>4, <4>4
        <5> QED
          BY <3>9, <4>2, <4>4, <5>1
      <4> QED
        BY <4>3, <4>4
    <3>20. RowOf(new, i, cut, last - 1)
      BY <3>15, <3>16, <3>17, <3>18, <3>19 DEF RowOf
    <3> QED
      BY <3>8, <3>10, <3>20 DEF RowExact
  <2> QED
    BY <2>2, <2>3
<1>7. ChildrenBelow(new)
  <2>1. \A q \in D : ix.link[q].size < ListMax => ix.link[q].child \in {Null, Junk}
    BY DEF Sound, ChildrenBelow
  <2>2. ASSUME NEW q \in DOMAIN new.link, ~(ix.link[q].size < ListMax), ix.link[q].child # Null
        PROVE  ChildOf(new, new.link[q].child, q)
    <3> DEFINE c == ix.link[q].child
    <3>1. q \in D /\ ChildOf(ix, c, q)
      BY <1>5, <2>2 DEF Sound, ChildrenBelow
    <3>2. c \in D /\ c # p /\ c # n.fwd /\ c # n.back
      <4>1. c \in D /\ ix.link[c].size = ix.link[q].size /\ ix.link[c].back = Null /\ ix.link[c].fwd = Null
        BY <3>1 DEF ChildOf, IsNode
      <4>2. c # p
        BY <2>2, <4>1
      <4>3. p # Null /\ c # Null
        BY <1>1, <4>1, Slots
      <4> HIDE DEF c
      <4> QED
        BY <1>4, <4>1, <4>2, <4>3
    <3>3. new.free[Root] = ix.free[Root] \/ new.free[Root] = n.fwd
      BY <1>3, <1>5, Slots
    <3>4. new.link[q].child = c /\ c \in DOMAIN new.link
      BY <1>5, <3>2
    <3> HIDE DEF c
    <3> QED
      BY <1>5, <3>1, <3>2, <3>3, <3>4 DEF ChildOf, IsNode
  <2>3. \A q \in DOMAIN new.link : q \in D
    BY <1>5
  <2> QED
    BY <1>5, <2>1, <2>2, <2>3 DEF ChildrenBelow
<1>8. Sorted(new)
  <2> SUFFICES ASSUME NEW a \in DOMAIN new.link, NEW b \in DOMAIN new.link,
                      new.link[a].fwd = b, new.link[b].back = a
               PROVE  InOrder(new, a, b)
    BY DEF Sorted
  <2>1. a \in D /\ b \in D /\ a # 0 /\ b # 0
    BY <1>1, <1>5
  <2>2. CASE a = n.back
    <3>1. n.fwd = b
      BY <1>5, <2>2
    <3>2. ix.link[a].fwd = p /\ ix.link[p].back = a /\ ix.link[b].back = p /\ ix.link[p].fwd = b
      BY <1>4, <2>1, <2>2, <3>1, Slots DEF n
    <3>3. InOrder(ix, a, p) /\ InOrder(ix, p, b)
      BY <2>1, <3>2 DEF Sound, Sorted
    <3>4. ix.link[a].size \in Nat /\ ix.link[b].size \in Nat /\ ix.link[p].size \in Nat
      BY <1>1, <2>1 DEF NodeSet, Addresses
    <3>5. new.link[a].size = ix.link[a].size /\ new.link[b].size = ix.link[b].size
      BY <1>5
    <3> QED
      BY <3>3, <3>4, <3>5 DEF InOrder
  <2>3. CASE a # n.back
    <3>1. ix.link[a].fwd = b /\ ix.link[b].back = a
      BY <1>5, <2>3
    <3> QED
      BY <1>5, <2>1, <3>1 DEF Sound, Sorted, InOrder
  <2> QED
    BY <2>2, <2>3
<1>9. /\ Shape(new) /\ DOMAIN new.link = D \ {p}
      /\ \A q \in DOMAIN new.link : new.link[q].size = ix.link[q].size
  BY <1>5
<1>11. RootRow(new)
  <2> DEFINE items == Listed(ix, Root)
             root  == ix.free[Root]
  <2>1. RootRow(ix) /\ Rooted(ix)
    BY DEF Sound, RootRow
  <2>2. \A q \in items : q \in D /\ q # Null /\ ix.link[q].size = ListMax - 1
    BY <1>1, Slots DEF Listed
  <2>3. p # Null /\ Null \notin D /\ n.fwd # p /\ n.back # p
    BY <1>1, LinkedNeighbours, Slots DEF n
  <2>4. CASE n.size < ListMax - 1
    <3>1. Listed(new, Root) = items
      BY <1>5, <2>4, Slots DEF Listed, n
    <3>2. new.free[Root] = root
      BY <1>3, <1>5, <2>4, Slots
    <3>3. \A q \in items : q # n.fwd /\ q # n.back /\ q # p
      <4>1. n.fwd # Null => ix.link[n.fwd].size < ListMax - 1
        BY <1>1, <2>4, LowLinks DEF n
      <4>2. n.back # Null => ix.link[n.back].size < ListMax - 1
        BY <1>1, <2>4, LowLinks DEF n
      <4> QED
        BY <2>2, <2>4, <4>1, <4>2, Slots DEF n
    <3>4. Rooted(new)
      <4>1. CASE root = Null
        BY <3>2, <4>1 DEF Rooted
      <4>2. CASE root # Null
        <5>1. root \in D /\ ix.link[root].size >= ListMax - 1
          BY <2>1, <4>2 DEF Rooted, IsNode
        <5>2. root # p
          BY <1>2, <2>4, <5>1, Slots DEF n
        <5> QED
          BY <1>5, <3>2, <5>1, <5>2 DEF Rooted, IsNode
      <4> QED
        BY <4>1, <4>2
    <3> QED
      BY <1>5, <2>1, <2>2, <3>1, <3>2, <3>3, <3>4, RootRowKept
  <2>5. CASE n.size = ListMax - 1
    <3>1. p \in items /\ Listed(new, Root) = items \ {p}
      BY <1>5, <2>5, Slots DEF Listed, n
    <3>2. /\ p = root => n.back = Null
          /\ p # root => n.back \in items /\ n.back # Null
      BY <2>1, <2>2, <3>1 DEF RootRow, n
    <3>3. root \in items
      BY <2>1, <3>1, NoItems
    <3>4. new.free[Root] = IF p = root THEN n.fwd ELSE root
      BY <1>3, <1>5, <2>5, <3>2, Slots
    <3>5. p # root => root # n.fwd
      <4>1. ix.link[root].back = Null
        BY <2>1, <3>3 DEF RootRow
      <4> QED
        BY <1>4, <2>3, <4>1, <2>2, <3>3
    <3>6. Rooted(new)
      <4>1. CASE p = root
        <5>1. n.fwd # Null => ix.link[n.fwd].size >= ListMax - 1
          BY <1>1, <1>4, <2>5, LongNeighbours, Slots DEF n
        <5> QED
          BY <1>4, <1>5, <2>3, <3>4, <4>1, <5>1 DEF Rooted, IsNode
      <4>2. CASE p # root
        BY <1>5, <2>2, <3>3, <3>4, <4>2, Slots DEF Rooted, IsNode
      <4> QED
        BY <4>1, <4>2
    <3>7. ASSUME NEW q \in items, q # p, q # new.free[Root]
          PROVE  new.link[q].back \in items \ {p} /\ new.link[new.link[q].back].fwd = q
      <4>1. q # root /\ ix.link[q].back \in items /\ ix.link[ix.link[q].back].fwd = q
        BY <2>1, <3>4, <3>7 DEF RootRow
      <4>2. CASE q = n.fwd
        <5>1. p # root
          BY <3>4, <3>7, <4>2
        <5>2. n.back \in items /\ n.back # p /\ new.link[n.back].fwd = n.fwd
          BY <1>5, <2>2, <2>3, <3>2, <5>1
        <5> QED
          BY <1>5, <2>2, <3>7, <4>2, <5>2
      <4>3. CASE q # n.fwd
        <5> DEFINE r == ix.link[q].back
        <5>1. r # p
          BY <4>1, <4>3 DEF n
        <5>2. r # n.back
          BY <1>4, <2>2, <3>7, <4>1
        <5>3. new.link[q].back = r /\ new.link[r].fwd = q
          BY <1>5, <2>2, <3>7, <4>1, <4>3, <5>1, <5>2
        <5> QED
          BY <4>1, <5>1, <5>3
      <4> QED
        BY <4>2, <4>3
    <3>8. new.free[Root] \in items \ {p} => new.link[new.free[Root]].back = Null
      <4>1. CASE p = root
        BY <1>5, <2>2, <3>2, <3>4, <4>1
      <4>2. CASE p # root
        <5>1. ix.link[root].back = Null
          BY <2>1, <3>3 DEF RootRow
        <5> QED
          BY <1>5, <2>2, <3>3, <3>4, <3>5, <4>2, <5>1
      <4> QED
        BY <4>1, <4>2
    <3>9. ASSUME NEW T \in SUBSET (items \ {p}), T # {},
                 \A q \in T \ {new.free[Root]} : new.link[q].back \in T
          PROVE  new.free[Root] \in T
      <4>1. \A q \in T : new.link[q].back = IF q = n.fwd THEN n.back ELSE ix.link[q].back
        BY <1>5, <2>2, <3>9
      <4>2. CASE p = root
        <5> SUFFICES ASSUME n.fwd \notin T PROVE FALSE
          BY <3>4, <4>2
        <5>1. \A q \in T \ {root} : ix.link[q].back \in T
          BY <3>4, <3>9, <4>1, <4>2
        <5>2. root \in T
          BY <2>1, <3>9, <5>1 DEF RootRow
        <5> QED
          BY <3>9, <4>2, <5>2
      <4>3. CASE p # root
        <5> DEFINE U == IF n.fwd \in T THEN T \union {p} ELSE T
        <5>1. U \in SUBSET items /\ U # {}
          BY <3>1, <3>9
        <5>2. ASSUME NEW q \in U \ {root} PROVE ix.link[q].back \in U
          <6>1. CASE q = p
            <7>1. n.fwd \in T
              BY <3>9, <5>2, <6>1
            <7>2. n.back \in T
              BY <3>4, <3>5, <3>9, <4>1, <4>3, <7>1
            <7> QED
              BY <6>1, <7>1, <7>2 DEF n
          <6>2. CASE q = n.fwd /\ q # p
            BY <1>4, <2>2, <3>9, <5>2, <6>2
          <6>3. CASE q # n.fwd /\ q # p
            <7>1. q \in T
              BY <5>2, <6>3
            <7> QED
              BY <3>4, <3>9, <4>1, <4>3, <5>2, <6>3, <7>1
          <6> QED
            BY <6>1, <6>2, <6>3
        <5> HIDE DEF U
        <5>3. root \in U
          BY <2>1, <5>1, <5>2 DEF RootRow
        <5> QED
          BY <3>4, <4>3, <5>3 DEF U
      <4> QED
        BY <4>2, <4>3
    <3> HIDE DEF items, root
    <3> QED
      BY <3>1, <3>6, <3>7, <3>8, <3>9 DEF RootRow
  <2>6. n.size < ListMax
    BY DEF n
  <2> QED
    BY <1>2, <2>4, <2>5, <2>6, Slots
<1>10. Sound(new)
  BY <1>6, <1>7, <1>8, <1>9, <1>11 DEF Sound
<1> QED
  BY <1>5, <1>9, <1>10 DEF Removed, new

\* A walk has finitely many places to be at.
LEMMA PlacesFinite ==
  ASSUME NEW ix, Shape(ix)
  PROVE  IsFiniteSet(Places(ix))
<1>1. IsFiniteSet(DOMAIN ix.link)
  BY DEF Shape
<1>2. IsFiniteSet(DOMAIN ix.link \union {Null})
  BY <1>1, FS_AddElement
<1>3. IsFiniteSet((DOMAIN ix.link \union {Null}) \union {Lost})
  BY <1>2, FS_AddElement
<1>4. Places(ix) = (DOMAIN ix.link \union {Null}) \union {Lost}
  BY DEF Places
<1> QED
  BY <1>3, <1>4

\* A link that does not lead astray.
LEMMA LedTo ==
  ASSUME NEW ix, Shape(ix), NEW p \in DOMAIN ix.link,
         NEW field \in Fields, NEW opposite \in Fields
  PROVE  LET q == ix.link[p][field] IN
         /\ Led(ix, p, field, opposite) \in Places(ix)
         /\ \/ Led(ix, p, field, opposite) = Lost
            \/ /\ Led(ix, p, field, opposite) = q
               /\ \/ q = Null
                  \/ q \in DOMAIN ix.link /\ q # p /\ ix.link[q][opposite] = p
BY DEF Led, IsNode, Places

\* The lists stay exact when neither their heads nor the links of their items change.
LEMMA LowRowsKept ==
  ASSUME NEW ix, NEW new, RowsExact(ix),
         \A q \in DOMAIN new.link : new.link[q].size < ListMax - 1 => q \in DOMAIN ix.link,
         \A q \in DOMAIN ix.link : ix.link[q].size < ListMax - 1 => q \in DOMAIN new.link,
         \A q \in DOMAIN ix.link : q \in DOMAIN new.link =>
           /\ new.link[q].size = ix.link[q].size
           /\ ix.link[q].size < ListMax - 1 =>
                new.link[q].back = ix.link[q].back /\ new.link[q].fwd = ix.link[q].fwd,
         \A i \in 0 .. ListCount - 1 : new.free[i] = ix.free[i]
  PROVE  RowsExact(new)
<1> SUFFICES ASSUME NEW i \in 0 .. ListCount - 1 PROVE RowExact(new, i)
  BY DEF RowsExact
<1>1. i + Overhead < ListMax - 1
  BY Slots
<1>2. Listed(new, i) = Listed(ix, i)
  BY <1>1 DEF Listed
<1>3. \A p \in Listed(ix, i) : new.link[p].back = ix.link[p].back /\ new.link[p].fwd = ix.link[p].fwd
  BY <1>1, <1>2 DEF Listed
<1>4. RowExact(ix, i) /\ new.free[i] = ix.free[i]
  BY DEF RowsExact
<1> QED
  BY <1>2, <1>3, <1>4, RowKept

\* heap_tree_insert's walk comes to stand at a node that is nobody's child, with
\* no neighbour between it and the new block's size.
LEMMA InsertWalk ==
  ASSUME NEW ix, Sound(ix), Rooted(ix), ix.free[Root] # Null, NEW size \in Nat,
         NEW at, at = Walk(InsertStep(ix, size), ix.free[Root]), at # Lost
  PROVE  LET n == ix.link[at] IN
         /\ at \in DOMAIN ix.link /\ n.size >= ListMax - 1
         /\ \A q \in DOMAIN ix.link : ix.link[q].child # at
         /\ n.size > size =>
              \/ n.back = Null
              \/ /\ n.back \in DOMAIN ix.link /\ n.back # at /\ ix.link[n.back].fwd = at
                 /\ ix.link[n.back].size < size
         /\ n.size < size =>
              \/ n.fwd = Null
              \/ /\ n.fwd \in DOMAIN ix.link /\ n.fwd # at /\ ix.link[n.fwd].back = at
                 /\ ix.link[n.fwd].size > size
<1> DEFINE D == DOMAIN ix.link
           X == Places(ix)
           step == InsertStep(ix, size)
           S == {q \in D : /\ ix.link[q].size >= ListMax - 1
                           /\ \A r \in D : ix.link[r].child # q} \union {Lost}
<1>1. Shape(ix) /\ \A q \in D : ix.link[q].size \in Nat /\ q > 0
  BY DEF Sound, Shape, NodeSet, Addresses
<1>2. IsFiniteSet(X)
  BY <1>1, PlacesFinite
<1>3. \A q \in D : /\ Led(ix, q, "back", "fwd") \in X /\ Led(ix, q, "fwd", "back") \in X
                   /\ \/ Led(ix, q, "back", "fwd") = Lost
                      \/ /\ Led(ix, q, "back", "fwd") = ix.link[q].back
                         /\ \/ ix.link[q].back = Null
                            \/ /\ ix.link[q].back \in D /\ ix.link[q].back # q
                               /\ ix.link[ix.link[q].back].fwd = q
                   /\ \/ Led(ix, q, "fwd", "back") = Lost
                      \/ /\ Led(ix, q, "fwd", "back") = ix.link[q].fwd
                         /\ \/ ix.link[q].fwd = Null
                            \/ /\ ix.link[q].fwd \in D /\ ix.link[q].fwd # q
                               /\ ix.link[ix.link[q].fwd].back = q
  <2> TAKE q \in D
  <2>1. "back" \in Fields /\ "fwd" \in Fields
    BY DEF Fields
  <2>2. LET r == ix.link[q]["back"] IN
        /\ Led(ix, q, "back", "fwd") \in X
        /\ \/ Led(ix, q, "back", "fwd") = Lost
           \/ /\ Led(ix, q, "back", "fwd") = r
              /\ \/ r = Null
                 \/ r \in DOMAIN ix.link /\ r # q /\ ix.link[r]["fwd"] = q
    BY <1>1, <2>1, LedTo
  <2>3. LET r == ix.link[q]["fwd"] IN
        /\ Led(ix, q, "fwd", "back") \in X
        /\ \/ Led(ix, q, "fwd", "back") = Lost
           \/ /\ Led(ix, q, "fwd", "back") = r
              /\ \/ r = Null
                 \/ r \in DOMAIN ix.link /\ r # q /\ ix.link[r]["back"] = q
    BY <1>1, <2>1, LedTo
  <2> QED
    BY <2>2, <2>3
<1>4. step = [q \in X |-> step[q]] /\ DOMAIN step = X
  BY DEF InsertStep
<1>5. \A q \in X : step[q] = IF ~IsNode(ix, q) THEN q
          ELSE IF /\ ix.link[q].size > size
                  /\ \/ Led(ix, q, "back", "fwd") = Lost
                     \/ /\ Led(ix, q, "back", "fwd") # Null
                        /\ ix.link[Led(ix, q, "back", "fwd")].size >= size
                 THEN Led(ix, q, "back", "fwd")
          ELSE IF /\ ix.link[q].size < size
                  /\ \/ Led(ix, q, "fwd", "back") = Lost
                     \/ /\ Led(ix, q, "fwd", "back") # Null
                        /\ ix.link[Led(ix, q, "fwd", "back")].size <= size
                 THEN Led(ix, q, "fwd", "back")
          ELSE q
  BY DEF InsertStep
<1> HIDE DEF step
<1>6. \A q \in X : step[q] \in X
  BY <1>3, <1>5 DEF IsNode
<1>7. step \in [X -> X]
  BY <1>4, <1>6
<1>8. Lost \notin D /\ Lost \in X /\ Null \notin D /\ Lost # Null
  BY <1>1, Slots DEF Places
<1>9. ix.free[Root] \in S
  <2>1. ix.free[Root] \in D /\ ix.link[ix.free[Root]].size >= ListMax - 1
    BY DEF Rooted, IsNode
  <2>2. ASSUME NEW r \in D, ix.link[r].child = ix.free[Root] PROVE FALSE
    <3>1. ix.free[Root] # Null /\ ix.free[Root] # Junk
      BY <1>1, <2>1, Slots
    <3>2. ChildOf(ix, ix.free[Root], r)
      BY <2>2, <3>1 DEF Sound, ChildrenBelow
    <3> QED
      BY <3>2 DEF ChildOf
  <2> QED
    BY <2>1, <2>2
<1>10. \A q \in S : step[q] \in S
  <2> TAKE q \in S
  <2>1. CASE q = Lost
    BY <1>5, <1>8, <2>1 DEF IsNode
  <2>2. CASE q # Lost
    <3>1. q \in D /\ q \in X /\ ix.link[q].size >= ListMax - 1
      BY <2>2 DEF Places
    <3>2. step[q] \in {q, Lost} \/ (step[q] = ix.link[q].back /\ step[q] \in D /\ ix.link[step[q]].fwd = q)
             \/ (step[q] = ix.link[q].fwd /\ step[q] \in D /\ ix.link[step[q]].back = q)
      BY <1>3, <1>5, <3>1 DEF IsNode
    <3> QED
      BY <3>1, <3>2, LongNeighbours
  <2> QED
    BY <2>1, <2>2
<1>11. S \in SUBSET X /\ ix.free[Root] \in X
  BY <1>8, <1>9 DEF Places
<1>12. at \in S /\ step[at] = at
  <2> HIDE DEF S, X
  <2>1. at = Walk(step, ix.free[Root])
    BY DEF step
  <2> QED
    BY <1>2, <1>7, <1>9, <1>10, <1>11, <2>1, WalkStays
<1>13. at \in D /\ at \in X
  BY <1>11, <1>12
<1> QED
  BY <1>1, <1>3, <1>5, <1>8, <1>12, <1>13 DEF IsNode

\* The new block p holds node, and the links fx of x and fy of y lead to it.
AddedAs(new, ix, p, node, x, fx, y, fy) ==
  /\ Shape(new) /\ new.free = ix.free /\ new.ok = ix.ok
  /\ DOMAIN new.link = DOMAIN ix.link \union {p}
  /\ \A f \in Fields : new.link[p][f] = node[f]
  /\ \A q \in DOMAIN ix.link, f \in Fields :
       new.link[q][f] = IF (q = x /\ f = fx) \/ (q = y /\ f = fy) THEN p
                        ELSE ix.link[q][f]

LEMMA AddedBetween ==
  ASSUME NEW ix, Shape(ix), NEW p \in Nat \ {0}, p \notin DOMAIN ix.link,
         NEW node \in NodeSet, node.size >= Overhead, node.size # ListMax,
         NEW x \in DOMAIN ix.link \union {Null}, NEW y \in DOMAIN ix.link,
         NEW fx \in {"back", "fwd", "child", "parent"},
         NEW fy \in {"back", "fwd", "child", "parent"}
  PROVE  AddedAs(Store(StoreIf(With(ix, p, node), x, fx, p), y, fy, p),
                 ix, p, node, x, fx, y, fy)
<1> DEFINE a   == With(ix, p, node)
           b   == StoreIf(a, x, fx, p)
           new == Store(b, y, fy, p)
<1>1. /\ Shape(a) /\ a.free = ix.free /\ a.ok = ix.ok
      /\ DOMAIN a.link = DOMAIN ix.link \union {p} /\ a.link[p] = node
      /\ \A q \in DOMAIN ix.link : a.link[q] = ix.link[q]
  BY Added
<1> HIDE DEF a
<1>2. p \in Addresses /\ x \in DOMAIN a.link \union {Null} /\ p # x /\ p # y
  BY <1>1, Slots DEF Addresses
<1>3. /\ Shape(b) /\ b.free = a.free /\ b.ok = a.ok /\ DOMAIN b.link = DOMAIN a.link
      /\ \A q \in DOMAIN a.link, f \in Fields :
           b.link[q][f] = IF q = x /\ f = fx THEN p ELSE a.link[q][f]
  <2>1. CASE x = Null
    <3>1. b = a
      BY <2>1 DEF StoreIf
    <3>2. \A q \in DOMAIN a.link : q # x
      BY <1>1, <2>1, Slots DEF Shape
    <3> HIDE DEF b
    <3> QED
      BY <1>1, <3>1, <3>2
  <2>2. CASE x # Null
    <3>1. b = Store(a, x, fx, p) /\ Shape(a) /\ x \in DOMAIN a.link
      BY <1>1, <1>2, <2>2 DEF StoreIf
    <3> HIDE DEF b
    <3> QED
      BY <1>2, <3>1, Stored DEF Assigned
  <2> QED
    BY <2>1, <2>2
<1> HIDE DEF b
<1>4. y \in DOMAIN b.link
  BY <1>1, <1>3
<1>5. /\ Shape(new) /\ new.free = b.free /\ new.ok = b.ok /\ DOMAIN new.link = DOMAIN b.link
      /\ \A q \in DOMAIN b.link, f \in Fields :
           new.link[q][f] = IF q = y /\ f = fy THEN p ELSE b.link[q][f]
  <2>1. Assigned(new, b, y, fy, p)
    BY <1>2, <1>3, <1>4, Stored
  <2> HIDE DEF new
  <2> QED
    BY <2>1 DEF Assigned
<1>6. new = Store(StoreIf(With(ix, p, node), x, fx, p), y, fy, p)
  BY DEF a, b
<1> HIDE DEF new
<1>7. \A q \in DOMAIN ix.link, f \in Fields :
        new.link[q][f] = IF (q = x /\ f = fx) \/ (q = y /\ f = fy) THEN p ELSE ix.link[q][f]
  BY <1>1, <1>3, <1>5
<1>8. \A f \in Fields : new.link[p][f] = node[f]
  BY <1>1, <1>2, <1>3, <1>5
<1>9. /\ Shape(new) /\ new.free = ix.free /\ new.ok = ix.ok
      /\ DOMAIN new.link = DOMAIN ix.link \union {p}
  BY <1>1, <1>3, <1>5
<1> QED
  BY <1>6, <1>7, <1>8, <1>9 DEF AddedAs

\* heap_tree_insert next to the node at, towards smaller blocks or larger ones:
\* p comes between the neighbours lo and hi.
LEMMA BetweenSound ==
  ASSUME NEW ix, Sound(ix), Rooted(ix), NEW p \in Nat \ {0}, p \notin DOMAIN ix.link,
         NEW size \in Nat, size > ListMax, NEW new, Shape(new), new.free = ix.free, new.ok = ix.ok,
         ix.free[Root] # Null,
         NEW lo \in DOMAIN ix.link \union {Null}, NEW hi \in DOMAIN ix.link \union {Null},
         \A q \in {lo, hi} : q # Null => /\ ix.link[q].size >= ListMax - 1
                                         /\ \A r \in DOMAIN ix.link : ix.link[r].child # q,
         lo # Null => ix.link[lo].size < size /\ ix.link[lo].fwd = hi,
         hi # Null => size < ix.link[hi].size,
         DOMAIN new.link = DOMAIN ix.link \union {p},
         new.link[p].size = size, new.link[p].back = lo, new.link[p].fwd = hi,
         new.link[p].child = Null,
         \A q \in DOMAIN ix.link :
           /\ new.link[q].size = ix.link[q].size
           /\ new.link[q].back = IF q = hi THEN p ELSE ix.link[q].back
           /\ new.link[q].fwd = IF q = lo THEN p ELSE ix.link[q].fwd
           /\ new.link[q].child = ix.link[q].child
           /\ new.link[q].parent = ix.link[q].parent
  PROVE  Inserted(new, ix, p, size)
<1> DEFINE D == DOMAIN ix.link
<1>1. Shape(ix) /\ Null \notin D /\ Null # p /\ \A q \in D : ix.link[q].size \in Nat
  BY Slots DEF Sound, Shape, NodeSet, Addresses
<1>2. RowsExact(new)
  <2>1. \A q \in D : ix.link[q].size < ListMax - 1 => q # hi /\ q # lo
    BY <1>1, Slots
  <2>2. ~(size < ListMax - 1) /\ \A i \in 0 .. ListCount - 1 : new.free[i] = ix.free[i]
    BY Slots
  <2>3. RowsExact(ix)
    BY DEF Sound
  <2> QED
    BY <2>1, <2>2, <2>3, LowRowsKept
<1>3. ChildrenBelow(new)
  <2> SUFFICES ASSUME NEW q \in DOMAIN new.link
               PROVE  IF new.link[q].size < ListMax
                        THEN new.link[q].child \in {Null, Junk}
                        ELSE new.link[q].child # Null => ChildOf(new, new.link[q].child, q)
    BY DEF ChildrenBelow
  <2>1. CASE q = p
    BY <2>1, Slots
  <2>2. CASE q \in D
    <3>1. new.link[q].size = ix.link[q].size /\ new.link[q].child = ix.link[q].child
      BY <2>2
    <3>2. CASE ix.link[q].size < ListMax
      BY <2>2, <3>1, <3>2 DEF Sound, ChildrenBelow
    <3>3. ASSUME ~(ix.link[q].size < ListMax), ix.link[q].child # Null
          PROVE  ChildOf(new, ix.link[q].child, q)
      <4> DEFINE c == ix.link[q].child
      <4>1. ChildOf(ix, c, q)
        BY <2>2, <3>3 DEF Sound, ChildrenBelow
      <4>2. c \in D /\ c # Null
        BY <3>3, <4>1 DEF ChildOf, IsNode
      <4>3. c # hi /\ c # lo
        BY <2>2, <4>2
      <4> HIDE DEF c
      <4>4. /\ new.link[c].parent = q /\ new.link[c].size = ix.link[q].size
            /\ new.link[c].back = Null /\ new.link[c].fwd = Null
            /\ c # ix.free[Root] /\ c \in DOMAIN new.link
        BY <4>1, <4>2, <4>3 DEF ChildOf
      <4>5. ChildOf(new, c, q)
        BY <2>2, <4>4 DEF ChildOf, IsNode
      <4> QED
        BY <4>5 DEF c
    <3> QED
      BY <3>1, <3>2, <3>3
  <2> QED
    BY <2>1, <2>2
<1>4. Sorted(new)
  <2> SUFFICES ASSUME NEW a \in DOMAIN new.link, NEW b \in DOMAIN new.link,
                      new.link[a].fwd = b, new.link[b].back = a
               PROVE  InOrder(new, a, b)
    BY DEF Sorted
  <2>1. CASE a = p
    BY <1>1, <2>1 DEF InOrder
  <2>2. CASE b = p
    BY <1>1, <2>2 DEF InOrder
  <2>3. CASE a \in D /\ b \in D
    <3>1. ix.link[a].fwd = b /\ ix.link[b].back = a
      BY <1>1, <2>3
    <3> QED
      BY <2>3, <3>1 DEF Sound, Sorted, InOrder
  <2> QED
    BY <2>1, <2>2, <2>3
<1>5. RootRow(new)
  <2>1. RootRow(ix) /\ Rooted(new)
    BY DEF Sound, Rooted, IsNode
  <2>2. Listed(new, Root) = Listed(ix, Root)
    BY Slots DEF Listed
  <2>3. \A q \in Listed(ix, Root) : q \in D /\ ix.link[q].size = ListMax - 1
    BY Slots DEF Listed
  <2>4. hi \notin Listed(ix, Root)
    BY <1>1, <2>3, Slots
  <2>5. \A q \in Listed(ix, Root) :
          /\ new.link[q].back = ix.link[q].back
          /\ ix.link[q].fwd \in Listed(ix, Root) => new.link[q].fwd = ix.link[q].fwd
    BY <1>1, <2>3, <2>4
  <2> QED
    BY <2>1, <2>2, <2>5, RootRowKept
<1> QED
  BY <1>2, <1>3, <1>4, <1>5 DEF Inserted, Sound

\* heap_tree_insert of a block as long as the node at: first in its chain.
LEMMA BelowSound ==
  ASSUME NEW ix, Sound(ix), Rooted(ix), NEW p \in Nat \ {0}, p \notin DOMAIN ix.link,
         NEW size \in Nat, size > ListMax, NEW new, Shape(new), new.free = ix.free, new.ok = ix.ok,
         ix.free[Root] # Null,
         NEW at \in DOMAIN ix.link, ix.link[at].size = size,
         DOMAIN new.link = DOMAIN ix.link \union {p},
         new.link[p].size = size, new.link[p].back = Null, new.link[p].fwd = Null,
         new.link[p].child = ix.link[at].child, new.link[p].parent = at,
         \A q \in DOMAIN ix.link :
           /\ new.link[q].size = ix.link[q].size
           /\ new.link[q].back = ix.link[q].back
           /\ new.link[q].fwd = ix.link[q].fwd
           /\ new.link[q].child = IF q = at THEN p ELSE ix.link[q].child
           /\ new.link[q].parent = IF q = ix.link[at].child THEN p ELSE ix.link[q].parent
  PROVE  Inserted(new, ix, p, size)
<1> DEFINE D == DOMAIN ix.link
<1>1. Shape(ix) /\ Null \notin D /\ Null # p /\ \A q \in D : ix.link[q].size \in Nat
  BY Slots DEF Sound, Shape, NodeSet, Addresses
<1>2. RowsExact(new)
  <2>1. ~(size < ListMax - 1) /\ \A i \in 0 .. ListCount - 1 : new.free[i] = ix.free[i]
    BY Slots
  <2>2. RowsExact(ix)
    BY DEF Sound
  <2> QED
    BY <2>1, <2>2, LowRowsKept
<1>3. ChildrenBelow(new)
  <2> SUFFICES ASSUME NEW q \in DOMAIN new.link
               PROVE  IF new.link[q].size < ListMax
                        THEN new.link[q].child \in {Null, Junk}
                        ELSE new.link[q].child # Null => ChildOf(new, new.link[q].child, q)
    BY DEF ChildrenBelow
  <2>1. \A r \in D : ~(ix.link[r].size < ListMax) /\ ix.link[r].child # Null
                       => ChildOf(ix, ix.link[r].child, r)
    BY DEF Sound, ChildrenBelow
  <2>2. ~(ix.link[at].size < ListMax) /\ ~(new.link[p].size < ListMax)
    BY <1>1, Slots
  <2>3. ix.free[Root] \in D
    BY DEF Rooted, IsNode
  <2>4. CASE q = p
    <3>1. ASSUME ix.link[at].child # Null PROVE ChildOf(new, ix.link[at].child, p)
      <4> DEFINE c == ix.link[at].child
      <4>1. ChildOf(ix, c, at)
        BY <2>1, <2>2, <3>1
      <4> HIDE DEF c
      <4>2. new.link[c].parent = p
        BY <4>1 DEF ChildOf, IsNode, c
      <4> QED
        BY <4>1, <4>2 DEF ChildOf, IsNode
    <3> QED
      BY <2>2, <2>4, <3>1
  <2>5. CASE q = at
    <3>1. ChildOf(new, p, at)
      BY <2>3 DEF ChildOf, IsNode
    <3> QED
      BY <2>2, <2>5, <3>1
  <2>6. CASE q \in D /\ q # at
    <3>1. new.link[q].size = ix.link[q].size /\ new.link[q].child = ix.link[q].child
      BY <2>6
    <3>2. CASE ix.link[q].size < ListMax
      BY <2>6, <3>1, <3>2 DEF Sound, ChildrenBelow
    <3>3. ASSUME ~(ix.link[q].size < ListMax), ix.link[q].child # Null
          PROVE  ChildOf(new, ix.link[q].child, q)
      <4> DEFINE c == ix.link[q].child
      <4>1. ChildOf(ix, c, q)
        BY <2>1, <2>6, <3>3
      <4>2. c # ix.link[at].child
        <5> SUFFICES ASSUME c = ix.link[at].child PROVE FALSE
          OBVIOUS
        <5>1. ChildOf(ix, c, at)
          BY <2>1, <2>2, <3>3
        <5> QED
          BY <2>6, <4>1, <5>1 DEF ChildOf
      <4> HIDE DEF c
      <4>3. /\ new.link[c].parent = q /\ new.link[c].size = ix.link[q].size
            /\ new.link[c].back = Null /\ new.link[c].fwd = Null
            /\ c # ix.free[Root] /\ c \in DOMAIN new.link
        BY <4>1, <4>2 DEF ChildOf, IsNode
      <4>4. ChildOf(new, c, q)
        BY <2>6, <4>3 DEF ChildOf, IsNode
      <4> QED
        BY <4>4 DEF c
    <3> QED
      BY <3>1, <3>2, <3>3
  <2> QED
    BY <2>4, <2>5, <2>6
<1>4. Sorted(new)
  <2> SUFFICES ASSUME NEW a \in DOMAIN new.link, NEW b \in DOMAIN new.link,
                      new.link[a].fwd = b, new.link[b].back = a
               PROVE  InOrder(new, a, b)
    BY DEF Sorted
  <2>1. a \in D /\ b \in D
    BY <1>1
  <2> QED
    BY <2>1 DEF Sound, Sorted, InOrder
<1>5. RootRow(new)
  <2>1. RootRow(ix) /\ Rooted(new)
    BY DEF Sound, Rooted, IsNode
  <2>2. Listed(new, Root) = Listed(ix, Root)
    BY Slots DEF Listed
  <2>3. \A q \in Listed(ix, Root) : q \in D
    BY DEF Listed
  <2> QED
    BY <2>1, <2>2, <2>3, RootRowKept
<1> QED
  BY <1>2, <1>3, <1>4, <1>5 DEF Inserted, Sound

LEMMA NodeType ==
  ASSUME NEW size \in Nat, NEW back \in Addresses, NEW fwd \in Addresses, NEW child \in Addresses, NEW parent \in Addresses
  PROVE  LET n == Node(size, back, fwd, child, parent) IN
         /\ n \in NodeSet /\ n.size = size /\ n.back = back /\ n.fwd = fwd
         /\ n.child = child /\ n.parent = parent
BY DEF Node, NodeSet, Addresses

\* heap_tree_insert into the empty tree.
LEMMA FirstNodeSound ==
  ASSUME NEW ix, Sound(ix), NEW p \in Nat \ {0}, p \notin DOMAIN ix.link,
         NEW size \in Nat, size > ListMax, ix.free[Root] = Null
  PROVE  Inserted(SetHead(With(ix, p, Node(size, Null, Null, Null, Null)), Root, p), ix, p, size)
<1> DEFINE D    == DOMAIN ix.link
           node == Node(size, Null, Null, Null, Null)
           a    == With(ix, p, node)
           new  == SetHead(a, Root, p)
<1>1. Shape(ix) /\ \A q \in D : q # 0 /\ ix.link[q].size \in Nat
  BY DEF Sound, Shape, NodeSet, Addresses
<1>2. Null \in Addresses /\ Root \in 0 .. ListCount /\ size >= Overhead /\ size # ListMax /\ p # Null
  BY Slots DEF Addresses
<1>3. /\ node \in NodeSet /\ node.size = size /\ node.back = Null /\ node.fwd = Null
      /\ node.child = Null /\ node.parent = Null
  BY <1>2, NodeType
<1> HIDE DEF node
<1>4. /\ Shape(a) /\ a.free = ix.free /\ a.ok = ix.ok /\ DOMAIN a.link = D \union {p}
      /\ a.link[p] = node /\ \A q \in D : a.link[q] = ix.link[q]
  BY <1>1, <1>2, <1>3, Added
<1> HIDE DEF a
<1>5. /\ Shape(new) /\ new.link = a.link /\ new.ok = a.ok /\ new.free[Root] = p
      /\ \A i \in 0 .. ListCount : i # Root => new.free[i] = a.free[i]
  <2>1. Shape(a) /\ p \in DOMAIN a.link \union {Null} /\ Root \in DOMAIN a.free
    BY <1>2, <1>4 DEF Shape
  <2> QED
    BY <2>1, Headed DEF HeadedAs
<1> HIDE DEF new
<1>6. RowsExact(new)
  <2>1. ~(size < ListMax - 1) /\ \A i \in 0 .. ListCount - 1 : i \in 0 .. ListCount /\ i # Root
    BY Slots
  <2>2. \A i \in 0 .. ListCount - 1 : new.free[i] = ix.free[i]
    BY <1>4, <1>5, <2>1
  <2>3. RowsExact(ix)
    BY DEF Sound
  <2> QED
    BY <1>3, <1>4, <1>5, <2>1, <2>2, <2>3, LowRowsKept
<1>7. ChildrenBelow(new)
  <2> SUFFICES ASSUME NEW q \in DOMAIN new.link
               PROVE  IF new.link[q].size < ListMax
                        THEN new.link[q].child \in {Null, Junk}
                        ELSE new.link[q].child # Null => ChildOf(new, new.link[q].child, q)
    BY DEF ChildrenBelow
  <2>1. CASE q = p
    BY <1>3, <1>4, <1>5, <2>1, Slots
  <2>2. CASE q \in D
    <3>1. new.link[q] = ix.link[q]
      BY <1>4, <1>5, <2>2
    <3>2. ASSUME NEW c \in D, ChildOf(ix, c, q) PROVE ChildOf(new, c, q)
      BY <1>4, <1>5, <2>2, <3>2 DEF ChildOf, IsNode
    <3>3. \A c : ChildOf(ix, c, q) => c \in D
      BY DEF ChildOf, IsNode
    <3> QED
      BY <2>2, <3>1, <3>2, <3>3 DEF Sound, ChildrenBelow
  <2> QED
    BY <1>4, <1>5, <2>1, <2>2
<1>8. Sorted(new)
  <2> SUFFICES ASSUME NEW b \in DOMAIN new.link, NEW c \in DOMAIN new.link,
                      new.link[b].fwd = c, new.link[c].back = b
               PROVE  InOrder(new, b, c)
    BY DEF Sorted
  <2>1. b \in D /\ c \in D
    BY <1>1, <1>2, <1>3, <1>4, <1>5, Slots
  <2> QED
    BY <1>4, <1>5, <2>1 DEF Sound, Sorted, InOrder
<1>10. RootRow(new)
  <2>1. RootRow(ix)
    BY DEF Sound
  <2>2. Listed(ix, Root) = {}
    <3>1. ix.free[Root] \notin Listed(ix, Root)
      BY <1>1, Slots DEF Listed
    <3> QED
      BY <2>1, <3>1, NoItems
  <2>3. Listed(new, Root) = Listed(ix, Root)
    BY <1>3, <1>4, <1>5, Slots DEF Listed
  <2>4. Rooted(new)
    BY <1>3, <1>4, <1>5, Slots DEF Rooted, IsNode
  <2> QED
    BY <2>1, <2>2, <2>3, <2>4, RootRowKept
<1>9. Inserted(new, ix, p, size)
  BY <1>3, <1>4, <1>5, <1>6, <1>7, <1>8, <1>10 DEF Inserted, Sound
<1> QED
  BY <1>9 DEF new, a, node

\* heap_tree_insert.
LEMMA TreeInsertSound ==
  ASSUME NEW ix, Sound(ix), Rooted(ix), NEW p \in Nat \ {0}, p \notin DOMAIN ix.link,
         NEW size \in Nat, size > ListMax
  PROVE  \/ TreeInsert(ix, p, size) = Bad(ix)
         \/ Inserted(TreeInsert(ix, p, size), ix, p, size)
<1> DEFINE D == DOMAIN ix.link
<1>1. /\ Shape(ix) /\ Null \notin D /\ Null # p
      /\ \A q \in D : q \in Nat \ {0} /\ ix.link[q] \in NodeSet /\ ix.link[q].size \in Nat
                      /\ ix.link[q].child \in Addresses /\ q \in Addresses
  <2>1. Shape(ix)
    BY DEF Sound
  <2>2. \A q \in D : q \in Nat \ {0} /\ ix.link[q] \in NodeSet
    BY <2>1 DEF Shape
  <2>3. \A node \in NodeSet : node.size \in Nat /\ node.child \in Addresses
    BY DEF NodeSet
  <2>4. Null = 0 /\ Nat \subseteq Addresses
    BY Slots DEF Null, Addresses
  <2> QED
    BY <2>1, <2>2, <2>3, <2>4
<1>2. CASE ix.free[Root] = Null
  BY <1>2, FirstNodeSound DEF TreeInsert
<1>3. CASE ix.free[Root] # Null
  <2> DEFINE at  == Walk(InsertStep(ix, size), ix.free[Root])
             n   == ix.link[at]
             new == Beside(ix, at, p, size)
  <2>1. TreeInsert(ix, p, size) = IF at = Lost THEN Bad(ix) ELSE new
    BY <1>3 DEF TreeInsert
  <2>2. SUFFICES ASSUME at # Lost PROVE Inserted(TreeInsert(ix, p, size), ix, p, size)
    BY <2>1
  <2> HIDE DEF at
  <2>3. /\ at \in D /\ n.size >= ListMax - 1
        /\ \A q \in D : ix.link[q].child # at
        /\ n.size > size =>
             \/ n.back = Null
             \/ /\ n.back \in D /\ n.back # at /\ ix.link[n.back].fwd = at
                /\ ix.link[n.back].size < size
        /\ n.size < size =>
             \/ n.fwd = Null
             \/ /\ n.fwd \in D /\ n.fwd # at /\ ix.link[n.fwd].back = at
                /\ ix.link[n.fwd].size > size
    BY <1>3, <2>2, InsertWalk DEF at
  <2>4. size >= Overhead /\ size # ListMax /\ at \in Addresses /\ Null \in Addresses /\ n.size \in Nat
    BY <1>1, <2>3, Slots DEF Addresses
  <2>5. CASE n.size > size
    <3> DEFINE lo   == n.back
               node == Node(size, lo, at, Null, Null)
               made == Store(StoreIf(With(ix, p, node), lo, "fwd", p), at, "back", p)
    <3>1. new = made
      BY <2>5 DEF Beside
    <3>2. /\ lo \in D \union {Null}
          /\ lo # Null => /\ lo # at /\ ix.link[lo].fwd = at /\ ix.link[lo].size < size
      BY <2>3, <2>5
    <3>3. \/ lo = Null
          \/ /\ ix.link[lo].size >= ListMax - 1
             /\ \A r \in D : ix.link[r].child # lo
      BY <2>3, <3>2, LongNeighbours
    <3> HIDE DEF lo
    <3>4. lo \in Addresses
      BY <1>1, <2>4, <3>2
    <3>5. /\ node \in NodeSet /\ node.size = size /\ node.back = lo /\ node.fwd = at /\ node.child = Null
      BY <2>4, <3>4, NodeType
    <3> HIDE DEF node
    <3>11. node.size >= Overhead /\ node.size # ListMax
      BY <2>4, <3>5
    <3>6. /\ Shape(made) /\ made.free = ix.free /\ made.ok = ix.ok
          /\ DOMAIN made.link = D \union {p}
          /\ \A f \in Fields : made.link[p][f] = node[f]
          /\ \A q \in D, f \in Fields :
               made.link[q][f] = IF (q = lo /\ f = "fwd") \/ (q = at /\ f = "back") THEN p
                                 ELSE ix.link[q][f]
      <4>1. AddedAs(made, ix, p, node, lo, "fwd", at, "back")
        BY <1>1, <2>3, <3>2, <3>5, <3>11, AddedBetween
      <4> HIDE DEF made
      <4> QED
        BY <4>1 DEF AddedAs
    <3> HIDE DEF made
    <3>7. /\ made.link[p].size = size /\ made.link[p].back = lo /\ made.link[p].fwd = at
          /\ made.link[p].child = Null
          /\ \A q \in D :
               /\ made.link[q].size = ix.link[q].size
               /\ made.link[q].back = IF q = at THEN p ELSE ix.link[q].back
               /\ made.link[q].fwd = IF q = lo THEN p ELSE ix.link[q].fwd
               /\ made.link[q].child = ix.link[q].child
               /\ made.link[q].parent = ix.link[q].parent
      BY <3>5, <3>6 DEF Fields
    <3>8. /\ lo # Null => ix.link[lo].size < size /\ ix.link[lo].fwd = at
          /\ size < ix.link[at].size
      BY <1>1, <2>3, <2>5, <3>2
    <3>9. /\ \A q \in {lo, at} : q # Null => /\ ix.link[q].size >= ListMax - 1
                                             /\ \A r \in D : ix.link[r].child # q
          /\ at \in D \union {Null}
      BY <2>3, <3>3
    <3>10. Inserted(made, ix, p, size)
      BY <1>3, <3>2, <3>6, <3>7, <3>8, <3>9, BetweenSound
    <3> QED
      BY <2>1, <2>2, <3>1, <3>10
  <2>6. CASE n.size < size
    <3> DEFINE hi   == n.fwd
               node == Node(size, at, hi, Null, Null)
               made == Store(StoreIf(With(ix, p, node), hi, "back", p), at, "fwd", p)
    <3>1. new = made
      BY <2>4, <2>6 DEF Beside
    <3>2. /\ hi \in D \union {Null}
          /\ hi # Null => /\ hi # at /\ ix.link[hi].back = at /\ ix.link[hi].size > size
      BY <2>3, <2>6
    <3>3. \/ hi = Null
          \/ /\ ix.link[hi].size >= ListMax - 1
             /\ \A r \in D : ix.link[r].child # hi
      BY <2>3, <3>2, LongNeighbours
    <3> HIDE DEF hi
    <3>4. hi \in Addresses
      BY <1>1, <2>4, <3>2
    <3>5. /\ node \in NodeSet /\ node.size = size /\ node.back = at /\ node.fwd = hi /\ node.child = Null
      BY <2>4, <3>4, NodeType
    <3> HIDE DEF node
    <3>11. node.size >= Overhead /\ node.size # ListMax
      BY <2>4, <3>5
    <3>6. /\ Shape(made) /\ made.free = ix.free /\ made.ok = ix.ok
          /\ DOMAIN made.link = D \union {p}
          /\ \A f \in Fields : made.link[p][f] = node[f]
          /\ \A q \in D, f \in Fields :
               made.link[q][f] = IF (q = hi /\ f = "back") \/ (q = at /\ f = "fwd") THEN p
                                 ELSE ix.link[q][f]
      <4>1. AddedAs(made, ix, p, node, hi, "back", at, "fwd")
        BY <1>1, <2>3, <3>2, <3>5, <3>11, AddedBetween
      <4> HIDE DEF made
      <4> QED
        BY <4>1 DEF AddedAs
    <3> HIDE DEF made
    <3>7. /\ made.link[p].size = size /\ made.link[p].back = at /\ made.link[p].fwd = hi
          /\ made.link[p].child = Null
          /\ \A q \in D :
               /\ made.link[q].size = ix.link[q].size
               /\ made.link[q].back = IF q = hi THEN p ELSE ix.link[q].back
               /\ made.link[q].fwd = IF q = at THEN p ELSE ix.link[q].fwd
               /\ made.link[q].child = ix.link[q].child
               /\ made.link[q].parent = ix.link[q].parent
      BY <3>5, <3>6 DEF Fields
    <3>8. /\ hi # Null => size < ix.link[hi].size
          /\ ix.link[at].size < size /\ ix.link[at].fwd = hi
      BY <1>1, <2>3, <2>6, <3>2 DEF hi
    <3>9. /\ \A q \in {at, hi} : q # Null => /\ ix.link[q].size >= ListMax - 1
                                             /\ \A r \in D : ix.link[r].child # q
          /\ at \in D \union {Null}
      BY <2>3, <3>3
    <3>10. Inserted(made, ix, p, size)
      BY <1>3, <3>2, <3>6, <3>7, <3>8, <3>9, BetweenSound
    <3> QED
      BY <2>1, <2>2, <3>1, <3>10
  <2>7. CASE n.size = size
    <3> DEFINE c    == n.child
               node == Node(size, Null, Null, c, at)
               made == Store(StoreIf(With(ix, p, node), c, "parent", p), at, "child", p)
    <3>1. new = made
      BY <2>4, <2>7 DEF Beside
    <3>2. c \in D \union {Null} /\ c \in Addresses
      <4>1. ~(n.size < ListMax)
        BY <2>7, Slots
      <4>2. c = Null \/ ChildOf(ix, c, at)
        BY <2>3, <4>1 DEF Sound, ChildrenBelow
      <4>3. c \in Addresses
        BY <1>1, <2>3
      <4> HIDE DEF c
      <4> QED
        BY <4>2, <4>3 DEF ChildOf, IsNode
    <3> HIDE DEF c
    <3>3. /\ node \in NodeSet /\ node.size = size /\ node.back = Null /\ node.fwd = Null
          /\ node.child = c /\ node.parent = at
      BY <2>4, <3>2, NodeType
    <3> HIDE DEF node
    <3>7. node.size >= Overhead /\ node.size # ListMax
      BY <2>4, <3>3
    <3>4. /\ Shape(made) /\ made.free = ix.free /\ made.ok = ix.ok
          /\ DOMAIN made.link = D \union {p}
          /\ \A f \in Fields : made.link[p][f] = node[f]
          /\ \A q \in D, f \in Fields :
               made.link[q][f] = IF (q = c /\ f = "parent") \/ (q = at /\ f = "child") THEN p
                                 ELSE ix.link[q][f]
      <4>1. AddedAs(made, ix, p, node, c, "parent", at, "child")
        BY <1>1, <2>3, <3>2, <3>3, <3>7, AddedBetween
      <4> HIDE DEF made
      <4> QED
        BY <4>1 DEF AddedAs
    <3> HIDE DEF made
    <3>5. /\ made.link[p].size = size /\ made.link[p].back = Null /\ made.link[p].fwd = Null
          /\ made.link[p].child = c /\ made.link[p].parent = at
          /\ \A q \in D :
               /\ made.link[q].size = ix.link[q].size
               /\ made.link[q].back = ix.link[q].back
               /\ made.link[q].fwd = ix.link[q].fwd
               /\ made.link[q].child = IF q = at THEN p ELSE ix.link[q].child
               /\ made.link[q].parent = IF q = c THEN p ELSE ix.link[q].parent
      BY <3>3, <3>4 DEF Fields
    <3>6. Inserted(made, ix, p, size)
      BY <1>3, <2>3, <2>7, <3>4, <3>5, BelowSound DEF c
    <3> QED
      BY <2>1, <2>2, <3>1, <3>6
  <2> QED
    BY <2>4, <2>5, <2>6, <2>7
<1> QED
  BY <1>2, <1>3

\* The special values are no blocks.
LEMMA NotBlocks ==
  ASSUME NEW ix, Shape(ix)
  PROVE  /\ Null \notin DOMAIN ix.link /\ Junk \notin DOMAIN ix.link /\ Lost \notin DOMAIN ix.link
         /\ \A q \in DOMAIN ix.link : ix.link[q].size \in Nat
<1>1. DOMAIN ix.link \in SUBSET (Nat \ {0})
  BY DEF Shape
<1>2. Null \notin Nat \ {0} /\ Junk \notin Nat \ {0} /\ Lost \notin Nat \ {0}
  BY Slots
<1>3. \A q \in DOMAIN ix.link : ix.link[q].size \in Nat
  BY DEF Shape, NodeSet
<1> QED
  BY <1>1, <1>2, <1>3

\* heap_tree_delete of a child: the chain closes behind it.
LEMMA UnchainSound ==
  ASSUME NEW ix, Sound(ix), NEW p \in DOMAIN ix.link, ix.link[p].size > ListMax,
         NEW par \in DOMAIN ix.link, par # p, ix.link[p].parent = par, ix.link[par].child = p,
         NEW c, c = ix.link[p].child, c # p,
         NEW new, Shape(new), new.free = ix.free, new.ok = ix.ok, DOMAIN new.link = DOMAIN ix.link \ {p},
         \A q \in DOMAIN new.link :
           /\ new.link[q].size = ix.link[q].size
           /\ new.link[q].back = ix.link[q].back
           /\ new.link[q].fwd = ix.link[q].fwd
           /\ new.link[q].child = IF q = par THEN c ELSE ix.link[q].child
           /\ new.link[q].parent = IF q = c THEN par ELSE ix.link[q].parent
  PROVE  Removed(new, ix, p)
<1> DEFINE D == DOMAIN ix.link
<1>1. /\ Shape(ix) /\ Null \notin D /\ Junk \notin D
      /\ \A q \in D : ix.link[q].size \in Nat
  BY NotBlocks DEF Sound
<1>2. \A q \in D : /\ ix.link[q].size < ListMax => ix.link[q].child \in {Null, Junk}
                   /\ ~(ix.link[q].size < ListMax) /\ ix.link[q].child # Null
                        => ChildOf(ix, ix.link[q].child, q)
  BY DEF Sound, ChildrenBelow
<1>3. ~(ix.link[p].size < ListMax) /\ ~(ix.link[par].size < ListMax) /\ ChildOf(ix, p, par)
  BY <1>1, <1>2, Slots
<1>4. RowsExact(new)
  <2>1. ~(ix.link[p].size < ListMax - 1) /\ \A i \in 0 .. ListCount - 1 : new.free[i] = ix.free[i]
    BY <1>1, Slots
  <2>2. RowsExact(ix)
    BY DEF Sound
  <2> QED
    BY <2>1, <2>2, LowRowsKept
<1>5. ChildrenBelow(new)
  <2> SUFFICES ASSUME NEW q \in DOMAIN new.link
               PROVE  IF new.link[q].size < ListMax
                        THEN new.link[q].child \in {Null, Junk}
                        ELSE new.link[q].child # Null => ChildOf(new, new.link[q].child, q)
    BY DEF ChildrenBelow
  <2>1. q \in D /\ q # p /\ new.link[q].size = ix.link[q].size
    OBVIOUS
  <2>2. CASE q = par
    <3>1. ASSUME c # Null PROVE ChildOf(new, c, q)
      <4>1. ChildOf(ix, c, p)
        BY <1>2, <1>3, <3>1
      <4>2. c \in DOMAIN new.link /\ new.link[c].parent = par
        BY <4>1 DEF ChildOf, IsNode
      <4>3. /\ new.link[c].size = ix.link[par].size
            /\ new.link[c].back = Null /\ new.link[c].fwd = Null /\ c # ix.free[Root]
        BY <1>3, <4>1, <4>2 DEF ChildOf
      <4> QED
        BY <2>1, <2>2, <4>2, <4>3 DEF ChildOf, IsNode
    <3> QED
      BY <1>3, <2>1, <2>2, <3>1
  <2>3. CASE q # par
    <3>1. new.link[q].child = ix.link[q].child
      BY <2>3
    <3>2. ASSUME ~(ix.link[q].size < ListMax), ix.link[q].child # Null
          PROVE  ChildOf(new, ix.link[q].child, q)
      <4> DEFINE e == ix.link[q].child
      <4>1. ChildOf(ix, e, q)
        BY <1>2, <2>1, <3>2
      <4>2. e # p
        BY <2>3, <4>1 DEF ChildOf
      <4>3. e # c
        <5> SUFFICES ASSUME e = c PROVE FALSE
          OBVIOUS
        <5>1. ChildOf(ix, c, p)
          BY <1>2, <1>3, <3>2
        <5> QED
          BY <2>1, <4>1, <5>1 DEF ChildOf
      <4> HIDE DEF e
      <4>4. e \in DOMAIN new.link
        BY <4>1, <4>2 DEF ChildOf, IsNode
      <4>5. /\ new.link[e].parent = q /\ new.link[e].size = ix.link[q].size
            /\ new.link[e].back = Null /\ new.link[e].fwd = Null /\ e # ix.free[Root]
        BY <4>1, <4>3, <4>4 DEF ChildOf
      <4>6. ChildOf(new, e, q)
        BY <2>1, <4>4, <4>5 DEF ChildOf, IsNode
      <4> QED
        BY <4>6 DEF e
    <3> QED
      BY <1>2, <2>1, <3>1, <3>2
  <2> QED
    BY <2>2, <2>3
<1>6. Sorted(new)
  BY DEF Sound, Sorted, InOrder
<1>7. RootRow(new)
  <2>1. RootRow(ix) /\ ix.free[Root] # p
    BY <1>3 DEF Sound, ChildOf
  <2>2. Rooted(new)
    BY <2>1 DEF RootRow, Rooted, IsNode
  <2>3. Listed(new, Root) = Listed(ix, Root)
    BY <1>1, <1>3, Slots DEF Listed
  <2>4. \A q \in Listed(ix, Root) : q \in DOMAIN new.link
    BY <2>3 DEF Listed
  <2> QED
    BY <2>1, <2>2, <2>3, <2>4, RootRowKept
<1> QED
  BY <1>4, <1>5, <1>6, <1>7 DEF Removed, Sound

\* The neighbours of a node in the row, and its child.
HadNeighbours(ix, p, lo, hi, rep) ==
  /\ lo = ix.link[p].back /\ hi = ix.link[p].fwd /\ rep = ix.link[p].child
  /\ lo # Null => lo \in DOMAIN ix.link /\ lo # p /\ ix.link[lo].fwd = p
  /\ hi # Null => hi \in DOMAIN ix.link /\ hi # p /\ ix.link[hi].back = p
  /\ rep # p

\* p is gone: its neighbours lead to its child, or to each other, and the root to one
\* of the three if it was p.
Unrowed(new, ix, p, lo, hi, rep) ==
  /\ Shape(new) /\ new.ok = ix.ok /\ DOMAIN new.link = DOMAIN ix.link \ {p}
  /\ \A i \in 0 .. ListCount : i # Root => new.free[i] = ix.free[i]
  /\ new.free[Root] = IF ix.free[Root] # p THEN ix.free[Root]
                      ELSE IF rep # Null THEN rep ELSE IF lo # Null THEN lo ELSE hi
  /\ \A q \in DOMAIN new.link :
       /\ new.link[q].size = ix.link[q].size
       /\ new.link[q].back = IF q = rep THEN lo ELSE IF q # hi THEN ix.link[q].back
                            ELSE IF rep = Null THEN lo ELSE rep
       /\ new.link[q].fwd = IF q = rep THEN hi ELSE IF q # lo THEN ix.link[q].fwd
                           ELSE IF rep = Null THEN hi ELSE rep
       /\ new.link[q].child = ix.link[q].child
       /\ new.link[q].parent = ix.link[q].parent

\* heap_tree_delete of a node of the row: its neighbours, and its child if it
\* has one, come to point at each other.  "rep" is the child, or Null.
LEMMA UnrowSound ==
  ASSUME NEW ix, Sound(ix), NEW p \in DOMAIN ix.link, ix.link[p].size > ListMax,
         ix.link[p].parent = Null, NEW lo, NEW hi, NEW rep,
         HadNeighbours(ix, p, lo, hi, rep), NEW new, Unrowed(new, ix, p, lo, hi, rep)
  PROVE  Removed(new, ix, p)
<1> SUFFICES ASSUME
         lo = ix.link[p].back, hi = ix.link[p].fwd, rep = ix.link[p].child,
         lo # Null => lo \in DOMAIN ix.link /\ lo # p /\ ix.link[lo].fwd = p,
         hi # Null => hi \in DOMAIN ix.link /\ hi # p /\ ix.link[hi].back = p,
         rep # p,
         Shape(new), new.ok = ix.ok, DOMAIN new.link = DOMAIN ix.link \ {p},
         \A i \in 0 .. ListCount : i # Root => new.free[i] = ix.free[i],
         new.free[Root] = IF ix.free[Root] # p THEN ix.free[Root]
                          ELSE IF rep # Null THEN rep ELSE IF lo # Null THEN lo ELSE hi,
         \A q \in DOMAIN new.link :
           /\ new.link[q].size = ix.link[q].size
           /\ new.link[q].back = IF q = rep THEN lo ELSE IF q # hi THEN ix.link[q].back
                                ELSE IF rep = Null THEN lo ELSE rep
           /\ new.link[q].fwd = IF q = rep THEN hi ELSE IF q # lo THEN ix.link[q].fwd
                               ELSE IF rep = Null THEN hi ELSE rep
           /\ new.link[q].child = ix.link[q].child
           /\ new.link[q].parent = ix.link[q].parent
       PROVE Removed(new, ix, p)
  BY DEF HadNeighbours, Unrowed
<1> DEFINE D == DOMAIN ix.link
<1>1. /\ Shape(ix) /\ Null \notin D /\ Junk \notin D
      /\ \A q \in D : ix.link[q].size \in Nat
  BY NotBlocks DEF Sound
<1>2. \A q \in D : /\ ix.link[q].size < ListMax => ix.link[q].child \in {Null, Junk}
                   /\ ~(ix.link[q].size < ListMax) /\ ix.link[q].child # Null
                        => ChildOf(ix, ix.link[q].child, q)
  BY DEF Sound, ChildrenBelow
<1>3. ~(ix.link[p].size < ListMax) /\ ix.link[p].size >= ListMax - 1 /\ p # Null
  BY <1>1, Slots
<1>4. rep # Null => /\ ChildOf(ix, rep, p) /\ rep \in D
                    /\ ix.link[rep].size = ix.link[p].size
                    /\ rep # lo /\ rep # hi
  <2> SUFFICES ASSUME rep # Null
               PROVE  /\ ChildOf(ix, rep, p) /\ rep \in D
                      /\ ix.link[rep].size = ix.link[p].size
                      /\ rep # lo /\ rep # hi
    OBVIOUS
  <2>1. ChildOf(ix, rep, p)
    BY <1>2, <1>3
  <2> QED
    BY <1>3, <2>1 DEF ChildOf, IsNode
<1>5. /\ lo # Null => ix.link[lo].size >= ListMax - 1 /\ ix.link[lo].size < ix.link[p].size
      /\ hi # Null => ix.link[hi].size >= ListMax - 1 /\ ix.link[p].size < ix.link[hi].size
  <2>1. ASSUME lo # Null
        PROVE  ix.link[lo].size >= ListMax - 1 /\ ix.link[lo].size < ix.link[p].size
    <3>1. lo \in D /\ ix.link[p].back = lo /\ ix.link[lo].fwd = p
      BY <2>1
    <3> QED
      BY <1>1, <1>3, <3>1, LongNeighbours DEF Sound, Sorted, InOrder
  <2>2. ASSUME hi # Null
        PROVE  ix.link[hi].size >= ListMax - 1 /\ ix.link[p].size < ix.link[hi].size
    <3>1. hi \in D /\ ix.link[p].fwd = hi /\ ix.link[hi].back = p
      BY <2>2
    <3> QED
      BY <1>1, <1>3, <3>1, LongNeighbours DEF Sound, Sorted, InOrder
  <2> QED
    BY <2>1, <2>2
<1>6. RowsExact(new)
  <2>1. ASSUME NEW q \in D, ix.link[q].size < ListMax - 1
        PROVE  q # rep /\ q # hi /\ q # lo /\ q # p
    BY <1>1, <1>3, <1>4, <1>5, <2>1, Slots
  <2>2. \A i \in 0 .. ListCount - 1 : new.free[i] = ix.free[i]
    BY Slots
  <2>3. RowsExact(ix)
    BY DEF Sound
  <2> QED
    BY <2>1, <2>2, <2>3, LowRowsKept
<1>7. ChildrenBelow(new)
  <2> SUFFICES ASSUME NEW q \in DOMAIN new.link
               PROVE  IF new.link[q].size < ListMax
                        THEN new.link[q].child \in {Null, Junk}
                        ELSE new.link[q].child # Null => ChildOf(new, new.link[q].child, q)
    BY DEF ChildrenBelow
  <2>1. /\ q \in D /\ q # p /\ new.link[q].size = ix.link[q].size
        /\ new.link[q].child = ix.link[q].child
    OBVIOUS
  <2>2. ASSUME ~(ix.link[q].size < ListMax), ix.link[q].child # Null
        PROVE  ChildOf(new, ix.link[q].child, q)
    <3> DEFINE e == ix.link[q].child
    <3>1. ChildOf(ix, e, q)
      BY <1>2, <2>1, <2>2
    <3>2. e # p
      BY <1>1, <2>1, <3>1 DEF ChildOf
    <3>3. e # rep
      <4> SUFFICES ASSUME e = rep PROVE FALSE
        OBVIOUS
      <4>1. ChildOf(ix, rep, p)
        BY <1>4, <2>2
      <4> QED
        BY <2>1, <3>1, <4>1 DEF ChildOf
    <3> HIDE DEF e
    <3>4. e \in D /\ e # Null /\ e \in DOMAIN new.link
      BY <1>1, <3>1, <3>2 DEF ChildOf, IsNode
    <3>5. e # lo /\ e # hi
      BY <1>3, <3>1, <3>4 DEF ChildOf
    <3>6. /\ new.link[e].parent = q /\ new.link[e].size = ix.link[q].size
          /\ new.link[e].back = Null /\ new.link[e].fwd = Null
      BY <3>1, <3>3, <3>4, <3>5 DEF ChildOf
    <3>7. e # new.free[Root]
      BY <3>1, <3>3, <3>5 DEF ChildOf
    <3>8. ChildOf(new, e, q)
      BY <2>1, <3>4, <3>6, <3>7 DEF ChildOf, IsNode
    <3> QED
      BY <3>8 DEF e
  <2> QED
    BY <1>2, <2>1, <2>2
<1>8. Sorted(new)
  <2> SUFFICES ASSUME NEW a \in DOMAIN new.link, NEW b \in DOMAIN new.link,
                      new.link[a].fwd = b, new.link[b].back = a
               PROVE  InOrder(ix, a, b)
    BY DEF Sorted, InOrder
  <2>1. a \in D /\ b \in D /\ a # Null /\ b # Null /\ a # p /\ b # p
    BY <1>1
  <2>2. CASE a = rep
    <3>1. b = hi /\ ix.link[a].size = ix.link[p].size
      BY <1>4, <2>1, <2>2
    <3> QED
      BY <1>5, <2>1, <3>1 DEF InOrder
  <2>3. CASE a # rep /\ a = lo
    <3>1. b = IF rep = Null THEN hi ELSE rep
      BY <2>3
    <3>2. ix.link[p].size <= ix.link[b].size
      BY <1>1, <1>4, <1>5, <2>1, <3>1
    <3> QED
      BY <1>1, <1>5, <2>1, <2>3, <3>2 DEF InOrder
  <2>4. CASE a # rep /\ a # lo
    <3>1. ix.link[a].fwd = b
      BY <2>4
    <3>2. b # rep
      BY <2>4
    <3>3. b # hi
      BY <2>4, <3>2
    <3>4. ix.link[b].back = a
      BY <3>2, <3>3
    <3> QED
      BY <2>1, <3>1, <3>4 DEF Sound, Sorted
  <2> QED
    BY <2>2, <2>3, <2>4
<1>9. RootRow(new)
  <2> DEFINE items == Listed(ix, Root)
             root  == ix.free[Root]
  <2>1. RootRow(ix) /\ Rooted(ix)
    BY DEF Sound, RootRow
  <2>2. \A q \in items : q \in D /\ q # p /\ q # Null /\ ix.link[q].size = ListMax - 1
    BY <1>1, Slots DEF Listed
  <2>3. Listed(new, Root) = items
    BY <1>1, Slots DEF Listed
  <2>4. root = p => items = {}
    <3>1. p \notin items
      BY <2>2
    <3> QED
      BY <2>1, <3>1, NoItems
  <2>5. Rooted(new)
    <3>1. CASE root = p
      <4> DEFINE r == new.free[Root]
      <4>1. r = Null \/ (r \in D /\ r # p /\ ix.link[r].size >= ListMax - 1)
        BY <1>3, <1>4, <1>5, <3>1
      <4> HIDE DEF r
      <4>2. r = Null \/ (r \in DOMAIN new.link /\ new.link[r].size >= ListMax - 1)
        BY <4>1
      <4> QED
        BY <4>2 DEF Rooted, IsNode, r
    <3>2. CASE root # p
      <4> DEFINE r == new.free[Root]
      <4>1. r = Null \/ (r \in D /\ r # p /\ ix.link[r].size >= ListMax - 1)
        BY <2>1, <3>2 DEF Rooted, IsNode
      <4> HIDE DEF r
      <4>2. r = Null \/ (r \in DOMAIN new.link /\ new.link[r].size >= ListMax - 1)
        BY <4>1
      <4> QED
        BY <4>2 DEF Rooted, IsNode, r
    <3> QED
      BY <3>1, <3>2, Zenon
  <2>6. ASSUME NEW q \in items
        PROVE  /\ new.link[q].back = ix.link[q].back
               /\ ix.link[q].fwd \in items => new.link[q].fwd = ix.link[q].fwd
    <3>1. q \in DOMAIN new.link /\ q # rep /\ q # hi
      BY <1>1, <1>4, <1>5, <2>2, <2>6, Slots
    <3>2. q = lo => ix.link[q].fwd \notin items
      BY <2>2, <2>6
    <3> QED
      BY <3>1, <3>2
  <2> QED
    BY <2>1, <2>3, <2>4, <2>5, <2>6, RootRowKept
<1> QED
  BY <1>6, <1>7, <1>8, <1>9 DEF Removed, Sound

\* heap_tree_delete.
LEMMA TreeDeleteSound ==
  ASSUME NEW ix, Sound(ix), NEW p \in DOMAIN ix.link, ix.link[p].size > ListMax,
         LinkedBack(ix, p)
  PROVE  Removed(TreeDelete(ix, p), ix, p)
<1> DEFINE D   == DOMAIN ix.link
           n   == ix.link[p]
           lo  == n.back
           hi  == n.fwd
           c   == n.child
           par == n.parent
<1>1. Shape(ix) /\ Null \notin D /\ p # Null
  BY NotBlocks DEF Sound
<1>2. /\ lo = Null \/ (lo \in D /\ lo # p /\ ix.link[lo].fwd = p)
      /\ hi = Null \/ (hi \in D /\ hi # p /\ ix.link[hi].back = p)
      /\ c = Null \/ (c \in D /\ c # p /\ ix.link[c].parent = p)
      /\ par = Null \/ (par \in D /\ par # p /\ ix.link[par].child = p)
  BY <1>1, LinkedNeighbours
<1>3. lo \in Addresses /\ hi \in Addresses /\ c \in Addresses /\ par \in Addresses /\ n.size \in Nat
  BY <1>1 DEF Shape, NodeSet
<1>4. c # Null => c # lo /\ c # hi
  <2>1. c # Null => ChildOf(ix, c, p)
    <3>1. ~(n.size < ListMax)
      BY <1>3, Slots
    <3> QED
      BY <3>1 DEF Sound, ChildrenBelow
  <2> QED
    BY <1>1, <1>2, <2>1 DEF ChildOf
<1> DEFINE bridged ==
             IF c # Null
               THEN Store(Store(StoreIf(StoreIf(ix, hi, "back", c), lo, "fwd", c), c, "fwd", hi),
                          c, "back", lo)
               ELSE StoreIf(StoreIf(ix, hi, "back", lo), lo, "fwd", hi)
           replacement == IF c # Null THEN c ELSE IF lo # Null THEN lo ELSE hi
           cut == IF par # Null THEN StoreIf(Store(ix, par, "child", c), c, "parent", par)
                  ELSE IF ix.free[Root] = p THEN SetHead(bridged, Root, replacement)
                  ELSE bridged
           new == Drop(cut, p)
<1>5. TreeDelete(ix, p) = new
  BY DEF TreeDelete
<1>6. ASSUME Shape(cut), DOMAIN cut.link = D
      PROVE  /\ Shape(new) /\ new.free = cut.free /\ new.ok = cut.ok
             /\ DOMAIN new.link = D \ {p} /\ \A q \in DOMAIN new.link : new.link[q] = cut.link[q]
  <2> HIDE DEF cut
  <2> QED
    BY <1>6, Dropped
<1>7. CASE par # Null
  <2> DEFINE a == Store(ix, par, "child", c)
             b == StoreIf(a, c, "parent", par)
  <2>1. cut = b
    BY <1>7
  <2> HIDE DEF cut, new, par, c
  <2>2. par \in D /\ par # p /\ ix.link[par].child = p
    BY <1>2, <1>7
  <2>3. Assigned(a, ix, par, "child", c)
    BY <1>1, <1>3, <2>2, Stored
  <2> HIDE DEF a
  <2>4. Shape(a) /\ DOMAIN a.link = D /\ c \in DOMAIN a.link \union {Null}
    BY <1>2, <2>3 DEF Assigned
  <2>5. Assigned(b, a, c, "parent", par)
    BY <1>3, <2>4, StoredIf
  <2> HIDE DEF b
  <2>6. /\ Shape(b) /\ b.free = ix.free /\ b.ok = ix.ok /\ DOMAIN b.link = D
        /\ \A q \in D : /\ b.link[q].size = ix.link[q].size
                        /\ b.link[q].back = ix.link[q].back
                        /\ b.link[q].fwd = ix.link[q].fwd
                        /\ b.link[q].child = IF q = par THEN c ELSE ix.link[q].child
                        /\ b.link[q].parent = IF q = c THEN par ELSE ix.link[q].parent
    BY <2>3, <2>5 DEF Assigned, Fields
  <2>7. /\ Shape(new) /\ new.free = ix.free /\ new.ok = ix.ok /\ DOMAIN new.link = D \ {p}
        /\ \A q \in DOMAIN new.link : q \in D /\ new.link[q] = b.link[q]
    BY <1>6, <2>1, <2>6
  <2>8. c # p
    BY <1>1, <1>2
  <2>9. par = ix.link[p].parent /\ c = ix.link[p].child
    BY DEF par, c
  <2>10. \A q \in DOMAIN new.link :
           /\ new.link[q].size = ix.link[q].size
           /\ new.link[q].back = ix.link[q].back
           /\ new.link[q].fwd = ix.link[q].fwd
           /\ new.link[q].child = IF q = par THEN c ELSE ix.link[q].child
           /\ new.link[q].parent = IF q = c THEN par ELSE ix.link[q].parent
    BY <2>6, <2>7
  <2> QED
    BY <1>5, <2>2, <2>7, <2>8, <2>9, <2>10, UnchainSound
<1>8. CASE par = Null
  <2>1. /\ Shape(bridged) /\ bridged.free = ix.free /\ bridged.ok = ix.ok /\ DOMAIN bridged.link = D
        /\ \A q \in D :
             /\ bridged.link[q].size = ix.link[q].size
             /\ bridged.link[q].back = IF q = c THEN lo ELSE IF q # hi THEN ix.link[q].back
                                      ELSE IF c = Null THEN lo ELSE c
             /\ bridged.link[q].fwd = IF q = c THEN hi ELSE IF q # lo THEN ix.link[q].fwd
                                     ELSE IF c = Null THEN hi ELSE c
             /\ bridged.link[q].child = ix.link[q].child
             /\ bridged.link[q].parent = ix.link[q].parent
    <3>1. CASE c # Null
      <4> DEFINE a == StoreIf(ix, hi, "back", c)
                 b == StoreIf(a, lo, "fwd", c)
                 d == Store(b, c, "fwd", hi)
                 e == Store(d, c, "back", lo)
      <4>1. bridged = e
        BY <3>1
      <4> HIDE DEF bridged, lo, hi, c
      <4>2. Assigned(a, ix, hi, "back", c)
        <5>1. hi \in D \union {Null}
          BY <1>2
        <5> QED
          BY <1>1, <1>3, <5>1, StoredIf
      <4> HIDE DEF a
      <4>3. Shape(a) /\ DOMAIN a.link = D /\ lo \in DOMAIN a.link \union {Null}
        BY <1>2, <4>2 DEF Assigned
      <4>4. Assigned(b, a, lo, "fwd", c)
        BY <1>3, <4>3, StoredIf
      <4> HIDE DEF b
      <4>5. Shape(b) /\ DOMAIN b.link = D /\ c \in DOMAIN b.link
        BY <1>2, <3>1, <4>3, <4>4 DEF Assigned
      <4>6. Assigned(d, b, c, "fwd", hi)
        BY <1>3, <4>5, Stored
      <4> HIDE DEF d
      <4>7. Shape(d) /\ DOMAIN d.link = D /\ c \in DOMAIN d.link
        BY <4>5, <4>6 DEF Assigned
      <4>8. Assigned(e, d, c, "back", lo)
        BY <1>3, <4>7, Stored
      <4> HIDE DEF e
      <4>9. /\ Shape(e) /\ e.free = ix.free /\ e.ok = ix.ok /\ DOMAIN e.link = D
        BY <4>2, <4>4, <4>6, <4>8 DEF Assigned
      <4>10. ASSUME NEW q \in D
             PROVE  /\ e.link[q].size = ix.link[q].size
                    /\ e.link[q].back = IF q = c THEN lo ELSE IF q # hi THEN ix.link[q].back ELSE c
                    /\ e.link[q].fwd = IF q = c THEN hi ELSE IF q # lo THEN ix.link[q].fwd ELSE c
                    /\ e.link[q].child = ix.link[q].child
                    /\ e.link[q].parent = ix.link[q].parent
        <5>1. \A f \in Fields :
                /\ a.link[q][f] = IF q = hi /\ f = "back" THEN c ELSE ix.link[q][f]
                /\ b.link[q][f] = IF q = lo /\ f = "fwd" THEN c ELSE a.link[q][f]
                /\ d.link[q][f] = IF q = c /\ f = "fwd" THEN hi ELSE b.link[q][f]
                /\ e.link[q][f] = IF q = c /\ f = "back" THEN lo ELSE d.link[q][f]
          BY <4>2, <4>3, <4>4, <4>5, <4>6, <4>7, <4>8 DEF Assigned
        <5> QED
          BY <5>1 DEF Fields
      <4> QED
        BY <3>1, <4>1, <4>9, <4>10
    <3>2. CASE c = Null
      <4> DEFINE a == StoreIf(ix, hi, "back", lo)
                 b == StoreIf(a, lo, "fwd", hi)
      <4>1. bridged = b
        BY <3>2
      <4> HIDE DEF bridged, lo, hi, c
      <4>2. Assigned(a, ix, hi, "back", lo)
        <5>1. hi \in D \union {Null}
          BY <1>2
        <5> QED
          BY <1>1, <1>3, <5>1, StoredIf
      <4> HIDE DEF a
      <4>3. Shape(a) /\ DOMAIN a.link = D /\ lo \in DOMAIN a.link \union {Null}
        BY <1>2, <4>2 DEF Assigned
      <4>4. Assigned(b, a, lo, "fwd", hi)
        BY <1>3, <4>3, StoredIf
      <4> HIDE DEF b
      <4>5. /\ Shape(b) /\ b.free = ix.free /\ b.ok = ix.ok /\ DOMAIN b.link = D
            /\ \A q \in D : /\ b.link[q].size = ix.link[q].size
                            /\ b.link[q].back = IF q # hi THEN ix.link[q].back ELSE lo
                            /\ b.link[q].fwd = IF q # lo THEN ix.link[q].fwd ELSE hi
                            /\ b.link[q].child = ix.link[q].child
                            /\ b.link[q].parent = ix.link[q].parent
        <5>1. /\ Shape(b) /\ b.free = ix.free /\ b.ok = ix.ok /\ DOMAIN b.link = D
          BY <4>2, <4>4 DEF Assigned
        <5>2. ASSUME NEW q \in D
              PROVE  /\ b.link[q].size = ix.link[q].size
                     /\ b.link[q].back = IF q # hi THEN ix.link[q].back ELSE lo
                     /\ b.link[q].fwd = IF q # lo THEN ix.link[q].fwd ELSE hi
                     /\ b.link[q].child = ix.link[q].child
                     /\ b.link[q].parent = ix.link[q].parent
          <6>1. \A f \in Fields :
                  /\ a.link[q][f] = IF q = hi /\ f = "back" THEN lo ELSE ix.link[q][f]
                  /\ b.link[q][f] = IF q = lo /\ f = "fwd" THEN hi ELSE a.link[q][f]
            BY <4>2, <4>3, <4>4 DEF Assigned
          <6> QED
            BY <6>1 DEF Fields
        <5> QED
          BY <5>1, <5>2
      <4>6. \A q \in D : q # c
        BY <1>1, <3>2
      <4>7. ASSUME NEW q \in D
            PROVE  /\ bridged.link[q].size = ix.link[q].size
                   /\ bridged.link[q].back = IF q = c THEN lo ELSE IF q # hi THEN ix.link[q].back
                                            ELSE IF c = Null THEN lo ELSE c
                   /\ bridged.link[q].fwd = IF q = c THEN hi ELSE IF q # lo THEN ix.link[q].fwd
                                           ELSE IF c = Null THEN hi ELSE c
                   /\ bridged.link[q].child = ix.link[q].child
                   /\ bridged.link[q].parent = ix.link[q].parent
        <5>1. q # c /\ bridged = b
          BY <4>1, <4>6
        <5> QED
          BY <3>2, <4>5, <5>1
      <4>8. Shape(bridged) /\ bridged.free = ix.free /\ bridged.ok = ix.ok /\ DOMAIN bridged.link = D
        BY <4>1, <4>5
      <4> QED
        BY <4>7, <4>8
    <3> HIDE DEF bridged, lo, hi, c
    <3> QED
      BY <3>1, <3>2
  <2> HIDE DEF bridged
  <2>2. /\ Shape(cut) /\ cut.link = bridged.link /\ cut.ok = ix.ok
        /\ \A i \in 0 .. ListCount : i # Root => cut.free[i] = ix.free[i]
        /\ cut.free[Root] = IF ix.free[Root] # p THEN ix.free[Root]
                            ELSE IF c # Null THEN c ELSE IF lo # Null THEN lo ELSE hi
    <3>1. CASE ix.free[Root] = p
      <4> DEFINE r == replacement
      <4>1. cut = SetHead(bridged, Root, r) /\ r \in {lo, hi, c}
            /\ r = IF c # Null THEN c ELSE IF lo # Null THEN lo ELSE hi
        BY <1>8, <3>1
      <4>2. r \in DOMAIN bridged.link \union {Null} /\ Root \in DOMAIN bridged.free
        <5>1. Root \in DOMAIN bridged.free
          BY <2>1, Slots DEF Shape
        <5>2. lo \in D \union {Null} /\ hi \in D \union {Null} /\ c \in D \union {Null}
          BY <1>2
        <5> HIDE DEF r
        <5> QED
          BY <2>1, <4>1, <5>1, <5>2
      <4> HIDE DEF cut, r
      <4>3. HeadedAs(cut, bridged, Root, r)
        BY <2>1, <4>1, <4>2, Headed
      <4>4. Shape(cut) /\ cut.link = bridged.link /\ cut.ok = ix.ok /\ cut.free[Root] = r
        BY <2>1, <4>3 DEF HeadedAs
      <4>5. \A i \in 0 .. ListCount : i # Root => cut.free[i] = ix.free[i]
        BY <2>1, <4>3 DEF HeadedAs
      <4>6. cut.free[Root] = IF ix.free[Root] # p THEN ix.free[Root]
                            ELSE IF c # Null THEN c ELSE IF lo # Null THEN lo ELSE hi
        BY <3>1, <4>1, <4>4
      <4> HIDE DEF replacement, lo, hi, c
      <4> QED
        BY <4>4, <4>5, <4>6
    <3>2. CASE ix.free[Root] # p
      <4>1. cut = bridged
        BY <1>8, <3>2
      <4> HIDE DEF cut, lo, hi, c
      <4> QED
        BY <2>1, <3>2, <4>1
    <3> HIDE DEF cut, replacement, lo, hi, c
    <3> QED
      BY <3>1, <3>2
  <2> HIDE DEF cut, new, par
  <2>3. DOMAIN cut.link = D
    BY <2>1, <2>2
  <2>4. /\ Shape(new) /\ new.free = cut.free /\ new.ok = ix.ok
        /\ DOMAIN new.link = D \ {p}
        /\ \A q \in DOMAIN new.link : q \in D /\ new.link[q] = bridged.link[q]
    BY <1>6, <2>2, <2>3
  <2> DEFINE l == lo
             h == hi
             rep == c
  <2>5. l = ix.link[p].back /\ h = ix.link[p].fwd /\ rep = ix.link[p].child /\ ix.link[p].parent = Null
    BY <1>8 DEF par
  <2>6. /\ l # Null => l \in D /\ l # p /\ ix.link[l].fwd = p
        /\ h # Null => h \in D /\ h # p /\ ix.link[h].back = p
        /\ rep # p
    BY <1>1, <1>2
  <2>7. \A q \in DOMAIN new.link :
           /\ new.link[q].size = ix.link[q].size
           /\ new.link[q].back = IF q = rep THEN l ELSE IF q # h THEN ix.link[q].back
                                ELSE IF rep = Null THEN l ELSE rep
           /\ new.link[q].fwd = IF q = rep THEN h ELSE IF q # l THEN ix.link[q].fwd
                               ELSE IF rep = Null THEN h ELSE rep
           /\ new.link[q].child = ix.link[q].child
           /\ new.link[q].parent = ix.link[q].parent
    BY <2>1, <2>4
  <2>8. /\ \A i \in 0 .. ListCount : i # Root => new.free[i] = ix.free[i]
        /\ new.free[Root] = IF ix.free[Root] # p THEN ix.free[Root]
                            ELSE IF rep # Null THEN rep ELSE IF l # Null THEN l ELSE h
    BY <2>2, <2>4
  <2> HIDE DEF l, h, rep
  <2>9. HadNeighbours(ix, p, l, h, rep) /\ Unrowed(new, ix, p, l, h, rep)
    <3>1. HadNeighbours(ix, p, l, h, rep)
      BY <2>5, <2>6 DEF HadNeighbours
    <3>2. Unrowed(new, ix, p, l, h, rep)
      BY <2>4, <2>7, <2>8 DEF Unrowed
    <3> QED
      BY <3>1, <3>2
  <2>10. Removed(new, ix, p)
    BY <2>5, <2>9, UnrowSound
  <2> QED
    BY <1>5, <2>10
<1> QED
  BY <1>7, <1>8

-----------------------------------------------------------------------------
(* Every insertion and removal keeps the index sound *)

\* The index as a stale link leaves it: heap.c has written nothing yet.
LEMMA SoundBad ==
  ASSUME NEW ix, Sound(ix)
  PROVE  Sound(Bad(ix)) /\ Bad(ix).link = ix.link /\ ~Bad(ix).ok
<1> DEFINE new == Bad(ix)
<1>1. Shape(ix)
  BY DEF Sound
<1> DEFINE heads == ix.free
           l == ix.link
           ok == ix.ok
<1>2. ix = [free |-> heads, link |-> l, ok |-> ok]
  BY <1>1 DEF Shape
<1> HIDE DEF heads, l, ok
<1> DEFINE no == FALSE
<1>3. new = [free |-> heads, link |-> l, ok |-> no]
  <2>1. ASSUME NEW x, NEW y, NEW z, NEW w
        PROVE  [[free |-> x, link |-> y, ok |-> z] EXCEPT !.ok = w]
                 = [free |-> x, link |-> y, ok |-> w]
    OBVIOUS
  <2>2. new = [ix EXCEPT !.ok = no]
    BY DEF Bad
  <2> HIDE DEF new, no
  <2> QED
    BY <1>2, <2>1, <2>2
<1> HIDE DEF new, no
<1>4. new.free = heads /\ new.link = l /\ new.ok = no
       /\ new = [free |-> new.free, link |-> new.link, ok |-> new.ok]
  BY <1>3
<1>5. new.free = heads /\ new.link = l /\ new.ok = FALSE
      /\ new = [free |-> new.free, link |-> new.link, ok |-> new.ok]
  BY <1>4 DEF no
<1>6. new.free = ix.free /\ new.link = ix.link
  BY <1>5 DEF heads, l
<1>7. Shape(new)
  <2>1. new.ok \in BOOLEAN
    BY <1>5
  <2>2. new = [free |-> new.free, link |-> new.link, ok |-> new.ok]
    BY <1>5
  <2> QED
    BY <1>1, <1>6, <2>1, <2>2 DEF Shape
<1>8. RowsExact(new)
  <2>1. RowsExact(ix)
    BY DEF Sound
  <2> QED
    BY <1>6, <2>1, LowRowsKept
<1>9. ChildrenBelow(new) /\ Sorted(new)
  BY <1>6 DEF Sound, ChildrenBelow, Sorted, ChildOf, IsNode, InOrder
<1>11. RootRow(new)
  BY <1>6 DEF Sound, RootRow, Listed, Rooted, IsNode
<1>10. Sound(new) /\ new.link = ix.link /\ ~new.ok
  BY <1>5, <1>7, <1>8, <1>9, <1>6, <1>11 DEF Sound
<1> QED
  BY <1>10 DEF new

\* heap_insert: unless it meets a stale link, the block is added.
LEMMA InsertSound ==
  ASSUME NEW ix, Sound(ix), NEW b, b.addr \in Nat \ {0}, b.addr \notin DOMAIN ix.link,
         b.size \in Nat, b.size >= Overhead, b.size # ListMax, NEW rest \in {Null, Junk}
  PROVE  LET new == Insert(ix, b, rest) IN
         /\ Sound(new)
         /\ new.ok => ix.ok /\ Inserted(new, ix, b.addr, b.size)
         /\ DOMAIN new.link \subseteq DOMAIN ix.link \union {b.addr}
<1> DEFINE new  == Insert(ix, b, rest)
           size == b.size
           p    == b.addr
<1>1. Sound(Bad(ix)) /\ Bad(ix).link = ix.link /\ ~Bad(ix).ok
  BY SoundBad
<1>2. new = Bad(ix) \/ Inserted(new, ix, p, size)
  <2>1. CASE size >= ListMax - 1 /\ ~Rooted(ix)
    BY <2>1 DEF Insert
  <2>2. CASE ~(size >= ListMax - 1 /\ ~Rooted(ix)) /\ size < ListMax
    <3>1. SizeIdx(size) >= 0
      BY <2>2, Slots
    <3>2. new = ListInsert(ix, p, size, rest)
      BY <2>2, <3>1 DEF Insert
    <3>3. (size < ListMax - 1 \/ Rooted(ix)) /\ size \in Nat /\ size >= Overhead /\ p \in Nat \ {0}
          /\ p \notin DOMAIN ix.link
      BY <2>2, Slots
    <3> HIDE DEF new, p, size
    <3>4. Inserted(ListInsert(ix, p, size, rest), ix, p, size)
      BY <2>2, <3>3, ListInsertSound
    <3> QED
      BY <3>2, <3>4
  <2>3. CASE ~(size >= ListMax - 1 /\ ~Rooted(ix)) /\ size > ListMax
    <3>1. ~(SizeIdx(size) >= 0)
      BY <2>3, Slots
    <3>2. new = TreeInsert(ix, p, size)
      BY <2>3, <3>1 DEF Insert
    <3>3. Rooted(ix) /\ size \in Nat /\ p \in Nat \ {0} /\ p \notin DOMAIN ix.link
      BY <2>3, Slots
    <3> HIDE DEF new, p, size
    <3>4. \/ TreeInsert(ix, p, size) = Bad(ix)
          \/ Inserted(TreeInsert(ix, p, size), ix, p, size)
      BY <2>3, <3>3, TreeInsertSound
    <3> QED
      BY <3>2, <3>4
  <2> QED
    BY <2>1, <2>2, <2>3, Slots
<1> HIDE DEF new
<1>3. /\ Sound(new)
      /\ new.ok => ix.ok /\ Inserted(new, ix, p, size)
      /\ DOMAIN new.link \subseteq DOMAIN ix.link \union {p}
  <2>1. CASE new = Bad(ix)
    BY <1>1, <2>1
  <2>2. CASE Inserted(new, ix, p, size)
    BY <2>2 DEF Inserted
  <2> QED
    BY <1>2, <2>1, <2>2
<1> QED
  BY <1>3 DEF new

\* heap_remove: unless it meets a stale link, the block is taken out.
LEMMA RemoveSound ==
  ASSUME NEW ix, Sound(ix), NEW p \in DOMAIN ix.link
  PROVE  LET new == Remove(ix, p) IN
         /\ Sound(new)
         /\ new.ok => ix.ok /\ Removed(new, ix, p)
         /\ DOMAIN ix.link \ {p} \subseteq DOMAIN new.link
<1> DEFINE new == Remove(ix, p)
           n   == ix.link[p]
<1>1. Sound(Bad(ix)) /\ Bad(ix).link = ix.link /\ ~Bad(ix).ok
  BY SoundBad
<1>2. new = Bad(ix) \/ Removed(new, ix, p)
  <2>1. n.size \in Nat /\ n.size >= Overhead /\ n.size # ListMax
    BY DEF Sound, Shape, NodeSet
  <2>2. CASE ~LinkedBack(ix, p)
    BY <2>2 DEF Remove
  <2>3. CASE LinkedBack(ix, p) /\ n.size < ListMax
    <3>1. SizeIdx(n.size) >= 0
      BY <2>1, <2>3, Slots
    <3>2. new = ListRemove(ix, p)
      BY <2>3, <3>1 DEF Remove
    <3> QED
      BY <2>3, <3>2, ListRemoveSound
  <2>4. CASE LinkedBack(ix, p) /\ n.size > ListMax
    <3>1. ~(SizeIdx(n.size) >= 0)
      BY <2>1, <2>4, Slots
    <3>2. new = TreeDelete(ix, p)
      BY <2>4, <3>1 DEF Remove
    <3> QED
      BY <2>4, <3>2, TreeDeleteSound
  <2> QED
    BY <2>1, <2>2, <2>3, <2>4, Slots
<1> HIDE DEF new
<1>3. /\ Sound(new)
      /\ new.ok => ix.ok /\ Removed(new, ix, p)
      /\ DOMAIN ix.link \ {p} \subseteq DOMAIN new.link
  <2>1. CASE new = Bad(ix)
    BY <1>1, <2>1
  <2>2. CASE Removed(new, ix, p)
    BY <2>2 DEF Removed
  <2> QED
    BY <1>2, <2>1, <2>2
<1> QED
  BY <1>3 DEF new

-----------------------------------------------------------------------------
(* What a search returns *)

\* A search is at a free block, or has ended.
LEMMA IndexPlaces ==
  ASSUME Sound(Index)
  PROVE  /\ Index.link = link /\ Index.free = free /\ Index.ok
         /\ Shape(Index) /\ IsFiniteSet(Places(Index))
         /\ Places(Index) = DOMAIN link \union {Null, Lost}
         /\ Null \notin DOMAIN link /\ Lost \notin DOMAIN link /\ Null # Lost
         /\ \A q \in DOMAIN link : ~IsStop(q) /\ link[q].size \in Nat
         /\ \A q \in Places(Index) : IsStop(q) \/ q \in DOMAIN link
         /\ IsStop(Null) /\ IsStop(Lost)
<1>1. Index.link = link /\ Index.free = free /\ Index.ok
  BY DEF Index
<1>2. Shape(Index) /\ IsFiniteSet(Places(Index))
  BY PlacesFinite DEF Sound
<1>3. /\ Null \notin DOMAIN link /\ Lost \notin DOMAIN link
      /\ \A q \in DOMAIN link : link[q].size \in Nat
  BY <1>1, <1>2, NotBlocks
<1>4. Null # Lost
  BY Slots
<1> QED
  BY <1>1, <1>2, <1>3, <1>4 DEF Places, IsStop

\* The links a search follows.
LEMMA SearchLinks ==
  ASSUME Sound(Index), NEW q \in DOMAIN link
  PROVE  /\ LET r == Led(Index, q, "fwd", "back") IN
            /\ r \in Places(Index) /\ r # q
            /\ r \in DOMAIN link => r = link[q].fwd /\ link[r].back = q
                                    /\ link[q].size <= link[r].size
         /\ LET r == Led(Index, q, "child", "parent") IN
            /\ r \in Places(Index) /\ r # q
            /\ r \in DOMAIN link => link[r].size = link[q].size
         /\ LET r == Led(Index, q, "back", "fwd") IN
            r \in Places(Index) /\ r # q
<1>1. "back" \in Fields /\ "fwd" \in Fields /\ "child" \in Fields /\ "parent" \in Fields
  BY DEF Fields
<1>2. Shape(Index) /\ q \in DOMAIN Index.link /\ Index.link = link
  BY IndexPlaces
<1>3. /\ Led(Index, q, "fwd", "back") \in Places(Index)
      /\ \/ Led(Index, q, "fwd", "back") = Lost
         \/ /\ Led(Index, q, "fwd", "back") = link[q].fwd
            /\ \/ link[q].fwd = Null
               \/ link[q].fwd \in DOMAIN link /\ link[q].fwd # q /\ link[link[q].fwd].back = q
  BY <1>1, <1>2, LedTo
<1>4. /\ Led(Index, q, "child", "parent") \in Places(Index)
      /\ \/ Led(Index, q, "child", "parent") = Lost
         \/ /\ Led(Index, q, "child", "parent") = link[q].child
            /\ \/ link[q].child = Null
               \/ /\ link[q].child \in DOMAIN link /\ link[q].child # q
                  /\ link[link[q].child].parent = q
  BY <1>1, <1>2, LedTo
<1>5. /\ Led(Index, q, "back", "fwd") \in Places(Index)
      /\ \/ Led(Index, q, "back", "fwd") = Lost
         \/ /\ Led(Index, q, "back", "fwd") = link[q].back
            /\ \/ link[q].back = Null
               \/ link[q].back \in DOMAIN link /\ link[q].back # q /\ link[link[q].back].fwd = q
  BY <1>1, <1>2, LedTo
<1>6. Null \notin DOMAIN link /\ Lost \notin DOMAIN link /\ Junk \notin DOMAIN link
  BY <1>2, NotBlocks
<1>7. ASSUME link[q].fwd \in DOMAIN link, link[link[q].fwd].back = q
      PROVE  link[q].size <= link[link[q].fwd].size
  <2>1. InOrder(Index, q, link[q].fwd)
    BY <1>2, <1>7 DEF Sound, Sorted
  <2>2. link[q].size \in Nat /\ link[link[q].fwd].size \in Nat
    BY <1>7, IndexPlaces
  <2> QED
    BY <1>2, <2>1, <2>2 DEF InOrder
<1>8. ASSUME link[q].child \in DOMAIN link
      PROVE  link[link[q].child].size = link[q].size
  <2>1. ~(link[q].size < ListMax) /\ link[q].child # Null
    BY <1>2, <1>6, <1>8 DEF Sound, ChildrenBelow
  <2>2. ChildOf(Index, link[q].child, q)
    BY <1>2, <2>1 DEF Sound, ChildrenBelow
  <2> QED
    BY <1>2, <2>2 DEF ChildOf
<1> QED
  BY <1>3, <1>4, <1>5, <1>6, <1>7, <1>8

\* A walk of the index.
LEMMA SearchWalk ==
  ASSUME Sound(Index), NEW step \in [Places(Index) -> Places(Index)], NEW start,
         NEW S \in SUBSET Places(Index), start \in S, \A q \in S : step[q] \in S
  PROVE  \/ Walk(step, start) = Lost
         \/ Walk(step, start) \in S /\ step[Walk(step, start)] = Walk(step, start)
BY IndexPlaces, WalkStays

\* The aligned walk of a list.
LEMMA AlignedInListFinds ==
  ASSUME Sound(Index), NEW i \in 0 .. ListCount - 1, NEW p \in Listed(Index, i), NEW bsize,
         NEW found, found = AlignedInList(p, bsize)
  PROVE  IsStop(found) \/ (found \in Listed(Index, i) /\ CutsAligned(found, bsize))
<1> DEFINE X == Places(Index)
           S == Listed(Index, i) \union {Null, Lost}
           step == [q \in X |-> IF IsStop(q) THEN q
                                ELSE IF link[q].fwd = Null THEN Null
                                ELSE IF CutsAligned(q, bsize) THEN q
                                ELSE Led(Index, q, "fwd", "back")]
<1>1. found = Walk(step, p)
  BY DEF AlignedInList
<1>2. \A q \in X : step[q] = IF IsStop(q) THEN q
                             ELSE IF link[q].fwd = Null THEN Null
                             ELSE IF CutsAligned(q, bsize) THEN q
                             ELSE Led(Index, q, "fwd", "back")
  OBVIOUS
<1>3. step \in [X -> X]
  BY IndexPlaces, SearchLinks
<1> HIDE DEF step
<1>4. S \in SUBSET X /\ p \in S
  BY IndexPlaces DEF Listed
<1>5. \A q \in S : step[q] \in S
  <2> TAKE q \in S
  <2>1. q \in X
    BY <1>4
  <2>2. CASE IsStop(q)
    BY <1>2, <2>1, <2>2
  <2>3. CASE ~IsStop(q)
    <3>1. q \in Listed(Index, i) /\ q \in DOMAIN link /\ link[q].size = i + Overhead
      BY <2>1, <2>3, IndexPlaces DEF Listed
    <3>2. ASSUME step[q] = Led(Index, q, "fwd", "back"), step[q] \in DOMAIN link
          PROVE  step[q] \in Listed(Index, i)
      <4>1. step[q] = link[q].fwd /\ link[step[q]].back = q
        BY <3>1, <3>2, SearchLinks
      <4>2. link[q].size < ListMax - 1 /\ link[q].fwd # Null
        BY <3>1, <3>2, <4>1, Slots, IndexPlaces
      <4>3. link[link[q].fwd].size = link[q].size
        BY <3>1, <4>2, LowLinks, IndexPlaces
      <4> QED
        BY <3>1, <3>2, <4>1, <4>3, IndexPlaces DEF Listed
    <3>3. step[q] = Led(Index, q, "fwd", "back") => step[q] \in DOMAIN link \/ IsStop(step[q])
      BY <3>1, SearchLinks, IndexPlaces
    <3> QED
      BY <1>2, <2>1, <2>3, <3>2, <3>3 DEF IsStop
  <2> QED
    BY <2>2, <2>3
<1>6. found = Lost \/ (found \in S /\ step[found] = found)
  BY <1>1, <1>3, <1>4, <1>5, SearchWalk
<1>7. ASSUME ~IsStop(found) PROVE found \in Listed(Index, i) /\ CutsAligned(found, bsize)
  <2>1. found \in S /\ step[found] = found /\ found \in X /\ found \in DOMAIN link
    BY <1>4, <1>6, <1>7, IndexPlaces
  <2>2. Led(Index, found, "fwd", "back") # found /\ found # Null
    BY <2>1, SearchLinks, IndexPlaces
  <2> QED
    BY <1>2, <1>7, <2>1, <2>2 DEF IsStop
<1> QED
  BY <1>7

\* The blocks that are long enough, and the two ways a search ends without one.
Long(bsize) == {q \in DOMAIN link : link[q].size >= bsize} \union {Null, Lost}

LEMMA LongPlaces ==
  ASSUME Sound(Index), NEW bsize \in Nat
  PROVE  /\ Long(bsize) \in SUBSET Places(Index)
         /\ \A q \in Long(bsize) : IsStop(q) \/ (q \in DOMAIN link /\ link[q].size >= bsize)
         /\ \A q \in Places(Index) : IsStop(q) => q \in Long(bsize)
         /\ \A q \in Long(bsize) : Led(Index, q, "fwd", "back") \in Long(bsize) \/ IsStop(q)
         /\ \A q \in Long(bsize) : Led(Index, q, "child", "parent") \in Long(bsize) \/ IsStop(q)
<1>1. Long(bsize) \in SUBSET Places(Index)
  BY IndexPlaces DEF Long
<1>2. \A q \in Long(bsize) : IsStop(q) \/ (q \in DOMAIN link /\ link[q].size >= bsize)
  BY DEF Long, IsStop
<1>3. \A q \in Places(Index) : IsStop(q) => q \in Long(bsize)
  BY DEF Long, IsStop
<1>4. ASSUME NEW q \in DOMAIN link, link[q].size >= bsize
      PROVE  /\ Led(Index, q, "fwd", "back") \in Long(bsize)
             /\ Led(Index, q, "child", "parent") \in Long(bsize)
  <2> DEFINE r == Led(Index, q, "fwd", "back")
             s == Led(Index, q, "child", "parent")
  <2>1. /\ r \in Places(Index) /\ s \in Places(Index)
        /\ r \in DOMAIN link => link[q].size <= link[r].size
        /\ s \in DOMAIN link => link[s].size = link[q].size
    BY SearchLinks
  <2> HIDE DEF r, s
  <2>2. r \in Long(bsize)
    <3>1. CASE r \in DOMAIN link
      <4>1. link[q].size \in Nat /\ link[r].size \in Nat /\ link[q].size <= link[r].size
        BY <2>1, <3>1, IndexPlaces
      <4>2. link[r].size >= bsize
        BY <1>4, <4>1
      <4> QED
        BY <3>1, <4>2 DEF Long
    <3>2. CASE r \notin DOMAIN link
      BY <2>1, <3>2, IndexPlaces DEF Long
    <3> QED
      BY <3>1, <3>2
  <2>3. s \in Long(bsize)
    <3>1. CASE s \in DOMAIN link
      BY <1>4, <2>1, <3>1 DEF Long
    <3>2. CASE s \notin DOMAIN link
      BY <2>1, <3>2, IndexPlaces DEF Long
    <3> QED
      BY <3>1, <3>2
  <2> QED
    BY <2>2, <2>3 DEF r, s
<1> QED
  BY <1>1, <1>2, <1>3, <1>4

\* The aligned walk of a node and its children.
LEMMA AlignedBelowFinds ==
  ASSUME Sound(Index), NEW bsize \in Nat, NEW p \in Long(bsize),
         NEW found, found = AlignedBelow(p, bsize)
  PROVE  found \in Long(bsize) /\ (IsStop(found) \/ CutsAligned(found, bsize))
<1> DEFINE X == Places(Index)
           step == [q \in X |-> IF IsStop(q) \/ CutsAligned(q, bsize) THEN q
                                ELSE Led(Index, q, "child", "parent")]
<1>1. found = Walk(step, p)
  BY DEF AlignedBelow
<1>2. \A q \in X : step[q] = IF IsStop(q) \/ CutsAligned(q, bsize) THEN q
                             ELSE Led(Index, q, "child", "parent")
  OBVIOUS
<1>3. step \in [X -> X]
  BY IndexPlaces, SearchLinks
<1> HIDE DEF step
<1>4. \A q \in Long(bsize) : step[q] \in Long(bsize)
  BY <1>2, LongPlaces
<1>5. found = Lost \/ (found \in Long(bsize) /\ step[found] = found)
  BY <1>1, <1>3, <1>4, LongPlaces, SearchWalk
<1>6. Lost \in Long(bsize) /\ IsStop(Lost)
  BY DEF Long, IsStop
<1>7. ASSUME ~IsStop(found) PROVE CutsAligned(found, bsize)
  <2>1. found \in X /\ found \in DOMAIN link /\ step[found] = found
    BY <1>5, <1>6, <1>7, LongPlaces
  <2> QED
    BY <1>2, <1>7, <2>1, SearchLinks
<1> QED
  BY <1>5, <1>6, <1>7

\* The aligned walk of the tree.
LEMMA AlignedInTreeFinds ==
  ASSUME Sound(Index), NEW bsize \in Nat, NEW p \in Long(bsize),
         NEW found, found = AlignedInTree(p, bsize)
  PROVE  found \in Long(bsize) /\ (IsStop(found) \/ CutsAligned(found, bsize))
<1> DEFINE X == Places(Index)
           step == [q \in X |-> IF IsStop(q) \/ AlignedBelow(q, bsize) # Null THEN q
                                ELSE Led(Index, q, "fwd", "back")]
           main == Walk(step, p)
<1>1. found = IF IsStop(main) THEN main ELSE AlignedBelow(main, bsize)
  BY DEF AlignedInTree
<1>2. \A q \in X : step[q] = IF IsStop(q) \/ AlignedBelow(q, bsize) # Null THEN q
                             ELSE Led(Index, q, "fwd", "back")
  OBVIOUS
<1>3. step \in [X -> X]
  BY IndexPlaces, SearchLinks
<1> HIDE DEF step
<1>4. \A q \in Long(bsize) : step[q] \in Long(bsize)
  BY <1>2, LongPlaces
<1>5. main = Lost \/ main \in Long(bsize)
  BY <1>3, <1>4, LongPlaces, SearchWalk
<1>6. main \in Long(bsize)
  BY <1>5 DEF Long
<1> HIDE DEF main
<1>7. CASE IsStop(main)
  BY <1>1, <1>6, <1>7
<1>8. CASE ~IsStop(main)
  BY <1>1, <1>6, <1>8, AlignedBelowFinds
<1> QED
  BY <1>7, <1>8

\* heap_tree_search.
LEMMA TreeSearchFinds ==
  ASSUME Sound(Index), NEW bsize \in Nat, NEW align \in BOOLEAN,
         NEW found, found = TreeSearch(bsize, align)
  PROVE  found \in Long(bsize) /\ (align => IsStop(found) \/ CutsAligned(found, bsize))
<1> DEFINE X == Places(Index)
           first == First(bsize)
<1>1. first \in Long(bsize)
  <2>1. CASE ~Rooted(Index)
    BY <2>1 DEF First, Long
  <2>2. CASE Rooted(Index)
    <3> DEFINE step == [q \in X |-> IF IsStop(q) \/ link[q].size >= bsize THEN q
                                    ELSE Led(Index, q, "fwd", "back")]
               root == free[Root]
    <3>1. first = Walk(step, root)
      BY <2>2 DEF First, FirstSuitable
    <3>2. \A q \in X : step[q] = IF IsStop(q) \/ link[q].size >= bsize THEN q
                                 ELSE Led(Index, q, "fwd", "back")
      OBVIOUS
    <3>3. step \in [X -> X]
      BY IndexPlaces, SearchLinks
    <3>4. root \in X
      BY <2>2, IndexPlaces DEF Rooted, IsNode
    <3> HIDE DEF step, root, first
    <3>5. \A q \in X : step[q] \in X
      BY <3>3
    <3>6. first = Lost \/ (first \in X /\ step[first] = first)
      BY <3>1, <3>3, <3>4, <3>5, SearchWalk
    <3>7. ASSUME first \in DOMAIN link, step[first] = first PROVE link[first].size >= bsize
      <4>1. first \in X /\ ~IsStop(first)
        BY <3>7, IndexPlaces
      <4> QED
        BY <3>2, <3>7, <4>1, SearchLinks
    <3> QED
      BY <3>6, <3>7, IndexPlaces DEF Long
  <2> QED
    BY <2>1, <2>2
<1>2. found = IF IsStop(first) THEN first
              ELSE IF align THEN AlignedInTree(first, bsize)
              ELSE SmallestFrom(first, bsize)
  BY DEF TreeSearch
<1> HIDE DEF first
<1>3. CASE IsStop(first)
  BY <1>1, <1>2, <1>3
<1>4. CASE ~IsStop(first) /\ align
  BY <1>1, <1>2, <1>4, AlignedInTreeFinds
<1>5. CASE ~IsStop(first) /\ ~align
  <2> DEFINE back(q) == Led(Index, q, "back", "fwd")
             step == [q \in X |->
                        IF IsStop(q) \/ link[q].size = bsize THEN q
                        ELSE IF back(q) = Lost \/ (back(q) # Null /\ link[back(q)].size >= bsize)
                          THEN back(q) ELSE q]
  <2>1. found = Walk(step, first)
    BY <1>2, <1>5 DEF SmallestFrom
  <2>2. \A q \in X : step[q] =
                        IF IsStop(q) \/ link[q].size = bsize THEN q
                        ELSE IF back(q) = Lost \/ (back(q) # Null /\ link[back(q)].size >= bsize)
                          THEN back(q) ELSE q
    OBVIOUS
  <2>3. \A q \in X : IsStop(q) \/ back(q) \in X
    BY IndexPlaces, SearchLinks
  <2> HIDE DEF back
  <2>4. step \in [X -> X]
    BY <2>3
  <2> HIDE DEF step
  <2>5. \A q \in Long(bsize) : step[q] \in Long(bsize)
    <3> TAKE q \in Long(bsize)
    <3>1. q \in X
      BY LongPlaces
    <3>2. step[q] = q \/ step[q] = Lost
          \/ (back(q) # Null /\ back(q) # Lost /\ ~IsStop(q) /\ step[q] = back(q)
              /\ link[back(q)].size >= bsize)
      BY <2>2, <3>1
    <3> QED
      BY <2>3, <3>1, <3>2, IndexPlaces DEF Long
  <2>6. found = Lost \/ found \in Long(bsize)
    BY <1>1, <2>1, <2>4, <2>5, LongPlaces, SearchWalk
  <2> QED
    BY <1>5, <2>6 DEF Long
<1> QED
  BY <1>3, <1>4, <1>5

\* The first item of a list.
LEMMA HeadOfList ==
  ASSUME Sound(Index), NEW i \in 0 .. ListCount - 1
  PROVE  /\ free[i] = Null \/ free[i] \in Listed(Index, i)
         /\ Listed(Index, i) # {} => free[i] \in Listed(Index, i)
<1>1. Index.free = free
  BY IndexPlaces
<1>2. PICK last \in Nat : \E row \in [1 .. last -> Listed(Index, i)] : RowOf(Index, i, row, last)
  BY DEF Sound, RowsExact, RowExact
<1>3. PICK row \in [1 .. last -> Listed(Index, i)] : RowOf(Index, i, row, last)
  BY <1>2
<1>4. free[i] = IF last = 0 THEN Null ELSE row[1]
  BY <1>1, <1>3 DEF RowOf
<1>5. last # 0 => row[1] \in Listed(Index, i)
  BY <1>2, <1>3
<1>6. last = 0 => Listed(Index, i) = {}
  BY <1>3 DEF RowOf
<1> QED
  BY <1>4, <1>5, <1>6

\* heap_search.
LEMMA SearchFinds ==
  ASSUME Sound(Index), NEW bsize \in Nat, bsize >= Overhead, NEW align \in BOOLEAN,
         NEW p, p = Search(bsize, align)
  PROVE  \/ IsStop(p)
         \/ /\ p \in DOMAIN link /\ link[p].size >= bsize
            /\ align => CutsAligned(p, bsize)
<1> DEFINE idx == SizeIdx(bsize)
           found == IF idx < 0 THEN {}
                    ELSE {i \in idx .. ListCount - 1 : InList(i, bsize, align) # Null}
           i == CHOOSE i \in found : \A j \in found : i <= j
<1>1. idx \in Int /\ (idx >= 0 => idx = bsize - Overhead)
  BY Slots DEF SizeIdx
<1>2. p = IF found = {} THEN TreeSearch(bsize, align) ELSE InList(i, bsize, align)
  BY DEF Search, SearchFrom
<1> HIDE DEF idx
<1>3. CASE found = {}
  <2>1. p = TreeSearch(bsize, align)
    BY <1>2, <1>3
  <2> QED
    BY <2>1, TreeSearchFinds, LongPlaces
<1>4. CASE found # {}
  <2>1. found \in SUBSET Nat
    BY <1>1, Slots
  <2>2. i \in found
    <3>1. \E n \in found : \A m \in found : n <= m
      <4> HIDE DEF found
      <4> QED
        BY <1>4, <2>1, LeastNatural
    <3> HIDE DEF found
    <3> QED
      BY <3>1
  <2>3. p = InList(i, bsize, align)
    BY <1>2, <1>4
  <2> HIDE DEF i
  <2>4. i \in 0 .. ListCount - 1 /\ i + Overhead >= bsize /\ InList(i, bsize, align) # Null
    BY <1>1, <2>2, Slots
  <2>5. free[i] = Null \/ free[i] \in Listed(Index, i)
    BY <2>4, HeadOfList
  <2>6. p # Null
    BY <2>3, <2>4
  <2>7. \A q \in Listed(Index, i) : q \in DOMAIN link /\ link[q].size >= bsize
    BY <2>4, IndexPlaces DEF Listed
  <2>8. CASE p = free[i] /\ (~align \/ OnBoundary(p))
    BY <2>5, <2>6, <2>7, <2>8 DEF CutsAligned
  <2>9. CASE p = AlignedInList(free[i], bsize) /\ free[i] # Null
    BY <2>4, <2>5, <2>7, <2>9, AlignedInListFinds
  <2> QED
    BY <2>3, <2>6, <2>8, <2>9 DEF InList
<1> QED
  BY <1>3, <1>4

-----------------------------------------------------------------------------
(* Which blocks the index holds *)

\* Of the numbers in a page, one lies on its boundary.
LEMMA OneMultiple ==
  ASSUME NEW m \in Nat \ {0}, NEW u \in Nat, NEW v \in Nat,
         u % m = 0, v % m = 0, u <= v, v - u < m
  PROVE  u = v
<1>1. PICK x \in Nat : u = x * m
  <2> DEFINE q == u \div m
             r == u % m
  <2>1. q \in Nat /\ u = q * m + r /\ r = 0
    BY Quotient
  <2> HIDE DEF q, r
  <2>2. q * m \in Nat
    BY <2>1
  <2>3. u = q * m
    BY <2>1, <2>2
  <2> QED
    BY <2>1, <2>3
<1>2. PICK y \in Nat : v = y * m
  <2> DEFINE q == v \div m
             r == v % m
  <2>1. q \in Nat /\ v = q * m + r /\ r = 0
    BY Quotient
  <2> HIDE DEF q, r
  <2>2. q * m \in Nat
    BY <2>1
  <2>3. v = q * m
    BY <2>1, <2>2
  <2> QED
    BY <2>1, <2>3
<1>3. CASE x + 1 <= y
  <2>1. (x + 1) * m <= y * m
    BY <1>1, <1>2, <1>3
  <2>2. (x + 1) * m = x * m + m
    BY <1>1
  <2>3. x * m \in Nat /\ y * m \in Nat
    BY <1>1, <1>2
  <2> QED
    BY <1>1, <1>2, <2>1, <2>2, <2>3
<1>4. CASE y <= x
  <2>1. y * m <= x * m
    BY <1>1, <1>2, <1>4
  <2> QED
    BY <1>1, <1>2, <2>1
<1> QED
  BY <1>1, <1>2, <1>3, <1>4

\* An aligned cut of a block is made at one place.
LEMMA OneCut ==
  ASSUME NEW b \in BlockSet, NEW align, NEW left \in LeftSizes(b, align)
  PROVE  left \in Nat /\ (CHOOSE l \in LeftSizes(b, align) : TRUE) = left
<1> USE HeapNumbers, HeapShape, Slots
<1> DEFINE p == PayloadOf(b)
<1>1. p \in Nat /\ PageFrames \in Nat \ {0}
  BY DEF PayloadOf, BlockSet
<1>2. ASSUME NEW d \in ToBoundary(b), NEW e \in ToBoundary(b), d <= e
      PROVE  d = e
  <2>1. /\ d \in 1 .. PageFrames - 1 /\ e \in 1 .. PageFrames - 1
        /\ (p + d) % PageFrames = 0 /\ (p + e) % PageFrames = 0
    BY DEF ToBoundary, Aligned
  <2> HIDE DEF p
  <2>2. p + d \in Nat /\ p + e \in Nat /\ p + d <= p + e /\ (p + e) - (p + d) < PageFrames
    BY <1>1, <1>2, <2>1
  <2>3. p + d = p + e
    BY <1>1, <2>1, <2>2, OneMultiple
  <2> QED
    BY <1>1, <2>1, <2>3
<1>3. \A d \in LeftSizes(b, align) : d \in Nat
  BY <1>1 DEF LeftSizes, ToBoundary
<1>4. \A d, e \in LeftSizes(b, align) : d = e
  BY <1>1, <1>2, <1>3 DEF LeftSizes
<1> QED
  BY <1>3, <1>4

\* The index is sound and holds the blocks of S, with their sizes.
Holds(ix, S) ==
  /\ Sound(ix)
  /\ DOMAIN ix.link = {c.addr : c \in S}
  /\ \A c \in S : ix.link[c.addr].size = c.size

\* heap_insert of a block, heap_remove of one.
LEMMA InsertHolds ==
  ASSUME NEW ix, NEW S, Holds(ix, S), NEW b \in BlockSet, b.addr > 0,
         \A c \in S : c.addr # b.addr, b.size >= Overhead, b.size # ListMax,
         NEW rest \in {Null, Junk}, NEW new, new = Insert(ix, b, rest)
  PROVE  /\ Sound(new) /\ DOMAIN new.link \subseteq DOMAIN ix.link \union {b.addr}
         /\ new.ok => ix.ok /\ Holds(new, S \union {b})
<1>1. /\ Sound(ix) /\ b.addr \in Nat \ {0} /\ b.addr \notin DOMAIN ix.link
      /\ b.size \in Nat
  BY DEF Holds, BlockSet
<1>2. /\ Sound(new) /\ DOMAIN new.link \subseteq DOMAIN ix.link \union {b.addr}
      /\ new.ok => ix.ok /\ Inserted(new, ix, b.addr, b.size)
  BY <1>1, InsertSound
<1>3. ASSUME new.ok PROVE Holds(new, S \union {b})
  BY <1>2, <1>3 DEF Holds, Inserted
<1> QED
  BY <1>2, <1>3

LEMMA RemoveHolds ==
  ASSUME NEW ix, NEW S, Holds(ix, S), NEW b \in S,
         \A c \in S : c.addr = b.addr => c = b,
         NEW new, new = Remove(ix, b.addr)
  PROVE  /\ Sound(new) /\ DOMAIN ix.link \ {b.addr} \subseteq DOMAIN new.link
         /\ new.ok => ix.ok /\ Holds(new, S \ {b})
<1>1. Sound(ix) /\ b.addr \in DOMAIN ix.link
  BY DEF Holds
<1>2. /\ Sound(new) /\ DOMAIN ix.link \ {b.addr} \subseteq DOMAIN new.link
      /\ new.ok => ix.ok /\ Removed(new, ix, b.addr)
  BY <1>1, RemoveSound
<1>3. ASSUME new.ok PROVE Holds(new, S \ {b})
  BY <1>2, <1>3 DEF Holds, Removed
<1> QED
  BY <1>2, <1>3

\* The heap_insert calls of heap_alloc put back what a cut inside the block leaves.
LEMMA PartsHold ==
  ASSUME NEW ix, NEW S, Holds(ix, S), NEW b \in BlockSet, b.addr > 0,
         \A c \in S : c.addr \in Nat /\ (c.addr < b.addr \/ EndOf(b) <= c.addr),
         NEW bytes \in Requests, NEW align, NEW left \in LeftSizes(b, align),
         NEW rest \in {Null, Junk}, NEW new, new = InsertParts(ix, b, bytes, align, rest)
  PROVE  LET parts == LeftPart(b, left) \union RestPart(b, left, BlockSize(bytes)) IN
         /\ Sound(new)
         /\ /\ new.ok /\ left # 1 /\ left + BlockSize(bytes) <= b.size
            /\ ListMax \notin SizesOf(parts)
            => ix.ok /\ Holds(new, S \union parts)
<1> DEFINE bsize == BlockSize(bytes)
           parts == LeftPart(b, left) \union RestPart(b, left, bsize)
           L     == Block(b.addr, left, FALSE)
           R     == Block(b.addr + left + bsize, b.size - left - bsize, FALSE)
           one   == IF left = 0 THEN ix ELSE Insert(ix, L, rest)
           stays == \/ ~ix.ok \/ left = 1 \/ left + bsize > b.size
                    \/ ListMax \in SizesOf(parts)
           splits == Splits(b.size - left, bsize)
<1>1. /\ left \in Nat /\ bsize \in Nat /\ bsize >= ListMin /\ ListMin = 3 /\ Overhead = 2
      /\ (CHOOSE l \in LeftSizes(b, align) : TRUE) = left
      /\ b.addr \in Nat /\ b.size \in Nat /\ EndOf(b) = b.addr + b.size
  BY OneCut, BlockSizeBound, HeapNumbers, HeapShape DEF BlockSet, EndOf, Overhead
<1>2. /\ LeftPart(b, left) = (IF left = 0 THEN {} ELSE {L})
      /\ RestPart(b, left, bsize) = (IF splits THEN {R} ELSE {})
      /\ splits => (CHOOSE r \in RestPart(b, left, bsize) : TRUE) = R
  BY DEF LeftPart, RestPart
<1>3. new = IF stays THEN ix ELSE IF splits THEN Insert(one, R, rest) ELSE one
  <2> DEFINE Other(x) == CHOOSE r \in RestPart(b, x, bsize) : TRUE
             Cut(x) == IF \/ ~ix.ok \/ x = 1 \/ x + bsize > b.size
                          \/ ListMax \in SizesOf(LeftPart(b, x) \union RestPart(b, x, bsize))
                         THEN ix
                       ELSE IF Splits(b.size - x, bsize)
                         THEN Insert(IF x = 0 THEN ix ELSE Insert(ix, Block(b.addr, x, FALSE), rest),
                                     Other(x), rest)
                       ELSE IF x = 0 THEN ix ELSE Insert(ix, Block(b.addr, x, FALSE), rest)
             cut == CHOOSE l \in LeftSizes(b, align) : TRUE
  <2>1. new = Cut(cut)
    BY DEF InsertParts
  <2>2. cut = left
    BY <1>1
  <2> HIDE DEF cut, Cut
  <2>3. new = Cut(left)
    BY <2>1, <2>2
  <2>4. splits => Other(left) = R
    BY <1>2
  <2> HIDE DEF Other, bsize
  <2> QED
    BY <2>3, <2>4 DEF Cut
<1>4. /\ L.addr = b.addr /\ L.size = left /\ L \in BlockSet
      /\ R.addr = b.addr + left + bsize /\ R.size = b.size - left - bsize
  BY <1>1 DEF Block, BlockSet
<1> HIDE DEF L, R, bsize, splits
<1>5. CASE stays
  <2>1. new = ix /\ Sound(new)
    BY <1>3, <1>5 DEF Holds
  <2>2. ~(new.ok /\ left # 1 /\ left + bsize <= b.size /\ ListMax \notin SizesOf(parts))
    BY <1>1, <1>5, <2>1
  <2> QED
    BY <2>1, <2>2 DEF bsize
<1>6. CASE ~stays
  <2>1. /\ ix.ok /\ left # 1 /\ left + bsize <= b.size /\ ListMax \notin SizesOf(parts)
    BY <1>1, <1>6
  <2>2. /\ left # 0 => left >= Overhead /\ left # ListMax
        /\ splits => R \in BlockSet /\ R.size >= Overhead /\ R.size # ListMax
    <3>1. left # 0 => L \in parts
      BY <1>2
    <3>2. splits => R \in parts
      BY <1>2
    <3>3. splits => R \in BlockSet /\ R.size >= Overhead
      BY <1>1, <1>4, <2>1 DEF splits, Splits, R, Block, BlockSet
    <3> QED
      BY <1>1, <1>4, <2>1, <3>1, <3>2, <3>3 DEF SizesOf
  <2>3. /\ Sound(one) /\ DOMAIN one.link \subseteq DOMAIN ix.link \union {b.addr}
        /\ left = 0 => DOMAIN one.link = DOMAIN ix.link
        /\ one.ok => Holds(one, S \union LeftPart(b, left))
    <3>1. CASE left = 0
      BY <1>2, <3>1 DEF Holds
    <3>2. CASE left # 0
      <4>1. /\ \A c \in S : c.addr # L.addr
            /\ L.addr > 0 /\ L.size >= Overhead /\ L.size # ListMax
        BY <1>1, <1>4, <2>1, <2>2, <3>2
      <4>2. one = Insert(ix, L, rest)
        BY <3>2
      <4> HIDE DEF one
      <4>3. /\ Sound(one) /\ DOMAIN one.link \subseteq DOMAIN ix.link \union {L.addr}
            /\ one.ok => Holds(one, S \union {L})
        BY <1>4, <4>1, <4>2, InsertHolds
      <4> QED
        BY <1>2, <1>4, <3>2, <4>3
    <3> QED
      BY <3>1, <3>2
  <2> HIDE DEF one
  <2>4. CASE splits
    <3>1. new = Insert(one, R, rest)
      BY <1>3, <1>6, <2>4
    <3>2. /\ R \in BlockSet /\ R.addr > 0 /\ R.addr # b.addr
          /\ R.size >= Overhead /\ R.size # ListMax
          /\ \A c \in S : c.addr # R.addr
      BY <1>1, <1>4, <2>1, <2>2, <2>4
    <3>3. R.addr \notin DOMAIN one.link
      <4>1. DOMAIN ix.link = {c.addr : c \in S}
        BY DEF Holds
      <4> QED
        BY <2>3, <3>2, <4>1
    <3>4. Sound(new) /\ (new.ok => one.ok)
      <4>1. R.addr \in Nat \ {0} /\ R.size \in Nat
        BY <3>2 DEF BlockSet
      <4> QED
        BY <2>3, <3>1, <3>2, <3>3, <4>1, InsertSound
    <3>5. ASSUME one.ok, new.ok PROVE Holds(new, (S \union LeftPart(b, left)) \union {R})
      <4>1. \A c \in S \union LeftPart(b, left) : c.addr # R.addr
        BY <1>2, <1>4, <3>2
      <4>2. Holds(one, S \union LeftPart(b, left))
        BY <2>3, <3>5
      <4> HIDE DEF parts, stays
      <4> QED
        BY <3>1, <3>2, <3>5, <4>1, <4>2, InsertHolds
    <3>6. S \union parts = (S \union LeftPart(b, left)) \union {R}
      BY <1>2, <2>4
    <3> QED
      BY <2>1, <3>4, <3>5, <3>6 DEF bsize
  <2>5. CASE ~splits
    <3>1. new = one
      BY <1>3, <1>6, <2>5
    <3>2. S \union parts = S \union LeftPart(b, left)
      BY <1>2, <2>5
    <3> QED
      BY <2>1, <2>3, <3>1, <3>2 DEF bsize
  <2> QED
    BY <2>4, <2>5
<1> QED
  BY <1>5, <1>6

-----------------------------------------------------------------------------
(* The calls *)

FreeBlocks == {c \in blocks : ~c.used}

\* Up to the first hang or wild access the index is sound and holds exactly the
\* free blocks.  HeapInv is part of it: that a block to be inserted is not in the
\* index yet is known from the blocks being apart.
IndexInv ==
  /\ HeapInv
  /\ free \in [0 .. ListCount -> Nat]
  /\ Ready => Holds(Index, FreeBlocks)

\* The index as a call leaves it.
LEMMA KeptIndex ==
  ASSUME NEW after, Sound(after), after.ok, Keep(after)
  PROVE  Index' = after /\ free' \in [0 .. ListCount -> Nat]
<1> DEFINE heads == after.free
           l     == after.link
           ok    == after.ok
<1>1. after = [free |-> heads, link |-> l, ok |-> ok] /\ heads \in [0 .. ListCount -> Nat]
      /\ ok \in BOOLEAN
  BY DEF Sound, Shape
<1>2. free' = heads /\ link' = l
  BY DEF Keep
<1>3. ok = TRUE
  BY <1>1
<1> HIDE DEF heads, l, ok
<1>4. Index' = [free |-> heads, link |-> l, ok |-> ok]
  BY <1>2, <1>3 DEF Index
<1> QED
  BY <1>1, <1>2, <1>4

\* What is known of the blocks while the heap is sound.
LEMMA BlocksKnown ==
  ASSUME HeapInv, Ready
  PROVE  /\ blocks \in SUBSET BlockSet /\ end_addr \in Nat /\ StartAddr < end_addr
         /\ BlocksApart(blocks) /\ BlocksCover(blocks, end_addr)
         /\ \A x \in blocks : /\ x.addr \in Nat /\ x.size \in Nat /\ x.size >= Overhead
                              /\ EndOf(x) = x.addr + x.size /\ x.addr < EndOf(x)
                              /\ StartAddr <= x.addr /\ x.addr > 0 /\ EndOf(x) <= end_addr
         /\ \A x, y \in blocks : x.addr = y.addr => x = y
<1> USE HeapNumbers, Slots
<1>1. /\ blocks \in SUBSET BlockSet /\ end_addr \in Nat /\ StartAddr < end_addr
      /\ BlocksApart(blocks) /\ BlocksCover(blocks, end_addr)
  BY DEF HeapInv, TypeOK, Tiling, BlockSet
<1>2. \A x \in blocks : /\ x.addr \in Nat /\ x.size \in Nat /\ x.size >= Overhead
                        /\ EndOf(x) = x.addr + x.size /\ x.addr < EndOf(x)
                        /\ StartAddr <= x.addr /\ x.addr > 0 /\ EndOf(x) <= end_addr
  BY <1>1, HeapAboveNull DEF BlockSet, BlocksCover, EndOf
<1>3. \A x, y \in blocks : x.addr = y.addr => x = y
  BY <1>1, <1>2 DEF BlocksApart
<1> QED
  BY <1>1, <1>2, <1>3

\* The second half of heap_alloc: the index that no longer holds the block that
\* is cut gets back what the cut leaves, unless the call does not come back.
LEMMA PlaceHolds ==
  ASSUME HeapInv, Ready, NEW others \in SUBSET blocks, NEW b \in BlockSet,
         StartAddr <= b.addr,
         \A x \in others : EndOf(x) <= b.addr \/ EndOf(b) <= x.addr,
         NEW bytes \in Requests, NEW align \in BOOLEAN, NEW rest \in {Null, Junk},
         NEW ix, Holds(ix, {x \in others : ~x.used}),
         NEW after, after = InsertParts(ix, b, bytes, align, rest), after.ok,
         Place(others, b, bytes, align), Keep(after)
  PROVE  /\ free' \in [0 .. ListCount -> Nat]
         /\ Ready' => Holds(Index', FreeBlocks')
<1> DEFINE bsize == BlockSize(bytes)
           S == {x \in others : ~x.used}
<1>1. PICK left \in LeftSizes(b, align) :
        LET used  == UsedPart(b, left, bsize)
            spare == LeftPart(b, left) \union RestPart(b, left, bsize)
        IN \/ Ruin("cut") \/ Hang("heap_insert")
           \/ /\ left # 1 /\ left + bsize <= b.size
              /\ ListMax \notin SizesOf(spare)
              /\ blocks' = others \union spare \union {used}
  BY DEF Place, Finish
<1> DEFINE U == UsedPart(b, left, bsize)
           parts == LeftPart(b, left) \union RestPart(b, left, bsize)
<1>2. b.addr \in Nat /\ b.addr > 0
  BY HeapNumbers, HeapAboveNull DEF BlockSet
<1>3. \A c \in S : c.addr \in Nat /\ (c.addr < b.addr \/ EndOf(b) <= c.addr)
  <2> SUFFICES ASSUME NEW c \in others
               PROVE  c.addr \in Nat /\ (c.addr < b.addr \/ EndOf(b) <= c.addr)
    OBVIOUS
  <2> QED
    BY <1>2, BlocksKnown
<1>4. /\ Sound(after)
      /\ left # 1 /\ left + bsize <= b.size /\ ListMax \notin SizesOf(parts)
         => Holds(after, S \union parts)
  <2> HIDE DEF S
  <2>1. Holds(ix, S)
    BY DEF S
  <2> QED
    BY <1>2, <1>3, <2>1, PartsHold
<1>5. Index' = after /\ free' \in [0 .. ListCount -> Nat]
  BY <1>4, KeptIndex
<1>6. CASE Ruin("cut") \/ Hang("heap_insert")
  <2>1. ~Ready'
    BY <1>6 DEF Ruin, Hang, Ready
  <2> QED
    BY <1>5, <2>1
<1>7. CASE /\ left # 1 /\ left + bsize <= b.size /\ ListMax \notin SizesOf(parts)
           /\ blocks' = others \union parts \union {U}
  <2>1. U.used
    BY DEF UsedPart, Block
  <2>2. \A x \in parts : ~x.used
    BY DEF LeftPart, RestPart, Block
  <2> HIDE DEF U, parts
  <2>3. FreeBlocks' = S \union parts
    BY <1>7, <2>1, <2>2 DEF FreeBlocks
  <2> QED
    BY <1>4, <1>5, <1>7, <2>3
<1> QED
  BY <1>1, <1>6, <1>7

\* A call that follows a stale link.
LEMMA WildHolds ==
  ASSUME IndexInv, IndexGoesWild, KeepIndex
  PROVE  Next /\ IndexInv'
<1>1. Next
  BY DEF Next
<1>2. HeapInv'
  BY <1>1, NextInv DEF IndexInv
<1>3. ~Ready' /\ free' = free
  BY DEF IndexGoesWild, Ruin, Ready, KeepIndex
<1> QED
  BY <1>1, <1>2, <1>3 DEF IndexInv

\* heap_alloc with a block of the index: what the search returns is a free block
\* that is long enough and can be cut on the boundary, as Heap asks.
LEMMA IndexFoundHolds ==
  ASSUME IndexInv, NEW bytes \in Requests, NEW align \in BOOLEAN,
         IndexAllocFound(bytes, align)
  PROVE  Next /\ IndexInv'
<1> DEFINE bsize == BlockSize(bytes)
           found == Search(bsize, align)
<1>1. PICK b \in blocks, rest \in {Null, Junk} :
        /\ b.addr = found
        /\ LET after == InsertParts(Remove(Index, b.addr), b, bytes, align, rest)
           IN IF after.ok
                THEN /\ Place(blocks \ {b}, b, bytes, align)
                     /\ UNCHANGED end_addr
                     /\ Keep(after)
                ELSE IndexGoesWild /\ KeepIndex
  BY DEF IndexAllocFound
<1> DEFINE taken == Remove(Index, b.addr)
           after == InsertParts(taken, b, bytes, align, rest)
<1>2. Ready /\ HeapInv /\ Holds(Index, FreeBlocks) /\ Sound(Index)
  BY DEF IndexAllocFound, IndexInv, Holds
<1>3. bsize \in Nat /\ bsize >= ListMin /\ bsize >= Overhead
  BY BlockSizeBound, HeapNumbers, HeapShape DEF Overhead
<1>4. /\ b \in BlockSet /\ b.addr \in Nat /\ b.addr > 0 /\ StartAddr <= b.addr
      /\ \A x \in blocks : x.addr = b.addr => x = b
      /\ \A x \in blocks \ {b} : EndOf(x) <= b.addr \/ EndOf(b) <= x.addr
  BY <1>2, BlocksKnown DEF BlocksApart
<1>5. /\ b \in FreeBlocks /\ b.size >= bsize
      /\ align => CutsAligned(b.addr, bsize)
      /\ link[b.addr].size = b.size
  <2>1. ~IsStop(b.addr)
    BY <1>4, Slots DEF IsStop
  <2>2. b.addr \in DOMAIN link /\ link[b.addr].size >= bsize
        /\ (align => CutsAligned(b.addr, bsize))
    <3> HIDE DEF bsize, found
    <3>1. b.addr = Search(bsize, align)
      BY <1>1 DEF found
    <3> QED
      BY <1>2, <1>3, <2>1, <3>1, SearchFinds
  <2>3. DOMAIN link = {c.addr : c \in FreeBlocks} /\ \A c \in FreeBlocks : link[c.addr].size = c.size
    BY <1>2, IndexPlaces DEF Holds
  <2>4. b \in FreeBlocks
    BY <1>4, <2>2, <2>3 DEF FreeBlocks
  <2> QED
    BY <2>2, <2>3, <2>4
<1>6. b \in Suitable(bsize, align)
  <2>1. b = Block(b.addr, b.size, FALSE)
    BY <1>4, <1>5 DEF FreeBlocks, BlockSet, Block
  <2>2. align => \/ Aligned(PayloadOf(b))
                 \/ \E left \in ToBoundary(b) : left >= ListMin /\ Minus(b.size, left) >= bsize
    BY <1>5, <2>1 DEF CutsAligned, OnBoundary, CutFits, PayloadOf
  <2> QED
    BY <1>5, <2>2 DEF Suitable, FreeBlocks
<1>7. CASE ~after.ok
  BY <1>1, <1>7, WildHolds
<1>8. CASE after.ok
  <2>1. Place(blocks \ {b}, b, bytes, align) /\ UNCHANGED end_addr /\ Keep(after)
    BY <1>1, <1>8
  <2>2. HeapAllocFound(bytes, align)
    BY <1>2, <1>6, <2>1 DEF HeapAllocFound
  <2>3. Next /\ HeapInv'
    BY <1>2, <2>2, FoundInv DEF Next
  <2>4. Sound(taken) /\ (taken.ok => Holds(taken, FreeBlocks \ {b}))
    <3>1. \A c \in FreeBlocks : c.addr = b.addr => c = b
      BY <1>4 DEF FreeBlocks
    <3> QED
      BY <1>2, <1>5, <3>1, RemoveHolds
  <2>5. taken.ok
    BY <1>8 DEF InsertParts
  <2>6. FreeBlocks \ {b} = {x \in blocks \ {b} : ~x.used}
    BY DEF FreeBlocks
  <2> HIDE DEF taken
  <2>7. Holds(taken, {x \in blocks \ {b} : ~x.used})
    BY <2>4, <2>5, <2>6
  <2> DEFINE others == blocks \ {b}
  <2>8. others \in SUBSET blocks
    OBVIOUS
  <2> HIDE DEF after
  <2>9. after = InsertParts(taken, b, bytes, align, rest)
    BY DEF after
  <2> HIDE DEF others
  <2>10. /\ free' \in [0 .. ListCount -> Nat]
         /\ Ready' => Holds(Index', FreeBlocks')
    <3>1. /\ Holds(taken, {x \in others : ~x.used})
          /\ Place(others, b, bytes, align)
          /\ \A x \in others : EndOf(x) <= b.addr \/ EndOf(b) <= x.addr
      BY <1>4, <2>1, <2>7 DEF others
    <3> QED
      BY <1>2, <1>4, <1>8, <2>1, <2>8, <2>9, <3>1, PlaceHolds
  <2> QED
    BY <2>3, <2>10 DEF IndexInv
<1> QED
  BY <1>7, <1>8

\* heap_alloc with fresh pages: the last free block leaves the index before it is
\* merged with them.
LEMMA IndexExtendedHolds ==
  ASSUME IndexInv, NEW bytes \in Requests, NEW align \in BOOLEAN,
         IndexAllocExtended(bytes, align)
  PROVE  Next /\ IndexInv'
<1> USE HeapNumbers
<1> DEFINE first == StartMerged(end_addr)
           grow  == PageAlign(BlockSize(bytes))
           b     == Block(first, end_addr + grow - first, FALSE)
           lefts == FreeLeftOf(end_addr)
           taken == IF first = end_addr THEN Index ELSE Remove(Index, first)
<1>1. PICK rest \in {Null, Junk} :
        LET after == InsertParts(taken, b, bytes, align, rest)
        IN IF after.ok
             THEN HeapAllocExtended(bytes, align) /\ Keep(after)
             ELSE IndexGoesWild /\ KeepIndex
  BY DEF IndexAllocExtended
<1> DEFINE after == InsertParts(taken, b, bytes, align, rest)
<1>2. Ready /\ HeapInv /\ Holds(Index, FreeBlocks)
  BY DEF IndexAllocExtended, IndexInv
<1>3. /\ first \in Nat /\ StartAddr <= first /\ first <= end_addr
      /\ \/ lefts = {} /\ first = end_addr
         \/ \E l \in blocks : /\ lefts = {l} /\ Mergeable(l)
                              /\ EndOf(l) = end_addr /\ first = l.addr
  BY <1>2, BlocksKnown, LeftNeighbour
<1>4. grow \in Nat /\ end_addr \in Nat
  BY <1>2, BlocksKnown, BlockSizeBound, PageAlignNat
<1>5. b \in BlockSet /\ b.addr = first /\ EndOf(b) = end_addr + grow
  BY <1>3, <1>4 DEF Block, BlockSet, EndOf
<1>6. CASE ~after.ok
  BY <1>1, <1>6, WildHolds
<1>7. CASE after.ok
  <2>1. HeapAllocExtended(bytes, align) /\ Keep(after)
    BY <1>1, <1>7
  <2>2. Next /\ HeapInv'
    BY <1>2, <2>1, ExtendedInv DEF Next
  <2>3. Place(blocks \ lefts, b, bytes, align)
    BY <2>1 DEF HeapAllocExtended
  <2>4. taken.ok
    BY <1>7 DEF InsertParts
  <2>5. after = InsertParts(taken, b, bytes, align, rest)
    OBVIOUS
  <2> HIDE DEF first, grow, b, lefts, after
  <2>6. Holds(taken, {x \in blocks \ lefts : ~x.used})
    <3>1. CASE lefts = {} /\ first = end_addr
      <4>1. taken = Index /\ FreeBlocks = {x \in blocks \ lefts : ~x.used}
        BY <3>1 DEF FreeBlocks
      <4> QED
        BY <1>2, <4>1
    <3>2. ASSUME NEW l \in blocks, lefts = {l}, Mergeable(l), EndOf(l) = end_addr, first = l.addr
          PROVE  Holds(taken, {x \in blocks \ lefts : ~x.used})
      <4>1. /\ l.addr < EndOf(l) /\ l \in FreeBlocks
            /\ \A c \in FreeBlocks : c.addr = l.addr => c = l
        BY <1>2, <3>2, BlocksKnown DEF FreeBlocks, Mergeable
      <4>2. taken = Remove(Index, l.addr)
        <5>1. l.addr # end_addr
          BY <1>2, <3>2, <4>1, BlocksKnown
        <5> QED
          BY <3>2, <5>1
      <4> HIDE DEF taken
      <4>3. Holds(taken, FreeBlocks \ {l})
        BY <1>2, <2>4, <4>1, <4>2, RemoveHolds
      <4>4. FreeBlocks \ {l} = {x \in blocks \ lefts : ~x.used}
        BY <3>2 DEF FreeBlocks
      <4> QED
        BY <4>3, <4>4
    <3> QED
      BY <1>3, <3>1, <3>2
  <2>7. \A x \in blocks \ lefts : EndOf(x) <= b.addr \/ EndOf(b) <= x.addr
    <3>1. \A x \in blocks : /\ x.addr \in Nat /\ EndOf(x) \in Nat
                            /\ EndOf(x) <= end_addr /\ x.addr < EndOf(x)
      BY <1>2, BlocksKnown
    <3>2. BlocksApart(blocks)
      BY <1>2, BlocksKnown
    <3> QED
      BY <1>3, <1>4, <1>5, <3>1, <3>2 DEF BlocksApart
  <2> DEFINE others == blocks \ lefts
  <2>8. /\ others \in SUBSET blocks /\ Place(others, b, bytes, align)
        /\ Holds(taken, {x \in others : ~x.used})
        /\ \A x \in others : EndOf(x) <= b.addr \/ EndOf(b) <= x.addr
    BY <2>3, <2>6, <2>7
  <2>9. StartAddr <= b.addr
    BY <1>3, <1>5
  <2> HIDE DEF others, taken
  <2>10. /\ free' \in [0 .. ListCount -> Nat]
         /\ Ready' => Holds(Index', FreeBlocks')
    BY <1>2, <1>5, <1>7, <2>1, <2>5, <2>8, <2>9, PlaceHolds
  <2> QED
    BY <2>2, <2>10 DEF IndexInv
<1> QED
  BY <1>6, <1>7

\* heap_free: the free neighbours leave the index, the merged block enters it.
LEMMA IndexFreeHolds ==
  ASSUME IndexInv, NEW a \in live, IndexFree(a)
  PROVE  Next /\ IndexInv'
<1> USE HeapNumbers
<1>1. PICK b \in BlocksAt(a.ptr), rest \in {Null, Junk} :
        LET first   == StartMerged(b.addr)
            last    == EndMerged(EndOf(b))
            noLeft  == IF first = b.addr THEN Index ELSE Remove(Index, first)
            noRight == IF last = EndOf(b) THEN noLeft ELSE Remove(noLeft, EndOf(b))
            after   == IF noRight.ok /\ last - first # ListMax
                         THEN Insert(noRight, Block(first, last - first, FALSE), rest)
                         ELSE noRight
        IN IF after.ok
             THEN HeapFree(a) /\ Keep(after)
             ELSE IndexGoesWild /\ KeepIndex
  BY DEF IndexFree
<1> DEFINE first   == StartMerged(b.addr)
           last    == EndMerged(EndOf(b))
           merged  == Block(first, last - first, FALSE)
           lefts   == FreeLeftOf(b.addr)
           rights  == FreeRightAt(EndOf(b))
           noLeft  == IF first = b.addr THEN Index ELSE Remove(Index, first)
           noRight == IF last = EndOf(b) THEN noLeft ELSE Remove(noLeft, EndOf(b))
           after   == IF noRight.ok /\ last - first # ListMax
                        THEN Insert(noRight, merged, rest)
                        ELSE noRight
<1>2. Ready /\ HeapInv /\ Holds(Index, FreeBlocks)
  BY DEF IndexFree, IndexInv
<1>3. b \in blocks /\ PayloadOf(b) = a.ptr
  BY DEF BlocksAt
<1>4. /\ blocks \in SUBSET BlockSet /\ BlocksApart(blocks) /\ BlocksCover(blocks, end_addr)
      /\ end_addr \in Nat
      /\ \A x \in blocks : /\ x.addr \in Nat /\ x.addr > 0 /\ EndOf(x) \in Nat
                           /\ x.addr < EndOf(x) /\ EndOf(x) <= end_addr
                           /\ StartAddr <= x.addr /\ x.size >= Overhead
                           /\ x.size \in Nat /\ EndOf(x) = x.addr + x.size
      /\ \A x, y \in blocks : x.addr = y.addr => x = y
  BY <1>2, BlocksKnown
<1>5. BlocksAt(a.ptr) = {b} /\ b.used
  <2>1. \A x \in BlocksAt(a.ptr) : x = b
    BY <1>3, <1>4 DEF BlocksAt, PayloadOf
  <2>2. \E x \in blocks : x.used /\ PayloadOf(x) = a.ptr
    BY <1>2 DEF HeapInv, LiveBacked
  <2> QED
    BY <2>1, <2>2 DEF BlocksAt
<1>6. /\ first \in Nat /\ StartAddr <= first /\ first <= b.addr
      /\ \/ lefts = {} /\ first = b.addr
         \/ \E l \in blocks : /\ lefts = {l} /\ Mergeable(l)
                              /\ EndOf(l) = b.addr /\ first = l.addr
  BY <1>3, <1>4, LeftNeighbour
<1>7. /\ last \in Nat /\ EndOf(b) <= last /\ last <= end_addr
      /\ \/ rights = {} /\ last = EndOf(b)
         \/ \E r \in blocks : /\ rights = {r} /\ Mergeable(r)
                              /\ r.addr = EndOf(b) /\ last = EndOf(r)
  BY <1>3, <1>4, RightNeighbour
<1>8. /\ merged \in BlockSet /\ merged.addr = first /\ merged.size = last - first
      /\ ~merged.used /\ merged.size >= Overhead /\ merged.addr > 0
  <2>1. /\ first \in Nat /\ first > 0 /\ last - first \in Nat /\ last - first >= Overhead
    <3>1. b.size >= Overhead /\ b.size \in Nat /\ EndOf(b) = b.addr + b.size
          /\ b.addr \in Nat /\ EndOf(b) \in Nat
      BY <1>3, <1>4
    <3>2. Overhead = 2
      BY Slots
    <3> HIDE DEF first, last
    <3> QED
      BY <1>6, <1>7, <3>1, <3>2, HeapAboveNull
  <2> HIDE DEF first, last
  <2> QED
    BY <2>1 DEF Block, BlockSet
<1>9. IF after.ok THEN HeapFree(a) /\ Keep(after) ELSE IndexGoesWild /\ KeepIndex
  BY <1>1
<1>10. after = IF noRight.ok /\ merged.size # ListMax THEN Insert(noRight, merged, rest)
               ELSE noRight
  BY <1>8
<1> HIDE DEF first, last, merged, lefts, rights, after
<1> DEFINE S1 == FreeBlocks \ lefts
           S2 == S1 \ rights
<1>11. /\ Sound(noLeft) /\ (noLeft.ok => Holds(noLeft, S1))
       /\ {c.addr : c \in S1} \subseteq DOMAIN noLeft.link
  <2>1. CASE lefts = {} /\ first = b.addr
    BY <1>2, <2>1 DEF Holds
  <2>2. ASSUME NEW l \in blocks, lefts = {l}, Mergeable(l), EndOf(l) = b.addr, first = l.addr
        PROVE  /\ Sound(noLeft) /\ (noLeft.ok => Holds(noLeft, S1))
               /\ {c.addr : c \in S1} \subseteq DOMAIN noLeft.link
    <3>1. /\ l \in FreeBlocks /\ \A c \in FreeBlocks : c.addr = l.addr => c = l
      BY <1>4, <2>2 DEF FreeBlocks, Mergeable
    <3>2. noLeft = Remove(Index, l.addr)
      BY <1>3, <1>4, <2>2
    <3> HIDE DEF noLeft
    <3> DEFINE ix == Index
               S  == FreeBlocks
    <3>3. /\ Sound(noLeft) /\ DOMAIN ix.link \ {l.addr} \subseteq DOMAIN noLeft.link
          /\ noLeft.ok => Holds(noLeft, S \ {l})
      <4>1. /\ Holds(ix, S) /\ l \in S /\ (\A c \in S : c.addr = l.addr => c = l)
            /\ noLeft = Remove(ix, l.addr)
        BY <1>2, <3>1, <3>2
      <4> HIDE DEF ix, S
      <4> QED
        BY <4>1, RemoveHolds
    <3>4. S1 = FreeBlocks \ {l} /\ DOMAIN Index.link = {c.addr : c \in FreeBlocks}
      BY <1>2, <2>2 DEF Holds
    <3> QED
      BY <3>1, <3>3, <3>4
  <2> QED
    BY <1>6, <2>1, <2>2
<1>12. Sound(noRight) /\ (noRight.ok => Holds(noRight, S2))
  <2>1. CASE rights = {} /\ last = EndOf(b)
    <3>1. noRight = noLeft /\ S2 = S1
      BY <2>1
    <3> HIDE DEF noLeft, noRight, S1, S2
    <3> QED
      BY <1>11, <3>1
  <2>2. ASSUME NEW r \in blocks, rights = {r}, Mergeable(r), r.addr = EndOf(b), last = EndOf(r)
        PROVE  Sound(noRight) /\ (noRight.ok => Holds(noRight, S2))
    <3>1. /\ r \in S1 /\ \A c \in S1 : c.addr = r.addr => c = r
      <4>1. r \notin lefts
        BY <1>3, <1>4, <1>6, <2>2
      <4> QED
        BY <1>4, <2>2, <4>1 DEF FreeBlocks, Mergeable
    <3>2. noRight = Remove(noLeft, r.addr)
      BY <1>4, <2>2
    <3>3. r.addr \in DOMAIN noLeft.link
      BY <1>11, <3>1
    <3>4. S2 = S1 \ {r}
      BY <2>2
    <3> HIDE DEF noLeft, noRight, S1, S2
    <3>5. Sound(noRight) /\ (noRight.ok => noLeft.ok)
      BY <1>11, <3>2, <3>3, RemoveSound
    <3>6. ASSUME noRight.ok PROVE Holds(noRight, S1 \ {r})
      <4>1. Holds(noLeft, S1)
        BY <1>11, <3>5, <3>6
      <4> QED
        BY <3>1, <3>2, <3>6, <4>1, RemoveHolds
    <3> QED
      BY <3>4, <3>5, <3>6
  <2> QED
    BY <1>7, <2>1, <2>2
<1> HIDE DEF noLeft, noRight
<1>13. \A c \in S2 : c.addr # merged.addr
  <2> SUFFICES ASSUME NEW c \in S2, c.addr = merged.addr PROVE FALSE
    OBVIOUS
  <2>1. c \in blocks /\ ~c.used /\ c \notin lefts
    BY DEF FreeBlocks
  <2> QED
    BY <1>3, <1>4, <1>5, <1>6, <1>8, <2>1
<1> HIDE DEF S1
<1>14. CASE ~after.ok
  BY <1>9, <1>14, WildHolds
<1>15. CASE after.ok
  <2>1. HeapFree(a) /\ Keep(after)
    BY <1>9, <1>15
  <2>2. Next /\ HeapInv'
    BY <1>2, <2>1, FreeInv DEF Next
  <2>3. noRight.ok
    BY <1>10, <1>15
  <2>4. Holds(noRight, S2)
    BY <1>12, <2>3
  <2>5. CASE merged.size = ListMax
    <3>1. after = noRight
      BY <1>10, <2>5
    <3>2. free' \in [0 .. ListCount -> Nat]
      BY <1>12, <1>15, <2>1, <3>1, KeptIndex
    <3>3. ~Ready'
      <4>1. Finish({merged.size},
                   (blocks \ ((lefts \union rights) \union {b})) \union {merged}, live \ {a})
        BY <1>5, <2>1 DEF HeapFree, merged, first, last, lefts, rights
      <4> QED
        BY <2>5, <4>1 DEF Finish, Hang, Ready
    <3> QED
      BY <2>2, <3>2, <3>3 DEF IndexInv
  <2>6. CASE merged.size # ListMax
    <3>1. after = Insert(noRight, merged, rest)
      BY <1>10, <2>3, <2>6
    <3> HIDE DEF S2
    <3>2. Sound(after) /\ Holds(after, S2 \union {merged})
      BY <1>8, <1>13, <1>15, <2>4, <2>6, <3>1, InsertHolds
    <3>3. Index' = after /\ free' \in [0 .. ListCount -> Nat]
      BY <1>15, <2>1, <3>2, KeptIndex
    <3>4. FreeBlocks' = S2 \union {merged}
      <4>1. Finish({merged.size},
                   (blocks \ ((lefts \union rights) \union {b})) \union {merged}, live \ {a})
        BY <1>5, <2>1 DEF HeapFree, merged, first, last, lefts, rights
      <4>2. blocks' = (blocks \ ((lefts \union rights) \union {b})) \union {merged}
        BY <2>6, <4>1 DEF Finish
      <4> QED
        BY <1>5, <1>8, <4>2 DEF FreeBlocks, S1, S2
    <3> QED
      BY <2>2, <3>2, <3>3, <3>4 DEF IndexInv
  <2> QED
    BY <2>5, <2>6
<1> QED
  BY <1>14, <1>15

\* heap_create: the first block is the only node of the tree.
LEMMA IndexInitHolds ==
  ASSUME IndexInit
  PROVE  IndexInv
<1> USE HeapNumbers
<1> DEFINE p     == StartAddr
           node  == Node(InitSize, Null, Null, Null, Null)
           heads == [i \in 0 .. ListCount |-> IF i = Root THEN StartAddr ELSE Null]
           l     == [q \in {p} |-> node]
           ok    == TRUE
<1>1. HeapInv /\ Ready /\ FreeBlocks = {Block(StartAddr, InitSize, FALSE)}
  BY InitInv DEF IndexInit, Init, Ready, FreeBlocks, Block
<1>2. free = heads /\ link = l
  BY DEF IndexInit
<1>3. p \in Nat \ {0} /\ InitSize \in Nat /\ InitSize > ListMax
  BY HeapShape, HeapAboveNull
<1>4. /\ node \in NodeSet /\ node.size = InitSize /\ node.back = Null /\ node.fwd = Null
      /\ node.child = Null /\ node.parent = Null
  <2>1. Null \in Addresses
    BY Slots DEF Addresses
  <2> QED
    BY <1>3, <2>1, NodeType
<1>5. /\ heads \in [0 .. ListCount -> Nat]
      /\ \A i \in 0 .. ListCount - 1 : heads[i] = Null
      /\ heads[Root] = p
  <2>1. StartAddr \in Nat /\ Null \in Nat
    BY Slots
  <2>2. \A i \in 0 .. ListCount - 1 : i \in 0 .. ListCount /\ i # Root
    BY Slots
  <2>3. Root \in 0 .. ListCount
    BY Slots
  <2>4. heads[Root] = p
    BY <2>3
  <2>5. \A i \in 0 .. ListCount - 1 : heads[i] = Null
    BY <2>2
  <2>6. heads \in [0 .. ListCount -> Nat]
    BY <2>1
  <2> HIDE DEF heads
  <2> QED
    BY <2>4, <2>5, <2>6
<1>6. DOMAIN l = {p} /\ l[p] = node /\ l \in [{p} -> NodeSet]
  BY <1>4
<1> HIDE DEF node, heads, l, p
<1>7. ok \in BOOLEAN /\ Index = [free |-> heads, link |-> l, ok |-> ok]
  BY <1>2 DEF Index
<1> HIDE DEF ok
<1> DEFINE ix == Index
<1>8. ix.free = heads /\ ix.link = l /\ ix.ok = ok /\ ix = [free |-> ix.free, link |-> ix.link, ok |-> ix.ok]
  BY <1>7
<1> HIDE DEF ix
<1>9. Shape(ix)
  <2>1. IsFiniteSet({p})
    BY FS_Singleton
  <2>2. /\ DOMAIN ix.link \in SUBSET (Nat \ {0}) /\ IsFiniteSet(DOMAIN ix.link)
        /\ ix.link \in [DOMAIN ix.link -> NodeSet]
    BY <1>3, <1>6, <1>8, <2>1
  <2>3. \A q \in DOMAIN ix.link : ix.link[q].size >= Overhead /\ ix.link[q].size # ListMax
    BY <1>3, <1>4, <1>6, <1>8, Slots
  <2> QED
    BY <1>5, <1>7, <1>8, <2>2, <2>3 DEF Shape
<1>10. RowsExact(ix)
  <2> SUFFICES ASSUME NEW i \in 0 .. ListCount - 1 PROVE RowExact(ix, i)
    BY DEF RowsExact
  <2>1. Listed(ix, i) = {}
    BY <1>3, <1>4, <1>6, <1>8, Slots DEF Listed
  <2> DEFINE none == 0
             row == [k \in 1 .. none |-> Null]
  <2>2. row \in [1 .. none -> Listed(ix, i)] /\ none \in Nat
    OBVIOUS
  <2>3. RowOf(ix, i, row, none)
    BY <1>5, <1>8, <2>1 DEF RowOf
  <2> HIDE DEF none, row
  <2> QED
    BY <2>2, <2>3 DEF RowExact
<1>11. ChildrenBelow(ix) /\ Sorted(ix)
  <2>1. ~(InitSize < ListMax) /\ Null # p
    BY <1>3, Slots
  <2> QED
    BY <1>4, <1>6, <1>8, <2>1 DEF ChildrenBelow, Sorted
<1>14. RootRow(ix)
  <2>1. Listed(ix, Root) = {}
    BY <1>3, <1>4, <1>6, <1>8, Slots DEF Listed
  <2>2. Rooted(ix)
    <3>1. InitSize >= ListMax - 1
      BY <1>3, Slots
    <3>2. ix.free[Root] = p /\ p \in DOMAIN ix.link /\ ix.link[p].size = InitSize
      BY <1>4, <1>5, <1>6, <1>8
    <3> QED
      BY <3>1, <3>2 DEF Rooted, IsNode
  <2> QED
    BY <2>1, <2>2 DEF RootRow
<1>12. Sound(ix)
  BY <1>9, <1>10, <1>11, <1>14 DEF Sound
<1>13. Holds(ix, FreeBlocks)
  <2>1. \A c \in FreeBlocks : c.addr = p /\ c.size = InitSize
    BY <1>1 DEF Block, p
  <2>2. FreeBlocks # {}
    BY <1>1
  <2> QED
    BY <1>4, <1>6, <1>8, <1>12, <2>1, <2>2 DEF Holds
<1> QED
  BY <1>1, <1>2, <1>5, <1>13 DEF IndexInv, ix

\* A call that leaves the blocks and the index alone.
LEMMA KeptHolds ==
  ASSUME IndexInv, HeapInv', KeepIndex,
         ~Ready' \/ (UNCHANGED blocks /\ Ready)
  PROVE  IndexInv'
<1>1. free' = free /\ link' = link
  BY DEF KeepIndex
<1>2. ASSUME Ready' PROVE Holds(Index', FreeBlocks')
  <2>1. Index' = Index /\ FreeBlocks' = FreeBlocks /\ Ready
    BY <1>1, <1>2 DEF Index, FreeBlocks
  <2> QED
    BY <2>1 DEF IndexInv
<1> QED
  BY <1>1, <1>2 DEF IndexInv

\* Every call with the index is a call of Heap, and keeps the invariant.
LEMMA IndexStep ==
  IndexInv /\ [IndexNext]_ivars => IndexInv' /\ [Next]_vars
<1> SUFFICES ASSUME IndexInv, [IndexNext]_ivars PROVE IndexInv' /\ [Next]_vars
  OBVIOUS
<1>1. ASSUME NEW bytes \in Requests, NEW align \in BOOLEAN, IndexAllocFound(bytes, align)
      PROVE  IndexInv' /\ Next
  BY <1>1, IndexFoundHolds
<1>2. ASSUME NEW bytes \in Requests, NEW align \in BOOLEAN, IndexAllocExtended(bytes, align)
      PROVE  IndexInv' /\ Next
  BY <1>2, IndexExtendedHolds
<1>3. ASSUME NEW bytes \in Requests, NEW align \in BOOLEAN, IndexAllocFaults(bytes, align)
      PROVE  IndexInv' /\ Next
  <2>1. HeapAllocFaults(bytes) /\ KeepIndex
    BY <1>3 DEF IndexAllocFaults
  <2>2. Next
    BY <2>1 DEF Next
  <2>3. HeapInv'
    BY <2>2, NextInv DEF IndexInv
  <2>4. ~Ready'
    BY <2>1 DEF HeapAllocFaults, Hang, Ready
  <2> QED
    BY <2>1, <2>2, <2>3, <2>4, KeptHolds
<1>4. ASSUME NEW bytes \in Requests, NEW align \in BOOLEAN, IndexSearchLost(bytes, align)
      PROVE  IndexInv' /\ Next
  BY <1>4, WildHolds DEF IndexSearchLost
<1>5. ASSUME NEW a \in live, IndexFree(a)
      PROVE  IndexInv' /\ Next
  BY <1>5, IndexFreeHolds
<1>6. ASSUME NEW a \in live, NEW bytes \in Requests, HeapReallocInPlace(a, bytes), KeepIndex
      PROVE  IndexInv' /\ Next
  <2>1. Next
    BY <1>6 DEF Next
  <2>2. HeapInv'
    BY <2>1, NextInv DEF IndexInv
  <2>3. UNCHANGED blocks /\ Ready
    BY <1>6 DEF HeapReallocInPlace
  <2> QED
    BY <1>6, <2>1, <2>2, <2>3, KeptHolds
<1>7. ASSUME NEW a \in live, NEW bytes \in Requests, HeapReallocMoves(a, bytes), KeepIndex
      PROVE  IndexInv' /\ Next
  <2>1. Next
    BY <1>7 DEF Next
  <2>2. HeapInv'
    BY <2>1, NextInv DEF IndexInv
  <2>3. ~Ready'
    BY <1>7 DEF HeapReallocMoves, Hang, Ready
  <2> QED
    BY <1>7, <2>1, <2>2, <2>3, KeptHolds
<1>8. CASE UNCHANGED ivars
  <2>1. UNCHANGED vars /\ KeepIndex /\ UNCHANGED blocks /\ Ready' = Ready
    BY <1>8 DEF ivars, vars, KeepIndex, Ready
  <2>2. HeapInv'
    BY <2>1, NextInv DEF IndexInv
  <2>3. ~Ready' \/ (UNCHANGED blocks /\ Ready)
    BY <2>1
  <2> QED
    BY <2>1, <2>2, <2>3, KeptHolds
<1> QED
  BY <1>1, <1>2, <1>3, <1>4, <1>5, <1>6, <1>7, <1>8 DEF IndexNext

\* Through every sequence of calls, up to the first that hangs or meets a stale
\* link, the index of free blocks stays sound and holds exactly the free blocks.
THEOREM IndexInvariant == IndexSpec => []IndexInv
<1>1. IndexInit => IndexInv
  BY IndexInitHolds
<1>2. IndexInv /\ [IndexNext]_ivars => IndexInv'
  BY IndexStep
<1> QED
  BY <1>1, <1>2, PTL DEF IndexSpec

\* heap.c with its lists and its tree does what Heap says of heap_search and of
\* the blocks: the block a search returns is free, long enough and can be cut on
\* the page boundary, whatever the lists and the tree look like.
THEOREM IndexImplementsHeap == IndexSpec => HeapSpec
<1>1. IndexInit => Init
  BY DEF IndexInit
<1>2. IndexInv /\ [IndexNext]_ivars => [Next]_vars
  BY IndexStep
<1> QED
  BY <1>1, <1>2, IndexInvariant, PTL DEF IndexSpec, HeapSpec, Spec

\* Every free block is in the index with its size, and nothing else is: heap_alloc
\* and heap_free keep heap->free and the blocks' headers in step.
THEOREM IndexTypeCorrect == IndexSpec => []IndexTypeOK
<1>1. IndexInv => IndexTypeOK
  <2> SUFFICES ASSUME IndexInv PROVE IndexTypeOK
    OBVIOUS
  <2>1. ASSUME Ready
        PROVE  /\ DOMAIN link = {b.addr : b \in FreeBlocks}
               /\ \A b \in FreeBlocks : link[b.addr].size = b.size
    BY <2>1, IndexPlaces DEF IndexInv, Holds
  <2> QED
    BY <2>1 DEF IndexInv, IndexTypeOK, FreeBlocks
<1> QED
  BY <1>1, IndexInvariant, PTL

\* Each list holds exactly the free blocks of its size, each once, linked both
\* ways: heap_insert and heap_remove never lose or duplicate one.
THEOREM IndexListsExact == IndexSpec => []ListsExact
<1>1. IndexInv => ListsExact
  <2> SUFFICES ASSUME IndexInv, Ready, NEW i \in 0 .. ListCount - 1
               PROVE  LET last == Cardinality(Items(i)) IN
                      \E row \in [1 .. last -> Items(i)] :
                        /\ IsRow(i, row, last)
                        /\ \A p \in Items(i) : \E k \in 1 .. last : row[k] = p
    BY DEF ListsExact
  <2>1. Sound(Index) /\ Index.free = free /\ Index.link = link
    BY IndexPlaces DEF IndexInv, Holds
  <2>2. Items(i) = Listed(Index, i)
    BY <2>1 DEF Items, Listed
  <2>3. PICK last \in Nat : \E row \in [1 .. last -> Items(i)] : RowOf(Index, i, row, last)
    BY <2>1, <2>2 DEF Sound, RowsExact, RowExact
  <2>4. PICK row \in [1 .. last -> Items(i)] : RowOf(Index, i, row, last)
    BY <2>3
  <2>5. Cardinality(Items(i)) = last
    <3> DEFINE S == Items(i)
               T == 1 .. last
    <3>1. /\ row \in [T -> S]
          /\ \A j, k \in T : row[j] = row[k] => j = k
          /\ \A p \in S : \E k \in T : row[k] = p
      BY <2>2, <2>4 DEF RowOf
    <3> HIDE DEF S, T
    <3>2. row \in Bijection(T, S)
      BY <3>1 DEF Bijection, Injection, Surjection, IsInjective
    <3>3. ExistsBijection(T, S)
      BY <3>2 DEF ExistsBijection
    <3> QED
      BY <2>3, <3>3, FS_CountingElements DEF S, T
  <2>6. IsRow(i, row, last) /\ \A p \in Items(i) : \E k \in 1 .. last : row[k] = p
    BY <2>1, <2>2, <2>4 DEF RowOf, IsRow
  <2> QED
    BY <2>4, <2>5, <2>6
<1> QED
  BY <1>1, IndexInvariant, PTL

\* The search of the lists.
LEMMA ListsSearched == IndexInv => ListsBestFit
<1> SUFFICES ASSUME IndexInv, Ready, NEW bytes \in Requests,
                    NEW x \in {b \in blocks : /\ ~b.used /\ b.size >= BlockSize(bytes)
                                              /\ b.size < ListMax - 1}
             PROVE  /\ Search(BlockSize(bytes), FALSE) \in DOMAIN link
                    /\ \A b \in blocks : /\ ~b.used /\ b.size >= BlockSize(bytes)
                                         /\ b.size < ListMax - 1
                         => link[Search(BlockSize(bytes), FALSE)].size <= b.size
  BY DEF ListsBestFit
<1> DEFINE bsize == BlockSize(bytes)
           idx == SizeIdx(bsize)
           found == {i \in idx .. ListCount - 1 : InList(i, bsize, FALSE) # Null}
           k == CHOOSE i \in found : \A j \in found : i <= j
           p == Search(bsize, FALSE)
<1>1. /\ HeapInv /\ Sound(Index) /\ Index.link = link
      /\ DOMAIN link = {c.addr : c \in FreeBlocks}
      /\ \A c \in FreeBlocks : link[c.addr].size = c.size
  BY IndexPlaces DEF IndexInv, Holds
<1>2. bsize \in Nat /\ bsize >= Overhead /\ Overhead = 2
  BY BlockSizeBound, HeapNumbers, HeapShape, Slots DEF Overhead
<1>3. \A i \in 0 .. ListCount - 1 : InList(i, bsize, FALSE) = free[i]
  BY DEF InList
<1> HIDE DEF bsize
<1>4. x.size \in Nat /\ x.size < ListMax - 1 /\ bsize <= x.size
  BY <1>1, BlocksKnown DEF bsize
<1>5. idx = bsize - 2 /\ idx \in Nat
  BY <1>2, <1>4, Slots
<1> DEFINE start == idx
<1>6. start \in Nat /\ ListCount \in Nat /\ \A i \in start .. ListCount - 1 : i \in Nat
  <2>1. start \in Nat /\ ListCount \in Nat
    BY <1>5, Slots
  <2> HIDE DEF start
  <2> QED
    BY <2>1
<1>7. ASSUME NEW b \in blocks, ~b.used, b.size >= bsize, b.size < ListMax - 1
      PROVE  b.size - 2 \in found
  <2> DEFINE i == b.size - 2
  <2>1. b.size \in Nat
    BY <1>1, BlocksKnown
  <2>2. i \in idx .. ListCount - 1 /\ i \in 0 .. ListCount - 1
    BY <1>2, <1>5, <1>7, <2>1, Slots
  <2>3. b.addr \in Listed(Index, i)
    <3>1. b.addr \in DOMAIN link /\ link[b.addr].size = b.size
      BY <1>1, <1>7 DEF FreeBlocks
    <3> QED
      BY <1>1, <1>2, <2>1, <3>1 DEF Listed
  <2> HIDE DEF i
  <2>4. free[i] \in Listed(Index, i)
    BY <1>1, <2>2, <2>3, HeadOfList
  <2>5. free[i] # Null
    BY <1>1, <2>4, IndexPlaces DEF Listed
  <2>6. i \in found
    BY <1>3, <2>2, <2>5
  <2> QED
    BY <2>6 DEF i
<1>8. k \in found /\ \A j \in found : k <= j
  <2>1. found \in SUBSET Nat
    BY <1>6
  <2>2. found # {}
    <3>1. x.size - 2 \in found
      <4>1. x \in blocks /\ ~x.used /\ x.size >= bsize
        BY <1>4 DEF bsize
      <4> HIDE DEF found
      <4> QED
        BY <1>4, <1>7, <4>1
    <3> QED
      BY <3>1
  <2> HIDE DEF found
  <2>3. \E n \in found : \A m \in found : n <= m
    BY <2>1, <2>2, LeastNatural
  <2> QED
    BY <2>3
<1>9. p = InList(k, bsize, FALSE)
  <2>1. found # {} /\ ~(idx < 0)
    <3>1. found # {}
      BY <1>8
    <3> HIDE DEF found
    <3> QED
      BY <1>5, <3>1
  <2> HIDE DEF idx
  <2> QED
    BY <2>1 DEF Search, SearchFrom, idx
<1> HIDE DEF k, p
<1>10. /\ k \in 0 .. ListCount - 1 /\ k \in Nat /\ p = free[k] /\ p # Null
  <2>1. k \in start .. ListCount - 1 /\ InList(k, bsize, FALSE) # Null
    BY <1>8
  <2> HIDE DEF start
  <2>2. k \in 0 .. ListCount - 1 /\ k \in Nat
    BY <1>6, <2>1
  <2> QED
    BY <1>3, <1>9, <2>1, <2>2
<1>11. p \in Listed(Index, k)
  BY <1>1, <1>10, HeadOfList
<1>12. p \in DOMAIN link /\ link[p].size = k + 2
  BY <1>1, <1>2, <1>11 DEF Listed
<1>13. ASSUME NEW b \in blocks, ~b.used, b.size >= bsize, b.size < ListMax - 1
       PROVE  link[p].size <= b.size
  <2>1. b.size - 2 \in found
    BY <1>7, <1>13
  <2>2. k <= b.size - 2 /\ b.size \in Nat
    <3> HIDE DEF found
    <3> QED
      BY <1>1, <1>8, <2>1, BlocksKnown
  <2> QED
    BY <1>10, <1>12, <2>2
<1> QED
  BY <1>12, <1>13 DEF p, bsize

\* heap_search without alignment finds a free block of a listed size whenever one
\* fits, and the smallest that does.
THEOREM IndexListsBestFit == IndexSpec => []ListsBestFit
<1>1. IndexInv => ListsBestFit
  BY ListsSearched
<1> QED
  BY <1>1, IndexInvariant, PTL

-----------------------------------------------------------------------------
(* The best fit in the tree *)

\* The links "to" lead from place to place of D, and "fro" leads back.
BothWays(D, to, fro) == \A y \in D : to[y] \in D => fro[to[y]] = y

\* F is the least set that holds A and that "to" does not lead out of; on the way
\* back to A it is not left.
ReachedFrom(F, A, D, to, fro) ==
  /\ A \subseteq F
  /\ \A y \in F : to[y] \in D => to[y] \in F
  /\ \A y \in F \ A : fro[y] \in F
  /\ \A G \in SUBSET D :
       A \subseteq G /\ (\A y \in G : to[y] \in D => to[y] \in G) => F \subseteq G

\* There is such a set.
LEMMA Onward ==
  ASSUME NEW D, NEW to, NEW fro, NEW A \in SUBSET D, BothWays(D, to, fro)
  PROVE  \E F \in SUBSET D : ReachedFrom(F, A, D, to, fro)
<1> DEFINE Kept(G) == A \subseteq G /\ \A y \in G : to[y] \in D => to[y] \in G
           F == {y \in D : \A G \in SUBSET D : Kept(G) => y \in G}
<1>1. F \in SUBSET D /\ \A G \in SUBSET D : Kept(G) => F \subseteq G
  OBVIOUS
<1>2. Kept(F)
  <2>1. A \subseteq F
    OBVIOUS
  <2>2. ASSUME NEW y \in F, to[y] \in D PROVE to[y] \in F
    BY <2>2
  <2> QED
    BY <2>1, <2>2
<1>3. ASSUME NEW y \in F \ A, fro[y] \notin F PROVE FALSE
  <2> DEFINE G == F \ {y}
  <2>1. G \in SUBSET D /\ A \subseteq G
    BY <1>1, <1>2, <1>3
  <2>2. ASSUME NEW z \in G, to[z] \in D PROVE to[z] \in G
    <3>1. z \in F /\ z \in D /\ to[z] \in F
      BY <1>1, <1>2, <2>2
    <3>2. to[z] # y
      BY <1>3, <2>2, <3>1 DEF BothWays
    <3> QED
      BY <3>1, <3>2
  <2>3. Kept(G)
    BY <2>1, <2>2
  <2> QED
    BY <1>1, <2>1, <2>3
<1> HIDE DEF F
<1> QED
  BY <1>1, <1>2, <1>3 DEF ReachedFrom

\* p and q are next to each other, the larger one behind the smaller.
Precedes(p, q) ==
  /\ p \in DOMAIN link /\ q \in DOMAIN link /\ p # q
  /\ link[p].fwd = q /\ link[q].back = p
  /\ link[p].size <= link[q].size
  /\ link[p].size >= ListMax => link[p].size < link[q].size

\* A tree in which no link is stale.
Whole ==
  /\ IsFiniteSet(DOMAIN link) /\ IsFiniteSet(Places(Index))
  /\ Null \notin DOMAIN link /\ Lost \notin DOMAIN link /\ Null # Lost
  /\ \A p \in DOMAIN link :
       /\ link[p].size \in Nat
       /\ Led(Index, p, "fwd", "back") = link[p].fwd
       /\ Led(Index, p, "back", "fwd") = link[p].back
       /\ link[p].fwd = Null \/ Precedes(p, link[p].fwd)
       /\ link[p].back = Null \/ Precedes(link[p].back, p)
  /\ \A p, c \in DOMAIN link :
       link[p].child = c => /\ link[c].size = link[p].size
                            /\ link[c].back = Null /\ link[c].fwd = Null
  /\ Rooted(Index)
  /\ free[Root] = Null \/ /\ free[Root] \in DOMAIN link
                          /\ link[free[Root]].size \in Nat
                          /\ link[free[Root]].size >= ListMax - 1
                          /\ link[free[Root]].size >= ListMax \/ link[free[Root]].back = Null

LEMMA WholeTree ==
  ASSUME IndexInv, Ready, \A p \in DOMAIN link : LinkedBack(Index, p)
  PROVE  Whole
<1>1. Sound(Index)
  BY DEF IndexInv, Holds
<1>2. /\ Index.link = link /\ Index.free = free /\ Shape(Index)
      /\ Null \notin DOMAIN link /\ Lost \notin DOMAIN link /\ Null # Lost
      /\ IsFiniteSet(Places(Index)) /\ IsFiniteSet(DOMAIN link)
      /\ \A q \in DOMAIN link : link[q].size \in Nat
  BY <1>1, IndexPlaces DEF Shape
<1>3. "back" \in Fields /\ "fwd" \in Fields
  BY DEF Fields
<1>4. ASSUME NEW p, NEW q, p \in DOMAIN link, q \in DOMAIN link, p # q,
             link[p].fwd = q, link[q].back = p
      PROVE  Precedes(p, q)
  <2>1. InOrder(Index, p, q)
    BY <1>1, <1>2, <1>4 DEF Sound, Sorted
  <2>2. link[p].size \in Nat /\ link[q].size \in Nat /\ ListMax \in Nat
    BY <1>2, <1>4, Slots
  <2> QED
    BY <1>2, <1>4, <2>1, <2>2 DEF InOrder, Precedes
<1>5. ASSUME NEW p \in DOMAIN link
      PROVE  /\ Led(Index, p, "fwd", "back") = link[p].fwd
             /\ Led(Index, p, "back", "fwd") = link[p].back
             /\ link[p].fwd = Null \/ Precedes(p, link[p].fwd)
             /\ link[p].back = Null \/ Precedes(link[p].back, p)
  <2>1. Led(Index, p, "fwd", "back") # Lost /\ Led(Index, p, "back", "fwd") # Lost
    BY DEF LinkedBack
  <2>2. /\ Led(Index, p, "fwd", "back") = link[p].fwd
        /\ \/ link[p].fwd = Null
           \/ link[p].fwd \in DOMAIN link /\ link[p].fwd # p /\ link[link[p].fwd].back = p
    BY <1>2, <2>1 DEF Led, IsNode
  <2>3. /\ Led(Index, p, "back", "fwd") = link[p].back
        /\ \/ link[p].back = Null
           \/ link[p].back \in DOMAIN link /\ link[p].back # p /\ link[link[p].back].fwd = p
    BY <1>2, <2>1 DEF Led, IsNode
  <2> QED
    BY <1>4, <2>2, <2>3
<1>6. ASSUME NEW p \in DOMAIN link, NEW c \in DOMAIN link, link[p].child = c
      PROVE  /\ link[c].size = link[p].size /\ link[c].back = Null /\ link[c].fwd = Null
  <2>1. Junk \notin DOMAIN link
    BY <1>2, NotBlocks
  <2>2. ~(link[p].size < ListMax) /\ link[p].child # Null
    BY <1>1, <1>2, <1>6, <2>1 DEF Sound, ChildrenBelow
  <2>3. ChildOf(Index, c, p)
    BY <1>1, <1>2, <1>6, <2>2 DEF Sound, ChildrenBelow
  <2> QED
    BY <1>2, <2>3 DEF ChildOf
<1>7. Rooted(Index)
  BY <1>1 DEF Sound, RootRow
<1>8. ASSUME free[Root] # Null
      PROVE  /\ free[Root] \in DOMAIN link
             /\ link[free[Root]].size \in Nat
             /\ link[free[Root]].size >= ListMax - 1
             /\ link[free[Root]].size >= ListMax \/ link[free[Root]].back = Null
  <2>1. free[Root] \in DOMAIN link /\ link[free[Root]].size >= ListMax - 1
    BY <1>2, <1>7, <1>8 DEF Rooted, IsNode
  <2>2. link[free[Root]].size \in Nat
    BY <1>2, <2>1
  <2>3. link[free[Root]].size = ListMax - 1 => free[Root] \in Listed(Index, Root)
    <3>1. Root + Overhead = ListMax - 1
      BY Slots
    <3> QED
      BY <1>2, <2>1, <3>1 DEF Listed
  <2>4. free[Root] \in Listed(Index, Root) => link[free[Root]].back = Null
    BY <1>1, <1>2 DEF Sound, RootRow
  <2> QED
    BY <2>1, <2>2, <2>3, <2>4, Slots
<1> QED
  BY <1>2, <1>5, <1>6, <1>7, <1>8 DEF Whole

\* heap_tree_search: the step towards larger blocks.
UpStep(bsize) ==
  [q \in Places(Index) |-> IF IsStop(q) \/ link[q].size >= bsize THEN q
                           ELSE Led(Index, q, "fwd", "back")]

\* heap_tree_search: the step back towards smaller ones.
DownStep(bsize) ==
  [q \in Places(Index) |->
     IF IsStop(q) \/ link[q].size = bsize THEN q
     ELSE LET back == Led(Index, q, "back", "fwd")
          IN IF back = Lost \/ (back # Null /\ link[back].size >= bsize) THEN back
             ELSE q]

LEMMA UpSteps ==
  ASSUME Sound(Index), Whole, NEW bsize \in Nat
  PROVE  /\ UpStep(bsize) \in [Places(Index) -> Places(Index)]
         /\ \A p : FirstSuitable(p, bsize) = Walk(UpStep(bsize), p)
         /\ UpStep(bsize)[Null] = Null
         /\ \A q \in DOMAIN link :
              UpStep(bsize)[q] = IF link[q].size >= bsize THEN q ELSE link[q].fwd
<1>1. /\ DOMAIN link \subseteq Places(Index) /\ Null \in Places(Index)
      /\ \A q \in DOMAIN link : ~IsStop(q)
      /\ \A q \in Places(Index) : IsStop(q) \/ q \in DOMAIN link
      /\ IsStop(Null)
  BY IndexPlaces
<1>2. \A q \in DOMAIN link : /\ Led(Index, q, "fwd", "back") = link[q].fwd
                             /\ link[q].fwd \in DOMAIN link \union {Null}
  BY DEF Whole, Precedes
<1>3. \A q \in Places(Index) : UpStep(bsize)[q] = IF IsStop(q) \/ link[q].size >= bsize THEN q
                                                  ELSE Led(Index, q, "fwd", "back")
  BY DEF UpStep
<1>4. \A q \in Places(Index) : UpStep(bsize)[q] \in Places(Index)
  BY <1>1, <1>2, <1>3
<1>5. UpStep(bsize) \in [Places(Index) -> Places(Index)]
  BY <1>3, <1>4 DEF UpStep
<1>6. \A p : FirstSuitable(p, bsize) = Walk(UpStep(bsize), p)
  BY DEF FirstSuitable, UpStep
<1>7. /\ UpStep(bsize)[Null] = Null
      /\ \A q \in DOMAIN link :
           UpStep(bsize)[q] = IF link[q].size >= bsize THEN q ELSE link[q].fwd
  BY <1>1, <1>2, <1>3
<1> QED
  BY <1>5, <1>6, <1>7

LEMMA DownSteps ==
  ASSUME Sound(Index), Whole, NEW bsize \in Nat
  PROVE  /\ DownStep(bsize) \in [Places(Index) -> Places(Index)]
         /\ \A p : SmallestFrom(p, bsize) = Walk(DownStep(bsize), p)
         /\ \A q \in DOMAIN link :
              DownStep(bsize)[q] =
                IF link[q].size # bsize /\ link[q].back # Null /\ link[link[q].back].size >= bsize
                  THEN link[q].back ELSE q
<1>1. /\ DOMAIN link \subseteq Places(Index)
      /\ \A q \in DOMAIN link : ~IsStop(q)
      /\ \A q \in Places(Index) : IsStop(q) \/ q \in DOMAIN link
      /\ Lost \notin DOMAIN link /\ Null # Lost
  BY IndexPlaces
<1>2. \A q \in DOMAIN link : /\ Led(Index, q, "back", "fwd") = link[q].back
                             /\ link[q].back \in DOMAIN link \union {Null}
                             /\ link[q].back # Lost
  BY <1>1 DEF Whole, Precedes
<1>3. \A q \in Places(Index) :
        DownStep(bsize)[q] =
          IF IsStop(q) \/ link[q].size = bsize THEN q
          ELSE LET back == Led(Index, q, "back", "fwd")
               IN IF back = Lost \/ (back # Null /\ link[back].size >= bsize) THEN back
                  ELSE q
  BY DEF DownStep
<1>4. \A q \in DOMAIN link :
        DownStep(bsize)[q] =
          IF link[q].size # bsize /\ link[q].back # Null /\ link[link[q].back].size >= bsize
            THEN link[q].back ELSE q
  BY <1>1, <1>2, <1>3
<1>5. \A q \in Places(Index) : DownStep(bsize)[q] \in Places(Index)
  BY <1>1, <1>2, <1>3, <1>4
<1>6. DownStep(bsize) \in [Places(Index) -> Places(Index)]
  BY <1>5 DEF DownStep
<1>7. \A p : SmallestFrom(p, bsize) = Walk(DownStep(bsize), p)
  BY DEF SmallestFrom, DownStep
<1> QED
  BY <1>4, <1>6, <1>7

\* The walk towards larger blocks comes to stand: at a block that is long enough, or
\* past the largest.
LEMMA FirstStands ==
  ASSUME Sound(Index), Whole, NEW bsize \in Nat, NEW first,
         first = FirstSuitable(free[Root], bsize)
  PROVE  \/ first = Null
         \/ /\ first \in DOMAIN link /\ link[first].size >= bsize
            /\ link[first].size >= ListMax \/ link[first].back = Null
<1> DEFINE X    == Places(Index)
           D    == DOMAIN link
           root == free[Root]
           step == UpStep(bsize)
<1>1. /\ step \in [X -> X] /\ first = Walk(step, root) /\ step[Null] = Null
      /\ \A q \in D : step[q] = IF link[q].size >= bsize THEN q ELSE link[q].fwd
  BY UpSteps
<1>2. IsFiniteSet(X) /\ D \subseteq X /\ Null \in X /\ Null \notin D
  BY IndexPlaces
<1>3. ListMax \in Nat
  BY Slots
<1> HIDE DEF X, step
<1>4. CASE root = Null
  <2>1. Walk(step, root) \in {} \union {root}
    BY <1>1, <1>2, <1>4, WalkEnds
  <2> QED
    BY <1>1, <1>4, <2>1
<1>5. CASE root # Null
  <2> DEFINE R == {q \in D : /\ q # root
                             /\ link[q].size >= link[root].size}
                  \union {Null}
  <2>1. /\ root \in D /\ link[root].size \in Nat /\ link[root].size >= ListMax - 1
        /\ link[root].size >= ListMax \/ link[root].back = Null
    BY <1>5 DEF Whole
  <2>2. R \in SUBSET X /\ root \in X /\ root \notin R
    BY <1>2, <1>5, <2>1
  <2>3. ASSUME NEW q \in D, link[q].fwd # Null
        PROVE  /\ Precedes(q, link[q].fwd) /\ link[q].fwd \in D
               /\ link[q].size \in Nat /\ link[link[q].fwd].size \in Nat
    BY <2>3 DEF Whole, Precedes
  <2>4. step[root] \in R \union {root}
    BY <1>1, <2>1, <2>3 DEF Precedes
  <2>5. ASSUME NEW q \in R PROVE step[q] \in R
    <3>1. CASE q = Null
      BY <1>1, <3>1
    <3>2. CASE q # Null /\ step[q] \notin {q, Null}
      <4>1. /\ q \in D /\ q # root /\ link[q].size >= link[root].size
            /\ step[q] = link[q].fwd /\ link[q].fwd # Null
        BY <1>1, <2>5, <3>2
      <4>2. Precedes(q, link[q].fwd) /\ link[q].size \in Nat /\ link[link[q].fwd].size \in Nat
        BY <2>3, <4>1
      <4>3. link[q].fwd # root
        <5> SUFFICES ASSUME link[q].fwd = root PROVE FALSE
          OBVIOUS
        <5>1. link[root].back = q
          BY <4>2 DEF Precedes
        <5>2. link[root].size >= ListMax
          BY <1>2, <2>1, <4>1, <5>1
        <5>3. link[q].size < link[root].size
          BY <1>3, <2>1, <4>1, <4>2, <5>2 DEF Precedes
        <5> QED
          BY <2>1, <4>1, <4>2, <5>3
      <4>4. link[link[q].fwd].size >= link[root].size /\ link[q].fwd \in D
        BY <2>1, <4>1, <4>2 DEF Precedes
      <4> QED
        BY <4>1, <4>3, <4>4
    <3> QED
      BY <2>5, <3>1, <3>2
  <2>6. \A p, q \in R \union {root} : step[p] = step[q] /\ step[step[p]] # step[p] => p = q
    <3> SUFFICES ASSUME NEW p \in R \union {root}, NEW q \in R \union {root},
                        step[p] = step[q], step[step[p]] # step[p]
                 PROVE  p = q
      OBVIOUS
    <3>1. /\ p \in D /\ q \in D /\ step[p] # p /\ step[q] # q /\ step[p] # Null
      BY <1>1, <2>1
    <3>2. step[p] = link[p].fwd /\ step[q] = link[q].fwd
      BY <1>1, <3>1
    <3>3. Precedes(p, link[p].fwd) /\ Precedes(q, link[q].fwd)
      BY <2>3, <3>1, <3>2
    <3> QED
      BY <3>2, <3>3 DEF Precedes
  <2> HIDE DEF R
  <2>7. Walk(step, root) \in R \union {root} /\ step[Walk(step, root)] = Walk(step, root)
    BY <1>1, <1>2, <2>2, <2>4, <2>5, <2>6, WalkEnds
  <2>8. ASSUME first # Null
        PROVE  /\ first \in D /\ link[first].size >= bsize
               /\ link[first].size >= ListMax \/ link[first].back = Null
    <3>1. first \in D /\ step[first] = first
      BY <1>1, <2>1, <2>7, <2>8 DEF R
    <3>2. link[first].size >= bsize
      <4>1. ~(link[first].size >= bsize) => link[first].fwd = first /\ first # Null
        BY <1>1, <2>8, <3>1
      <4> QED
        BY <2>3, <3>1, <4>1 DEF Precedes
    <3>3. CASE first = root
      BY <2>1, <3>1, <3>2, <3>3
    <3>4. CASE first # root
      <4>1. ~(link[root].size >= bsize)
        <5> SUFFICES ASSUME link[root].size >= bsize PROVE FALSE
          OBVIOUS
        <5>1. step[root] = root
          BY <1>1, <2>1
        <5>2. Walk(step, root) \in {} \union {root}
          <6>1. root \notin {} /\ {} \in SUBSET X /\ step[root] \in {} \union {root}
            BY <5>1
          <6>2. \A p, q \in {} \union {root} :
                  step[p] = step[q] /\ step[step[p]] # step[p] => p = q
            OBVIOUS
          <6> QED
            BY <1>1, <1>2, <2>2, <6>1, <6>2, WalkEnds
        <5> QED
          BY <1>1, <3>4, <5>2
      <4>2. link[first].size \in Nat
        BY <3>1 DEF Whole
      <4>3. link[first].size >= ListMax
        BY <1>3, <2>1, <3>2, <4>1, <4>2
      <4> QED
        BY <3>1, <3>2, <4>3
    <3> QED
      BY <3>3, <3>4
  <2> QED
    BY <2>8
<1> QED
  BY <1>4, <1>5

\* The walk back towards smaller blocks comes to stand: at the last block on the way
\* that is long enough, or at one of the very size.
LEMMA SmallestStands ==
  ASSUME Sound(Index), Whole, NEW bsize \in Nat, NEW first \in DOMAIN link,
         link[first].size >= bsize, link[first].size >= ListMax \/ link[first].back = Null,
         NEW found, found = SmallestFrom(first, bsize)
  PROVE  /\ found \in DOMAIN link /\ link[found].size >= bsize
         /\ \/ link[found].size = bsize
            \/ link[found].back = Null
            \/ link[link[found].back].size < bsize
<1> DEFINE X    == Places(Index)
           D    == DOMAIN link
           step == DownStep(bsize)
           R    == {q \in D : link[q].size < link[first].size /\ link[q].size >= bsize}
<1>1. /\ step \in [X -> X] /\ found = Walk(step, first)
      /\ \A q \in D :
           step[q] = IF link[q].size # bsize /\ link[q].back # Null /\ link[link[q].back].size >= bsize
                       THEN link[q].back ELSE q
  BY DownSteps
<1>2. IsFiniteSet(X) /\ D \subseteq X
  BY IndexPlaces
<1>3. ListMax \in Nat
  BY Slots
<1> HIDE DEF X, step
<1>4. ASSUME NEW q \in D, link[q].back # Null
      PROVE  /\ Precedes(link[q].back, q) /\ link[q].back \in D
             /\ link[q].size \in Nat /\ link[link[q].back].size \in Nat
  BY <1>4 DEF Whole, Precedes
<1>5. link[first].size \in Nat
  BY DEF Whole
<1>6. R \in SUBSET X /\ first \in X /\ first \notin R
  BY <1>2, <1>5
<1>7. ASSUME NEW q \in R \union {first} PROVE step[q] \in R \union {q}
  <2>1. CASE step[q] = q
    BY <2>1
  <2>2. CASE step[q] # q
    <3>1. /\ q \in D /\ link[q].back # Null /\ link[link[q].back].size >= bsize
          /\ step[q] = link[q].back
      BY <1>1, <2>2
    <3>2. Precedes(link[q].back, q) /\ link[q].size \in Nat /\ link[link[q].back].size \in Nat
      BY <1>4, <3>1
    <3>3. link[link[q].back].size < link[first].size
      <4>1. CASE q = first
        <5>1. link[first].size >= ListMax
          BY <3>1, <4>1
        <5>2. link[link[q].back].size <= link[first].size
          BY <3>2, <4>1 DEF Precedes
        <5>3. link[link[q].back].size < link[first].size
          BY <1>3, <3>2, <4>1, <5>1, <5>2 DEF Precedes
        <5> QED
          BY <5>3
      <4>2. CASE q # first
        <5>1. link[q].size < link[first].size
          BY <4>2
        <5>2. link[link[q].back].size <= link[q].size
          BY <3>2 DEF Precedes
        <5> QED
          BY <1>5, <3>2, <5>1, <5>2
      <4> QED
        BY <4>1, <4>2
    <3> QED
      BY <1>4, <3>1, <3>3
  <2> QED
    BY <2>1, <2>2
<1>8. \A p, q \in R \union {first} : step[p] = step[q] /\ step[step[p]] # step[p] => p = q
  <2> SUFFICES ASSUME NEW p \in R \union {first}, NEW q \in R \union {first},
                      step[p] = step[q], step[step[p]] # step[p]
               PROVE  p = q
    OBVIOUS
  <2>1. p \in D /\ q \in D /\ step[p] # p /\ step[q] # q
    OBVIOUS
  <2>2. /\ step[p] = link[p].back /\ step[q] = link[q].back
        /\ link[p].back # Null /\ link[q].back # Null
    BY <1>1, <2>1
  <2>3. Precedes(link[p].back, p) /\ Precedes(link[q].back, q)
    BY <1>4, <2>1, <2>2
  <2> QED
    BY <2>2, <2>3 DEF Precedes
<1>9. Walk(step, first) \in R \union {first} /\ step[Walk(step, first)] = Walk(step, first)
  <2>1. step[first] \in R \union {first} /\ \A q \in R : step[q] \in R
    BY <1>7
  <2> HIDE DEF R
  <2> QED
    BY <1>1, <1>2, <1>6, <1>8, <2>1, WalkEnds
<1>10. found \in D /\ link[found].size >= bsize /\ step[found] = found
  BY <1>1, <1>9
<1>11. ASSUME link[found].size # bsize, link[found].back # Null
       PROVE  link[link[found].back].size < bsize
  <2>1. Precedes(link[found].back, found) /\ link[link[found].back].size \in Nat
    BY <1>4, <1>10, <1>11
  <2>2. ~(link[link[found].back].size >= bsize)
    BY <1>1, <1>10, <1>11, <2>1 DEF Precedes
  <2> QED
    BY <2>1, <2>2
<1> QED
  BY <1>10, <1>11

\* A set that is closed, and leads out of the root if there is one, holds all that the
\* tree must hold.
LEMMA AllReached ==
  ASSUME TreeComplete, Ready, NEW S \in SUBSET DOMAIN link, Closed(S),
         free[Root] \in DOMAIN link => free[Root] \in S,
         NEW p \in DOMAIN link, link[p].size >= ListMax - 1
  PROVE  p \in S
BY DEF TreeComplete

\* If the walk towards larger blocks finds none that is long enough there is none.
LEMMA NoneFits ==
  ASSUME Sound(Index), Whole, TreeComplete, Ready, NEW bsize \in Nat,
         FirstSuitable(free[Root], bsize) = Null,
         NEW p \in DOMAIN link, link[p].size >= ListMax - 1
  PROVE  link[p].size < bsize
<1> DEFINE D    == DOMAIN link
           root == free[Root]
           fwd  == [y \in D |-> link[y].fwd]
           back == [y \in D |-> link[y].back]
           Fits == {y \in D : link[y].size >= bsize}
<1>1. ASSUME NEW y \in D
      PROVE  /\ link[y].size \in Nat
             /\ link[y].fwd = Null \/ (link[y].fwd \in D /\ link[link[y].fwd].back = y)
             /\ link[y].back = Null \/ /\ link[y].back \in D /\ link[link[y].back].fwd = y
                                       /\ link[link[y].back].size <= link[y].size
  BY DEF Whole, Precedes
<1>2. Null \notin D
  BY IndexPlaces
<1>3. BothWays(D, back, fwd)
  BY <1>1, <1>2 DEF BothWays
<1>4. PICK U \in SUBSET D : ReachedFrom(U, Fits, D, back, fwd)
  <2>1. Fits \in SUBSET D
    OBVIOUS
  <2> HIDE DEF Fits, fwd, back, D
  <2> QED
    BY <1>3, <2>1, Onward
<1>5. /\ Fits \subseteq U
      /\ \A y \in U : link[y].back \in D => link[y].back \in U
      /\ \A y \in U : link[y].size < bsize => link[y].fwd \in U
  <2>1. \A y \in U : link[y].size < bsize => y \notin Fits
    BY <1>1
  <2> QED
    BY <1>4, <2>1 DEF ReachedFrom
<1>6. root \notin U
  <2> SUFFICES ASSUME root \in U PROVE FALSE
    OBVIOUS
  <2> DEFINE step == UpStep(bsize)
  <2>1. /\ step \in [Places(Index) -> Places(Index)]
        /\ FirstSuitable(root, bsize) = Walk(step, root)
        /\ \A q \in D : step[q] = IF link[q].size >= bsize THEN q ELSE link[q].fwd
    BY UpSteps
  <2> HIDE DEF step
  <2>2. \A q \in U : step[q] \in U
    BY <1>1, <1>5, <2>1
  <2>3. U \in SUBSET Places(Index) /\ Null # Lost /\ Null \notin U
    BY <1>2, IndexPlaces
  <2>4. Walk(step, root) = Lost \/ Walk(step, root) \in U
    BY <2>1, <2>2, <2>3, SearchWalk
  <2> QED
    BY <2>1, <2>3, <2>4
<1>7. Closed(D \ U)
  <2> SUFFICES ASSUME NEW q \in D \ U, NEW r \in D, r \in {link[q].back, link[q].fwd, link[q].child},
                      r \in U
               PROVE  FALSE
    BY DEF Closed
  <2>1. CASE r = link[q].back
    <3>1. link[r].fwd = q /\ link[r].size <= link[q].size /\ link[r].size \in Nat /\ link[q].size \in Nat
      BY <1>1, <1>2, <2>1
    <3>2. link[r].size >= bsize
      BY <1>5, <3>1
    <3>3. link[q].size >= bsize
      BY <3>1, <3>2
    <3> QED
      BY <1>5, <3>3
  <2>2. CASE r = link[q].fwd
    <3>1. link[r].back = q
      BY <1>1, <1>2, <2>2
    <3> QED
      BY <1>5, <3>1
  <2>3. CASE r = link[q].child
    <3>1. link[r].size = link[q].size /\ link[r].fwd = Null
      BY <2>3 DEF Whole
    <3>2. link[r].size >= bsize
      BY <1>1, <1>2, <1>5, <3>1
    <3> QED
      BY <1>5, <3>1, <3>2
  <2> QED
    BY <2>1, <2>2, <2>3
<1>8. p \in D \ U
  <2>1. D \ U \in SUBSET D /\ (root \in D => root \in D \ U)
    BY <1>6
  <2> QED
    BY <1>7, <2>1, AllReached
<1>9. p \notin Fits
  BY <1>5, <1>8
<1> QED
  BY <1>1, <1>9

\* The blocks reached from one block over fwd, and those over back, are longer, or
\* shorter, than it.
LEMMA LongerBlocks ==
  ASSUME Whole, NEW p \in DOMAIN link
  PROVE  \E F \in SUBSET DOMAIN link :
           /\ p \in F
           /\ \A y \in F : link[y].fwd \in DOMAIN link => link[y].fwd \in F
           /\ \A y \in F : y = p \/ link[y].back \in F
           /\ \A y \in F : link[y].size >= link[p].size
<1> DEFINE D    == DOMAIN link
           fwd  == [y \in D |-> link[y].fwd]
           back == [y \in D |-> link[y].back]
<1>1. Null \notin D
  BY DEF Whole
<1>2. ASSUME NEW y \in D
      PROVE  /\ link[y].size \in Nat
             /\ link[y].fwd = Null \/ /\ link[y].fwd \in D /\ link[link[y].fwd].back = y
                                      /\ link[y].size <= link[link[y].fwd].size
  BY DEF Whole, Precedes
<1>3. BothWays(D, fwd, back) /\ {p} \in SUBSET D
  BY <1>1, <1>2 DEF BothWays
<1>4. PICK F \in SUBSET D : ReachedFrom(F, {p}, D, fwd, back)
  <2> HIDE DEF fwd, back, D
  <2> QED
    BY <1>3, Onward
<1>5. /\ p \in F
      /\ \A y \in F : link[y].fwd \in D => link[y].fwd \in F
      /\ \A y \in F : y = p \/ link[y].back \in F
      /\ \A G \in SUBSET D :
           p \in G /\ (\A y \in G : link[y].fwd \in D => link[y].fwd \in G) => F \subseteq G
  BY <1>4 DEF ReachedFrom
<1>6. F \subseteq {y \in D : link[y].size >= link[p].size}
  <2> DEFINE G == {y \in D : link[y].size >= link[p].size}
  <2>1. G \in SUBSET D /\ p \in G
    BY <1>2
  <2>2. ASSUME NEW y \in G, link[y].fwd \in D PROVE link[y].fwd \in G
    <3>1. /\ link[y].size >= link[p].size /\ link[y].size <= link[link[y].fwd].size
          /\ link[y].size \in Nat /\ link[p].size \in Nat /\ link[link[y].fwd].size \in Nat
      BY <1>1, <1>2, <2>2
    <3> QED
      BY <2>2, <3>1
  <2> HIDE DEF G
  <2>3. F \subseteq G
    BY <1>5, <2>1, <2>2
  <2> QED
    BY <2>3 DEF G
<1> QED
  BY <1>5, <1>6

LEMMA ShorterBlocks ==
  ASSUME Whole, NEW p \in DOMAIN link
  PROVE  \E F \in SUBSET DOMAIN link :
           /\ p \in F
           /\ \A y \in F : link[y].back \in DOMAIN link => link[y].back \in F
           /\ \A y \in F : y = p \/ link[y].fwd \in F
           /\ \A y \in F : link[y].size <= link[p].size
<1> DEFINE D    == DOMAIN link
           fwd  == [y \in D |-> link[y].fwd]
           back == [y \in D |-> link[y].back]
<1>1. Null \notin D
  BY DEF Whole
<1>2. ASSUME NEW y \in D
      PROVE  /\ link[y].size \in Nat
             /\ link[y].back = Null \/ /\ link[y].back \in D /\ link[link[y].back].fwd = y
                                       /\ link[link[y].back].size <= link[y].size
  BY DEF Whole, Precedes
<1>3. BothWays(D, back, fwd) /\ {p} \in SUBSET D
  BY <1>1, <1>2 DEF BothWays
<1>4. PICK F \in SUBSET D : ReachedFrom(F, {p}, D, back, fwd)
  <2> HIDE DEF fwd, back, D
  <2> QED
    BY <1>3, Onward
<1>5. /\ p \in F
      /\ \A y \in F : link[y].back \in D => link[y].back \in F
      /\ \A y \in F : y = p \/ link[y].fwd \in F
      /\ \A G \in SUBSET D :
           p \in G /\ (\A y \in G : link[y].back \in D => link[y].back \in G) => F \subseteq G
  BY <1>4 DEF ReachedFrom
<1>6. F \subseteq {y \in D : link[y].size <= link[p].size}
  <2> DEFINE G == {y \in D : link[y].size <= link[p].size}
  <2>1. G \in SUBSET D /\ p \in G
    BY <1>2
  <2>2. ASSUME NEW y \in G, link[y].back \in D PROVE link[y].back \in G
    <3>1. /\ link[y].size <= link[p].size /\ link[link[y].back].size <= link[y].size
          /\ link[y].size \in Nat /\ link[p].size \in Nat /\ link[link[y].back].size \in Nat
      BY <1>1, <1>2, <2>2
    <3> QED
      BY <2>2, <3>1
  <2> HIDE DEF G
  <2>3. F \subseteq G
    BY <1>5, <2>1, <2>2
  <2> QED
    BY <2>3 DEF G
<1> QED
  BY <1>5, <1>6

\* The row of the blocks longer than the one found, with it, and of those shorter than
\* was asked for, has the root in it: so it is the whole row, and nothing else fits better.
LEMMA BestFits ==
  ASSUME Sound(Index), Whole, TreeComplete, Ready, NEW bsize \in Nat,
         NEW first \in DOMAIN link, first = FirstSuitable(free[Root], bsize),
         NEW found \in DOMAIN link, found = SmallestFrom(first, bsize),
         link[found].size >= bsize,
         link[found].back = Null \/ link[link[found].back].size < bsize,
         NEW p \in DOMAIN link, link[p].size >= ListMax - 1, link[p].size >= bsize
  PROVE  link[found].size <= link[p].size
<1> DEFINE D     == DOMAIN link
           root  == free[Root]
           below == link[found].back
<1>1. Null \notin D /\ Null # Lost /\ Lost \notin D /\ D \subseteq Places(Index) /\ Null \in Places(Index)
  BY IndexPlaces
<1>2. ASSUME NEW y \in D
      PROVE  /\ link[y].size \in Nat
             /\ link[y].fwd = Null \/ (link[y].fwd \in D /\ link[link[y].fwd].back = y)
             /\ link[y].back = Null \/ (link[y].back \in D /\ link[link[y].back].fwd = y)
  BY DEF Whole, Precedes
<1>3. PICK Longer \in SUBSET D :
        /\ found \in Longer
        /\ \A y \in Longer : link[y].fwd \in D => link[y].fwd \in Longer
        /\ \A y \in Longer : y = found \/ link[y].back \in Longer
        /\ \A y \in Longer : link[y].size >= link[found].size
  BY LongerBlocks
<1>4. \E Shorter \in SUBSET D :
        /\ below \in D => below \in Shorter
        /\ \A y \in Shorter : link[y].back \in D => link[y].back \in Shorter
        /\ \A y \in Shorter : y = below \/ link[y].fwd \in Shorter
        /\ \A y \in Shorter : link[y].size < bsize
  <2>1. CASE below = Null
    <3>1. {} \in SUBSET D /\ ~(below \in D)
      BY <1>1, <2>1
    <3> QED
      BY <3>1
  <2>2. CASE below # Null
    <3>1. below \in D /\ link[below].size < bsize /\ link[below].size \in Nat
      BY <1>2, <2>2
    <3>2. PICK F \in SUBSET D :
            /\ below \in F
            /\ \A y \in F : link[y].back \in D => link[y].back \in F
            /\ \A y \in F : y = below \/ link[y].fwd \in F
            /\ \A y \in F : link[y].size <= link[below].size
      <4> HIDE DEF below
      <4> QED
        BY <3>1, ShorterBlocks
    <3>3. \A y \in F : link[y].size < bsize
      BY <1>2, <3>1, <3>2
    <3> QED
      BY <3>2, <3>3
  <2> QED
    BY <2>1, <2>2
<1>5. PICK Shorter \in SUBSET D :
        /\ below \in D => below \in Shorter
        /\ \A y \in Shorter : link[y].back \in D => link[y].back \in Shorter
        /\ \A y \in Shorter : y = below \/ link[y].fwd \in Shorter
        /\ \A y \in Shorter : link[y].size < bsize
  BY <1>4
<1>6. below \in D => link[below].fwd = found
  BY <1>1, <1>2
<1>7. first \in Longer
  <2> SUFFICES ASSUME first \notin Longer PROVE FALSE
    OBVIOUS
  <2> DEFINE step == DownStep(bsize)
             S == D \ Longer
  <2>1. /\ step \in [Places(Index) -> Places(Index)] /\ found = Walk(step, first)
        /\ \A q \in D : step[q] \in {q, link[q].back} /\ (step[q] # q => link[q].back # Null)
    BY DownSteps
  <2> HIDE DEF step
  <2>2. ASSUME NEW q \in S PROVE step[q] \in S
    <3>1. CASE step[q] = q
      BY <3>1
    <3>2. CASE step[q] # q
      <4>1. step[q] = link[q].back /\ link[q].back \in D /\ link[link[q].back].fwd = q
        BY <1>2, <2>1, <2>2, <3>2
      <4>2. link[q].back \notin Longer
        BY <1>3, <2>2, <4>1
      <4> QED
        BY <4>1, <4>2
    <3> QED
      BY <3>1, <3>2
  <2>3. S \in SUBSET Places(Index) /\ first \in S
    BY <1>1
  <2> HIDE DEF S
  <2>4. Walk(step, first) = Lost \/ Walk(step, first) \in S
    BY <2>1, <2>2, <2>3, SearchWalk
  <2> QED
    BY <1>1, <1>3, <2>1, <2>4 DEF S
<1> DEFINE Row == Longer \union Shorter
<1>8. \A y \in Row : link[y].fwd \in D => link[y].fwd \in Row
  <2>1. ASSUME NEW y \in Shorter, link[y].fwd \in D PROVE link[y].fwd \in Row
    <3>1. y = below => link[y].fwd = found
      BY <1>6
    <3> QED
      BY <1>3, <1>5, <3>1
  <2> QED
    BY <1>3, <2>1
<1>9. \A y \in Row : link[y].back \in D => link[y].back \in Row
  BY <1>3, <1>5
<1>10. root \in Row
  <2> SUFFICES ASSUME root \notin Row PROVE FALSE
    OBVIOUS
  <2> DEFINE step == UpStep(bsize)
             S == (D \ Row) \union {Null}
  <2>1. /\ step \in [Places(Index) -> Places(Index)] /\ first = Walk(step, root)
        /\ step[Null] = Null
        /\ \A q \in D : step[q] \in {q, link[q].fwd}
    BY UpSteps
  <2> HIDE DEF step
  <2>2. ASSUME NEW q \in S PROVE step[q] \in S
    <3>1. CASE step[q] \in {q, Null}
      BY <2>2, <3>1
    <3>2. CASE step[q] \notin {q, Null}
      <4>1. q \in D /\ q \notin Row
        BY <2>1, <2>2, <3>2
      <4>2. step[q] = link[q].fwd /\ link[q].fwd \in D /\ link[link[q].fwd].back = q
        BY <1>2, <2>1, <3>2, <4>1
      <4>3. link[q].fwd \notin Row
        <5> HIDE DEF Row
        <5> QED
          BY <1>9, <4>1, <4>2
      <4> QED
        BY <4>2, <4>3
    <3> QED
      BY <3>1, <3>2
  <2>3. S \in SUBSET Places(Index) /\ root \in S
    <3>1. root \in D \union {Null}
      BY DEF Whole
    <3> QED
      BY <1>1, <3>1
  <2> HIDE DEF S
  <2>4. Walk(step, root) = Lost \/ Walk(step, root) \in S
    BY <2>1, <2>2, <2>3, SearchWalk
  <2> QED
    BY <1>1, <1>7, <2>1, <2>4 DEF S
<1> DEFINE Apart == {y \in D : link[y].size >= link[found].size \/ link[y].size < bsize}
           Hanging == {y \in Apart : link[y].fwd = Null /\ link[y].back = Null}
<1>11. Row \subseteq Apart
  BY <1>3, <1>5
<1>12. Closed(Row \union Hanging)
  <2> SUFFICES ASSUME NEW q \in Row \union Hanging, NEW r \in D,
                      r \in {link[q].back, link[q].fwd, link[q].child}
               PROVE  r \in Row \union Hanging
    BY DEF Closed
  <2>1. CASE r = link[q].child
    <3>1. /\ q \in Apart
      BY <1>11
    <3>2. link[r].size = link[q].size /\ link[r].back = Null /\ link[r].fwd = Null
      BY <2>1, <3>1 DEF Whole
    <3> HIDE DEF Row
    <3>3. r \in Apart
      BY <3>1, <3>2
    <3> QED
      BY <3>2, <3>3
  <2>2. CASE r # link[q].child
    <3>1. q \in Row
      <4> HIDE DEF Row
      <4> QED
        BY <1>1, <2>2
    <3> QED
      BY <1>8, <1>9, <2>2, <3>1
  <2> QED
    BY <2>1, <2>2
<1>13. p \in Row \union Hanging
  <2>1. Row \union Hanging \in SUBSET D
    BY <1>3, <1>5
  <2> HIDE DEF Row, Hanging
  <2> QED
    BY <1>10, <1>12, <2>1, AllReached
<1>14. p \in Apart
  BY <1>11, <1>13
<1> QED
  BY <1>2, <1>14

\* heap_tree_search: the smallest block of the tree that is long enough, if there is one.
LEMMA TreeSearched ==
  ASSUME Sound(Index), Whole, TreeComplete, Ready, NEW bsize \in Nat,
         NEW found, found = TreeSearch(bsize, FALSE)
  PROVE  \/ /\ found = Null
            /\ \A p \in DOMAIN link : link[p].size >= ListMax - 1 => link[p].size < bsize
         \/ /\ found \in DOMAIN link /\ link[found].size >= bsize
            /\ \A p \in DOMAIN link : link[p].size >= ListMax - 1 /\ link[p].size >= bsize
                 => link[found].size <= link[p].size
<1> DEFINE first == FirstSuitable(free[Root], bsize)
<1>1. First(bsize) = first
  BY DEF First, Whole
<1>2. \/ first = Null
      \/ /\ first \in DOMAIN link /\ link[first].size >= bsize
         /\ link[first].size >= ListMax \/ link[first].back = Null
  BY FirstStands
<1>3. IsStop(Null) /\ \A q \in DOMAIN link : ~IsStop(q) /\ link[q].size \in Nat
  BY IndexPlaces
<1>4. CASE first = Null
  <2>1. found = Null
    BY <1>1, <1>3, <1>4 DEF TreeSearch
  <2> QED
    BY <1>4, <2>1, NoneFits
<1>5. CASE first # Null
  <2>1. /\ first \in DOMAIN link /\ link[first].size >= bsize
        /\ link[first].size >= ListMax \/ link[first].back = Null
    BY <1>2, <1>5
  <2>2. found = SmallestFrom(first, bsize)
    BY <1>1, <1>3, <2>1 DEF TreeSearch
  <2> DEFINE start == first
  <2>3. start = FirstSuitable(free[Root], bsize)
    OBVIOUS
  <2> HIDE DEF first, start
  <2>4. start \in DOMAIN link /\ found = SmallestFrom(start, bsize)
    BY <2>1, <2>2 DEF start
  <2>5. /\ found \in DOMAIN link /\ link[found].size >= bsize
        /\ \/ link[found].size = bsize
           \/ link[found].back = Null
           \/ link[link[found].back].size < bsize
    BY <2>1, <2>2, SmallestStands
  <2>6. ASSUME NEW p \in DOMAIN link, link[p].size >= ListMax - 1, link[p].size >= bsize
        PROVE  link[found].size <= link[p].size
    <3>1. CASE link[found].size = bsize
      BY <2>6, <3>1
    <3>2. CASE link[found].back = Null \/ link[link[found].back].size < bsize
      BY <2>3, <2>4, <2>5, <2>6, <3>2, BestFits
    <3> QED
      BY <2>5, <3>1, <3>2
  <2> QED
    BY <2>5, <2>6
<1> QED
  BY <1>4, <1>5

\* Where no list has a block that fits heap_search goes on to the tree.
LEMMA PastTheLists ==
  ASSUME Sound(Index), NEW bsize \in Nat, bsize >= Overhead,
         \A p \in DOMAIN link : link[p].size >= bsize => link[p].size >= ListMax - 1
  PROVE  Search(bsize, FALSE) = TreeSearch(bsize, FALSE)
<1> DEFINE idx == SizeIdx(bsize)
           found == IF idx < 0 THEN {}
                    ELSE {i \in idx .. ListCount - 1 : InList(i, bsize, FALSE) # Null}
<1>1. ASSUME idx >= 0, NEW i \in idx .. ListCount - 1 PROVE InList(i, bsize, FALSE) = Null
  <2>1. idx = bsize - 2 /\ idx \in Int /\ ListCount \in Nat /\ ListCount = ListMax - 3
        /\ Overhead = 2 /\ ListMax \in Nat
    BY <1>1, Slots DEF SizeIdx
  <2> HIDE DEF idx
  <2>2. i \in 0 .. ListCount - 1 /\ i \in Int
    BY <1>1, <2>1
  <2>3. InList(i, bsize, FALSE) = free[i]
    BY DEF InList
  <2> SUFFICES ASSUME free[i] # Null PROVE FALSE
    BY <2>3
  <2>4. free[i] \in DOMAIN link /\ link[free[i]].size = i + 2
    BY <2>1, <2>2, HeadOfList, IndexPlaces DEF Listed
  <2>5. i + 2 >= bsize
    BY <1>1, <2>1, <2>2
  <2> QED
    BY <1>1, <2>1, <2>2, <2>4, <2>5
<1>2. found = {}
  <2>1. idx \in Int
    BY Slots DEF SizeIdx
  <2> HIDE DEF idx
  <2>2. CASE idx >= 0
    <3>1. \A i \in idx .. ListCount - 1 : InList(i, bsize, FALSE) = Null
      BY <1>1, <2>2
    <3> QED
      BY <2>1, <2>2, <3>1
  <2>3. CASE idx < 0
    BY <2>3
  <2> HIDE DEF found
  <2> QED
    BY <2>1, <2>2, <2>3
<1> HIDE DEF found
<1> QED
  BY <1>2 DEF Search, SearchFrom, found

\* While the tree is whole, heap_search without alignment returns the smallest free
\* block that fits, and nothing only if nothing fits, wherever in the row of the tree
\* the root is: the walk towards larger blocks, then back, always ends, and passes by
\* nothing better.
THEOREM IndexTreeBestFit == IndexSpec => []TreeBestFit
<1>1. IndexInv => TreeBestFit
  <2> SUFFICES ASSUME IndexInv, Ready, TreeComplete, \A p \in DOMAIN link : LinkedBack(Index, p),
                      NEW bytes \in Requests
               PROVE  LET found == Search(BlockSize(bytes), FALSE)
                          fits  == {b \in blocks : ~b.used /\ b.size >= BlockSize(bytes)}
                      IN IF fits = {} THEN found = Null
                         ELSE found \in DOMAIN link /\ \A b \in fits : link[found].size <= b.size
    BY DEF TreeBestFit
  <2> DEFINE bsize == BlockSize(bytes)
             found == Search(bsize, FALSE)
             fits == {b \in blocks : ~b.used /\ b.size >= bsize}
  <2>1. /\ HeapInv /\ Sound(Index)
        /\ DOMAIN link = {c.addr : c \in FreeBlocks}
        /\ \A c \in FreeBlocks : link[c.addr].size = c.size
    BY IndexPlaces DEF IndexInv, Holds
  <2>2. bsize \in Nat /\ bsize >= Overhead /\ ListMax \in Nat
    BY BlockSizeBound, HeapNumbers, HeapShape, Slots DEF Overhead
  <2>3. Whole
    BY WholeTree
  <2>4. \A b \in blocks : b.size \in Nat
    BY <2>1, BlocksKnown
  <2>5. CASE \E b \in fits : b.size < ListMax - 1
    <3>1. PICK x \in fits : x.size < ListMax - 1
      BY <2>5
    <3>2. /\ found \in DOMAIN link
          /\ \A b \in fits : b.size < ListMax - 1 => link[found].size <= b.size
      <4>1. x \in {b \in blocks : ~b.used /\ b.size >= BlockSize(bytes) /\ b.size < ListMax - 1}
        BY <3>1
      <4> QED
        BY <4>1, ListsSearched DEF ListsBestFit
    <3>3. link[found].size \in Nat /\ link[found].size <= x.size
      BY <2>1, <3>1, <3>2, IndexPlaces
    <3> HIDE DEF found, bsize
    <3>4. \A b \in fits : link[found].size <= b.size
      BY <2>2, <2>4, <3>1, <3>2, <3>3
    <3> QED
      BY <3>1, <3>2, <3>4 DEF found, bsize
  <2>6. CASE \A b \in fits : b.size >= ListMax - 1
    <3>1. ASSUME NEW q \in DOMAIN link, link[q].size >= bsize
          PROVE  \E b \in fits : b.addr = q /\ b.size = link[q].size
      <4>1. PICK b \in FreeBlocks : b.addr = q /\ link[q].size = b.size
        BY <2>1
      <4> QED
        BY <3>1, <4>1 DEF FreeBlocks
    <3>2. \A q \in DOMAIN link : link[q].size >= bsize => link[q].size >= ListMax - 1
      BY <2>6, <3>1
    <3>3. \A b \in fits : b.addr \in DOMAIN link /\ link[b.addr].size = b.size
      BY <2>1 DEF FreeBlocks
    <3> HIDE DEF bsize
    <3>4. found = TreeSearch(bsize, FALSE)
      BY <2>1, <2>2, <3>2, PastTheLists
    <3> HIDE DEF found
    <3>5. \/ /\ found = Null
             /\ \A p \in DOMAIN link : link[p].size >= ListMax - 1 => link[p].size < bsize
          \/ /\ found \in DOMAIN link /\ link[found].size >= bsize
             /\ \A p \in DOMAIN link : link[p].size >= ListMax - 1 /\ link[p].size >= bsize
                  => link[found].size <= link[p].size
      BY <2>1, <2>2, <2>3, <3>4, TreeSearched
    <3>6. CASE fits = {}
      <4>1. found = Null
        BY <3>1, <3>5, <3>6
      <4> QED
        BY <3>6, <4>1 DEF found, bsize
    <3>7. CASE fits # {}
      <4>1. PICK x \in fits : TRUE
        BY <3>7
      <4>2. /\ x.addr \in DOMAIN link /\ link[x.addr].size >= ListMax - 1
            /\ ~(link[x.addr].size < bsize)
        BY <2>2, <2>4, <2>6, <3>3, <4>1
      <4>3. /\ found \in DOMAIN link
            /\ \A p \in DOMAIN link : link[p].size >= ListMax - 1 /\ link[p].size >= bsize
                 => link[found].size <= link[p].size
        BY <3>5, <4>2
      <4>4. \A b \in fits : link[found].size <= b.size
        BY <2>6, <3>3, <4>3
      <4> QED
        BY <3>7, <4>3, <4>4 DEF found, bsize
    <3> QED
      BY <3>6, <3>7
  <2>7. (\E b \in fits : b.size < ListMax - 1) \/ (\A b \in fits : b.size >= ListMax - 1)
    BY <2>2, <2>4
  <2> QED
    BY <2>5, <2>6, <2>7
<1> QED
  BY <1>1, IndexInvariant, PTL

=============================================================================
