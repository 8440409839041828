--------------------------- MODULE StorageProofs ----------------------------
(***************************************************************************)
(* Proofs about what leveldb's database stands on, for every value of the  *)
(* constants.                                                              *)
(*                                                                         *)
(* The memtable: the levels of the skip list stay sorted and nested and a  *)
(* search without locks misses nothing; the arena's pieces never overlap.  *)
(* The invariant says which nodes are linked at which level, and that what *)
(* the writer found before it began to link is still where its node goes.  *)
(*                                                                         *)
(* The repair: nothing readable is dropped, and the new descriptor opens.  *)
(* The invariant says where every entry is at each step of the Repairer.   *)
(*                                                                         *)
(* The environment: background work is run in the order it was scheduled,  *)
(* and one thread of a process holds the lock of a database.               *)
(***************************************************************************)
EXTENDS MemTable, Repair, EnvPosix, FiniteSetTheorems, SequenceTheorems,
        WellFoundedInduction, NaturalsInduction, TLAPS

-----------------------------------------------------------------------------
(* The invariant of the list *)

Inserting == ins.pc = "link"

\* Node n can be reached along level i: it is tall enough, and not the new node
\* above the levels that Insert has linked.
LinkedAt(n, i) ==
    /\ n \in DOMAIN next_ /\ i \in DOMAIN next_[n]
    /\ ~(Inserting /\ n = ins.key /\ i >= ins.level)

\* The nodes, and levels of a node without a gap.
NodesTyped ==
    /\ DOMAIN next_ \subseteq {head_} \cup ListKeys
    /\ head_ \in DOMAIN next_ /\ DOMAIN next_[head_] = ListLevels
    /\ \A n \in DOMAIN next_ :
          /\ DOMAIN next_[n] \subseteq ListLevels
          /\ 0 \in DOMAIN next_[n]
          /\ \A i \in DOMAIN next_[n] : i > 0 => i - 1 \in DOMAIN next_[n]

\* The writer: the key it inserts is a node from the first link on.
InsertTyped ==
    /\ Inserting =>
          /\ ins \in [pc : {"link"}, key : ListKeys, height : 1 .. kMaxHeight,
                      level : Nat, prev : [0 .. ins.height - 1 -> {head_} \cup ListKeys]]
          /\ ins.level < ins.height
          /\ ins.level = 0 => ins.key \notin DOMAIN next_
          /\ ins.level > 0 => ins.key \in DOMAIN next_ /\ DOMAIN next_[ins.key] = 0 .. ins.height - 1
    /\ ~Inserting => ins = NoInsert

\* A link leads to a greater node of the same level or to the end.
LinksAscend ==
    \A n \in DOMAIN next_ : \A i \in DOMAIN next_[n] : LinkedAt(n, i) =>
        /\ next_[n][i] \in Nat /\ next_[n][i] > n
        /\ next_[n][i] = End \/ LinkedAt(next_[n][i], i)

\* The new node has no link yet at the levels above.
NotYetLinked ==
    \A n \in DOMAIN next_ : \A i \in DOMAIN next_[n] : LinkedAt(n, i) \/ next_[n][i] = End

\* No node of a level is skipped by a link of the level.
NothingSkipped ==
    \A i \in ListLevels : \A a, b \in DOMAIN next_ :
        LinkedAt(a, i) /\ LinkedAt(b, i) /\ a < b => next_[a][i] <= b

\* Every node of a level has a link to it.
AllReached ==
    \A i \in ListLevels : \A b \in DOMAIN next_ \ {head_} : LinkedAt(b, i) =>
        \E a \in DOMAIN next_ : LinkedAt(a, i) /\ next_[a][i] = b

\* What the writer found when it searched is still where its node belongs.
PrevFits ==
    Inserting => \A i \in ins.level .. ins.height - 1 :
        LET p == ins.prev[i]
        IN  LinkedAt(p, i) /\ p < ins.key /\ next_[p][i] > ins.key

\* max_height_ has had a value above every level in use.
HeightsKnown ==
    /\ max_height_ \subseteq 1 .. kMaxHeight /\ max_height_ # {}
    /\ \A n \in DOMAIN next_ \ {head_} : \A i \in DOMAIN next_[n] : \E h \in max_height_ : i < h
    /\ Inserting => \E h \in max_height_ : ins.height <= h

DoneLinked ==
    /\ done \subseteq DOMAIN next_ \ {head_}
    /\ Inserting => ins.key \notin done

ListStructure ==
    /\ NodesTyped /\ InsertTyped /\ LinksAscend /\ NotYetLinked /\ NothingSkipped
    /\ AllReached /\ PrevFits /\ HeightsKnown /\ DoneLinked

\* Where an iterator can stand: at a node of the list or past its end.
Place(n) == n = End \/ (n # head_ /\ LinkedAt(n, 0))

RestingRecord == [pc : {"idle"}, node : Nat, ops : Nat]
SearchRecord == [pc : {"seek", "prev", "last"}, target : Nat, x : Nat, level : Nat,
                 known : SUBSET Nat, ops : Nat, node : Nat]
FoundRecord == [pc : {"found"}, what : {"seek", "prev", "last"}, target : Nat, node : Nat,
                known : SUBSET Nat, ops : Nat]

IteratorResting(s) == s \in RestingRecord /\ Place(s.node)

\* A search stands before its target, at a node of the level it is on.
IteratorSearching(s) ==
    /\ s \in SearchRecord /\ s.known \subseteq done
    /\ LinkedAt(s.x, s.level) /\ s.level \in ListLevels
    /\ s.x < s.target /\ s.target <= End

\* An answer, as SearchesComplete has it.
IteratorFound(f) ==
    /\ f \in FoundRecord /\ f.known \subseteq done /\ Place(f.node)
    /\ f.what = "seek" =>
          /\ f.node >= f.target
          /\ \A k \in f.known : k >= f.target => k >= f.node
    /\ f.what # "seek" =>
          /\ f.node # End => f.node < f.target
          /\ \A k \in f.known : k < f.target => f.node # End /\ k <= f.node

IteratorsSound ==
    /\ DOMAIN iter = ListReaders
    /\ \A r \in ListReaders :
          IteratorResting(iter[r]) \/ IteratorSearching(iter[r]) \/ IteratorFound(iter[r])

ListInv == ListStructure /\ IteratorsSound


-----------------------------------------------------------------------------
(* Greatest elements *)

\* A set of natural numbers has a least element: what induction rests on here.
LEMMA LeastNumber ==
    ASSUME NEW T, T \subseteq Nat, T # {}
    PROVE  \E m \in T : \A n \in T : m <= n
<1>1. PICK m \in T : \A n \in T : ~(<< n, m >> \in OpToRel(<, Nat))
  BY NatLessThanWellFounded, WFMin, Zenon
<1>2. \A n \in T : n \in Nat /\ m \in Nat /\ ~(n < m)
  BY <1>1, Zenon DEF OpToRel
<1>. QED BY <1>2

\* One with an upper bound has a greatest element.
LEMMA GreatestNumber ==
    ASSUME NEW T, T \subseteq Nat, T # {}, NEW b \in Nat, \A n \in T : n <= b
    PROVE  \E m \in T : \A n \in T : n <= m
<1> DEFINE U == {b - n : n \in T}
<1>1. U \subseteq Nat /\ U # {}
  <2>1. \A n \in T : n \in Nat /\ b - n \in Nat OBVIOUS
  <2>. QED BY <2>1, Zenon
<1> HIDE DEF U
<1>2. PICK u \in U : \A v \in U : u <= v BY <1>1, LeastNumber, Zenon
<1>3. PICK m \in T : u = b - m BY <1>2 DEF U
<1>4. ASSUME NEW n \in T PROVE n <= m
  <2>1. b - n \in U BY DEF U
  <2>2. u <= b - n BY <1>2, <2>1
  <2>. QED BY <1>3, <2>2
<1>. QED BY <1>4, <1>3

\* What is given to finitely many has an upper bound.
LEMMA FiniteBounded ==
    ASSUME NEW S, IsFiniteSet(S), NEW v \in [S -> Nat]
    PROVE  \E b \in Nat : \A x \in S : v[x] <= b
<1>1. PICK c \in Nat : ExistsBijection(1 .. c, S) BY FS_CardinalityType
<1>2. PICK g \in Bijection(1 .. c, S) : TRUE BY <1>1 DEF ExistsBijection
<1>3. g \in [1 .. c -> S] /\ \A x \in S : \E i \in 1 .. c : g[i] = x
  BY <1>2 DEF Bijection, Injection, Surjection
<1> DEFINE f == [i \in 1 .. c |-> v[g[i]]]
<1>9. \A i \in 1 .. c : f[i] \in Nat BY <1>3
<1>10. \A x \in S : \E i \in 1 .. c : f[i] = v[x] BY <1>3
<1> HIDE DEF f
<1> DEFINE Bound(m) == \E b \in Nat : \A i \in 1 .. m : f[i] <= b
           Unbounded == {m \in Nat : m <= c /\ ~Bound(m)}
<1>4. Bound(0) OBVIOUS
<1>5. ASSUME NEW m \in 1 .. c, Bound(m - 1) PROVE Bound(m)
  <2>1. PICK b \in Nat : \A i \in 1 .. m - 1 : f[i] <= b BY <1>5
  <2>2. \A i \in 1 .. m : f[i] \in Nat BY <1>9
  <2>3. PICK d \in Nat : b <= d /\ f[m] <= d
    <3>1. CASE f[m] <= b BY <3>1, <2>1
    <3>2. CASE ~(f[m] <= b) BY <3>2, <2>1, <2>2
    <3>. QED BY <3>1, <3>2
  <2>4. ASSUME NEW i \in 1 .. m PROVE f[i] <= d
    <3>1. i = m \/ i \in 1 .. m - 1 OBVIOUS
    <3>. QED BY <3>1, <2>1, <2>2, <2>3
  <2>. QED BY <2>3, <2>4
<1> HIDE DEF Bound
<1>6. Unbounded = {}
  <2> SUFFICES ASSUME Unbounded # {} PROVE FALSE OBVIOUS
  <2>1. Unbounded \subseteq Nat OBVIOUS
  <2> HIDE DEF Unbounded
  <2>2. PICK m \in Unbounded : \A n \in Unbounded : m <= n BY <2>1, LeastNumber, Zenon
  <2> USE DEF Unbounded
  <2>3. m \in Nat /\ m <= c /\ ~Bound(m) BY <2>2
  <2>4. m # 0 BY <2>3, <1>4
  <2>5. m - 1 \in Nat /\ m - 1 <= c /\ m \in 1 .. c /\ ~(m <= m - 1) BY <2>3, <2>4
  <2>6. Bound(m - 1) BY <2>2, <2>5
  <2>. QED BY <2>3, <2>5, <2>6, <1>5
<1>7. Bound(c) BY <1>6
<1>8. PICK b \in Nat : \A i \in 1 .. c : f[i] <= b BY <1>7 DEF Bound
<1>. QED BY <1>10, <1>8

\* NULL, the end of every level, sorts after every key.
LEMMA EndIsLast == End \in Nat /\ End > 0 /\ \A k \in ListKeys : k < End
<1>1. PICK b \in Nat : \A n \in ListKeys : n <= b
  <2>1. [n \in ListKeys |-> n] \in [ListKeys -> Nat] BY ListAssumption
  <2>2. IsFiniteSet(ListKeys) BY ListAssumption
  <2>3. \E b \in Nat : \A n \in ListKeys : [m \in ListKeys |-> m][n] <= b
    BY <2>1, <2>2, FiniteBounded
  <2>. QED BY <2>3
<1>2. \E m \in ListKeys : \A n \in ListKeys : n <= m BY GreatestNumber, ListAssumption, <1>1
<1> DEFINE m == CHOOSE k \in ListKeys : \A j \in ListKeys : j <= k
<1>3. m \in ListKeys /\ \A n \in ListKeys : n <= m BY <1>2
<1>4. End = 1 + m BY DEF End
<1> HIDE DEF m
<1>. QED BY <1>3, <1>4, ListAssumption


-----------------------------------------------------------------------------
(* The writer *)

\* Nodes are numbers, the end is not one of them.
LEMMA NodesAreNumbers ==
    ASSUME NodesTyped
    PROVE  \A n \in DOMAIN next_ : n \in Nat /\ n < End /\ n # End /\ (n # head_ => n \in ListKeys)
<1> SUFFICES ASSUME NEW n \in DOMAIN next_
             PROVE  n \in Nat /\ n < End /\ n # End /\ (n # head_ => n \in ListKeys)
  OBVIOUS
<1>1. n = 0 \/ n \in ListKeys BY DEF NodesTyped, head_
<1>2. CASE n = 0 BY <1>2, EndIsLast DEF head_
<1>3. CASE n \in ListKeys
  <2>1. n \in Nat BY <1>3, ListAssumption
  <2>. QED BY <1>3, <2>1, EndIsLast
<1>. QED BY <1>1, <1>2, <1>3

\* GetMaxHeight as the writer sees it.
LEMMA HeightIsGreatest ==
    ASSUME HeightsKnown
    PROVE  Height \in max_height_ /\ Height \in 1 .. kMaxHeight /\ \A h \in max_height_ : h <= Height
<1>1. max_height_ \subseteq Nat /\ max_height_ # {} /\ \A n \in max_height_ : n <= kMaxHeight
  BY ListAssumption DEF HeightsKnown
<1>2. \E m \in max_height_ : \A n \in max_height_ : n <= m BY <1>1, GreatestNumber, ListAssumption
<1>3. Height \in max_height_ /\ \A h \in max_height_ : h <= Height BY <1>2 DEF Height
<1>. QED BY <1>3 DEF HeightsKnown

\* FindGreaterOrEqual finds, at each level, where a new key belongs.
LEMMA LastBeforeFits ==
    ASSUME NodesTyped, LinksAscend, NotYetLinked, NEW key \in ListKeys, key \notin DOMAIN next_,
           NEW i \in ListLevels, ~Inserting
    PROVE  LET p == LastBefore(key, i)
           IN  LinkedAt(p, i) /\ p < key /\ next_[p][i] > key /\ p \in DOMAIN next_
<1> DEFINE linked == {head_} \cup {n \in DOMAIN next_ :
                         \E m \in DOMAIN next_ : i \in DOMAIN next_[m] /\ next_[m][i] = n}
           before == {n \in linked : n < key}
           p == LastBefore(key, i)
<1>1. \A n \in DOMAIN next_ : n \in Nat /\ n # End BY NodesAreNumbers
<1>2. key \in Nat /\ key > 0 /\ key < End BY EndIsLast, ListAssumption
<1>3. before \subseteq Nat /\ before # {} /\ \A n \in before : n <= key
  BY <1>1, <1>2 DEF NodesTyped, head_
<1>4. \E m \in before : \A n \in before : n <= m BY <1>2, <1>3, GreatestNumber
<1>5. p \in before /\ \A n \in before : n <= p BY <1>4 DEF LastBefore
<1> HIDE DEF p
<1>6. p \in DOMAIN next_ /\ p < key BY <1>5 DEF NodesTyped
<1>7. LinkedAt(p, i)
  <2>1. CASE p = head_ BY <2>1 DEF NodesTyped, LinkedAt
  <2>2. CASE p # head_
    <3>1. PICK m \in DOMAIN next_ : i \in DOMAIN next_[m] /\ next_[m][i] = p BY <1>5, <2>2
    <3>2. LinkedAt(m, i) BY <3>1, <1>1, <1>6 DEF NotYetLinked
    <3>. QED BY <3>1, <3>2, <1>1, <1>6 DEF LinksAscend
  <2>. QED BY <2>1, <2>2
<1>8. next_[p][i] \in Nat /\ next_[p][i] > p /\ (next_[p][i] = End \/ LinkedAt(next_[p][i], i))
  BY <1>7, <1>6 DEF LinksAscend, LinkedAt
<1>9. CASE next_[p][i] = End BY <1>9, <1>2, <1>6, <1>7 DEF p
<1>10. CASE next_[p][i] # End
  <2>1. next_[p][i] \in DOMAIN next_ BY <1>8, <1>10 DEF LinkedAt
  <2>2. next_[p][i] # key BY <2>1
  <2>3. next_[p][i] \in linked BY <1>6, <1>7, <2>1 DEF LinkedAt
  <2>4. ~(next_[p][i] < key)
    <3>1. SUFFICES ASSUME next_[p][i] < key PROVE FALSE OBVIOUS
    <3>2. next_[p][i] <= p BY <3>1, <2>3, <1>5
    <3>. QED BY <3>2, <1>8, <1>1, <1>6
  <2>5. next_[p][i] > key BY <2>2, <2>4, <1>8, <1>2
  <2>. QED BY <2>5, <1>6, <1>7 DEF p
<1>. QED BY <1>9, <1>10

\* Whatever links and finished insertions are added, an iterator stays sound.
LEMMA IteratorsSurvive ==
    ASSUME IteratorsSound, iter' = iter, done \subseteq done',
           \A n, i : LinkedAt(n, i) => LinkedAt(n, i)'
    PROVE  IteratorsSound'
<1>1. ASSUME NEW s, IteratorResting(s) PROVE IteratorResting(s)'
  BY <1>1 DEF IteratorResting, Place
<1>2. ASSUME NEW s, IteratorSearching(s) PROVE IteratorSearching(s)'
  BY <1>2 DEF IteratorSearching
<1>3. ASSUME NEW s, IteratorFound(s) PROVE IteratorFound(s)'
  BY <1>3 DEF IteratorFound, Place
<1>4. ASSUME NEW r \in ListReaders
      PROVE  IteratorResting(iter[r])' \/ IteratorSearching(iter[r])' \/ IteratorFound(iter[r])'
  <2>1. iter'[r] = iter[r] OBVIOUS
  <2>. QED BY <1>1, <1>2, <1>3, <2>1 DEF IteratorsSound
<1>. QED BY <1>4 DEF IteratorsSound


\* The search of Insert changes no link.
LEMMA InsertBeginsKeeps ==
    ASSUME ListInv, NEW key \in ListKeys, NEW height \in 1 .. kMaxHeight, InsertBegins(key, height)
    PROVE  ListInv'
<1> USE DEF ListInv, ListStructure
<1>1. /\ ~Inserting /\ key \notin DOMAIN next_ /\ next_' = next_ /\ done' = done /\ iter' = iter
      /\ ins' = [pc |-> "link", key |-> key, height |-> height, level |-> 0,
                 prev |-> [i \in 0 .. height - 1 |->
                              IF i < Height THEN LastBefore(key, i) ELSE head_]]
      /\ max_height_' = IF height > Height THEN max_height_ \cup {height} ELSE max_height_
  BY DEF InsertBegins, Inserting
<1>2. /\ Inserting' /\ ins'.key = key /\ ins'.height = height /\ ins'.level = 0
      /\ ins'.prev = [i \in 0 .. height - 1 |-> IF i < Height THEN LastBefore(key, i) ELSE head_]
  BY <1>1 DEF Inserting
<1>3. \A n, i : LinkedAt(n, i)' <=> LinkedAt(n, i) BY <1>1, <1>2 DEF LinkedAt
<1>4. NodesTyped' BY <1>1 DEF NodesTyped
<1>5. \A i \in 0 .. height - 1 :
         /\ ins'.prev[i] \in {head_} \cup ListKeys
         /\ LinkedAt(ins'.prev[i], i) /\ ins'.prev[i] < key /\ next_[ins'.prev[i]][i] > key
  <2> SUFFICES ASSUME NEW i \in 0 .. height - 1
               PROVE  /\ ins'.prev[i] \in {head_} \cup ListKeys
                      /\ LinkedAt(ins'.prev[i], i) /\ ins'.prev[i] < key /\ next_[ins'.prev[i]][i] > key
    OBVIOUS
  <2>1. i \in ListLevels BY ListAssumption DEF ListLevels
  <2>2. CASE i < Height
    <3>1. ins'.prev[i] = LastBefore(key, i) BY <1>2, <2>2
    <3>2. PICK p : p = LastBefore(key, i) OBVIOUS
    <3>3. LinkedAt(p, i) /\ p < key /\ next_[p][i] > key /\ p \in DOMAIN next_
      BY <3>2, <2>1, <1>1, LastBeforeFits
    <3>. QED BY <3>1, <3>2, <3>3 DEF NodesTyped
  <2>3. CASE ~(i < Height)
    <3>1. ins'.prev[i] = head_ BY <1>2, <2>3
    <3>2. LinkedAt(head_, i) BY <1>1, <2>1 DEF LinkedAt, NodesTyped
    <3>3. head_ \in DOMAIN next_ /\ i \in DOMAIN next_[head_] BY <3>2 DEF LinkedAt
    <3>4. next_[head_][i] = End
      <4>1. SUFFICES ASSUME next_[head_][i] # End PROVE FALSE OBVIOUS
      <4>2. PICK q : q = next_[head_][i] OBVIOUS
      <4>3. LinkedAt(q, i) /\ q > head_ BY <3>2, <3>3, <4>1, <4>2 DEF LinksAscend
      <4>4. q \in DOMAIN next_ \ {head_} /\ i \in DOMAIN next_[q]
        BY <4>3 DEF LinkedAt, head_
      <4>5. PICK h \in max_height_ : i < h BY <4>4 DEF HeightsKnown
      <4>6. h <= Height /\ h \in Nat /\ Height \in Nat BY HeightIsGreatest, ListAssumption DEF HeightsKnown
      <4>. QED BY <4>5, <4>6, <2>3
    <3>5. key > 0 /\ key < End /\ key \in Nat /\ End \in Nat BY ListAssumption, EndIsLast
    <3>. QED BY <3>1, <3>2, <3>4, <3>5 DEF head_
  <2>. QED BY <2>2, <2>3
<1>6. InsertTyped'
  <2>1. ins'.prev \in [0 .. height - 1 -> {head_} \cup ListKeys] BY <1>2, <1>5
  <2>2. height \in Nat /\ 0 < height BY ListAssumption
  <2>. QED BY <1>1, <1>2, <2>1, <2>2 DEF InsertTyped
<1>7. LinksAscend' BY <1>1, <1>3 DEF LinksAscend
<1>8. NotYetLinked' BY <1>1, <1>3 DEF NotYetLinked
<1>9. NothingSkipped' BY <1>1, <1>3 DEF NothingSkipped
<1>10. AllReached' BY <1>1, <1>3 DEF AllReached
<1>11. PrevFits' BY <1>1, <1>2, <1>3, <1>5 DEF PrevFits
<1>12. HeightsKnown'
  <2>1. Height \in Nat /\ height \in Nat /\ Height \in max_height_ BY HeightIsGreatest, ListAssumption
  <2>2. max_height_ \subseteq max_height_' /\ max_height_' \subseteq 1 .. kMaxHeight /\ max_height_' # {}
    BY <1>1 DEF HeightsKnown
  <2>3. \E h \in max_height_' : height <= h BY <1>1, <2>1
  <2>4. \A n \in DOMAIN next_ \ {head_} : \A i \in DOMAIN next_[n] : \E h \in max_height_' : i < h
    BY <2>2 DEF HeightsKnown
  <2>. QED BY <1>1, <1>2, <2>2, <2>3, <2>4 DEF HeightsKnown
<1>13. DoneLinked' BY <1>1, <1>2 DEF DoneLinked
<1>14. IteratorsSound' BY <1>1, <1>3, IteratorsSurvive
<1>. QED BY <1>4, <1>6, <1>7, <1>8, <1>9, <1>10, <1>11, <1>12, <1>13, <1>14


\* One level of an insertion: the list with the new node after p and before the
\* node that was next of p.
LEMMA InsertLinksKeeps == ListInv /\ InsertLinks => ListInv'
<1> SUFFICES ASSUME ListInv, InsertLinks PROVE ListInv' OBVIOUS
<1> USE DEF ListInv, ListStructure
<1>1. Inserting BY DEF InsertLinks, Inserting
<1>2. PICK k \in ListKeys, h \in 1 .. kMaxHeight, l \in Nat, p \in {ins.prev[ins.level]} :
         k = ins.key /\ h = ins.height /\ l = ins.level /\ p = ins.prev[l] /\ l < h
  BY <1>1 DEF InsertTyped
<1>3. LinkedAt(p, l) /\ p < k /\ next_[p][l] > k BY <1>1, <1>2 DEF PrevFits, InsertTyped
<1>4. PICK q : q = next_[p][l] OBVIOUS
<1>5. p \in DOMAIN next_ /\ l \in DOMAIN next_[p] /\ p \in Nat /\ k \in Nat /\ k > 0 /\ p # k
  BY <1>3, NodesAreNumbers, ListAssumption DEF LinkedAt
<1>6. q \in Nat /\ q > k /\ (q = End \/ LinkedAt(q, l)) BY <1>3, <1>4, <1>5 DEF LinksAscend
<1>7. /\ l = 0 => k \notin DOMAIN next_
      /\ l > 0 => k \in DOMAIN next_ /\ DOMAIN next_[k] = 0 .. h - 1
  BY <1>1, <1>2 DEF InsertTyped
<1>8. l \in Nat /\ h \in Nat /\ l < h /\ l \in ListLevels /\ 0 .. h - 1 \subseteq ListLevels /\ h <= kMaxHeight
  BY <1>2, ListAssumption DEF ListLevels
<1> DEFINE own == [j \in 0 .. h - 1 |-> IF j = l THEN q
                      ELSE IF k \in DOMAIN next_ THEN next_[k][j] ELSE End]
<1>9. next_' = [n \in DOMAIN next_ \cup {k} |->
                   IF n = k THEN own
                   ELSE IF n = p THEN [next_[n] EXCEPT ![l] = k] ELSE next_[n]]
  BY <1>2, <1>4 DEF InsertLinks
<1>10. DOMAIN next_' = DOMAIN next_ \cup {k} BY <1>9
<1>11. next_'[k] = own BY <1>9
<1>12. \A n \in DOMAIN next_ \ {k} : DOMAIN next_'[n] = DOMAIN next_[n] BY <1>9
<1>13. next_'[p][l] = k BY <1>9, <1>5
<1>14. \A n \in DOMAIN next_ \ {k} : \A i \in DOMAIN next_[n] :
          n # p \/ i # l => next_'[n][i] = next_[n][i]
  BY <1>9, <1>5
<1>15. DOMAIN next_'[k] = 0 .. h - 1 /\ next_'[k][l] = q BY <1>11, <1>2
<1>16. \A j \in 0 .. h - 1 : j # l =>
          next_'[k][j] = IF k \in DOMAIN next_ THEN next_[k][j] ELSE End
  BY <1>11
<1> HIDE DEF own
\* The new node is now linked at one more level, and nothing else changes.
<1>17. \A n, i : LinkedAt(n, i)' <=> LinkedAt(n, i) \/ (n = k /\ i = l)
  <2> SUFFICES ASSUME NEW n, NEW i PROVE LinkedAt(n, i)' <=> LinkedAt(n, i) \/ (n = k /\ i = l)
    OBVIOUS
  <2>1. CASE n # k
    <3>1. LinkedAt(n, i) <=> n \in DOMAIN next_ /\ i \in DOMAIN next_[n]
      BY <2>1, <1>2 DEF LinkedAt
    <3>2. Inserting' => ins'.key = k BY <1>1, <1>2 DEF InsertLinks, InsertTyped, Inserting, NoInsert
    <3>3. LinkedAt(n, i)' <=> n \in DOMAIN next_' /\ i \in DOMAIN next_'[n]
      BY <2>1, <3>2 DEF LinkedAt
    <3>. QED BY <3>1, <3>3, <2>1, <1>10, <1>12
  <2>2. CASE n = k
    <3>1. LinkedAt(n, i) <=> i \in 0 .. h - 1 /\ i < l
      BY <2>2, <1>1, <1>2, <1>7, <1>8 DEF LinkedAt
    <3>2. CASE l + 1 = h
      <4>1. ins' = NoInsert BY <1>2, <3>2 DEF InsertLinks
      <4>2. ~Inserting' BY <4>1 DEF Inserting, NoInsert
      <4>3. LinkedAt(n, i)' <=> i \in 0 .. h - 1 BY <4>2, <2>2, <1>10, <1>15 DEF LinkedAt
      <4>. QED BY <4>3, <3>1, <3>2, <2>2, <1>8
    <3>3. CASE l + 1 # h
      <4>1. ins' = [ins EXCEPT !.level = @ + 1] BY <1>2, <3>3 DEF InsertLinks
      <4>2. Inserting' /\ ins'.key = k /\ ins'.level = l + 1
        BY <4>1, <1>1, <1>2 DEF Inserting, InsertTyped
      <4>3. LinkedAt(n, i)' <=> i \in 0 .. h - 1 /\ ~(i >= l + 1)
        BY <4>2, <2>2, <1>10, <1>15 DEF LinkedAt
      <4>. QED BY <4>3, <3>1, <2>2, <1>8
    <3>. QED BY <3>2, <3>3
  <2>. QED BY <2>1, <2>2
<1>18. \A n \in DOMAIN next_ : n \in Nat /\ n < End /\ n # End BY NodesAreNumbers
<1>19. NodesTyped'
  <2>1. head_ \in DOMAIN next_ \ {k} BY <1>5 DEF NodesTyped, head_
  <2>2. head_ \in DOMAIN next_' /\ DOMAIN next_'[head_] = ListLevels BY <2>1, <1>10, <1>12 DEF NodesTyped
  <2>3. \A n \in DOMAIN next_' :
          /\ DOMAIN next_'[n] \subseteq ListLevels
          /\ 0 \in DOMAIN next_'[n]
          /\ \A i \in DOMAIN next_'[n] : i > 0 => i - 1 \in DOMAIN next_'[n]
    <3> SUFFICES ASSUME NEW n \in DOMAIN next_'
                 PROVE  /\ DOMAIN next_'[n] \subseteq ListLevels
                        /\ 0 \in DOMAIN next_'[n]
                        /\ \A i \in DOMAIN next_'[n] : i > 0 => i - 1 \in DOMAIN next_'[n]
      OBVIOUS
    <3>1. CASE n = k BY <3>1, <1>15, <1>8
    <3>2. CASE n # k
      <4>1. n \in DOMAIN next_ \ {k} BY <3>2, <1>10
      <4>. QED BY <4>1, <1>12 DEF NodesTyped
    <3>. QED BY <3>1, <3>2
  <2>. QED BY <2>2, <2>3, <1>10 DEF NodesTyped

<1>20. \A n, i : LinkedAt(n, i) => /\ n \in DOMAIN next_ /\ i \in DOMAIN next_[n] /\ i \in ListLevels
                                   /\ n \in Nat /\ ~(n = k /\ i = l)
  <2> SUFFICES ASSUME NEW n, NEW i, LinkedAt(n, i)
               PROVE  /\ n \in DOMAIN next_ /\ i \in DOMAIN next_[n] /\ i \in ListLevels
                      /\ n \in Nat /\ ~(n = k /\ i = l)
    OBVIOUS
  <2>1. n \in DOMAIN next_ /\ i \in DOMAIN next_[n] /\ i \in ListLevels BY DEF LinkedAt, NodesTyped
  <2>2. ~(n = k /\ i = l) BY <1>1, <1>2, <1>8 DEF LinkedAt
  <2>. QED BY <2>1, <2>2, <1>18
<1>21. \A n, i : LinkedAt(n, i) /\ ~(n = p /\ i = l) => next_'[n][i] = next_[n][i]
  <2> SUFFICES ASSUME NEW n, NEW i, LinkedAt(n, i), ~(n = p /\ i = l)
               PROVE  next_'[n][i] = next_[n][i]
    OBVIOUS
  <2>1. n \in DOMAIN next_ /\ i \in DOMAIN next_[n] /\ ~(n = k /\ i = l) BY <1>20
  <2>2. CASE n # k BY <2>1, <2>2, <1>14
  <2>3. CASE n = k
    <3>1. k \in DOMAIN next_ /\ i # l BY <2>1, <2>3
    <3>2. i \in 0 .. h - 1
      <4>1. l > 0 BY <3>1, <1>7, <1>8
      <4>. QED BY <2>1, <2>3, <4>1, <1>7
    <3>. QED BY <2>3, <3>1, <3>2, <1>16
  <2>. QED BY <2>2, <2>3
<1>22. \A n, i : LinkedAt(n, i) => next_[n][i] \in Nat /\ next_[n][i] > n
                                   /\ (next_[n][i] = End \/ LinkedAt(next_[n][i], i))
  BY <1>20 DEF LinksAscend
<1>23. InsertTyped'
  <2>1. CASE l + 1 = h
    <3>1. ins' = NoInsert BY <1>2, <2>1 DEF InsertLinks
    <3>. QED BY <3>1 DEF InsertTyped, Inserting, NoInsert
  <2>2. CASE l + 1 # h
    <3>1. ins' = [ins EXCEPT !.level = @ + 1] BY <1>2, <2>2 DEF InsertLinks
    <3>2. ins \in [pc : {"link"}, key : ListKeys, height : 1 .. kMaxHeight,
                   level : Nat, prev : [0 .. h - 1 -> {head_} \cup ListKeys]]
      BY <1>1, <1>2 DEF InsertTyped
    <3>3. /\ ins' \in [pc : {"link"}, key : ListKeys, height : 1 .. kMaxHeight,
                       level : Nat, prev : [0 .. h - 1 -> {head_} \cup ListKeys]]
          /\ ins'.height = h /\ ins'.key = k /\ ins'.level = l + 1 /\ ins'.pc = "link"
      BY <3>1, <3>2, <1>2
    <3>. QED BY <3>3, <2>2, <1>8, <1>10, <1>15 DEF InsertTyped, Inserting
  <2>. QED BY <2>1, <2>2
<1>24. LinksAscend'
  <2> SUFFICES ASSUME NEW n, NEW i, LinkedAt(n, i)'
               PROVE  /\ next_'[n][i] \in Nat /\ next_'[n][i] > n
                      /\ next_'[n][i] = End \/ LinkedAt(next_[n][i], i)'
    BY DEF LinksAscend
  <2>1. CASE n = k /\ i = l BY <2>1, <1>15, <1>6, <1>17
  <2>2. CASE n = p /\ i = l BY <2>2, <1>13, <1>5, <1>3, <1>17
  <2>3. CASE ~(n = k /\ i = l) /\ ~(n = p /\ i = l)
    <3>1. LinkedAt(n, i) BY <2>3, <1>17
    <3>2. next_'[n][i] = next_[n][i] BY <3>1, <2>3, <1>21
    <3>. QED BY <3>1, <3>2, <1>22, <1>17
  <2>. QED BY <2>1, <2>2, <2>3
<1>25. NotYetLinked'
  <2> SUFFICES ASSUME NEW n \in DOMAIN next_', NEW i \in DOMAIN next_'[n], ~LinkedAt(n, i)'
               PROVE  next_'[n][i] = End
    BY DEF NotYetLinked
  <2>1. ~LinkedAt(n, i) /\ ~(n = k /\ i = l) BY <1>17
  <2>2. CASE n # k
    <3>1. n \in DOMAIN next_ \ {k} /\ i \in DOMAIN next_[n] BY <2>2, <1>10, <1>12
    <3>2. ~(n = p /\ i = l) BY <2>1, <1>3
    <3>. QED BY <3>1, <3>2, <2>1, <1>14 DEF NotYetLinked
  <2>3. CASE n = k
    <3>1. i \in 0 .. h - 1 /\ i # l BY <2>1, <2>3, <1>15
    <3>2. CASE k \notin DOMAIN next_ BY <3>1, <3>2, <2>3, <1>16
    <3>3. CASE k \in DOMAIN next_
      <4>1. i \in DOMAIN next_[k] BY <3>1, <3>3, <1>7, <1>8
      <4>2. next_[k][i] = End BY <4>1, <3>3, <2>1, <2>3 DEF NotYetLinked
      <4>. QED BY <4>2, <3>1, <3>3, <2>3, <1>16
    <3>. QED BY <3>2, <3>3
  <2>. QED BY <2>2, <2>3
<1>26. \A i, a, b : LinkedAt(a, i) /\ LinkedAt(b, i) /\ a < b => next_[a][i] <= b
  BY <1>20 DEF NothingSkipped
<1>27. NothingSkipped'
  <2> SUFFICES ASSUME NEW i, NEW a, NEW b, LinkedAt(a, i)', LinkedAt(b, i)', a < b
               PROVE  next_'[a][i] <= b
    BY DEF NothingSkipped
  <2>0. a \in Nat /\ b \in Nat BY <1>17, <1>20, <1>5
  <2>1. CASE i # l
    <3>1. LinkedAt(a, i) /\ LinkedAt(b, i) BY <2>1, <1>17
    <3>. QED BY <3>1, <2>1, <1>21, <1>26
  <2>2. CASE i = l
    <3>1. CASE a = k
      <4>1. LinkedAt(b, l) BY <3>1, <2>2, <2>0, <1>17
      <4>2. q <= b BY <4>1, <3>1, <2>0, <1>3, <1>4, <1>5, <1>26
      <4>. QED BY <4>2, <3>1, <2>2, <1>15
    <3>2. CASE a = p /\ b = k BY <3>2, <2>2, <1>13, <1>5
    <3>3. CASE a = p /\ b # k
      <4>1. LinkedAt(b, l) BY <3>3, <2>2, <1>17
      <4>2. q <= b BY <4>1, <3>3, <1>3, <1>4, <1>26
      <4>. QED BY <4>2, <3>3, <2>2, <2>0, <1>13, <1>5, <1>6
    <3>4. CASE a # k /\ a # p
      <4>1. LinkedAt(a, l) BY <3>4, <2>2, <1>17
      <4>2. next_'[a][i] = next_[a][l] BY <4>1, <3>4, <2>2, <1>21
      <4>3. CASE b # k
        <5>1. LinkedAt(b, l) BY <4>3, <2>2, <1>17
        <5>. QED BY <5>1, <4>1, <4>2, <1>26
      <4>4. CASE b = k
        <5>1. CASE a < p
          <6>1. next_[a][l] <= p BY <5>1, <4>1, <1>3, <1>26
          <6>2. next_[a][l] \in Nat BY <4>1, <1>22
          <6>. QED BY <6>1, <6>2, <4>2, <4>4, <1>3, <1>5
        <5>2. CASE p < a
          <6>1. q <= a BY <5>2, <4>1, <1>3, <1>4, <1>26
          <6>. QED BY <6>1, <4>4, <2>0, <1>6, <1>5
        <5>. QED BY <5>1, <5>2, <3>4, <2>0, <1>5
      <4>. QED BY <4>3, <4>4
    <3>. QED BY <3>1, <3>2, <3>3, <3>4
  <2>. QED BY <2>1, <2>2
<1>28. AllReached'
  <2> SUFFICES ASSUME NEW i \in ListLevels, NEW b \in DOMAIN next_' \ {head_}, LinkedAt(b, i)'
               PROVE  \E a \in DOMAIN next_' : LinkedAt(a, i)' /\ next_'[a][i] = b
    BY DEF AllReached
  <2>1. CASE b = k /\ i = l
    <3>1. LinkedAt(p, l)' BY <1>3, <1>17
    <3>. QED BY <3>1, <2>1, <1>5, <1>10, <1>13
  <2>2. CASE ~(b = k /\ i = l)
    <3>1. LinkedAt(b, i) BY <2>2, <1>17
    <3>2. b \in DOMAIN next_ \ {head_} BY <3>1, <1>20
    <3>3. PICK a \in DOMAIN next_ : LinkedAt(a, i) /\ next_[a][i] = b BY <3>1, <3>2 DEF AllReached
    <3>4. CASE a = p /\ i = l
      <4>1. LinkedAt(k, l)' /\ next_'[k][l] = b BY <3>3, <3>4, <1>4, <1>15, <1>17
      <4>. QED BY <4>1, <3>4, <1>10
    <3>5. CASE ~(a = p /\ i = l)
      <4>1. LinkedAt(a, i)' /\ next_'[a][i] = b BY <3>3, <3>5, <1>17, <1>21
      <4>. QED BY <4>1, <3>3, <1>10
    <3>. QED BY <3>4, <3>5
  <2>. QED BY <2>1, <2>2
<1>29. PrevFits'
  <2> SUFFICES ASSUME Inserting', NEW i \in ins'.level .. ins'.height - 1
               PROVE  LinkedAt(ins.prev[i], i)' /\ ins'.prev[i] < ins'.key /\ next_'[ins'.prev[i]][i] > ins'.key
    BY DEF PrevFits
  <2>1. ins' = [ins EXCEPT !.level = @ + 1]
    <3>1. ins' # NoInsert BY DEF Inserting, NoInsert
    <3>. QED BY <3>1 DEF InsertLinks
  <2>2. ins'.level = l + 1 /\ ins'.height = h /\ ins'.key = k /\ ins'.prev = ins.prev
    BY <2>1, <1>1, <1>2 DEF InsertTyped
  <2>3. i \in l .. h - 1 /\ i # l BY <2>2, <1>8
  <2>4. PICK o : o = ins.prev[i] OBVIOUS
  <2>5. LinkedAt(o, i) /\ o < k /\ next_[o][i] > k BY <2>3, <2>4, <1>1, <1>2 DEF PrevFits
  <2>6. LinkedAt(o, i)' /\ next_'[o][i] = next_[o][i] BY <2>5, <2>3, <1>17, <1>21
  <2>. QED BY <2>2, <2>4, <2>5, <2>6
<1>30. HeightsKnown'
  <2>1. max_height_' = max_height_ BY DEF InsertLinks
  <2>2. PICK g \in max_height_ : h <= g BY <1>1, <1>2 DEF HeightsKnown
  <2>3. g \in Nat
    <3>1. g \in 1 .. kMaxHeight BY <2>2 DEF HeightsKnown
    <3>. QED BY <3>1
  <2>4. ASSUME NEW n \in DOMAIN next_' \ {head_}, NEW i \in DOMAIN next_'[n]
        PROVE  \E g2 \in max_height_ : i < g2
    <3>1. CASE n = k BY <3>1, <1>15, <2>2, <2>3, <1>8
    <3>2. CASE n # k BY <3>2, <1>10, <1>12 DEF HeightsKnown
    <3>. QED BY <3>1, <3>2
  <2>5. Inserting' => ins'.height = h
    BY <1>1, <1>2 DEF InsertLinks, InsertTyped, Inserting, NoInsert
  <2>. QED BY <2>1, <2>2, <2>4, <2>5 DEF HeightsKnown
<1>31. DoneLinked'
  <2>1. k # head_ BY <1>5 DEF head_
  <2>2. done \subseteq DOMAIN next_ \ {head_} /\ k \notin done BY <1>1, <1>2 DEF DoneLinked
  <2>3. CASE l + 1 = h
    <3>1. ins' = NoInsert /\ done' = done \cup {k} BY <1>2, <2>3 DEF InsertLinks
    <3>. QED BY <3>1, <2>1, <2>2, <1>10 DEF DoneLinked, Inserting, NoInsert
  <2>4. CASE l + 1 # h
    <3>1. ins' = [ins EXCEPT !.level = @ + 1] /\ done' = done BY <1>2, <2>4 DEF InsertLinks
    <3>2. ins'.key = k BY <3>1, <1>1, <1>2 DEF InsertTyped
    <3>. QED BY <3>1, <3>2, <2>2, <1>10 DEF DoneLinked
  <2>. QED BY <2>3, <2>4
<1>32. IteratorsSound'
  <2>1. iter' = iter /\ done \subseteq done' BY DEF InsertLinks
  <2>. QED BY <2>1, <1>17, IteratorsSurvive
<1>. QED BY <1>19, <1>23, <1>24, <1>25, <1>27, <1>28, <1>29, <1>30, <1>31, <1>32


-----------------------------------------------------------------------------
(* The readers *)

\* A reader moves its own iterator and nothing else.
LEMMA ReaderKeeps ==
    ASSUME ListInv, NEW r \in ListReaders, NEW s, iter' = [iter EXCEPT ![r] = s],
           UNCHANGED << next_, max_height_, ins, done >>,
           IteratorResting(s) \/ IteratorSearching(s) \/ IteratorFound(s)
    PROVE  ListInv'
<1> USE DEF ListInv
<1>1. \A n, i : LinkedAt(n, i)' <=> LinkedAt(n, i) BY DEF LinkedAt, Inserting
<1>2. ListStructure'
  <2> USE DEF ListStructure
  <2>1. NodesTyped' /\ DoneLinked' /\ HeightsKnown' /\ InsertTyped'
    BY DEF NodesTyped, DoneLinked, HeightsKnown, InsertTyped, Inserting
  <2>2. LinksAscend' BY <1>1 DEF LinksAscend
  <2>3. NotYetLinked' BY <1>1 DEF NotYetLinked
  <2>4. NothingSkipped' BY <1>1 DEF NothingSkipped
  <2>5. AllReached' BY <1>1 DEF AllReached
  <2>6. PrevFits' BY <1>1 DEF PrevFits, Inserting
  <2>. QED BY <2>1, <2>2, <2>3, <2>4, <2>5, <2>6
<1>3. ASSUME NEW t, IteratorResting(t) \/ IteratorSearching(t) \/ IteratorFound(t)
      PROVE  IteratorResting(t)' \/ IteratorSearching(t)' \/ IteratorFound(t)'
  <2>1. CASE IteratorResting(t) BY <2>1, <1>1 DEF IteratorResting, Place
  <2>2. CASE IteratorSearching(t) BY <2>2, <1>1 DEF IteratorSearching
  <2>3. CASE IteratorFound(t) BY <2>3, <1>1 DEF IteratorFound, Place
  <2>. QED BY <1>3, <2>1, <2>2, <2>3
<1>4. IteratorsSound'
  <2>1. DOMAIN iter' = ListReaders BY DEF IteratorsSound
  <2>2. ASSUME NEW u \in ListReaders
        PROVE  IteratorResting(iter[u])' \/ IteratorSearching(iter[u])' \/ IteratorFound(iter[u])'
    <3>1. PICK t : t = iter'[u] OBVIOUS
    <3>2. t = s \/ t = iter[u] BY <3>1 DEF IteratorsSound
    <3>3. IteratorResting(t) \/ IteratorSearching(t) \/ IteratorFound(t)
      BY <3>2 DEF IteratorsSound
    <3>4. IteratorResting(t)' \/ IteratorSearching(t)' \/ IteratorFound(t)' BY <3>3, <1>3
    <3>. QED BY <3>1, <3>4
  <2>. QED BY <2>1, <2>2 DEF IteratorsSound
<1>. QED BY <1>2, <1>4

\* What a link of a level can be, and what a node of the lowest level is.
LEMMA LinkFacts ==
    ASSUME ListStructure, NEW n, NEW i, LinkedAt(n, i)
    PROVE  /\ n \in DOMAIN next_ /\ i \in ListLevels /\ n \in Nat /\ n < End
           /\ next_[n][i] \in Nat /\ next_[n][i] > n /\ next_[n][i] <= End
           /\ next_[n][i] = End \/ LinkedAt(next_[n][i], i)
           /\ \A b : LinkedAt(b, i) /\ n < b => next_[n][i] <= b
           /\ i > 0 => LinkedAt(n, i - 1)
<1> USE DEF ListStructure
<1>1. n \in DOMAIN next_ /\ i \in DOMAIN next_[n] /\ i \in ListLevels BY DEF LinkedAt, NodesTyped
<1>2. n \in Nat /\ n < End BY <1>1, NodesAreNumbers
<1>3. /\ next_[n][i] \in Nat /\ next_[n][i] > n
      /\ next_[n][i] = End \/ LinkedAt(next_[n][i], i)
  BY <1>1 DEF LinksAscend
<1>4. next_[n][i] <= End
  <2>1. CASE next_[n][i] = End BY <2>1, EndIsLast
  <2>2. CASE next_[n][i] # End
    <3>1. next_[n][i] \in DOMAIN next_ BY <2>2, <1>3 DEF LinkedAt
    <3>. QED BY <3>1, NodesAreNumbers, EndIsLast
  <2>. QED BY <2>1, <2>2
<1>5. \A b : LinkedAt(b, i) /\ n < b => next_[n][i] <= b
  <2> SUFFICES ASSUME NEW b, LinkedAt(b, i), n < b PROVE next_[n][i] <= b OBVIOUS
  <2>1. b \in DOMAIN next_ BY DEF LinkedAt
  <2>. QED BY <2>1, <1>1 DEF NothingSkipped
<1>6. i > 0 => LinkedAt(n, i - 1)
  <2> SUFFICES ASSUME i > 0 PROVE LinkedAt(n, i - 1) OBVIOUS
  <2>1. i - 1 \in DOMAIN next_[n] BY <1>1 DEF NodesTyped
  <2>2. i \in Nat BY <1>1, ListAssumption DEF ListLevels
  <2>3. Inserting => ins.level \in Nat BY DEF InsertTyped
  <2>. QED BY <2>1, <2>2, <2>3, <1>1 DEF LinkedAt
<1>. QED BY <1>1, <1>2, <1>3, <1>4, <1>5, <1>6

\* A key whose insertion has returned is in the list.
LEMMA DoneFacts ==
    ASSUME ListStructure
    PROVE  \A k \in done : k \in Nat /\ k > 0 /\ LinkedAt(k, 0)
<1> SUFFICES ASSUME NEW k \in done PROVE k \in Nat /\ k > 0 /\ LinkedAt(k, 0) OBVIOUS
<1> USE DEF ListStructure
<1>1. k \in DOMAIN next_ /\ k # head_ BY DEF DoneLinked
<1>2. k \in ListKeys BY <1>1, NodesAreNumbers
<1>3. LinkedAt(k, 0) BY <1>1 DEF LinkedAt, NodesTyped, DoneLinked
<1>. QED BY <1>2, <1>3, ListAssumption

\* The first load of a search: its height may be an old one.
LEMMA SearchingKeeps ==
    ASSUME ListInv, NEW r \in ListReaders, NEW what \in {"seek", "prev", "last"},
           NEW target \in Nat, target > 0, target <= End, Searching(r, what, target)
    PROVE  ListInv'
<1> USE DEF ListInv
<1>1. IteratorResting(iter[r])
  BY DEF Searching, IteratorsSound, IteratorResting, IteratorSearching, IteratorFound,
         SearchRecord, FoundRecord
<1>2. PICK h \in max_height_ :
         iter' = [iter EXCEPT ![r] = [pc |-> what, target |-> target, x |-> head_,
                                  level |-> h - 1, known |-> done, ops |-> @.ops + 1,
                                  node |-> @.node]]
  BY DEF Searching
<1>3. h - 1 \in ListLevels /\ h - 1 \in Nat
  BY ListAssumption DEF ListStructure, HeightsKnown, ListLevels
<1>4. LinkedAt(head_, h - 1)
  <2>1. Inserting => ins.key # head_ BY ListAssumption DEF ListStructure, InsertTyped, head_
  <2>. QED BY <1>3, <2>1 DEF LinkedAt, ListStructure, NodesTyped
<1> DEFINE s == [pc |-> what, target |-> target, x |-> head_, level |-> h - 1, known |-> done,
                 ops |-> iter[r].ops + 1, node |-> iter[r].node]
<1>5. IteratorSearching(s)
  <2>1. done \subseteq Nat BY DoneFacts
  <2>2. iter[r].ops + 1 \in Nat /\ iter[r].node \in Nat BY <1>1 DEF IteratorResting, RestingRecord
  <2>3. s \in SearchRecord BY <2>1, <2>2, <1>3 DEF SearchRecord, head_
  <2>. QED BY <2>3, <1>3, <1>4 DEF IteratorSearching, head_
<1>6. iter' = [iter EXCEPT ![r] = s] BY <1>2 DEF IteratorsSound
<1> HIDE DEF s
<1>7. UNCHANGED << next_, max_height_, ins, done >> BY DEF Searching
<1>. QED BY <1>5, <1>6, <1>7, ReaderKeeps


\* A step of a search, and its answer.
LEMMA SearchStepKeeps ==
    ASSUME ListInv, NEW r \in ListReaders, SearchStep(r)
    PROVE  ListInv'
<1> USE DEF ListInv
<1>1. IteratorSearching(iter[r])
  BY DEF SearchStep, IteratorsSound, IteratorResting, IteratorSearching, IteratorFound,
         RestingRecord, FoundRecord
<1>2. UNCHANGED << next_, max_height_, ins, done >> BY DEF SearchStep
<1>3. PICK s : s = iter[r] OBVIOUS
<1>4. /\ s \in SearchRecord /\ s.known \subseteq done /\ LinkedAt(s.x, s.level)
      /\ s.level \in ListLevels /\ s.x < s.target /\ s.target <= End
  BY <1>1, <1>3 DEF IteratorSearching
<1>5. PICK x, l, next : x = s.x /\ l = s.level /\ next = next_[s.x][s.level] OBVIOUS
<1>6. /\ LinkedAt(x, l) /\ x \in Nat /\ x < End /\ l \in ListLevels
      /\ next \in Nat /\ next > x /\ next <= End /\ (next = End \/ LinkedAt(next, l))
      /\ \A b : LinkedAt(b, l) /\ x < b => next <= b
      /\ l > 0 => LinkedAt(x, l - 1)
  BY <1>4, <1>5, LinkFacts
<1>7. s.target \in Nat /\ l \in Nat /\ End \in Nat BY <1>4, <1>5, EndIsLast DEF SearchRecord
<1>8. CASE next < s.target /\ iter' = [iter EXCEPT ![r].x = next]
  <2> DEFINE t == [s EXCEPT !.x = next]
  <2>1. next # End BY <1>8, <1>4, <1>6, <1>7
  <2>2. /\ t \in SearchRecord /\ t.known = s.known /\ t.x = next /\ t.level = l /\ t.target = s.target
    BY <1>4, <1>5, <1>6 DEF SearchRecord
  <2>3. IteratorSearching(t) BY <2>1, <2>2, <1>8, <1>4, <1>6 DEF IteratorSearching
  <2>4. iter' = [iter EXCEPT ![r] = t] BY <1>8, <1>3 DEF IteratorsSound
  <2> HIDE DEF t
  <2>. QED BY <2>3, <2>4, <1>2, ReaderKeeps
<1>9. CASE next >= s.target /\ l > 0 /\ iter' = [iter EXCEPT ![r].level = @ - 1]
  <2> DEFINE t == [s EXCEPT !.level = l - 1]
  <2>1. l - 1 \in Nat /\ l - 1 \in ListLevels BY <1>9, <1>6, <1>7, ListAssumption DEF ListLevels
  <2>2. /\ t \in SearchRecord /\ t.known = s.known /\ t.x = x /\ t.level = l - 1 /\ t.target = s.target
    BY <2>1, <1>4, <1>5 DEF SearchRecord
  <2>3. IteratorSearching(t) BY <2>1, <2>2, <1>9, <1>4, <1>5, <1>6 DEF IteratorSearching
  <2>4. iter' = [iter EXCEPT ![r] = t] BY <1>9, <1>3, <1>5 DEF IteratorsSound
  <2> HIDE DEF t
  <2>. QED BY <2>3, <2>4, <1>2, ReaderKeeps
<1>10. CASE /\ next >= s.target /\ l = 0
            /\ Answer(r, IF s.pc = "seek" THEN next ELSE IF s.x = head_ THEN End ELSE s.x)
  <2>1. PICK node : node = IF s.pc = "seek" THEN next ELSE IF s.x = head_ THEN End ELSE s.x OBVIOUS
  <2> DEFINE f == [pc |-> "found", what |-> s.pc, target |-> s.target, node |-> node,
                   known |-> s.known, ops |-> s.ops]
  <2>2. node \in Nat BY <2>1, <1>5, <1>6, <1>7
  <2>3. f \in FoundRecord BY <2>2, <1>4 DEF FoundRecord, SearchRecord
  <2>4. \A k \in s.known : k \in Nat /\ k > 0 /\ LinkedAt(k, 0) BY <1>4, DoneFacts
  <2>5. \A k \in s.known : x < k => next <= k BY <2>4, <1>6, <1>10
  <2>6. IteratorFound(f)
    <3>1. CASE s.pc = "seek"
      <4>1. node = next BY <2>1, <3>1
      <4>2. Place(node)
        <5>1. next # head_ BY <1>6 DEF head_
        <5>. QED BY <4>1, <5>1, <1>6, <1>10 DEF Place
      <4>3. ASSUME NEW k \in s.known, k >= s.target PROVE k >= next
        <5>1. k \in Nat BY <2>4
        <5>2. x < k BY <4>3, <5>1, <1>4, <1>5, <1>6, <1>7
        <5>. QED BY <5>1, <5>2, <2>5, <1>6
      <4>. QED BY <2>3, <3>1, <4>1, <4>2, <4>3, <1>4, <1>6, <1>7, <1>10 DEF IteratorFound
    <3>2. CASE s.pc # "seek"
      <4>1. node = IF x = head_ THEN End ELSE x BY <2>1, <3>2, <1>5
      <4>2. Place(node) BY <4>1, <1>6, <1>10 DEF Place
      <4>3. node # End => node < s.target BY <4>1, <1>4, <1>5
      <4>4. ASSUME NEW k \in s.known, k < s.target PROVE node # End /\ k <= node
        <5>1. k \in Nat /\ k > 0 BY <2>4
        <5>2. ~(x < k) BY <5>1, <4>4, <2>5, <1>6, <1>7, <1>10
        <5>3. k <= x BY <5>1, <5>2, <1>6
        <5>. QED BY <4>1, <5>1, <5>3, <1>6, <1>7 DEF head_
      <4>. QED BY <2>3, <3>2, <4>2, <4>3, <4>4, <1>4 DEF IteratorFound
    <3>. QED BY <3>1, <3>2
  <2>7. iter' = [iter EXCEPT ![r] = f] BY <1>10, <2>1, <1>3 DEF Answer, IteratorsSound
  <2> HIDE DEF f
  <2>. QED BY <2>6, <2>7, <1>2, ReaderKeeps
<1>. QED BY <1>3, <1>5, <1>8, <1>9, <1>10 DEF SearchStep

\* Next and SeekToFirst.
LEMMA StepKeeps ==
    ASSUME ListInv, NEW r \in ListReaders, NEW from, LinkedAt(from, 0), Step(r, from)
    PROVE  ListInv'
<1> USE DEF ListInv
<1>1. IteratorResting(iter[r])
  BY DEF Step, IteratorsSound, IteratorResting, IteratorSearching, IteratorFound,
         SearchRecord, FoundRecord
<1>2. PICK next : next = next_[from][0] OBVIOUS
<1>3. /\ from \in Nat /\ next \in Nat /\ next > from /\ (next = End \/ LinkedAt(next, 0))
      /\ \A b : LinkedAt(b, 0) /\ from < b => next <= b
  BY <1>2, LinkFacts
<1> DEFINE f == [pc |-> "found", what |-> "seek", target |-> from + 1, node |-> next,
                 known |-> done, ops |-> iter[r].ops + 1]
<1>4. f \in FoundRecord
  <2>1. done \subseteq Nat BY DoneFacts
  <2>2. iter[r].ops + 1 \in Nat BY <1>1 DEF IteratorResting, RestingRecord
  <2>. QED BY <2>1, <2>2, <1>3 DEF FoundRecord
<1>5. Place(next) BY <1>3 DEF Place, head_
<1>6. ASSUME NEW k \in done, k >= from + 1 PROVE k >= next
  <2>1. k \in Nat /\ LinkedAt(k, 0) BY DoneFacts
  <2>2. from < k BY <2>1, <1>3, <1>6
  <2>. QED BY <2>1, <2>2, <1>3
<1>7. IteratorFound(f) BY <1>3, <1>4, <1>5, <1>6 DEF IteratorFound
<1>8. iter' = [iter EXCEPT ![r] = f] BY <1>2 DEF Step, IteratorsSound
<1> HIDE DEF f
<1>9. UNCHANGED << next_, max_height_, ins, done >> BY DEF Step
<1>. QED BY <1>7, <1>8, <1>9, ReaderKeeps

LEMMA LookKeeps ==
    ASSUME ListInv, NEW r \in ListReaders, Look(r)
    PROVE  ListInv'
<1> USE DEF ListInv
<1>1. IteratorFound(iter[r])
  BY DEF Look, IteratorsSound, IteratorResting, IteratorSearching, IteratorFound,
         SearchRecord, RestingRecord
<1> DEFINE s == [pc |-> "idle", node |-> iter[r].node, ops |-> iter[r].ops]
<1>2. IteratorResting(s) BY <1>1 DEF IteratorFound, IteratorResting, FoundRecord, RestingRecord
<1>3. iter' = [iter EXCEPT ![r] = s] BY DEF Look, IteratorsSound, Resting
<1> HIDE DEF s
<1>4. UNCHANGED << next_, max_height_, ins, done >> BY DEF Look
<1>. QED BY <1>2, <1>3, <1>4, ReaderKeeps

-----------------------------------------------------------------------------
(* The list *)

LEMMA ListStarts == ListInit => ListInv
<1> SUFFICES ASSUME ListInit PROVE ListInv OBVIOUS
<1> USE DEF ListInit
<1>1. ~Inserting BY DEF Inserting, NoInsert
<1>2. DOMAIN next_ = {head_} /\ DOMAIN next_[head_] = ListLevels
      /\ \A i \in ListLevels : next_[head_][i] = End
  OBVIOUS
<1>3. 0 \in ListLevels /\ ListLevels \subseteq Nat /\ \A i \in ListLevels : i > 0 => i - 1 \in ListLevels
  BY ListAssumption DEF ListLevels
<1>4. NodesTyped BY <1>2, <1>3 DEF NodesTyped
<1>5. InsertTyped /\ PrevFits BY <1>1 DEF InsertTyped, PrevFits
<1>6. LinksAscend /\ NotYetLinked BY <1>2, EndIsLast DEF LinksAscend, NotYetLinked, head_
<1>7. NothingSkipped /\ AllReached BY <1>2 DEF NothingSkipped, AllReached, head_
<1>8. HeightsKnown BY <1>1, <1>2, ListAssumption DEF HeightsKnown
<1>9. DoneLinked BY <1>1 DEF DoneLinked
<1>10. IteratorsSound
  <2>1. DOMAIN iter = ListReaders OBVIOUS
  <2>2. ASSUME NEW r \in ListReaders PROVE IteratorResting(iter[r])
    BY EndIsLast DEF IteratorResting, RestingRecord, Resting, Place
  <2>. QED BY <2>1, <2>2 DEF IteratorsSound
<1>. QED BY <1>4, <1>5, <1>6, <1>7, <1>8, <1>9, <1>10 DEF ListInv, ListStructure

LEMMA ListKeeps == ListInv /\ ListNext => ListInv'
<1> SUFFICES ASSUME ListInv, ListNext PROVE ListInv' OBVIOUS
<1>1. ASSUME NEW k \in ListKeys, NEW h \in 1 .. kMaxHeight, InsertBegins(k, h) PROVE ListInv'
  BY <1>1, InsertBeginsKeeps
<1>2. CASE InsertLinks BY <1>2, InsertLinksKeeps
<1>3. ASSUME NEW r \in ListReaders, NEW k \in ListKeys, Seek(r, k) PROVE ListInv'
  <2>1. k \in Nat /\ k > 0 /\ k <= End BY ListAssumption, EndIsLast
  <2>. QED BY <1>3, <2>1, SearchingKeeps DEF Seek
<1>4. ASSUME NEW r \in ListReaders, iter[r].pc = "idle" PROVE IteratorResting(iter[r])
  BY <1>4 DEF ListInv, IteratorsSound, IteratorResting, IteratorSearching, IteratorFound,
              SearchRecord, FoundRecord
<1>5. ASSUME NEW n, Place(n), n # End
      PROVE  LinkedAt(n, 0) /\ n \in Nat /\ n > 0 /\ n <= End
  <2>1. LinkedAt(n, 0) /\ n # head_ BY <1>5 DEF Place
  <2>2. n \in Nat /\ n < End BY <2>1, LinkFacts DEF ListInv
  <2>. QED BY <2>1, <2>2, EndIsLast DEF head_
<1>6. ASSUME NEW r \in ListReaders, Prev(r) PROVE ListInv'
  <2>1. iter[r].node # End /\ Searching(r, "prev", iter[r].node) BY <1>6 DEF Prev
  <2>2. PICK n : n = iter[r].node OBVIOUS
  <2>3. Place(n) BY <2>1, <2>2, <1>4 DEF Searching, IteratorResting
  <2>4. n \in Nat /\ n > 0 /\ n <= End BY <2>1, <2>2, <2>3, <1>5
  <2>. QED BY <2>1, <2>2, <2>4, SearchingKeeps
<1>7. ASSUME NEW r \in ListReaders, SeekToLast(r) PROVE ListInv'
  <2>1. End \in Nat /\ End > 0 /\ End <= End BY EndIsLast
  <2>2. Searching(r, "last", End) BY <1>7 DEF SeekToLast
  <2>. QED BY <2>1, <2>2, SearchingKeeps
<1>8. ASSUME NEW r \in ListReaders, SearchStep(r) PROVE ListInv' BY <1>8, SearchStepKeeps
<1>9. ASSUME NEW r \in ListReaders, NextNode(r) PROVE ListInv'
  <2>1. iter[r].node # End /\ Step(r, iter[r].node) BY <1>9 DEF NextNode
  <2>2. PICK n : n = iter[r].node OBVIOUS
  <2>3. Place(n) BY <2>1, <2>2, <1>4 DEF Step, IteratorResting
  <2>4. LinkedAt(n, 0) BY <2>1, <2>2, <2>3, <1>5
  <2>. QED BY <2>1, <2>2, <2>4, StepKeeps
<1>10. ASSUME NEW r \in ListReaders, SeekToFirst(r) PROVE ListInv'
  <2>1. LinkedAt(head_, 0)
    <3>1. Inserting => ins.key # head_ BY ListAssumption DEF ListInv, ListStructure, InsertTyped, head_
    <3>. QED BY <3>1 DEF LinkedAt, ListInv, ListStructure, NodesTyped
  <2>. QED BY <2>1, <1>10, StepKeeps DEF SeekToFirst
<1>11. ASSUME NEW r \in ListReaders, Look(r) PROVE ListInv' BY <1>11, LookKeeps
<1>. QED BY <1>1, <1>2, <1>3, <1>6, <1>7, <1>8, <1>9, <1>10, <1>11 DEF ListNext

LEMMA ListUnchanged == ListInv /\ UNCHANGED listVars => ListInv'
<1> SUFFICES ASSUME ListInv, UNCHANGED listVars PROVE ListInv' OBVIOUS
<1> USE DEF listVars
<1>1. \A n, i : LinkedAt(n, i)' <=> LinkedAt(n, i) BY DEF LinkedAt, Inserting
<1> USE DEF ListInv, ListStructure
<1>2. NodesTyped' /\ DoneLinked' /\ HeightsKnown' /\ InsertTyped'
  BY DEF NodesTyped, DoneLinked, HeightsKnown, InsertTyped, Inserting
<1>3. LinksAscend' BY <1>1 DEF LinksAscend
<1>4. NotYetLinked' BY <1>1 DEF NotYetLinked
<1>5. NothingSkipped' BY <1>1 DEF NothingSkipped
<1>6. AllReached' BY <1>1 DEF AllReached
<1>7. PrevFits' BY <1>1 DEF PrevFits, Inserting
<1>8. IteratorsSound' BY <1>1, IteratorsSurvive
<1>. QED BY <1>2, <1>3, <1>4, <1>5, <1>6, <1>7, <1>8

\* The invariant gives the list's two properties.
LEMMA ListInvSuffices == ListInv => LevelsNested /\ SearchesComplete
<1> SUFFICES ASSUME ListInv PROVE LevelsNested /\ SearchesComplete OBVIOUS
<1> USE DEF ListInv
<1>1. \A i \in ListLevels : \A n : n \in OnLevel(i) <=> n # head_ /\ LinkedAt(n, i)
  <2> SUFFICES ASSUME NEW i \in ListLevels, NEW n
               PROVE  n \in OnLevel(i) <=> n # head_ /\ LinkedAt(n, i)
    OBVIOUS
  <2>1. ASSUME n \in OnLevel(i) PROVE n # head_ /\ LinkedAt(n, i)
    <3>1. n \in DOMAIN next_ /\ n # head_ BY <2>1 DEF OnLevel
    <3>2. PICK m \in DOMAIN next_ : i \in DOMAIN next_[m] /\ next_[m][i] = n BY <2>1 DEF OnLevel
    <3>3. n # End BY <3>1, NodesAreNumbers DEF ListStructure
    <3>4. LinkedAt(m, i) BY <3>2, <3>3 DEF ListStructure, NotYetLinked
    <3>. QED BY <3>1, <3>2, <3>3, <3>4 DEF ListStructure, LinksAscend
  <2>2. ASSUME n # head_, LinkedAt(n, i) PROVE n \in OnLevel(i)
    <3>1. n \in DOMAIN next_ \ {head_} BY <2>2 DEF LinkedAt
    <3>2. PICK a \in DOMAIN next_ : LinkedAt(a, i) /\ next_[a][i] = n
      BY <2>2, <3>1 DEF ListStructure, AllReached
    <3>. QED BY <3>1, <3>2 DEF OnLevel, LinkedAt
  <2>. QED BY <2>1, <2>2
<1>2. 0 \in ListLevels /\ ListLevels \subseteq Nat /\ \A i \in ListLevels \ {0} : i - 1 \in ListLevels
  BY ListAssumption DEF ListLevels
<1>3. LevelsNested
  <2>1. ASSUME NEW n \in DOMAIN next_, NEW i \in DOMAIN next_[n] PROVE next_[n][i] > n
    <3>1. CASE LinkedAt(n, i) BY <3>1, LinkFacts
    <3>2. CASE ~LinkedAt(n, i)
      <4>1. next_[n][i] = End BY <3>2 DEF ListStructure, NotYetLinked
      <4>. QED BY <4>1, NodesAreNumbers, EndIsLast DEF ListStructure
    <3>. QED BY <3>1, <3>2
  <2>2. ASSUME NEW i \in ListLevels \ {0} PROVE OnLevel(i) \subseteq OnLevel(i - 1)
    <3> SUFFICES ASSUME NEW n \in OnLevel(i) PROVE n \in OnLevel(i - 1) OBVIOUS
    <3>1. n # head_ /\ LinkedAt(n, i) BY <1>1
    <3>2. i > 0 BY <1>2
    <3>3. LinkedAt(n, i - 1) BY <3>1, <3>2, LinkFacts
    <3>. QED BY <3>1, <3>3, <1>1, <1>2
  <2>3. done \subseteq OnLevel(0)
    <3> SUFFICES ASSUME NEW k \in done PROVE k \in OnLevel(0) OBVIOUS
    <3>1. k # head_ /\ LinkedAt(k, 0) BY DoneFacts DEF head_
    <3>. QED BY <3>1, <1>1, <1>2
  <2>4. ASSUME NEW i \in ListLevels, NEW a \in OnLevel(i) \cup {head_}, NEW b \in OnLevel(i), b > a
        PROVE  next_[a][i] <= b
    <3>1. LinkedAt(b, i) BY <1>1
    <3>2. LinkedAt(a, i)
      <4>1. CASE a = head_
        <5>1. Inserting => ins.key # head_ BY ListAssumption DEF ListStructure, InsertTyped, head_
        <5>. QED BY <4>1, <5>1 DEF LinkedAt, ListStructure, NodesTyped
      <4>2. CASE a # head_ BY <4>2, <1>1
      <4>. QED BY <4>1, <4>2
    <3>3. a \in Nat /\ b \in Nat BY <3>1, <3>2, LinkFacts
    <3>. QED BY <2>4, <3>1, <3>2, <3>3, LinkFacts
  <2>. QED BY <2>1, <2>2, <2>3, <2>4 DEF LevelsNested
<1>4. SearchesComplete
  <2> SUFFICES ASSUME NEW r \in ListReaders, NEW f, f = iter[r], f.pc = "found"
               PROVE  IF f.what = "seek"
                      THEN /\ f.node >= f.target
                           /\ f.node # End => f.node \in OnLevel(0)
                           /\ \A k \in f.known : k >= f.target => k >= f.node
                      ELSE /\ f.node # End => f.node < f.target /\ f.node \in OnLevel(0)
                           /\ \A k \in f.known : k < f.target => f.node # End /\ k <= f.node
    BY DEF SearchesComplete
  <2>1. IteratorFound(f)
    BY DEF IteratorsSound, IteratorResting, IteratorSearching, RestingRecord, SearchRecord
  <2>2. f.node # End => f.node \in OnLevel(0) BY <2>1, <1>1, <1>2 DEF IteratorFound, Place
  <2>. QED BY <2>1, <2>2 DEF IteratorFound
<1>. QED BY <1>3, <1>4


-----------------------------------------------------------------------------
(* The arena: the sum of the blocks' sizes *)

\* The function that UsageOf sums with.
IsUsage(f, s) == f = [i \in 0 .. Len(s) |-> IF i = 0 THEN 0 ELSE f[i - 1] + s[i] + PointerSize]

\* There is such a function: the least length it does not reach is none.
LEMMA UsageExists ==
    ASSUME NEW s \in Seq(Nat)
    PROVE  \E f : IsUsage(f, s)
<1> DEFINE Upto(f, m) == /\ f \in [0 .. m -> Nat] /\ f[0] = 0
                         /\ \A i \in 1 .. m : f[i] = f[i - 1] + s[i] + PointerSize
           Missing == {m \in 0 .. Len(s) : ~\E f : Upto(f, m)}
<1>1. Missing = {}
  <2> SUFFICES ASSUME Missing # {} PROVE FALSE OBVIOUS
  <2>1. Missing \subseteq Nat OBVIOUS
  <2> HIDE DEF Missing
  <2>2. PICK m \in Missing : \A n \in Missing : m <= n BY <2>1, LeastNumber, Zenon
  <2> USE DEF Missing
  <2>3. m # 0
    <3>1. Upto([i \in 0 .. 0 |-> 0], 0) OBVIOUS
    <3>. QED BY <3>1, <2>2
  <2>4. m \in Nat /\ m - 1 \in 0 .. Len(s) /\ m \in 1 .. Len(s) /\ ~(m <= m - 1) BY <2>2, <2>3
  <2>5. PICK f : Upto(f, m - 1) BY <2>2, <2>4
  <2> DEFINE g == [i \in 0 .. m |-> IF i = m THEN f[m - 1] + s[m] + PointerSize ELSE f[i]]
  <2>6. s[m] \in Nat /\ f[m - 1] \in Nat /\ PointerSize \in Nat BY <2>4, <2>5, ArenaAssumption
  <2>7. g \in [0 .. m -> Nat] BY <2>4, <2>5, <2>6
  <2>8. g[0] = 0 BY <2>4, <2>5
  <2>9. ASSUME NEW i \in 1 .. m PROVE g[i] = g[i - 1] + s[i] + PointerSize
    <3>1. CASE i = m BY <3>1, <2>4
    <3>2. CASE i # m
      <4>1. i \in 1 .. m - 1 /\ i - 1 \in 0 .. m /\ i - 1 # m BY <3>2, <2>4
      <4>. QED BY <4>1, <3>2, <2>5
    <3>. QED BY <3>1, <3>2
  <2> HIDE DEF g
  <2>10. Upto(g, m) BY <2>7, <2>8, <2>9
  <2>. QED BY <2>10, <2>2
<1>2. PICK f : Upto(f, Len(s)) BY <1>1
<1>3. f = [i \in 0 .. Len(s) |-> f[i]] BY <1>2
<1>4. \A i \in 0 .. Len(s) : f[i] = IF i = 0 THEN 0 ELSE f[i - 1] + s[i] + PointerSize
  <2> SUFFICES ASSUME NEW i \in 0 .. Len(s)
               PROVE  f[i] = IF i = 0 THEN 0 ELSE f[i - 1] + s[i] + PointerSize
    OBVIOUS
  <2>1. i = 0 \/ i \in 1 .. Len(s) OBVIOUS
  <2>. QED BY <2>1, <1>2
<1>. QED BY <1>3, <1>4 DEF IsUsage

\* It is the sum up to each place, and a number.
LEMMA UsageValues ==
    ASSUME NEW s \in Seq(Nat), NEW f, IsUsage(f, s)
    PROVE  /\ f[0] = 0 /\ \A i \in 1 .. Len(s) : f[i] = f[i - 1] + s[i] + PointerSize
           /\ \A i \in 0 .. Len(s) : f[i] \in Nat
<1>1. f[0] = 0 /\ \A i \in 1 .. Len(s) : f[i] = f[i - 1] + s[i] + PointerSize BY DEF IsUsage
<1> DEFINE Wrong == {i \in 0 .. Len(s) : f[i] \notin Nat}
<1>2. Wrong = {}
  <2> SUFFICES ASSUME Wrong # {} PROVE FALSE OBVIOUS
  <2>1. Wrong \subseteq Nat OBVIOUS
  <2> HIDE DEF Wrong
  <2>2. PICK m \in Wrong : \A n \in Wrong : m <= n BY <2>1, LeastNumber, Zenon
  <2> USE DEF Wrong
  <2>3. m # 0 BY <2>2, <1>1
  <2>4. m - 1 \in 0 .. Len(s) /\ m \in 1 .. Len(s) /\ ~(m <= m - 1) BY <2>2, <2>3
  <2>5. f[m - 1] \in Nat BY <2>2, <2>4
  <2>6. f[m] = f[m - 1] + s[m] + PointerSize /\ s[m] \in Nat BY <2>4, <1>1
  <2>. QED BY <2>2, <2>5, <2>6, ArenaAssumption
<1>. QED BY <1>1, <1>2

\* One block more adds its size and a pointer.
LEMMA UsageAppend ==
    ASSUME NEW s \in Seq(Nat), NEW n \in Nat
    PROVE  /\ UsageOf(s) \in Nat
           /\ UsageOf(Append(s, n)) = UsageOf(s) + n + PointerSize
<1>0. Append(s, n) \in Seq(Nat) OBVIOUS
<1>1. PICK t \in Seq(Nat) : t = Append(s, n) BY <1>0, Zenon
<1>2. Len(t) = Len(s) + 1 /\ t[Len(t)] = n /\ \A i \in 1 .. Len(s) : t[i] = s[i] BY <1>1
<1> DEFINE f == CHOOSE h : IsUsage(h, s)
           g == CHOOSE h : IsUsage(h, t)
<1>3. IsUsage(f, s) /\ IsUsage(g, t) BY UsageExists
<1>4. UsageOf(s) = f[Len(s)] /\ UsageOf(t) = g[Len(t)] BY DEF UsageOf, IsUsage
<1> HIDE DEF f, g
<1>5. /\ f[0] = 0 /\ \A i \in 1 .. Len(s) : f[i] = f[i - 1] + s[i] + PointerSize
      /\ \A i \in 0 .. Len(s) : f[i] \in Nat
  BY <1>3, UsageValues
<1>6. g[0] = 0 /\ \A i \in 1 .. Len(t) : g[i] = g[i - 1] + t[i] + PointerSize
  BY <1>3, UsageValues
<1> DEFINE Differ == {i \in 0 .. Len(s) : f[i] # g[i]}
<1>7. Differ = {}
  <2> SUFFICES ASSUME Differ # {} PROVE FALSE OBVIOUS
  <2>1. Differ \subseteq Nat OBVIOUS
  <2> HIDE DEF Differ
  <2>2. PICK m \in Differ : \A k \in Differ : m <= k BY <2>1, LeastNumber, Zenon
  <2> USE DEF Differ
  <2>3. m # 0 BY <2>2, <1>5, <1>6
  <2>4. m - 1 \in 0 .. Len(s) /\ m \in 1 .. Len(s) /\ m \in 1 .. Len(t) /\ ~(m <= m - 1)
    BY <2>2, <2>3, <1>2
  <2>5. f[m - 1] = g[m - 1] BY <2>2, <2>4
  <2>. QED BY <2>2, <2>4, <2>5, <1>2, <1>5, <1>6
<1>8. f[Len(s)] = g[Len(s)] /\ f[Len(s)] \in Nat
  <2>1. Len(s) \in 0 .. Len(s) OBVIOUS
  <2>. QED BY <2>1, <1>5, <1>7
<1>9. g[Len(t)] = g[Len(s)] + n + PointerSize
  <2>1. Len(t) \in 1 .. Len(t) /\ Len(t) - 1 = Len(s) BY <1>2
  <2>. QED BY <2>1, <1>2, <1>6
<1>. QED BY <1>1, <1>4, <1>8, <1>9

LEMMA UsageNone == UsageOf(<< >>) = 0
<1>0. << >> \in Seq(Nat) OBVIOUS
<1>1. PICK s \in Seq(Nat) : s = << >> BY <1>0, Zenon
<1> DEFINE f == CHOOSE h : IsUsage(h, s)
<1>2. IsUsage(f, s) BY UsageExists
<1>3. UsageOf(s) = f[Len(s)] BY DEF UsageOf, IsUsage
<1> HIDE DEF f
<1>4. f[0] = 0 BY <1>2, UsageValues
<1>. QED BY <1>1, <1>3, <1>4


-----------------------------------------------------------------------------
(* The arena: its pieces *)

Pieces == [block : Nat, at : Nat, bytes : Nat, aligned : BOOLEAN]

ArenaTyped ==
    /\ blocks_ \in Seq(Nat) /\ given \in Seq(Pieces)
    /\ alloc_ptr_ \in [1 .. 2 -> Nat] /\ alloc_bytes_remaining_ \in Nat

\* The current block holds what has been cut from it and what remains.
CurrentBlock ==
    /\ alloc_ptr_[1] \in 0 .. Len(blocks_)
    /\ alloc_ptr_[1] = 0 => alloc_bytes_remaining_ = 0
    /\ alloc_ptr_[1] # 0 => alloc_ptr_[2] + alloc_bytes_remaining_ = blocks_[alloc_ptr_[1]]

\* A piece lies within its block, before what remains of the current one.
PieceFits(p) ==
    /\ p.block \in 1 .. Len(blocks_)
    /\ p.at + p.bytes <= blocks_[p.block]
    /\ p.aligned => p.at % Align = 0
    /\ p.block = alloc_ptr_[1] => p.at + p.bytes <= alloc_ptr_[2]

Apart(p, q) == p.block # q.block \/ p.at + p.bytes <= q.at \/ q.at + q.bytes <= p.at

ArenaInv ==
    /\ ArenaTyped /\ CurrentBlock
    /\ \A i \in 1 .. Len(given) : PieceFits(given[i])
    /\ \A i, j \in 1 .. Len(given) : i < j => Apart(given[i], given[j])
    /\ memory_usage_ = UsageOf(blocks_)

\* One piece more.
LEMMA GiveKeeps ==
    ASSUME ArenaInv, NEW p \in Pieces, given' = Append(given, p), PieceFits(p)',
           \A q \in Pieces : PieceFits(q) => PieceFits(q)' /\ Apart(q, p)
    PROVE  /\ given' \in Seq(Pieces)
           /\ \A i \in 1 .. Len(given') : PieceFits(given[i])'
           /\ \A i, j \in 1 .. Len(given') : i < j => Apart(given'[i], given'[j])
<1>1. /\ given \in Seq(Pieces) /\ \A i \in 1 .. Len(given) : PieceFits(given[i])
      /\ \A i, j \in 1 .. Len(given) : i < j => Apart(given[i], given[j])
  BY DEF ArenaInv, ArenaTyped
<1>2. /\ given' \in Seq(Pieces) /\ Len(given') = Len(given) + 1 /\ given'[Len(given) + 1] = p
      /\ \A i \in 1 .. Len(given) : given'[i] = given[i] /\ given[i] \in Pieces
      /\ Len(given) \in Nat
  BY <1>1
<1>3. ASSUME NEW i \in 1 .. Len(given') PROVE PieceFits(given[i])'
  <2>1. CASE i = Len(given) + 1 BY <2>1, <1>2
  <2>2. CASE i \in 1 .. Len(given)
    <3>1. PICK q \in Pieces : q = given[i] /\ q = given'[i] BY <2>2, <1>2
    <3>2. PieceFits(q)' BY <3>1, <2>2, <1>1
    <3>. QED BY <3>1, <3>2
  <2>. QED BY <2>1, <2>2, <1>2
<1>4. ASSUME NEW i \in 1 .. Len(given'), NEW j \in 1 .. Len(given'), i < j
      PROVE  Apart(given'[i], given'[j])
  <2>1. i \in 1 .. Len(given) BY <1>4, <1>2
  <2>2. given'[i] = given[i] /\ given[i] \in Pieces BY <2>1, <1>2
  <2>3. CASE j = Len(given) + 1
    <3>1. Apart(given[i], p) BY <2>1, <2>2, <1>1
    <3>. QED BY <3>1, <2>2, <2>3, <1>2
  <2>4. CASE j \in 1 .. Len(given)
    <3>1. Apart(given[i], given[j]) BY <2>1, <2>4, <1>4, <1>1
    <3>. QED BY <3>1, <2>2, <2>4, <1>2
  <2>. QED BY <2>3, <2>4, <1>2
<1>. QED BY <1>2, <1>3, <1>4

\* Cut from the current block.
LEMMA CutKeeps ==
    ASSUME ArenaInv, NEW bytes \in Nat \ {0}, NEW slop \in Nat, NEW aligned \in BOOLEAN,
           bytes + slop <= alloc_bytes_remaining_,
           aligned => (alloc_ptr_[2] + slop) % Align = 0,
           Cut(bytes, slop, aligned)
    PROVE  ArenaInv'
<1>1. /\ blocks_ \in Seq(Nat) /\ alloc_ptr_ \in [1 .. 2 -> Nat] /\ alloc_bytes_remaining_ \in Nat
      /\ memory_usage_ = UsageOf(blocks_)
  BY DEF ArenaInv, ArenaTyped
<1>2. PICK b \in Nat, o \in Nat : b = alloc_ptr_[1] /\ o = alloc_ptr_[2] BY <1>1
<1>3. b \in 1 .. Len(blocks_) /\ o + alloc_bytes_remaining_ = blocks_[b] /\ blocks_[b] \in Nat
  <2>1. b # 0 BY <1>1, <1>2 DEF ArenaInv, CurrentBlock
  <2>. QED BY <2>1, <1>1, <1>2 DEF ArenaInv, CurrentBlock
<1>4. /\ blocks_' = blocks_ /\ memory_usage_' = memory_usage_
      /\ alloc_bytes_remaining_' = alloc_bytes_remaining_ - (bytes + slop)
      /\ alloc_ptr_' = [alloc_ptr_ EXCEPT ![2] = @ + bytes + slop]
  BY DEF Cut
<1>5. /\ alloc_ptr_' \in [1 .. 2 -> Nat] /\ alloc_ptr_'[1] = b /\ alloc_ptr_'[2] = o + bytes + slop
      /\ alloc_bytes_remaining_' \in Nat
  BY <1>1, <1>2, <1>4
<1> DEFINE p == [block |-> b, at |-> o + slop, bytes |-> bytes, aligned |-> aligned]
<1>6. given' = Append(given, p) BY <1>2 DEF Cut, Give
<1>7. p \in Pieces /\ p.block = b /\ p.at = o + slop /\ p.bytes = bytes /\ p.aligned = aligned
  BY DEF Pieces
<1> HIDE DEF p
<1>8. PieceFits(p)'
  <2>1. p.at + p.bytes <= blocks_[b] BY <1>1, <1>3, <1>7
  <2>2. p.at + p.bytes <= alloc_ptr_'[2] BY <1>5, <1>7
  <2>3. p.aligned => p.at % Align = 0 BY <1>2, <1>7
  <2>. QED BY <2>1, <2>2, <2>3, <1>3, <1>4, <1>7 DEF PieceFits
<1>9. ASSUME NEW q \in Pieces, PieceFits(q) PROVE PieceFits(q)' /\ Apart(q, p)
  <2>1. q.block \in Nat /\ q.at \in Nat /\ q.bytes \in Nat BY DEF Pieces
  <2>2. q.block = b => q.at + q.bytes <= o BY <1>9, <1>2 DEF PieceFits
  <2>3. PieceFits(q)' BY <2>1, <2>2, <1>9, <1>4, <1>5 DEF PieceFits
  <2>4. Apart(q, p) BY <2>1, <2>2, <1>7 DEF Apart
  <2>. QED BY <2>3, <2>4
<1>10. /\ given' \in Seq(Pieces)
       /\ \A i \in 1 .. Len(given') : PieceFits(given[i])'
       /\ \A i, j \in 1 .. Len(given') : i < j => Apart(given'[i], given'[j])
  BY <1>6, <1>7, <1>8, <1>9, GiveKeeps
<1>11. CurrentBlock' BY <1>1, <1>3, <1>4, <1>5 DEF CurrentBlock
<1>12. ArenaTyped' BY <1>1, <1>4, <1>5, <1>10 DEF ArenaTyped
<1>. QED BY <1>1, <1>4, <1>10, <1>11, <1>12 DEF ArenaInv

\* A new block.
LEMMA AllocateFallbackKeeps ==
    ASSUME ArenaInv, NEW bytes \in Nat \ {0}, NEW aligned \in BOOLEAN, AllocateFallback(bytes, aligned)
    PROVE  ArenaInv'
<1>1. /\ blocks_ \in Seq(Nat) /\ alloc_ptr_ \in [1 .. 2 -> Nat] /\ alloc_bytes_remaining_ \in Nat
      /\ memory_usage_ = UsageOf(blocks_) /\ alloc_ptr_[1] \in 0 .. Len(blocks_)
  BY DEF ArenaInv, ArenaTyped, CurrentBlock
<1>2. PICK c \in Nat : c = Len(blocks_) + 1 BY <1>1
<1>3. PICK size \in Nat :
         /\ bytes <= size /\ AllocateNewBlock(size)
         /\ \/ UNCHANGED << alloc_ptr_, alloc_bytes_remaining_ >>
            \/ alloc_ptr_' = << c, bytes >> /\ alloc_bytes_remaining_' = size - bytes
  <2>1. CASE bytes > kBlockSize \div 4
    <3>1. AllocateNewBlock(bytes) /\ UNCHANGED << alloc_ptr_, alloc_bytes_remaining_ >>
      BY <2>1 DEF AllocateFallback
    <3>. QED BY <3>1
  <2>2. CASE ~(bytes > kBlockSize \div 4)
    <3>1. /\ AllocateNewBlock(kBlockSize) /\ alloc_ptr_' = << c, bytes >>
          /\ alloc_bytes_remaining_' = kBlockSize - bytes
      BY <2>2, <1>2 DEF AllocateFallback
    <3>2. bytes <= kBlockSize BY <2>2, ArenaAssumption
    <3>. QED BY <3>1, <3>2, ArenaAssumption
  <2>. QED BY <2>1, <2>2
<1>4. blocks_' = Append(blocks_, size) /\ memory_usage_' = memory_usage_ + size + PointerSize
  BY <1>3 DEF AllocateNewBlock
<1>5. /\ blocks_' \in Seq(Nat) /\ Len(blocks_') = c /\ blocks_'[c] = size
      /\ \A i \in 1 .. Len(blocks_) : blocks_'[i] = blocks_[i]
  BY <1>1, <1>2, <1>4
<1>6. memory_usage_' = UsageOf(blocks_)' BY <1>1, <1>4, UsageAppend, ArenaAssumption
<1> DEFINE p == [block |-> c, at |-> 0, bytes |-> bytes, aligned |-> aligned]
<1>7. given' = Append(given, p) BY <1>2 DEF AllocateFallback, Give
<1>8. p \in Pieces /\ p.block = c /\ p.at = 0 /\ p.bytes = bytes BY DEF Pieces
<1> HIDE DEF p
<1>9. /\ ArenaTyped' <=> given' \in Seq(Pieces)
      /\ CurrentBlock'
      /\ alloc_ptr_'[1] = c => alloc_ptr_'[2] = bytes
      /\ alloc_ptr_'[1] # c => alloc_ptr_' = alloc_ptr_
  <2>1. CASE UNCHANGED << alloc_ptr_, alloc_bytes_remaining_ >>
    <3>1. alloc_ptr_' = alloc_ptr_ /\ alloc_bytes_remaining_' = alloc_bytes_remaining_ BY <2>1
    <3>2. CurrentBlock' BY <3>1, <1>1, <1>2, <1>5 DEF ArenaInv, CurrentBlock
    <3>. QED BY <3>1, <3>2, <1>1, <1>2, <1>5 DEF ArenaTyped
  <2>2. CASE alloc_ptr_' = << c, bytes >> /\ alloc_bytes_remaining_' = size - bytes
    <3>1. alloc_ptr_' \in [1 .. 2 -> Nat] /\ alloc_ptr_'[1] = c /\ alloc_ptr_'[2] = bytes BY <2>2
    <3>2. alloc_bytes_remaining_' = size - bytes /\ alloc_bytes_remaining_' \in Nat BY <2>2, <1>3
    <3>3. CurrentBlock' BY ONLY <3>1, <3>2, <1>2, <1>5, size \in Nat, bytes \in Nat \ {0}, c \in Nat DEF CurrentBlock
    <3>. QED BY ONLY <3>1, <3>2, <3>3, <1>5 DEF ArenaTyped
  <2>. QED BY <1>3, <2>1, <2>2
<1>10. PieceFits(p)'
  <2>1. 0 % Align = 0 BY ArenaAssumption
  <2>. QED BY <2>1, <1>2, <1>3, <1>5, <1>8, <1>9 DEF PieceFits
<1>11. ASSUME NEW q \in Pieces, PieceFits(q) PROVE PieceFits(q)' /\ Apart(q, p)
  <2>1. q.block \in Nat /\ q.at \in Nat /\ q.bytes \in Nat BY DEF Pieces
  <2>2. q.block \in 1 .. Len(blocks_) /\ q.block # c BY <1>11, <1>2, <1>1 DEF PieceFits
  <2>3. PieceFits(q)' BY <2>1, <2>2, <1>11, <1>1, <1>2, <1>5, <1>9 DEF PieceFits
  <2>. QED BY <2>2, <2>3, <1>8 DEF Apart
<1>12. /\ given' \in Seq(Pieces)
       /\ \A i \in 1 .. Len(given') : PieceFits(given[i])'
       /\ \A i, j \in 1 .. Len(given') : i < j => Apart(given'[i], given'[j])
  BY <1>7, <1>8, <1>10, <1>11, GiveKeeps
<1>. QED BY <1>6, <1>9, <1>12 DEF ArenaInv

LEMMA ArenaKeeps == ArenaInv /\ ArenaNext => ArenaInv'
<1> SUFFICES ASSUME ArenaInv, NEW n \in AllocSizes, Allocate(n) \/ AllocateAligned(n) PROVE ArenaInv'
  BY DEF ArenaNext
<1>1. n \in Nat \ {0} BY ArenaAssumption
<1>2. alloc_ptr_[2] \in Nat BY DEF ArenaInv, ArenaTyped
<1>3. CASE AllocateFallback(n, TRUE) \/ AllocateFallback(n, FALSE) BY <1>1, <1>3, AllocateFallbackKeeps
<1>4. CASE Allocate(n)
  <2>1. CASE n <= alloc_bytes_remaining_
    <3>1. Cut(n, 0, FALSE) BY <1>4, <2>1 DEF Allocate
    <3>2. n + 0 <= alloc_bytes_remaining_ BY <1>1, <2>1
    <3>. QED BY <3>1, <3>2, <1>1, CutKeeps
  <2>2. CASE ~(n <= alloc_bytes_remaining_) BY <2>2, <1>3, <1>4 DEF Allocate
  <2>. QED BY <2>1, <2>2
<1>5. CASE AllocateAligned(n)
  <2>1. PICK s \in Nat : s = Slop /\ (alloc_ptr_[2] + s) % Align = 0
    <3>1. PICK o \in Nat : o = alloc_ptr_[2] BY <1>2
    <3>2. (Align - (o % Align)) % Align \in Nat BY ArenaAssumption
    <3>3. (o + ((Align - (o % Align)) % Align)) % Align = 0 BY ArenaAssumption
    <3>. QED BY <3>1, <3>2, <3>3 DEF Slop
  <2>2. CASE n + s <= alloc_bytes_remaining_
    <3>1. Cut(n, s, TRUE) BY <1>5, <2>1, <2>2 DEF AllocateAligned
    <3>. QED BY <3>1, <2>1, <2>2, <1>1, CutKeeps
  <2>3. CASE ~(n + s <= alloc_bytes_remaining_) BY <2>1, <2>3, <1>3, <1>5 DEF AllocateAligned
  <2>. QED BY <2>2, <2>3
<1>. QED BY <1>4, <1>5

LEMMA ArenaStarts == ArenaInit => ArenaInv
<1> SUFFICES ASSUME ArenaInit PROVE ArenaInv OBVIOUS
<1>1. alloc_ptr_ \in [1 .. 2 -> Nat] /\ alloc_ptr_[1] = 0 BY DEF ArenaInit
<1>2. blocks_ = << >> /\ given = << >> /\ alloc_bytes_remaining_ = 0 /\ memory_usage_ = 0 BY DEF ArenaInit
<1>3. Len(given) = 0 /\ Len(blocks_) = 0 /\ given \in Seq(Pieces) /\ blocks_ \in Seq(Nat) BY <1>2
<1>4. ArenaTyped /\ CurrentBlock BY <1>1, <1>2, <1>3 DEF ArenaTyped, CurrentBlock
<1>5. memory_usage_ = UsageOf(blocks_) BY <1>2, UsageNone
<1>. QED BY <1>3, <1>4, <1>5 DEF ArenaInv

LEMMA ArenaUnchanged == ArenaInv /\ UNCHANGED arenaVars => ArenaInv'
<1> SUFFICES ASSUME ArenaInv, UNCHANGED arenaVars PROVE ArenaInv' OBVIOUS
<1>1. ArenaTyped' /\ CurrentBlock' BY DEF arenaVars, ArenaInv, ArenaTyped, CurrentBlock
<1>2. \A i \in 1 .. Len(given) : PieceFits(given[i])' BY DEF arenaVars, ArenaInv, PieceFits
<1>3. memory_usage_' = UsageOf(blocks_)' BY DEF arenaVars, ArenaInv
<1>4. given' = given BY DEF arenaVars
<1>. QED BY <1>1, <1>2, <1>3, <1>4 DEF ArenaInv

LEMMA ArenaInvSuffices == ArenaInv => PiecesDisjoint
<1> SUFFICES ASSUME ArenaInv PROVE PiecesDisjoint OBVIOUS
<1>1. DOMAIN given = 1 .. Len(given) BY DEF ArenaInv, ArenaTyped
<1>. QED BY <1>1 DEF ArenaInv, PiecesDisjoint, Apart, PieceFits, CurrentBlock

-----------------------------------------------------------------------------
\* Whatever is inserted, searched and allocated, in any interleaving, for every
\* set of keys, maximum height, number of readers, block size and alignment: the
\* levels of the skip list stay sorted and nested at every step of an insertion,
\* no search misses a key whose Insert had returned before it began, even with an
\* old max_height_, and no two pieces of the arena share a byte.
THEOREM MemTableTheorem == MemTableSpec => []MemTableSound
<1>1. MemTableInit => ListInv /\ ArenaInv BY ListStarts, ArenaStarts DEF MemTableInit
<1>2. ListInv /\ ArenaInv /\ [MemTableNext]_memTableVars => ListInv' /\ ArenaInv'
  <2> SUFFICES ASSUME ListInv, ArenaInv, [MemTableNext]_memTableVars PROVE ListInv' /\ ArenaInv'
    OBVIOUS
  <2>1. CASE ListNext /\ UNCHANGED arenaVars BY <2>1, ListKeeps, ArenaUnchanged
  <2>2. CASE ArenaNext /\ UNCHANGED listVars BY <2>2, ArenaKeeps, ListUnchanged
  <2>3. CASE UNCHANGED memTableVars
    <3>1. UNCHANGED listVars /\ UNCHANGED arenaVars BY <2>3 DEF memTableVars
    <3>. QED BY <3>1, ListUnchanged, ArenaUnchanged
  <2>. QED BY <2>1, <2>2, <2>3 DEF MemTableNext
<1>3. ListInv /\ ArenaInv => MemTableSound BY ListInvSuffices, ArenaInvSuffices DEF MemTableSound
<1>. QED BY <1>1, <1>2, <1>3, PTL DEF MemTableSpec


-----------------------------------------------------------------------------
(* The invariant of the repair *)

Scanned == {t.number : t \in rp.tables}
Listed == rp.table_numbers \cup Scanned
Started == rp.pc # "idle"
Scanning == {"logs", "archive_log"}
Copying == {"copy", "archive_table", "finish", "rename"}
Describing == {"archive_manifests", "install", "current", "done"}

\* Sequence numbers with a bound, so that there is a greatest.
Bounded(entries) == \E b \in Nat : \A e \in entries : e.seq \in Nat /\ e.seq <= b

RepairTyped ==
    /\ DOMAIN rp = {"pc", "logs", "table_numbers", "tables", "manifests", "next", "at", "copy", "info"}
    /\ rp.pc \in {"idle", "failed"} \cup Scanning \cup Copying \cup Describing
    /\ faults \in Nat /\ (rp.pc = "failed" => faults > 0)
    /\ disk = << >> => ~Started /\ written = {}
    /\ disk # << >> => DOMAIN disk = {"tables", "logs", "descs", "current"}

\* The files of a directory: numbers below the next one, contents with bounds.
FilesSound ==
    /\ \E b \in Nat : \A n \in DOMAIN disk.tables \cup DOMAIN disk.logs : n \in Nat /\ n < b
    /\ Started => /\ rp.next \in Nat
                  /\ \A n \in DOMAIN disk.tables \cup DOMAIN disk.logs : n < rp.next
    /\ \A n \in DOMAIN disk.tables : Bounded(disk.tables[n].good) /\ Bounded(disk.tables[n].lost)
    /\ \A n \in DOMAIN disk.logs : Bounded(LogEntries(disk.logs[n]))

\* The logs still to be converted, and the one to be archived.
LogsSound ==
    Started =>
       /\ DOMAIN disk.logs = rp.logs
       /\ rp.pc = "archive_log" => rp.at \in rp.logs
       /\ rp.pc \notin Scanning => rp.logs = {}

\* The tables to be scanned and those that were.
TablesSound ==
    Started =>
       /\ rp.table_numbers \subseteq DOMAIN disk.tables
       /\ rp.table_numbers \cap Scanned = {}
       /\ \A t \in rp.tables :
             /\ t.number \in DOMAIN disk.tables /\ disk.tables[t.number].lost = {}
             /\ t.max_sequence \in Nat
             /\ \A e \in disk.tables[t.number].good : e.seq <= t.max_sequence
       /\ \E b \in Nat : \A t \in rp.tables : t.max_sequence <= b
       /\ rp.pc \in Describing => rp.table_numbers = {}

\* The table that is copied: where its entries are, step by step.
CopySound ==
    rp.pc \in Copying =>
       /\ rp.at \notin Listed /\ rp.at \in Nat /\ rp.at < rp.next
       /\ rp.info.number = rp.at /\ rp.info.max_sequence \in Nat
       /\ rp.pc \in {"copy", "archive_table"} =>
             /\ rp.at \in DOMAIN disk.tables
             /\ \A e \in disk.tables[rp.at].good : e.seq <= rp.info.max_sequence
       /\ rp.pc \in {"finish", "rename"} => rp.at \notin DOMAIN disk.tables
       /\ rp.pc # "copy" => rp.copy \in DOMAIN disk.tables /\ rp.copy \notin Listed /\ rp.copy # rp.at
       /\ rp.pc = "archive_table" =>
             disk.tables[rp.copy].good = {} /\ disk.tables[rp.copy].lost = disk.tables[rp.at].good
       /\ rp.pc = "finish" =>
             /\ disk.tables[rp.copy].good = {} /\ disk.tables[rp.copy].lost \subseteq archived
             /\ \A e \in disk.tables[rp.copy].lost : e.seq <= rp.info.max_sequence
       /\ rp.pc = "rename" =>
             /\ disk.tables[rp.copy].lost = {} /\ disk.tables[rp.copy].good \subseteq archived
             /\ \A e \in disk.tables[rp.copy].good : e.seq <= rp.info.max_sequence

\* The descriptor, from the edit to the file that CURRENT names.
DescriptorFollows ==
    /\ rp.pc \in Describing =>
          /\ rp.info.files = Scanned /\ rp.info.next = rp.next /\ rp.info.last \in Nat
          /\ \A t \in rp.tables : t.max_sequence <= rp.info.last
    /\ rp.pc \in {"current", "done"} => disk.descs[1] = rp.info
    /\ rp.pc = "done" => disk.current = 1

\* What was readable is on the disk or under lost/.
InLogs == UNION {LogEntries(disk.logs[n]) : n \in DOMAIN disk.logs}
NothingLost == \A e \in written : e \in archived \/ e \in OnDisk \/ e \in InLogs

\* Without a failure it is where the Repairer will find it.
InTable(e) ==
    \E n \in DOMAIN disk.tables :
        /\ e \in disk.tables[n].good
        /\ \/ ~Started \/ n \in Listed
           \/ rp.pc \in {"copy", "archive_table"} /\ n = rp.at
           \/ rp.pc = "rename" /\ n = rp.copy
InLog(e) ==
    \E n \in DOMAIN disk.logs :
        e \in LogEntries(disk.logs[n]) /\ ~(rp.pc = "archive_log" /\ n = rp.at)
InCopy(e) == rp.pc = "finish" /\ e \in disk.tables[rp.copy].lost
NothingForgotten == faults = 0 => \A e \in written : InTable(e) \/ InLog(e) \/ InCopy(e)

RepairState ==
    /\ FilesSound /\ LogsSound /\ TablesSound /\ CopySound /\ DescriptorFollows
    /\ NothingLost /\ NothingForgotten

RepairInv == RepairTyped /\ (disk # << >> => RepairState)

-----------------------------------------------------------------------------
(* Helpers of the repair *)

LEMMA MaxSeqBounds ==
    ASSUME NEW entries, Bounded(entries)
    PROVE  MaxSeq(entries) \in Nat /\ \A e \in entries : e.seq <= MaxSeq(entries)
<1>1. PICK b \in Nat : \A e \in entries : e.seq \in Nat /\ e.seq <= b BY DEF Bounded
<1> DEFINE seqs == {e.seq : e \in entries} \cup {0}
<1>2. seqs \subseteq Nat /\ seqs # {} /\ \A s \in seqs : s <= b BY <1>1
<1>3. \E m \in seqs : \A s \in seqs : s <= m
  <2> HIDE DEF seqs
  <2>. QED BY <1>2, GreatestNumber
<1>4. MaxSeq(entries) \in seqs /\ \A s \in seqs : s <= MaxSeq(entries) BY <1>3 DEF MaxSeq
<1>5. \A e \in entries : e.seq \in seqs OBVIOUS
<1> HIDE DEF seqs
<1>. QED BY <1>2, <1>4, <1>5

\* What the reader returns of a log has a greatest sequence number, and holds
\* every record without damage.
LEMMA LogBounded ==
    ASSUME NEW log, IsFiniteSet(DOMAIN log),
           \A i \in DOMAIN log : /\ IsEntry(log[i].entry)
                                 /\ log[i].damage \in {"none", "changed", "unframed"}
    PROVE  /\ Bounded(LogEntries(log))
           /\ \A i \in DOMAIN log : log[i].damage = "none" => log[i].entry \in LogEntries(log)
<1> DEFINE v == [i \in DOMAIN log |-> log[i].entry.seq]
<1>1. v \in [DOMAIN log -> Nat] BY DEF IsEntry
<1> HIDE DEF v
<1>2. PICK b \in Nat : \A i \in DOMAIN log : v[i] <= b BY <1>1, FiniteBounded
<1>3. \A i \in DOMAIN log : log[i].entry.seq \in Nat /\ log[i].entry.seq <= b BY <1>2 DEF v, IsEntry
<1>4. PICK d \in Nat : b <= d /\ BadSequence <= d
  <2>1. CASE b <= BadSequence BY <2>1, RepairAssumption
  <2>2. CASE ~(b <= BadSequence) BY <2>2, RepairAssumption
  <2>. QED BY <2>1, <2>2
<1>5. ASSUME NEW e \in LogEntries(log) PROVE e.seq \in Nat /\ e.seq <= d
  <2>1. PICK i \in DOMAIN log : e \in ReadsAs(log[i]) BY <1>5 DEF LogEntries
  <2>2. PICK r : r = log[i] OBVIOUS
  <2>3. r.damage = "none" \/ r.damage = "changed" \/ r.damage = "unframed" BY <2>2
  <2>4. CASE r.damage = "none"
    <3>1. e = r.entry BY <2>1, <2>2, <2>4 DEF ReadsAs
    <3>. QED BY <3>1, <2>2, <1>3, <1>4
  <2>5. CASE r.damage = "changed"
    <3>1. e = [r.entry EXCEPT !.seq = BadSequence] BY <2>1, <2>2, <2>5 DEF ReadsAs
    <3>2. DOMAIN r.entry = {"key", "seq"} BY <2>2 DEF IsEntry
    <3>3. e.seq = BadSequence BY <3>1, <3>2
    <3>. QED BY <3>3, <1>4, RepairAssumption
  <2>6. CASE r.damage = "unframed" BY <2>1, <2>2, <2>6 DEF ReadsAs
  <2>. QED BY <2>3, <2>4, <2>5, <2>6
<1>6. ASSUME NEW i \in DOMAIN log, log[i].damage = "none" PROVE log[i].entry \in LogEntries(log)
  <2>1. PICK r : r = log[i] OBVIOUS
  <2>2. ReadsAs(r) = {r.entry} BY <1>6, <2>1 DEF ReadsAs
  <2>3. log[i].entry \in ReadsAs(log[i]) BY <2>1, <2>2
  <2>. QED BY <2>3 DEF LogEntries
<1>. QED BY <1>4, <1>5, <1>6 DEF Bounded

LEMMA FiniteIsBounded ==
    ASSUME NEW entries, IsFiniteSet(entries), \A e \in entries : IsEntry(e)
    PROVE  Bounded(entries)
<1> DEFINE v == [e \in entries |-> e.seq]
<1>1. v \in [entries -> Nat] BY DEF IsEntry
<1> HIDE DEF v
<1>2. PICK b \in Nat : \A e \in entries : v[e] <= b BY <1>1, FiniteBounded
<1>. QED BY <1>2 DEF v, IsEntry, Bounded

\* A directory that is to be repaired.
LEMMA FindBrokenKeeps ==
    ASSUME RepairInv, NEW d \in Directories, FindBroken(d)
    PROVE  RepairInv'
<1>1. RepairTyped /\ disk = << >> /\ ~Started BY DEF RepairInv, RepairTyped, FindBroken
<1>2. /\ DOMAIN disk' = {"tables", "logs", "descs", "current"} /\ disk' # << >>
      /\ disk'.tables = d.tables /\ disk'.logs = d.logs
      /\ written' = Readable0(d) /\ rp' = rp /\ faults' = faults /\ archived' = archived
  BY DEF FindBroken
<1>3. RepairTyped' /\ ~Started' BY <1>1, <1>2 DEF RepairTyped, Started
<1>4. /\ DOMAIN d.tables \cup DOMAIN d.logs \subseteq Nat
      /\ IsFiniteSet(DOMAIN d.tables \cup DOMAIN d.logs)
      /\ \A n \in DOMAIN d.tables : Bounded(d.tables[n].good) /\ Bounded(d.tables[n].lost)
      /\ \A n \in DOMAIN d.logs :
            /\ IsFiniteSet(DOMAIN d.logs[n])
            /\ \A i \in DOMAIN d.logs[n] : /\ IsEntry(d.logs[n][i].entry)
                                           /\ d.logs[n][i].damage \in {"none", "changed", "unframed"}
  <2>1. ASSUME NEW n \in DOMAIN d.tables
        PROVE  Bounded(d.tables[n].good) /\ Bounded(d.tables[n].lost)
    <3>1. \A entries \in {d.tables[n].good, d.tables[n].lost} :
             IsFiniteSet(entries) /\ \A e \in entries : IsEntry(e)
      BY RepairAssumption
    <3>2. PICK g, l : g = d.tables[n].good /\ l = d.tables[n].lost OBVIOUS
    <3>3. Bounded(g) BY <3>1, <3>2, FiniteIsBounded
    <3>4. Bounded(l) BY <3>1, <3>2, FiniteIsBounded
    <3>. QED BY <3>2, <3>3, <3>4
  <2>. QED BY <2>1, RepairAssumption
<1>5. \E b \in Nat : \A n \in DOMAIN d.tables \cup DOMAIN d.logs : n \in Nat /\ n < b
  <2>1. PICK numbers : numbers = DOMAIN d.tables \cup DOMAIN d.logs OBVIOUS
  <2>0. numbers \subseteq Nat BY <2>1, <1>4
  <2>2. [n \in numbers |-> n] \in [numbers -> Nat] BY <2>0
  <2>3. IsFiniteSet(numbers) BY <2>1, <1>4
  <2>4. PICK b \in Nat : \A n \in numbers : [m \in numbers |-> m][n] <= b BY <2>2, <2>3, FiniteBounded
  <2>5. ASSUME NEW n \in numbers PROVE n \in Nat /\ n < b + 1
    <3>1. [m \in numbers |-> m][n] = n OBVIOUS
    <3>2. n \in Nat /\ n <= b BY <3>1, <2>0, <2>4
    <3>. QED BY <3>2
  <2>. QED BY <2>1, <2>5
<1>6. \A n \in DOMAIN d.logs :
         /\ Bounded(LogEntries(d.logs[n]))
         /\ \A i \in DOMAIN d.logs[n] : d.logs[n][i].damage = "none" =>
               d.logs[n][i].entry \in LogEntries(d.logs[n])
  BY <1>4, LogBounded
<1>7. FilesSound' BY <1>2, <1>3, <1>4, <1>5, <1>6 DEF FilesSound
<1>8. LogsSound' /\ TablesSound' /\ CopySound' /\ DescriptorFollows'
  BY <1>3 DEF LogsSound, TablesSound, CopySound, DescriptorFollows, Started, Copying, Describing
<1>9. \A e \in written' : (\E n \in DOMAIN d.tables : e \in d.tables[n].good)
                          \/ (\E n \in DOMAIN d.logs : e \in LogEntries(d.logs[n]))
  BY <1>2, <1>6 DEF Readable0
<1>10. NothingLost' BY <1>2, <1>9 DEF NothingLost, OnDisk, InLogs
<1>11. NothingForgotten'
  BY <1>2, <1>3, <1>9 DEF NothingForgotten, InTable, InLog, Started
<1>. QED BY <1>2, <1>3, <1>7, <1>8, <1>10, <1>11 DEF RepairInv, RepairState

\* The Repairer starts with every file there is.
LEMMA FindFilesKeeps ==
    ASSUME RepairInv, FindFiles
    PROVE  RepairInv'
<1>1. RepairTyped /\ RepairState /\ disk # << >> /\ rp.pc = "idle" BY DEF RepairInv, FindFiles
<1>2. disk' = disk /\ archived' = archived /\ faults' = faults /\ written' = written BY DEF FindFiles
<1> DEFINE numbers == DOMAIN disk.tables \cup DOMAIN disk.logs
<1>3. /\ DOMAIN rp' = DOMAIN rp /\ rp'.pc = "logs" /\ rp'.logs = DOMAIN disk.logs
      /\ rp'.table_numbers = DOMAIN disk.tables /\ rp'.tables = {}
      /\ rp'.next = IF numbers = {} THEN 1
                    ELSE 1 + CHOOSE n \in numbers : \A m \in numbers : m <= n
  BY <1>1 DEF FindFiles, Nobody, RepairTyped
<1>4. rp'.next \in Nat /\ \A n \in numbers : n < rp'.next
  <2>1. CASE numbers = {} BY <2>1, <1>3
  <2>2. CASE numbers # {}
    <3>1. PICK b \in Nat : \A n \in numbers : n \in Nat /\ n < b BY <1>1 DEF RepairState, FilesSound
    <3>2. numbers \subseteq Nat /\ \A n \in numbers : n <= b BY <3>1
    <3> HIDE DEF numbers
    <3>3. \E m \in numbers : \A n \in numbers : n <= m BY <2>2, <3>1, <3>2, GreatestNumber
    <3>4. PICK m : m = CHOOSE n \in numbers : \A k \in numbers : k <= n OBVIOUS
    <3>5. m \in numbers /\ \A n \in numbers : n <= m BY <3>3, <3>4
    <3>6. rp'.next = 1 + m BY <1>3, <2>2, <3>4
    <3>. QED BY <3>2, <3>5, <3>6
  <2>. QED BY <2>1, <2>2
<1>5. Scanned' = {} BY <1>3 DEF Scanned
<1>6. RepairTyped' BY <1>1, <1>2, <1>3 DEF RepairTyped, Started, Scanning
<1>7. FilesSound' BY <1>1, <1>2, <1>3, <1>4 DEF RepairState, FilesSound
<1>8. LogsSound' BY <1>2, <1>3 DEF LogsSound, Scanning
<1>9. TablesSound'
  <2>1. rp'.pc \notin Describing BY <1>3 DEF Describing
  <2>2. \E b \in Nat : \A t \in {} : t.max_sequence <= b OBVIOUS
  <2>. QED BY <2>1, <2>2, <1>2, <1>3, <1>5 DEF TablesSound
<1>10. CopySound' /\ DescriptorFollows' BY <1>3 DEF CopySound, DescriptorFollows, Copying, Describing
<1>11. NothingLost' BY <1>1, <1>2 DEF RepairState, NothingLost, OnDisk, InLogs
<1>12. NothingForgotten'
  BY <1>1, <1>2, <1>3 DEF RepairState, NothingForgotten, InTable, InLog, InCopy, Listed
<1>. QED BY <1>1, <1>2, <1>6, <1>7, <1>8, <1>9, <1>10, <1>11, <1>12 DEF RepairInv, RepairState


\* A log becomes a table, listed for the scan, before it is archived.
LEMMA ConvertLogKeeps ==
    ASSUME RepairInv, NEW log, NEW ok \in BOOLEAN, ConvertLogToTable(log, ok)
    PROVE  RepairInv'
<1>1. RepairTyped /\ Started /\ rp.pc = "logs" /\ log \in rp.logs
  BY DEF RepairInv, RepairTyped, ConvertLogToTable, Started
<1>2. disk # << >> /\ RepairState BY <1>1 DEF RepairInv, RepairTyped
<1>3. PICK entries : entries = LogEntries(disk.logs[log]) OBVIOUS
<1>4. PICK built \in BOOLEAN : built = (ok /\ entries # {}) OBVIOUS
<1>5. /\ archived' = archived /\ written' = written
      /\ faults' \in Nat /\ (faults' = 0 => faults = 0 /\ ok)
  BY <1>1 DEF ConvertLogToTable, RepairFault, RepairTyped
<1>6. DOMAIN disk = {"tables", "logs", "descs", "current"} BY <1>1, <1>2 DEF RepairTyped
<1>7. /\ DOMAIN disk' = {"tables", "logs", "descs", "current"} /\ disk' # << >>
      /\ disk'.logs = disk.logs
      /\ disk'.tables = IF built THEN Adding(disk.tables, rp.next, [good |-> entries, lost |-> {}])
                        ELSE disk.tables
  <2>1. disk' = IF built THEN [disk EXCEPT !.tables = Adding(disk.tables, rp.next, [good |-> entries, lost |-> {}])]
                ELSE disk
    BY <1>3, <1>4 DEF ConvertLogToTable
  <2>2. CASE built BY <2>1, <2>2, <1>6
  <2>3. CASE ~built BY <2>1, <2>3, <1>2, <1>6
  <2>. QED BY <2>2, <2>3
<1>8. /\ DOMAIN rp' = DOMAIN rp /\ rp'.pc = "archive_log" /\ rp'.at = log /\ rp'.next = rp.next + 1
      /\ rp'.table_numbers = IF built THEN rp.table_numbers \cup {rp.next} ELSE rp.table_numbers
      /\ rp'.logs = rp.logs /\ rp'.tables = rp.tables
  BY <1>1, <1>3, <1>4 DEF ConvertLogToTable, RepairTyped
<1>9. PICK n \in Nat : n = rp.next BY <1>1, <1>2 DEF RepairState, FilesSound
<1>10. \A m \in DOMAIN disk.tables \cup DOMAIN disk.logs : m \in Nat /\ m < n
  BY <1>1, <1>2, <1>9 DEF RepairState, FilesSound
<1>11. n \notin DOMAIN disk.tables BY <1>10
<1>12. /\ \A m \in DOMAIN disk.tables : m \in DOMAIN disk'.tables /\ disk'.tables[m] = disk.tables[m]
       /\ built => /\ DOMAIN disk'.tables = DOMAIN disk.tables \cup {n}
                   /\ disk'.tables[n].good = entries /\ disk'.tables[n].lost = {}
       /\ ~built => disk'.tables = disk.tables
  <2>1. CASE built
    <3>1. PICK T, v : T = disk.tables /\ v = [good |-> entries, lost |-> {}] OBVIOUS
    <3>2. disk'.tables = Adding(T, n, v) BY <2>1, <3>1, <1>7, <1>9
    <3>3. v.good = entries /\ v.lost = {} BY <3>1
    <3>4. disk'.tables = [m \in DOMAIN T \cup {n} |-> IF m = n THEN v ELSE T[m]] BY <3>2 DEF Adding
    <3>5. n \notin DOMAIN T BY <3>1, <1>11
    <3>. QED BY <2>1, <3>1, <3>3, <3>4, <3>5
  <2>2. CASE ~built BY <2>2, <1>7
  <2>. QED BY <2>1, <2>2
<1>13. Scanned' = Scanned /\ Listed \subseteq Listed' /\ (built => n \in Listed')
  BY <1>8, <1>9 DEF Scanned, Listed
<1>14. Bounded(entries) BY <1>1, <1>2, <1>3 DEF RepairState, FilesSound, LogsSound
<1>15. RepairTyped' BY <1>1, <1>5, <1>7, <1>8 DEF RepairTyped, Scanning
<1>16. FilesSound'
  <2>1. \A m \in DOMAIN disk'.tables \cup DOMAIN disk'.logs : m \in Nat /\ m < n + 1
    <3>1. \A m \in DOMAIN disk'.tables : m = n \/ m \in DOMAIN disk.tables BY <1>12
    <3>. QED BY <3>1, <1>7, <1>10
  <2>2. ASSUME NEW m \in DOMAIN disk'.tables
        PROVE  Bounded(disk'.tables[m].good) /\ Bounded(disk'.tables[m].lost)
    <3>1. CASE m \in DOMAIN disk.tables BY <3>1, <1>2, <1>12 DEF RepairState, FilesSound
    <3>2. CASE m \notin DOMAIN disk.tables
      <4>1. disk'.tables[m].good = entries /\ disk'.tables[m].lost = {} BY <3>2, <1>12
      <4>. QED BY <4>1, <1>14 DEF Bounded
    <3>. QED BY <3>1, <3>2
  <2>3. \A m \in DOMAIN disk'.logs : Bounded(LogEntries(disk'.logs[m]))
    BY <1>2, <1>7 DEF RepairState, FilesSound
  <2>. QED BY <2>1, <2>2, <2>3, <1>8, <1>9 DEF FilesSound
<1>17. LogsSound' BY <1>1, <1>2, <1>7, <1>8 DEF RepairState, LogsSound, Scanning
<1>18. TablesSound'
  <2>1. rp'.table_numbers \subseteq DOMAIN disk'.tables
    BY <1>1, <1>2, <1>8, <1>9, <1>12 DEF RepairState, TablesSound
  <2>2. \A t \in rp.tables : t.number \in DOMAIN disk.tables /\ t.number # n
    BY <1>1, <1>2, <1>11 DEF RepairState, TablesSound
  <2>3. rp'.table_numbers \cap Scanned' = {}
    BY <2>2, <1>1, <1>2, <1>8, <1>9, <1>13 DEF RepairState, TablesSound, Scanned
  <2>4. rp'.pc \notin Describing BY <1>8 DEF Describing
  <2>. QED BY <2>1, <2>2, <2>3, <2>4, <1>1, <1>2, <1>8, <1>12 DEF RepairState, TablesSound
<1>19. CopySound' /\ DescriptorFollows' BY <1>8 DEF CopySound, DescriptorFollows, Copying, Describing
<1>20. NothingLost'
  <2>1. OnDisk \subseteq OnDisk' BY <1>12 DEF OnDisk
  <2>2. InLogs' = InLogs BY <1>7 DEF InLogs
  <2>. QED BY <2>1, <2>2, <1>2, <1>5 DEF RepairState, NothingLost
<1>21. NothingForgotten'
  <2> SUFFICES ASSUME faults' = 0, NEW e \in written PROVE InTable(e)' \/ InLog(e)' \/ InCopy(e)'
    BY <1>5 DEF NothingForgotten
  <2>1. InTable(e) \/ InLog(e) BY <1>1, <1>2, <1>5 DEF RepairState, NothingForgotten, InCopy
  <2>2. CASE InTable(e)
    <3>1. PICK m \in DOMAIN disk.tables : e \in disk.tables[m].good /\ m \in Listed
      BY <2>2, <1>1 DEF InTable
    <3>. QED BY <3>1, <1>12, <1>13 DEF InTable
  <2>3. CASE InLog(e)
    <3>1. PICK m \in DOMAIN disk.logs : e \in LogEntries(disk.logs[m]) BY <2>3 DEF InLog
    <3>2. CASE m = log
      <4>1. built /\ e \in entries BY <3>1, <3>2, <1>3, <1>4, <1>5
      <4>. QED BY <4>1, <1>12, <1>13 DEF InTable
    <3>3. CASE m # log BY <3>1, <3>3, <1>7, <1>8 DEF InLog
    <3>. QED BY <3>2, <3>3
  <2>. QED BY <2>1, <2>2, <2>3
<1>. QED BY <1>7, <1>15, <1>16, <1>17, <1>18, <1>19, <1>20, <1>21 DEF RepairInv, RepairState

LEMMA ArchiveLogKeeps ==
    ASSUME RepairInv, ArchiveLog
    PROVE  RepairInv'
<1>1. RepairTyped /\ Started /\ rp.pc = "archive_log"
  BY DEF RepairInv, RepairTyped, ArchiveLog, Started
<1>2. disk # << >> /\ RepairState BY <1>1 DEF RepairInv, RepairTyped
<1>3. PICK a : a = rp.at OBVIOUS
<1>4. a \in rp.logs /\ DOMAIN disk.logs = rp.logs BY <1>1, <1>2, <1>3 DEF RepairState, LogsSound
<1>5. /\ archived' = archived \cup LogEntries(disk.logs[a]) /\ written' = written /\ faults' = faults
  BY <1>3 DEF ArchiveLog
<1>6. DOMAIN disk = {"tables", "logs", "descs", "current"} BY <1>1, <1>2 DEF RepairTyped
<1>7. /\ DOMAIN disk' = {"tables", "logs", "descs", "current"} /\ disk' # << >>
      /\ disk'.tables = disk.tables /\ disk'.logs = Removing(disk.logs, a)
  BY <1>3, <1>6 DEF ArchiveLog
<1>8. /\ DOMAIN disk'.logs = DOMAIN disk.logs \ {a}
      /\ \A m \in DOMAIN disk'.logs : disk'.logs[m] = disk.logs[m]
  <2>1. PICK L : L = disk.logs OBVIOUS
  <2>2. disk'.logs = Removing(L, a) BY <2>1, <1>7
  <2>3. disk'.logs = [m \in DOMAIN L \ {a} |-> L[m]] BY <2>2 DEF Removing
  <2>. QED BY <2>1, <2>3
<1>9. /\ DOMAIN rp' = DOMAIN rp /\ rp'.pc = "logs" /\ rp'.logs = rp.logs \ {a}
      /\ rp'.table_numbers = rp.table_numbers /\ rp'.tables = rp.tables /\ rp'.next = rp.next
  BY <1>1, <1>3 DEF ArchiveLog, RepairTyped
<1>10. Scanned' = Scanned /\ Listed' = Listed BY <1>9 DEF Scanned, Listed
<1>11. RepairTyped' BY <1>1, <1>5, <1>7, <1>9 DEF RepairTyped, Scanning
<1>12. FilesSound' BY <1>1, <1>2, <1>7, <1>8, <1>9 DEF RepairState, FilesSound
<1>13. LogsSound' BY <1>4, <1>8, <1>9 DEF LogsSound, Scanning
<1>14. TablesSound'
  <2>1. rp'.pc \notin Describing BY <1>9 DEF Describing
  <2>. QED BY <2>1, <1>1, <1>2, <1>7, <1>9, <1>10 DEF RepairState, TablesSound
<1>15. CopySound' /\ DescriptorFollows' BY <1>9 DEF CopySound, DescriptorFollows, Copying, Describing
<1>16. NothingLost'
  <2> SUFFICES ASSUME NEW e \in written PROVE e \in archived' \/ e \in OnDisk' \/ e \in InLogs'
    BY <1>5 DEF NothingLost
  <2>1. e \in archived \/ e \in OnDisk \/ e \in InLogs BY <1>2 DEF RepairState, NothingLost
  <2>2. OnDisk' = OnDisk BY <1>7 DEF OnDisk
  <2>3. ASSUME e \in InLogs PROVE e \in archived' \/ e \in InLogs'
    <3>1. PICK m \in DOMAIN disk.logs : e \in LogEntries(disk.logs[m]) BY <2>3 DEF InLogs
    <3>2. CASE m = a BY <3>1, <3>2, <1>5
    <3>3. CASE m # a BY <3>1, <3>3, <1>8 DEF InLogs
    <3>. QED BY <3>2, <3>3
  <2>. QED BY <2>1, <2>2, <2>3, <1>5
<1>17. NothingForgotten'
  <2> SUFFICES ASSUME faults = 0, NEW e \in written PROVE InTable(e)' \/ InLog(e)'
    BY <1>5 DEF NothingForgotten
  <2>1. InTable(e) \/ InLog(e) BY <1>1, <1>2 DEF RepairState, NothingForgotten, InCopy
  <2>2. CASE InTable(e)
    <3>1. PICK m \in DOMAIN disk.tables : e \in disk.tables[m].good /\ m \in Listed
      BY <2>2, <1>1 DEF InTable
    <3>. QED BY <3>1, <1>7, <1>10 DEF InTable
  <2>3. CASE InLog(e)
    <3>1. PICK m \in DOMAIN disk.logs : e \in LogEntries(disk.logs[m]) /\ m # a
      BY <2>3, <1>1, <1>3 DEF InLog
    <3>. QED BY <3>1, <1>8, <1>9 DEF InLog
  <2>. QED BY <2>1, <2>2, <2>3
<1>. QED BY <1>7, <1>11, <1>12, <1>13, <1>14, <1>15, <1>16, <1>17 DEF RepairInv, RepairState


\* A table is scanned: it is good, or it is to be copied.
LEMMA ScanTableKeeps ==
    ASSUME RepairInv, NEW n, ScanTable(n)
    PROVE  RepairInv'
<1>1. /\ RepairTyped /\ Started /\ rp.pc = "logs" /\ rp.logs = {} /\ n \in rp.table_numbers
  BY DEF RepairInv, RepairTyped, ScanTable, Started
<1>2. disk # << >> /\ RepairState BY <1>1 DEF RepairInv, RepairTyped
<1>3. archived' = archived /\ written' = written /\ faults' = faults /\ disk' = disk BY DEF ScanTable
<1>4. n \in DOMAIN disk.tables /\ n \in Nat /\ n < rp.next
  BY <1>1, <1>2 DEF RepairState, TablesSound, FilesSound
<1>5. PICK s \in Nat : s = MaxSeq(disk.tables[n].good) /\ \A e \in disk.tables[n].good : e.seq <= s
  <2>1. PICK g : g = disk.tables[n].good OBVIOUS
  <2>2. Bounded(g) BY <2>1, <1>2, <1>4 DEF RepairState, FilesSound
  <2>. QED BY <2>1, <2>2, MaxSeqBounds
<1>6. PICK i : i = [number |-> n, max_sequence |-> s] OBVIOUS
<1>7. Info(n) = i /\ i.number = n /\ i.max_sequence = s BY <1>5, <1>6 DEF Info
<1>8. /\ DOMAIN rp' = DOMAIN rp /\ rp'.logs = {} /\ rp'.table_numbers = rp.table_numbers \ {n}
      /\ rp'.next = rp.next
  BY <1>1 DEF ScanTable, RepairTyped
<1>9. \/ /\ disk.tables[n].lost = {}
         /\ rp'.pc = "logs" /\ rp'.tables = rp.tables \cup {i}
      \/ /\ disk.tables[n].lost # {}
         /\ rp'.pc = "copy" /\ rp'.tables = rp.tables /\ rp'.at = n /\ rp'.info = i
  BY <1>1, <1>7 DEF ScanTable, RepairTyped
<1>10. n \notin Scanned BY <1>1, <1>2 DEF RepairState, TablesSound
<1>11. \/ rp'.pc = "logs" /\ Scanned' = Scanned \cup {n} /\ Listed' = Listed
       \/ rp'.pc = "copy" /\ Scanned' = Scanned /\ Listed' = Listed \ {n}
  <2>1. CASE rp'.pc = "logs" /\ rp'.tables = rp.tables \cup {i}
    <3>1. Scanned' = Scanned \cup {n} BY <2>1, <1>7 DEF Scanned
    <3>. QED BY <2>1, <3>1, <1>1, <1>8 DEF Listed
  <2>2. CASE rp'.pc = "copy" /\ rp'.tables = rp.tables
    <3>1. Scanned' = Scanned BY <2>2 DEF Scanned
    <3>. QED BY <2>2, <3>1, <1>8, <1>10 DEF Listed
  <2>. QED BY <2>1, <2>2, <1>9
<1>12. RepairTyped' BY <1>1, <1>3, <1>8, <1>9 DEF RepairTyped, Started, Scanning, Copying
<1>13. FilesSound'
  BY <1>1, <1>2, <1>3, <1>8 DEF RepairState, FilesSound
<1>14. LogsSound' BY <1>1, <1>2, <1>3, <1>8, <1>9 DEF RepairState, LogsSound, Scanning
<1>15. TablesSound'
  <2>1. rp'.pc \notin Describing BY <1>9 DEF Describing
  <2>2. rp'.table_numbers \cap Scanned' = {}
    BY <1>1, <1>2, <1>8, <1>11 DEF RepairState, TablesSound
  <2>3. PICK b \in Nat : \A t \in rp.tables : t.max_sequence <= b BY <1>1, <1>2 DEF RepairState, TablesSound
  <2>4. \E c \in Nat : \A t \in rp'.tables : t.max_sequence <= c
    <3>1. \A t \in rp.tables : t.max_sequence \in Nat BY <1>1, <1>2 DEF RepairState, TablesSound
    <3>2. PICK c \in Nat : b <= c /\ s <= c
      <4>1. CASE b <= s BY <4>1
      <4>2. CASE ~(b <= s) BY <4>2
      <4>. QED BY <4>1, <4>2
    <3>3. ASSUME NEW t \in rp'.tables PROVE t.max_sequence <= c
      <4>1. CASE t \in rp.tables BY <4>1, <3>1, <3>2, <2>3
      <4>2. CASE t = i BY <4>2, <3>2, <1>7
      <4>. QED BY <4>1, <4>2, <1>9
    <3>. QED BY <3>3
  <2>5. ASSUME NEW t \in rp'.tables
        PROVE  /\ t.number \in DOMAIN disk.tables /\ disk.tables[t.number].lost = {}
               /\ t.max_sequence \in Nat
               /\ \A e \in disk.tables[t.number].good : e.seq <= t.max_sequence
    <3>1. CASE t \in rp.tables BY <3>1, <1>1, <1>2 DEF RepairState, TablesSound
    <3>2. CASE t \notin rp.tables
      <4>1. t = i /\ disk.tables[n].lost = {} BY <3>2, <1>9
      <4>. QED BY <4>1, <1>4, <1>5, <1>7
    <3>. QED BY <3>1, <3>2
  <2>6. rp'.table_numbers \subseteq DOMAIN disk.tables BY <1>1, <1>2, <1>8 DEF RepairState, TablesSound
  <2>. QED BY <2>1, <2>2, <2>4, <2>5, <2>6, <1>3 DEF TablesSound
<1>16. CopySound'
  <2> SUFFICES ASSUME rp'.pc = "copy" PROVE CopySound' BY <1>9 DEF CopySound, Copying
  <2>1. n \notin Listed' BY <1>11
  <2>2. rp'.at = n /\ rp'.info = i BY <1>9
  <2>. QED BY <2>1, <2>2, <1>3, <1>4, <1>5, <1>7, <1>8 DEF CopySound
<1>17. DescriptorFollows' BY <1>9 DEF DescriptorFollows, Describing
<1>18. NothingLost' BY <1>2, <1>3 DEF RepairState, NothingLost, OnDisk, InLogs
<1>19. NothingForgotten'
  <2> SUFFICES ASSUME faults = 0, NEW e \in written PROVE InTable(e)'
    BY <1>3 DEF NothingForgotten
  <2>1. InTable(e)
    <3>1. DOMAIN disk.logs = {} BY <1>1, <1>2 DEF RepairState, LogsSound
    <3>. QED BY <3>1, <1>1, <1>2 DEF RepairState, NothingForgotten, InCopy, InLog
  <2>2. PICK m \in DOMAIN disk.tables : e \in disk.tables[m].good /\ m \in Listed
    BY <2>1, <1>1 DEF InTable
  <2>. QED BY <2>2, <1>3, <1>9, <1>11 DEF InTable
<1>. QED BY <1>2, <1>3, <1>12, <1>13, <1>14, <1>15, <1>16, <1>17, <1>18, <1>19 DEF RepairInv, RepairState

\* The copy of a damaged table is begun.
LEMMA RepairTableCopyKeeps ==
    ASSUME RepairInv, NEW ok \in BOOLEAN, RepairTableCopy(ok)
    PROVE  RepairInv'
<1>1. RepairTyped /\ Started /\ rp.pc = "copy" BY DEF RepairInv, RepairTyped, RepairTableCopy, Started
<1>2. disk # << >> /\ RepairState BY <1>1 DEF RepairInv, RepairTyped
<1>3. /\ archived' = archived /\ written' = written
      /\ faults' \in Nat /\ (faults' = 0 => faults = 0 /\ ok)
  BY <1>1 DEF RepairTableCopy, RepairFault, RepairTyped
<1>4. DOMAIN disk = {"tables", "logs", "descs", "current"} BY <1>1, <1>2 DEF RepairTyped
<1>5. PICK n \in Nat : n = rp.next BY <1>1, <1>2 DEF RepairState, FilesSound
<1>6. \A m \in DOMAIN disk.tables \cup DOMAIN disk.logs : m \in Nat /\ m < n
  BY <1>1, <1>2, <1>5 DEF RepairState, FilesSound
<1>7. n \notin DOMAIN disk.tables BY <1>6
<1>8. PICK a, good : a = rp.at /\ good = disk.tables[rp.at].good OBVIOUS
<1>9. /\ a \in DOMAIN disk.tables /\ a \notin Listed /\ a \in Nat /\ a < n
      /\ rp.info.number = a /\ rp.info.max_sequence \in Nat
      /\ \A e \in good : e.seq <= rp.info.max_sequence
  BY <1>1, <1>2, <1>5, <1>8 DEF RepairState, CopySound, Copying
<1>10. /\ DOMAIN disk' = {"tables", "logs", "descs", "current"} /\ disk' # << >> /\ disk'.logs = disk.logs
       /\ \A m \in DOMAIN disk.tables : m \in DOMAIN disk'.tables /\ disk'.tables[m] = disk.tables[m]
       /\ ok => /\ DOMAIN disk'.tables = DOMAIN disk.tables \cup {n}
                /\ disk'.tables[n].good = {} /\ disk'.tables[n].lost = good
       /\ ~ok => disk'.tables = disk.tables
  <2>1. CASE ok
    <3>1. PICK T, v : T = disk.tables /\ v = [good |-> {}, lost |-> good] OBVIOUS
    <3>2. disk' = [disk EXCEPT !.tables = Adding(T, n, v)] BY <2>1, <3>1, <1>5, <1>8 DEF RepairTableCopy
    <3>3. v.good = {} /\ v.lost = good BY <3>1
    <3>4. /\ DOMAIN disk' = {"tables", "logs", "descs", "current"} /\ disk' # << >> /\ disk'.logs = disk.logs
          /\ disk'.tables = [m \in DOMAIN T \cup {n} |-> IF m = n THEN v ELSE T[m]]
      <4>1. PICK U : U = Adding(T, n, v) OBVIOUS
      <4>2. disk' = [disk EXCEPT !.tables = U] BY <3>2, <4>1
      <4>3. /\ DOMAIN disk' = {"tables", "logs", "descs", "current"} /\ disk' # << >>
            /\ disk'.logs = disk.logs /\ disk'.tables = U
        BY <4>2, <1>4
      <4>. QED BY <4>1, <4>3 DEF Adding
    <3>5. n \notin DOMAIN T BY <3>1, <1>7
    <3>. QED BY <2>1, <3>1, <3>3, <3>4, <3>5
  <2>2. CASE ~ok
    <3>1. disk' = disk BY <2>2 DEF RepairTableCopy
    <3>. QED BY <2>2, <3>1, <1>2, <1>4
  <2>. QED BY <2>1, <2>2
<1>11. /\ DOMAIN rp' = DOMAIN rp /\ rp'.pc = (IF ok THEN "archive_table" ELSE "logs") /\ rp'.copy = n
       /\ rp'.next = n + 1 /\ rp'.logs = rp.logs /\ rp'.table_numbers = rp.table_numbers
       /\ rp'.tables = rp.tables /\ rp'.at = a /\ rp'.info = rp.info
  BY <1>1, <1>5, <1>8 DEF RepairTableCopy, RepairTyped
<1>12. Scanned' = Scanned /\ Listed' = Listed BY <1>11 DEF Scanned, Listed
<1>13. RepairTyped' BY <1>1, <1>3, <1>10, <1>11 DEF RepairTyped, Started, Scanning, Copying
<1>14. FilesSound'
  <2>1. \A m \in DOMAIN disk'.tables \cup DOMAIN disk'.logs : m \in Nat /\ m < n + 1
    <3>1. \A m \in DOMAIN disk'.tables : m = n \/ m \in DOMAIN disk.tables BY <1>10
    <3>. QED BY <3>1, <1>6, <1>10
  <2>2. Bounded(good) /\ Bounded({})
    <3>1. Bounded({}) BY DEF Bounded
    <3>. QED BY <3>1, <1>2, <1>8, <1>9 DEF RepairState, FilesSound
  <2>3. ASSUME NEW m \in DOMAIN disk'.tables
        PROVE  Bounded(disk'.tables[m].good) /\ Bounded(disk'.tables[m].lost)
    <3>1. CASE m \in DOMAIN disk.tables BY <3>1, <1>2, <1>10 DEF RepairState, FilesSound
    <3>2. CASE m \notin DOMAIN disk.tables BY <3>2, <2>2, <1>10
    <3>. QED BY <3>1, <3>2
  <2>4. \A m \in DOMAIN disk'.logs : Bounded(LogEntries(disk'.logs[m]))
    BY <1>2, <1>10 DEF RepairState, FilesSound
  <2>. QED BY <2>1, <2>3, <2>4, <1>11 DEF FilesSound
<1>15. rp.logs = {} /\ DOMAIN disk.logs = {} BY <1>1, <1>2 DEF RepairState, LogsSound, Scanning
<1>16. LogsSound' BY <1>10, <1>11, <1>15 DEF LogsSound
<1>17. TablesSound'
  <2>1. rp'.pc \notin Describing BY <1>11 DEF Describing
  <2>2. /\ rp.table_numbers \subseteq DOMAIN disk.tables /\ rp.table_numbers \cap Scanned = {}
        /\ \A t \in rp.tables :
             /\ t.number \in DOMAIN disk.tables /\ disk.tables[t.number].lost = {}
             /\ t.max_sequence \in Nat
             /\ \A e \in disk.tables[t.number].good : e.seq <= t.max_sequence
        /\ \E b \in Nat : \A t \in rp.tables : t.max_sequence <= b
    BY <1>1, <1>2 DEF RepairState, TablesSound
  <2>. QED BY <2>1, <2>2, <1>10, <1>11, <1>12 DEF TablesSound
<1>18. CopySound'
  <2> SUFFICES ASSUME ok PROVE CopySound' BY <1>11 DEF CopySound, Copying
  <2>1. rp'.pc = "archive_table" BY <1>11
  <2>2. n \notin Listed /\ n # a
    <3>1. Listed \subseteq DOMAIN disk.tables BY <1>1, <1>2 DEF RepairState, TablesSound, Listed, Scanned
    <3>. QED BY <3>1, <1>7, <1>9
  <2>3. n \in DOMAIN disk'.tables /\ disk'.tables[n].good = {} /\ disk'.tables[n].lost = good BY <1>10
  <2>4. a \in DOMAIN disk'.tables /\ disk'.tables[a].good = good BY <1>8, <1>9, <1>10
  <2>5. a < n + 1 BY <1>9
  <2>. QED BY <2>1, <2>2, <2>3, <2>4, <2>5, <1>9, <1>11, <1>12 DEF CopySound
<1>19. DescriptorFollows' BY <1>11 DEF DescriptorFollows, Describing
<1>20. NothingLost'
  <2>1. OnDisk \subseteq OnDisk' BY <1>10 DEF OnDisk
  <2>2. InLogs' = InLogs BY <1>10 DEF InLogs
  <2>. QED BY <2>1, <2>2, <1>2, <1>3 DEF RepairState, NothingLost
<1>21. NothingForgotten'
  <2> SUFFICES ASSUME faults = 0, ok, NEW e \in written PROVE InTable(e)'
    BY <1>3 DEF NothingForgotten
  <2>1. InTable(e) BY <1>1, <1>2, <1>15 DEF RepairState, NothingForgotten, InCopy, InLog
  <2>2. PICK m \in DOMAIN disk.tables : e \in disk.tables[m].good /\ (m \in Listed \/ m = a)
    BY <2>1, <1>1, <1>8 DEF InTable
  <2>. QED BY <2>2, <1>10, <1>11, <1>12 DEF InTable
<1>. QED BY <1>10, <1>13, <1>14, <1>16, <1>17, <1>18, <1>19, <1>20, <1>21 DEF RepairInv, RepairState


\* The damaged table goes to lost/; its copy is not yet a table.
LEMMA ArchiveTableKeeps ==
    ASSUME RepairInv, ArchiveTable
    PROVE  RepairInv'
<1>1. RepairTyped /\ Started /\ rp.pc = "archive_table" BY DEF RepairInv, RepairTyped, ArchiveTable, Started
<1>2. disk # << >> /\ RepairState BY <1>1 DEF RepairInv, RepairTyped
<1>3. PICK a, c, T : a = rp.at /\ c = rp.copy /\ T = disk.tables OBVIOUS
<1>4. /\ a \in DOMAIN T /\ a \notin Listed /\ a \in Nat /\ a < rp.next
      /\ rp.info.number = a /\ rp.info.max_sequence \in Nat
      /\ \A e \in T[a].good : e.seq <= rp.info.max_sequence
      /\ c \in DOMAIN T /\ c \notin Listed /\ c # a
      /\ T[c].good = {} /\ T[c].lost = T[a].good
  BY <1>1, <1>2, <1>3 DEF RepairState, CopySound, Copying
<1>5. archived' = archived \cup T[a].good /\ written' = written /\ faults' = faults
  BY <1>3 DEF ArchiveTable
<1>6. DOMAIN disk = {"tables", "logs", "descs", "current"} BY <1>1, <1>2 DEF RepairTyped
<1>7. /\ DOMAIN disk' = {"tables", "logs", "descs", "current"} /\ disk' # << >> /\ disk'.logs = disk.logs
      /\ DOMAIN disk'.tables = DOMAIN T \ {a} /\ \A m \in DOMAIN T \ {a} : disk'.tables[m] = T[m]
  <2>1. PICK U : U = Removing(T, a) OBVIOUS
  <2>2. disk' = [disk EXCEPT !.tables = U] BY <2>1, <1>3 DEF ArchiveTable
  <2>3. /\ DOMAIN disk' = {"tables", "logs", "descs", "current"} /\ disk' # << >>
        /\ disk'.logs = disk.logs /\ disk'.tables = U
    BY <2>2, <1>6
  <2>4. U = [m \in DOMAIN T \ {a} |-> T[m]] BY <2>1 DEF Removing
  <2>. QED BY <2>3, <2>4
<1>8. /\ DOMAIN rp' = DOMAIN rp /\ rp'.pc = "finish" /\ rp'.copy = c
      /\ rp'.next = rp.next /\ rp'.logs = rp.logs /\ rp'.table_numbers = rp.table_numbers
      /\ rp'.tables = rp.tables /\ rp'.at = a /\ rp'.info = rp.info
  BY <1>1, <1>3 DEF ArchiveTable, RepairTyped
<1>9. Scanned' = Scanned /\ Listed' = Listed BY <1>8 DEF Scanned, Listed
<1>10. Listed \subseteq DOMAIN T \ {a}
  BY <1>1, <1>2, <1>3, <1>4 DEF RepairState, TablesSound, Listed, Scanned
<1>11. RepairTyped' BY <1>1, <1>5, <1>7, <1>8 DEF RepairTyped, Started, Copying
<1>12. FilesSound' BY <1>1, <1>2, <1>3, <1>7, <1>8 DEF RepairState, FilesSound
<1>13. rp.logs = {} /\ DOMAIN disk.logs = {} BY <1>1, <1>2 DEF RepairState, LogsSound, Scanning
<1>14. LogsSound' BY <1>7, <1>8, <1>13 DEF LogsSound
<1>15. TablesSound'
  <2>1. rp'.pc \notin Describing BY <1>8 DEF Describing
  <2>2. /\ rp.table_numbers \cap Scanned = {}
        /\ \A t \in rp.tables :
             /\ t.number \in DOMAIN T /\ T[t.number].lost = {} /\ t.max_sequence \in Nat
             /\ \A e \in T[t.number].good : e.seq <= t.max_sequence
        /\ \E b \in Nat : \A t \in rp.tables : t.max_sequence <= b
    BY <1>1, <1>2, <1>3 DEF RepairState, TablesSound
  <2>3. rp.table_numbers \subseteq DOMAIN T \ {a} /\ \A t \in rp.tables : t.number \in DOMAIN T \ {a}
    BY <1>10 DEF Listed, Scanned
  <2>. QED BY <2>1, <2>2, <2>3, <1>7, <1>8, <1>9 DEF TablesSound
<1>16. CopySound'
  <2>1. /\ c \in DOMAIN disk'.tables /\ disk'.tables[c].good = {} /\ disk'.tables[c].lost = T[a].good
        /\ a \notin DOMAIN disk'.tables
    BY <1>4, <1>7
  <2>. QED BY <2>1, <1>4, <1>5, <1>8, <1>9 DEF CopySound
<1>17. DescriptorFollows' BY <1>8 DEF DescriptorFollows, Describing
<1>18. NothingLost'
  <2> SUFFICES ASSUME NEW e \in written PROVE e \in archived' \/ e \in OnDisk' \/ e \in InLogs'
    BY <1>5 DEF NothingLost
  <2>1. e \in archived \/ e \in OnDisk \/ e \in InLogs BY <1>2 DEF RepairState, NothingLost
  <2>2. InLogs' = InLogs BY <1>7 DEF InLogs
  <2>3. ASSUME e \in OnDisk PROVE e \in archived' \/ e \in OnDisk'
    <3>1. PICK m \in DOMAIN T : e \in T[m].good BY <2>3, <1>3 DEF OnDisk
    <3>2. CASE m = a BY <3>1, <3>2, <1>5
    <3>3. CASE m # a BY <3>1, <3>3, <1>7 DEF OnDisk
    <3>. QED BY <3>2, <3>3
  <2>. QED BY <2>1, <2>2, <2>3, <1>5
<1>19. NothingForgotten'
  <2> SUFFICES ASSUME faults = 0, NEW e \in written PROVE InTable(e)' \/ InCopy(e)'
    BY <1>5 DEF NothingForgotten
  <2>1. InTable(e) BY <1>1, <1>2, <1>13 DEF RepairState, NothingForgotten, InCopy, InLog
  <2>2. PICK m \in DOMAIN T : e \in T[m].good /\ (m \in Listed \/ m = a)
    BY <2>1, <1>1, <1>3 DEF InTable
  <2>3. CASE m = a BY <2>2, <2>3, <1>4, <1>7, <1>8 DEF InCopy
  <2>4. CASE m # a BY <2>2, <2>4, <1>7, <1>9 DEF InTable
  <2>. QED BY <2>3, <2>4
<1>. QED BY <1>7, <1>11, <1>12, <1>14, <1>15, <1>16, <1>17, <1>18, <1>19 DEF RepairInv, RepairState

\* The copy becomes a table, or is deleted; what it holds is under lost/ too.
LEMMA RepairTableFinishKeeps ==
    ASSUME RepairInv, NEW ok \in BOOLEAN, RepairTableFinish(ok)
    PROVE  RepairInv'
<1>1. RepairTyped /\ Started /\ rp.pc = "finish" BY DEF RepairInv, RepairTyped, RepairTableFinish, Started
<1>2. disk # << >> /\ RepairState BY <1>1 DEF RepairInv, RepairTyped
<1>3. PICK a, c, T : a = rp.at /\ c = rp.copy /\ T = disk.tables OBVIOUS
<1>4. PICK entries : entries = T[c].lost OBVIOUS
<1>5. /\ a \notin DOMAIN T /\ a \notin Listed /\ a \in Nat /\ a < rp.next
      /\ rp.info.number = a /\ rp.info.max_sequence \in Nat
      /\ c \in DOMAIN T /\ c \notin Listed /\ c # a
      /\ T[c].good = {} /\ entries \subseteq archived
      /\ \A e \in entries : e.seq <= rp.info.max_sequence
  BY <1>1, <1>2, <1>3, <1>4 DEF RepairState, CopySound, Copying
<1>6. /\ archived' = archived /\ written' = written
      /\ faults' \in Nat /\ (faults' = 0 => faults = 0 /\ ok)
  BY <1>1 DEF RepairTableFinish, RepairFault, RepairTyped
<1>7. DOMAIN disk = {"tables", "logs", "descs", "current"} BY <1>1, <1>2 DEF RepairTyped
<1>8. PICK pc : pc = IF ok /\ entries # {} THEN "rename" ELSE "logs" OBVIOUS
<1>9. /\ DOMAIN rp' = DOMAIN rp /\ rp'.pc = pc /\ rp'.copy = c
      /\ rp'.next = rp.next /\ rp'.logs = rp.logs /\ rp'.table_numbers = rp.table_numbers
      /\ rp'.tables = rp.tables /\ rp'.at = a /\ rp'.info = rp.info
  BY <1>1, <1>3, <1>4, <1>8 DEF RepairTableFinish, RepairTyped
<1>10. PICK U : U = IF ~ok THEN Removing(T, c) ELSE IF entries = {} THEN T
                    ELSE [T EXCEPT ![c] = [good |-> entries, lost |-> {}]]
  OBVIOUS
<1>11. /\ DOMAIN disk' = {"tables", "logs", "descs", "current"} /\ disk' # << >> /\ disk'.logs = disk.logs
       /\ disk'.tables = U
  <2>1. CASE ~ok
    <3>1. disk' = [disk EXCEPT !.tables = U] BY <2>1, <1>3, <1>10 DEF RepairTableFinish
    <3>. QED BY <3>1, <1>7
  <2>2. CASE ok /\ entries = {}
    <3>1. disk' = disk /\ U = T BY <2>2, <1>3, <1>4, <1>10 DEF RepairTableFinish
    <3>. QED BY <3>1, <1>2, <1>3, <1>7
  <2>3. CASE ok /\ entries # {}
    <3>1. disk' = [disk EXCEPT !.tables[c] = [good |-> entries, lost |-> {}]]
      BY <2>3, <1>3, <1>4 DEF RepairTableFinish
    <3>2. disk' = [disk EXCEPT !.tables = [T EXCEPT ![c] = [good |-> entries, lost |-> {}]]]
      BY <3>1, <1>3, <1>7
    <3>3. disk' = [disk EXCEPT !.tables = U] BY <2>3, <3>2, <1>10
    <3>. QED BY <3>3, <1>7
  <2>. QED BY <2>1, <2>2, <2>3
<1>12. /\ DOMAIN U \subseteq DOMAIN T /\ \A m \in DOMAIN T \ {c} : m \in DOMAIN U /\ U[m] = T[m]
       /\ c \in DOMAIN U => U[c] = T[c] \/ (U[c].good = entries /\ U[c].lost = {})
       /\ pc = "rename" => c \in DOMAIN U /\ U[c].good = entries /\ U[c].lost = {}
       /\ pc # "rename" /\ ok => entries = {}
  <2>1. CASE ~ok
    <3>1. U = [m \in DOMAIN T \ {c} |-> T[m]] BY <2>1, <1>10 DEF Removing
    <3>. QED BY <2>1, <3>1, <1>8
  <2>2. CASE ok /\ entries = {} BY <2>2, <1>8, <1>10
  <2>3. CASE ok /\ entries # {}
    <3>1. PICK v : v = [good |-> entries, lost |-> {}] OBVIOUS
    <3>2. v.good = entries /\ v.lost = {} BY <3>1
    <3>3. U = [T EXCEPT ![c] = v] BY <2>3, <3>1, <1>10
    <3>. QED BY <2>3, <3>2, <3>3, <1>5, <1>8
  <2>. QED BY <2>1, <2>2, <2>3
<1>13. Scanned' = Scanned /\ Listed' = Listed BY <1>9 DEF Scanned, Listed
<1>14. Listed \subseteq DOMAIN T \ {c}
  BY <1>1, <1>2, <1>3, <1>5 DEF RepairState, TablesSound, Listed, Scanned
<1>15. pc \in {"rename", "logs"} BY <1>8
<1>16. RepairTyped' BY <1>1, <1>6, <1>9, <1>11, <1>15 DEF RepairTyped, Started, Copying, Scanning
<1>17. FilesSound'
  <2>1. /\ \E b \in Nat : \A n \in DOMAIN T \cup DOMAIN disk.logs : n \in Nat /\ n < b
        /\ rp.next \in Nat /\ \A n \in DOMAIN T \cup DOMAIN disk.logs : n < rp.next
        /\ \A n \in DOMAIN T : Bounded(T[n].good) /\ Bounded(T[n].lost)
        /\ \A n \in DOMAIN disk.logs : Bounded(LogEntries(disk.logs[n]))
    BY <1>1, <1>2, <1>3 DEF RepairState, FilesSound
  <2>2. Bounded(entries) /\ Bounded({})
    <3>1. Bounded({}) BY DEF Bounded
    <3>. QED BY <3>1, <2>1, <1>4, <1>5
  <2>3. \A n \in DOMAIN U : Bounded(U[n].good) /\ Bounded(U[n].lost)
    BY <2>1, <2>2, <1>12
  <2>. QED BY <2>1, <2>3, <1>9, <1>11, <1>12 DEF FilesSound
<1>18. rp.logs = {} /\ DOMAIN disk.logs = {} BY <1>1, <1>2 DEF RepairState, LogsSound, Scanning
<1>19. LogsSound' BY <1>9, <1>11, <1>15, <1>18 DEF LogsSound
<1>20. TablesSound'
  <2>1. rp'.pc \notin Describing BY <1>9, <1>15 DEF Describing
  <2>2. /\ rp.table_numbers \cap Scanned = {}
        /\ \A t \in rp.tables :
             /\ T[t.number].lost = {} /\ t.max_sequence \in Nat
             /\ \A e \in T[t.number].good : e.seq <= t.max_sequence
        /\ \E b \in Nat : \A t \in rp.tables : t.max_sequence <= b
    BY <1>1, <1>2, <1>3 DEF RepairState, TablesSound
  <2>3. rp.table_numbers \subseteq DOMAIN T \ {c} /\ \A t \in rp.tables : t.number \in DOMAIN T \ {c}
    BY <1>14 DEF Listed, Scanned
  <2>. QED BY <2>1, <2>2, <2>3, <1>9, <1>11, <1>12, <1>13 DEF TablesSound
<1>21. CopySound'
  <2> SUFFICES ASSUME pc = "rename" PROVE CopySound' BY <1>9, <1>15 DEF CopySound, Copying
  <2>. QED BY <1>5, <1>6, <1>9, <1>11, <1>12, <1>13 DEF CopySound
<1>22. DescriptorFollows' BY <1>9, <1>15 DEF DescriptorFollows, Describing
<1>23. NothingLost'
  <2> SUFFICES ASSUME NEW e \in written PROVE e \in archived' \/ e \in OnDisk' \/ e \in InLogs'
    BY <1>6 DEF NothingLost
  <2>1. e \in archived \/ e \in OnDisk \/ e \in InLogs BY <1>2 DEF RepairState, NothingLost
  <2>2. InLogs' = InLogs BY <1>11 DEF InLogs
  <2>3. ASSUME e \in OnDisk PROVE e \in OnDisk'
    <3>1. PICK m \in DOMAIN T : e \in T[m].good BY <2>3, <1>3 DEF OnDisk
    <3>2. m # c BY <3>1, <1>5
    <3>. QED BY <3>1, <3>2, <1>11, <1>12 DEF OnDisk
  <2>. QED BY <2>1, <2>2, <2>3, <1>6
<1>24. NothingForgotten'
  <2> SUFFICES ASSUME faults = 0, ok, NEW e \in written PROVE InTable(e)'
    BY <1>6 DEF NothingForgotten
  <2>1. InTable(e) \/ e \in entries
    BY <1>1, <1>2, <1>3, <1>4, <1>18 DEF RepairState, NothingForgotten, InCopy, InLog
  <2>2. CASE InTable(e)
    <3>1. PICK m \in DOMAIN T : e \in T[m].good /\ m \in Listed BY <2>2, <1>1, <1>3 DEF InTable
    <3>. QED BY <3>1, <1>11, <1>12, <1>13, <1>14 DEF InTable
  <2>3. CASE e \in entries
    <3>1. pc = "rename" /\ c \in DOMAIN U /\ e \in U[c].good BY <2>3, <1>12
    <3>. QED BY <3>1, <1>9, <1>11 DEF InTable
  <2>. QED BY <2>1, <2>2, <2>3
<1>. QED BY <1>11, <1>16, <1>17, <1>19, <1>20, <1>21, <1>22, <1>23, <1>24 DEF RepairInv, RepairState


\* The copy takes the name of the table it replaces.
LEMMA RepairTableRenameKeeps ==
    ASSUME RepairInv, NEW ok \in BOOLEAN, RepairTableRename(ok)
    PROVE  RepairInv'
<1>1. RepairTyped /\ Started /\ rp.pc = "rename" BY DEF RepairInv, RepairTyped, RepairTableRename, Started
<1>2. disk # << >> /\ RepairState BY <1>1 DEF RepairInv, RepairTyped
<1>3. PICK a, c, T : a = rp.at /\ c = rp.copy /\ T = disk.tables OBVIOUS
<1>4. /\ a \notin DOMAIN T /\ a \notin Listed /\ a \in Nat /\ a < rp.next
      /\ rp.info.number = a /\ rp.info.max_sequence \in Nat
      /\ c \in DOMAIN T /\ c \notin Listed /\ c # a
      /\ T[c].lost = {} /\ T[c].good \subseteq archived
      /\ \A e \in T[c].good : e.seq <= rp.info.max_sequence
  BY <1>1, <1>2, <1>3 DEF RepairState, CopySound, Copying
<1>5. /\ archived' = archived /\ written' = written
      /\ faults' \in Nat /\ (faults' = 0 => faults = 0 /\ ok)
  BY <1>1 DEF RepairTableRename, RepairFault, RepairTyped
<1>6. DOMAIN disk = {"tables", "logs", "descs", "current"} BY <1>1, <1>2 DEF RepairTyped
<1>7. /\ DOMAIN rp' = DOMAIN rp /\ rp'.pc = "logs" /\ rp'.next = rp.next /\ rp'.logs = rp.logs
      /\ rp'.table_numbers = rp.table_numbers
      /\ rp'.tables = IF ok THEN rp.tables \cup {rp.info} ELSE rp.tables
  BY <1>1 DEF RepairTableRename, RepairTyped
<1>8. PICK U : U = IF ok THEN Adding(Removing(T, c), a, T[c]) ELSE Removing(T, c) OBVIOUS
<1>9. /\ DOMAIN disk' = {"tables", "logs", "descs", "current"} /\ disk' # << >> /\ disk'.logs = disk.logs
      /\ disk'.tables = U
  <2>1. disk' = [disk EXCEPT !.tables = U] BY <1>3, <1>8 DEF RepairTableRename
  <2>. QED BY <2>1, <1>6
<1>10. /\ DOMAIN U \subseteq (DOMAIN T \ {c}) \cup {a}
       /\ \A m \in DOMAIN T \ {c} : m \in DOMAIN U /\ U[m] = T[m]
       /\ a \in DOMAIN U <=> ok
       /\ ok => U[a] = T[c]
  <2>1. CASE ~ok
    <3>1. U = [m \in DOMAIN T \ {c} |-> T[m]] BY <2>1, <1>8 DEF Removing
    <3>. QED BY <2>1, <3>1, <1>4
  <2>2. CASE ok
    <3>1. PICK R : R = Removing(T, c) OBVIOUS
    <3>2. R = [m \in DOMAIN T \ {c} |-> T[m]] BY <3>1 DEF Removing
    <3>3. PICK v : v = T[c] OBVIOUS
    <3>4. U = Adding(R, a, v) BY <2>2, <3>1, <3>3, <1>8
    <3>5. U = [m \in DOMAIN R \cup {a} |-> IF m = a THEN v ELSE R[m]] BY <3>4 DEF Adding
    <3>. QED BY <2>2, <3>2, <3>3, <3>5, <1>4
  <2>. QED BY <2>1, <2>2
<1>11. /\ Listed \subseteq Listed' /\ (ok => a \in Listed') /\ Scanned' = IF ok THEN Scanned \cup {a} ELSE Scanned
  BY <1>4, <1>7 DEF Scanned, Listed
<1>12. Listed \subseteq DOMAIN T \ {c}
  BY <1>1, <1>2, <1>3, <1>4 DEF RepairState, TablesSound, Listed, Scanned
<1>13. RepairTyped' BY <1>1, <1>5, <1>7, <1>9 DEF RepairTyped, Started, Scanning
<1>14. FilesSound'
  <2>1. /\ \E b \in Nat : \A n \in DOMAIN T \cup DOMAIN disk.logs : n \in Nat /\ n < b
        /\ rp.next \in Nat /\ \A n \in DOMAIN T \cup DOMAIN disk.logs : n < rp.next
        /\ \A n \in DOMAIN T : Bounded(T[n].good) /\ Bounded(T[n].lost)
        /\ \A n \in DOMAIN disk.logs : Bounded(LogEntries(disk.logs[n]))
    BY <1>1, <1>2, <1>3 DEF RepairState, FilesSound
  <2>2. \A n \in DOMAIN U \cup DOMAIN disk.logs : n \in Nat /\ n < rp.next BY <2>1, <1>4, <1>10
  <2>3. \A n \in DOMAIN U : Bounded(U[n].good) /\ Bounded(U[n].lost) BY <2>1, <1>4, <1>10
  <2>. QED BY <2>1, <2>2, <2>3, <1>7, <1>9 DEF FilesSound
<1>15. rp.logs = {} /\ DOMAIN disk.logs = {} BY <1>1, <1>2 DEF RepairState, LogsSound, Scanning
<1>16. LogsSound' BY <1>7, <1>9, <1>15 DEF LogsSound
<1>17. TablesSound'
  <2>1. rp'.pc \notin Describing BY <1>7 DEF Describing
  <2>2. /\ rp.table_numbers \cap Scanned = {}
        /\ \A t \in rp.tables :
             /\ T[t.number].lost = {} /\ t.max_sequence \in Nat
             /\ \A e \in T[t.number].good : e.seq <= t.max_sequence
        /\ \E b \in Nat : \A t \in rp.tables : t.max_sequence <= b
    BY <1>1, <1>2, <1>3 DEF RepairState, TablesSound
  <2>3. rp.table_numbers \subseteq DOMAIN T \ {c} /\ \A t \in rp.tables : t.number \in DOMAIN T \ {c}
    BY <1>12 DEF Listed, Scanned
  <2>4. rp'.table_numbers \subseteq DOMAIN U BY <2>3, <1>7, <1>10
  <2>5. rp'.table_numbers \cap Scanned' = {}
    <3>1. a \notin rp.table_numbers BY <1>4 DEF Listed
    <3>. QED BY <3>1, <2>2, <1>7, <1>11
  <2>6. ASSUME NEW t \in rp'.tables
        PROVE  /\ t.number \in DOMAIN U /\ U[t.number].lost = {} /\ t.max_sequence \in Nat
               /\ \A e \in U[t.number].good : e.seq <= t.max_sequence
    <3>1. CASE t \in rp.tables
      <4>1. PICK n : n = t.number OBVIOUS
      <4>2. n \in DOMAIN T \ {c} BY <3>1, <4>1, <2>3
      <4>3. n \in DOMAIN U /\ U[n] = T[n] BY <4>2, <1>10
      <4>. QED BY <3>1, <4>1, <4>3, <2>2
    <3>2. CASE ok /\ t = rp.info
      <4>1. U[a].lost = {} /\ a \in DOMAIN U /\ \A e \in U[a].good : e.seq <= rp.info.max_sequence
        BY <3>2, <1>4, <1>10
      <4>. QED BY <3>2, <4>1, <1>4
    <3>. QED BY <3>1, <3>2, <1>7
  <2>7. \E b \in Nat : \A t \in rp'.tables : t.max_sequence <= b
    <3>1. PICK b \in Nat : \A t \in rp.tables : t.max_sequence <= b BY <2>2
    <3>2. PICK s \in Nat : s = rp.info.max_sequence BY <1>4
    <3>3. \A t \in rp'.tables : t \in rp.tables \/ t = rp.info BY <1>7
    <3>4. \A t \in rp'.tables : t.max_sequence <= b + s
      <4> TAKE t \in rp'.tables
      <4>1. CASE t \in rp.tables BY <4>1, <3>1, <2>2
      <4>2. CASE t = rp.info BY <4>2, <3>2
      <4>. QED BY <4>1, <4>2, <3>3
    <3>. QED BY <3>4
  <2>. QED BY <2>1, <2>4, <2>5, <2>6, <2>7, <1>9 DEF TablesSound
<1>18. CopySound' BY <1>7 DEF CopySound, Copying
<1>19. DescriptorFollows' BY <1>7 DEF DescriptorFollows, Describing
<1>20. NothingLost'
  <2> SUFFICES ASSUME NEW e \in written PROVE e \in archived' \/ e \in OnDisk' \/ e \in InLogs'
    BY <1>5 DEF NothingLost
  <2>1. e \in archived \/ e \in OnDisk \/ e \in InLogs BY <1>2 DEF RepairState, NothingLost
  <2>2. InLogs' = InLogs BY <1>9 DEF InLogs
  <2>3. ASSUME e \in OnDisk PROVE e \in archived' \/ e \in OnDisk'
    <3>1. PICK m \in DOMAIN T : e \in T[m].good BY <2>3, <1>3 DEF OnDisk
    <3>2. CASE m = c BY <3>1, <3>2, <1>4, <1>5
    <3>3. CASE m # c BY <3>1, <3>3, <1>9, <1>10 DEF OnDisk
    <3>. QED BY <3>2, <3>3
  <2>. QED BY <2>1, <2>2, <2>3, <1>5
<1>21. NothingForgotten'
  <2> SUFFICES ASSUME faults = 0, ok, NEW e \in written PROVE InTable(e)'
    BY <1>5 DEF NothingForgotten
  <2>1. InTable(e) BY <1>1, <1>2, <1>15 DEF RepairState, NothingForgotten, InCopy, InLog
  <2>2. PICK m \in DOMAIN T : e \in T[m].good /\ (m \in Listed \/ m = c)
    BY <2>1, <1>1, <1>3 DEF InTable
  <2>3. CASE m = c
    <3>1. a \in DOMAIN U /\ e \in U[a].good /\ a \in Listed' BY <2>2, <2>3, <1>10, <1>11
    <3>. QED BY <3>1, <1>9 DEF InTable
  <2>4. CASE m # c
    <3>1. m \in DOMAIN U /\ e \in U[m].good /\ m \in Listed' BY <2>2, <2>4, <1>10, <1>11
    <3>. QED BY <3>1, <1>9 DEF InTable
  <2>. QED BY <2>3, <2>4
<1>. QED BY <1>9, <1>13, <1>14, <1>16, <1>17, <1>18, <1>19, <1>20, <1>21 DEF RepairInv, RepairState

\* Once every table is scanned, only the descriptor changes.
LEMMA DescribingKeeps ==
    ASSUME RepairInv, Started, rp.pc \in {"logs"} \cup Describing, rp.logs = {}, rp.table_numbers = {},
           DOMAIN disk' = {"tables", "logs", "descs", "current"}, disk' # << >>,
           disk'.tables = disk.tables, disk'.logs = disk.logs,
           archived' = archived, written' = written, faults' \in Nat, faults' = 0 => faults = 0,
           DOMAIN rp' = DOMAIN rp, rp'.pc \in {"failed"} \cup Describing, rp'.pc = "failed" => faults' > 0,
           rp'.next = rp.next, rp'.logs = rp.logs, rp'.table_numbers = rp.table_numbers,
           rp'.tables = rp.tables, DescriptorFollows'
    PROVE  RepairInv'
<1>1. RepairTyped /\ disk # << >> /\ RepairState BY DEF RepairInv, RepairTyped, Started
<1>2. Scanned' = Scanned /\ Listed' = Listed BY DEF Scanned, Listed
<1>3. Started' /\ rp'.pc \notin Copying \cup Scanning BY DEF Started, Describing, Copying, Scanning
<1>4. RepairTyped' BY <1>1, <1>3 DEF RepairTyped
<1>5. FilesSound' BY <1>1, <1>3 DEF RepairState, FilesSound
<1>6. DOMAIN disk.logs = {} BY <1>1 DEF RepairState, LogsSound
<1>7. LogsSound' BY <1>3, <1>6 DEF LogsSound, Scanning
<1>8. TablesSound' BY <1>1, <1>2 DEF RepairState, TablesSound
<1>9. CopySound' BY <1>3 DEF CopySound
<1>10. NothingLost' BY <1>1 DEF RepairState, NothingLost, OnDisk, InLogs
<1>11. NothingForgotten'
  <2> SUFFICES ASSUME faults = 0, NEW e \in written PROVE InTable(e)'
    BY DEF NothingForgotten
  <2>1. rp.pc \notin Copying BY DEF Describing, Copying
  <2>2. InTable(e) BY <1>1, <1>6, <2>1 DEF RepairState, NothingForgotten, InCopy, InLog, Copying
  <2>3. PICK m \in DOMAIN disk.tables : e \in disk.tables[m].good /\ m \in Listed
    BY <2>1, <2>2 DEF InTable, Copying
  <2>. QED BY <2>3, <1>2 DEF InTable
<1>. QED BY <1>4, <1>5, <1>7, <1>8, <1>9, <1>10, <1>11 DEF RepairInv, RepairState

\* The edit names the tables that were scanned and bounds what they hold.
LEMMA WriteDescriptorKeeps ==
    ASSUME RepairInv, NEW ok \in BOOLEAN, WriteDescriptor(ok)
    PROVE  RepairInv'
<1>1. RepairTyped /\ Started /\ rp.pc = "logs" /\ rp.logs = {} /\ rp.table_numbers = {}
  BY DEF RepairInv, RepairTyped, WriteDescriptor, Started
<1>2. disk # << >> /\ RepairState BY <1>1 DEF RepairInv, RepairTyped
<1>3. disk' = disk /\ archived' = archived /\ written' = written BY DEF WriteDescriptor
<1>4. faults' \in Nat /\ (faults' = 0 => faults = 0 /\ ok) /\ (~ok => faults' > 0)
  BY <1>1 DEF WriteDescriptor, RepairFault, RepairTyped
<1>5. PICK S : S = {[seq |-> t.max_sequence] : t \in rp.tables} OBVIOUS
<1>6. PICK last : last = MaxSeq(S) OBVIOUS
<1>7. PICK info : info = [files |-> {t.number : t \in rp.tables}, next |-> rp.next, last |-> last] OBVIOUS
<1>8. /\ DOMAIN rp' = DOMAIN rp /\ rp'.pc = (IF ok THEN "archive_manifests" ELSE "failed")
      /\ rp'.next = rp.next /\ rp'.logs = rp.logs /\ rp'.table_numbers = rp.table_numbers
      /\ rp'.tables = rp.tables /\ rp'.info = info
  <2>1. rp' = [rp EXCEPT !.pc = IF ok THEN "archive_manifests" ELSE "failed", !.info = info]
    BY <1>5, <1>6, <1>7 DEF WriteDescriptor
  <2>. QED BY <2>1, <1>1 DEF RepairTyped
<1>9. last \in Nat /\ \A t \in rp.tables : t.max_sequence <= last
  <2>1. PICK b \in Nat : \A t \in rp.tables : t.max_sequence <= b BY <1>1, <1>2 DEF RepairState, TablesSound
  <2>2. \A t \in rp.tables : t.max_sequence \in Nat BY <1>1, <1>2 DEF RepairState, TablesSound
  <2>3. Bounded(S)
    <3>1. \A e \in S : \E t \in rp.tables : e.seq = t.max_sequence BY <1>5
    <3>. QED BY <3>1, <2>1, <2>2 DEF Bounded
  <2>4. last \in Nat /\ \A e \in S : e.seq <= last BY <2>3, <1>6, MaxSeqBounds
  <2>5. ASSUME NEW t \in rp.tables PROVE t.max_sequence <= last
    <3>1. [seq |-> t.max_sequence] \in S BY <1>5
    <3>2. [seq |-> t.max_sequence].seq = t.max_sequence OBVIOUS
    <3>. QED BY <3>1, <3>2, <2>4
  <2>. QED BY <2>4, <2>5
<1>10. DescriptorFollows'
  <2>1. info.files = Scanned /\ info.next = rp.next /\ info.last = last BY <1>7 DEF Scanned
  <2>2. Scanned' = Scanned BY <1>8 DEF Scanned
  <2>3. rp'.pc \notin {"current", "done"} BY <1>8
  <2>. QED BY <2>1, <2>2, <2>3, <1>8, <1>9 DEF DescriptorFollows
<1>11. rp'.pc \in {"failed"} \cup Describing /\ (rp'.pc = "failed" => faults' > 0)
  BY <1>4, <1>8 DEF Describing
<1>12. DOMAIN disk' = {"tables", "logs", "descs", "current"} /\ disk' # << >>
  BY <1>1, <1>2, <1>3 DEF RepairTyped
<1>. QED BY <1>1, <1>3, <1>4, <1>8, <1>10, <1>11, <1>12, DescribingKeeps

\* The last steps move the descriptor into place and name it in CURRENT.
LEMMA InstallKeeps ==
    ASSUME RepairInv, NEW ok \in BOOLEAN,
           ArchiveManifests \/ InstallManifest(ok) \/ InstallCurrent(ok)
    PROVE  RepairInv'
<1>1. RepairTyped /\ Started /\ rp.pc \in Describing
  BY DEF RepairInv, RepairTyped, ArchiveManifests, InstallManifest, InstallCurrent, Started, Describing
<1>2. disk # << >> /\ RepairState BY <1>1 DEF RepairInv, RepairTyped
<1>3. archived' = archived /\ written' = written
  BY DEF ArchiveManifests, InstallManifest, InstallCurrent
<1>4. faults' \in Nat /\ (faults' = 0 => faults = 0)
  BY <1>1 DEF ArchiveManifests, InstallManifest, InstallCurrent, RepairFault, RepairTyped
<1>5. DOMAIN disk = {"tables", "logs", "descs", "current"} BY <1>1, <1>2 DEF RepairTyped
<1>6. PICK pc : rp' = [rp EXCEPT !.pc = pc] BY DEF ArchiveManifests, InstallManifest, InstallCurrent
<1>7. /\ DOMAIN rp' = DOMAIN rp /\ rp'.pc = pc /\ rp'.next = rp.next /\ rp'.logs = rp.logs
      /\ rp'.table_numbers = rp.table_numbers /\ rp'.tables = rp.tables /\ rp'.info = rp.info
  BY <1>1, <1>6 DEF RepairTyped
<1>8. Scanned' = Scanned BY <1>7 DEF Scanned
<1>9. rp.logs = {} /\ rp.table_numbers = {}
  BY <1>1, <1>2 DEF RepairState, LogsSound, TablesSound, Describing, Scanning
<1>10. /\ rp.info.files = Scanned /\ rp.info.next = rp.next /\ rp.info.last \in Nat
       /\ \A t \in rp.tables : t.max_sequence <= rp.info.last
  BY <1>1, <1>2 DEF RepairState, DescriptorFollows
<1>11. /\ pc \in {"failed"} \cup Describing /\ (pc = "failed" => faults' > 0)
       /\ DOMAIN disk' = {"tables", "logs", "descs", "current"} /\ disk' # << >>
       /\ disk'.tables = disk.tables /\ disk'.logs = disk.logs
       /\ pc \in {"current", "done"} => disk'.descs[1] = rp.info
       /\ pc = "done" => disk'.current = 1
  <2>1. CASE ArchiveManifests
    <3>1. PICK D : D = [n \in DOMAIN disk.descs \ rp.manifests |-> disk.descs[n]] OBVIOUS
    <3>2. disk' = [disk EXCEPT !.descs = D] BY <2>1, <3>1 DEF ArchiveManifests
    <3>3. pc = "install" BY <2>1, <1>1, <1>7 DEF ArchiveManifests, RepairTyped
    <3>. QED BY <3>2, <3>3, <1>5 DEF Describing
  <2>2. CASE InstallManifest(ok)
    <3>1. pc = IF ok THEN "current" ELSE "failed" BY <2>2, <1>1, <1>7 DEF InstallManifest, RepairTyped
    <3>2. CASE ok
      <4>1. PICK D : D = Adding(disk.descs, 1, rp.info) OBVIOUS
      <4>2. disk' = [disk EXCEPT !.descs = D] BY <2>2, <3>2, <4>1 DEF InstallManifest
      <4>3. D[1] = rp.info BY <4>1 DEF Adding
      <4>. QED BY <3>1, <3>2, <4>2, <4>3, <1>5 DEF Describing
    <3>3. CASE ~ok
      <4>1. disk' = disk BY <2>2, <3>3 DEF InstallManifest
      <4>2. faults' > 0 BY <2>2, <3>3, <1>1 DEF InstallManifest, RepairFault, RepairTyped
      <4>. QED BY <3>1, <3>3, <4>1, <4>2, <1>2, <1>5
    <3>. QED BY <3>2, <3>3
  <2>3. CASE InstallCurrent(ok)
    <3>1. pc = IF ok THEN "done" ELSE "failed" BY <2>3, <1>1, <1>7 DEF InstallCurrent, RepairTyped
    <3>2. disk.descs[1] = rp.info BY <2>3, <1>2 DEF InstallCurrent, RepairState, DescriptorFollows
    <3>3. CASE ok
      <4>1. disk' = [disk EXCEPT !.current = 1] BY <2>3, <3>3 DEF InstallCurrent
      <4>. QED BY <3>1, <3>2, <3>3, <4>1, <1>5 DEF Describing
    <3>4. CASE ~ok
      <4>1. disk' = disk BY <2>3, <3>4 DEF InstallCurrent
      <4>2. faults' > 0 BY <2>3, <3>4, <1>1 DEF InstallCurrent, RepairFault, RepairTyped
      <4>. QED BY <3>1, <3>4, <4>1, <4>2, <1>2, <1>5
    <3>. QED BY <3>3, <3>4
  <2>. QED BY <2>1, <2>2, <2>3
<1>12. DescriptorFollows' BY <1>7, <1>8, <1>10, <1>11 DEF DescriptorFollows
<1>. QED BY <1>1, <1>3, <1>4, <1>7, <1>9, <1>11, <1>12, DescribingKeeps

\* A new attempt finds the files as the last one left them.
LEMMA RepairAgainKeeps ==
    ASSUME RepairInv, RepairAgain
    PROVE  RepairInv'
<1>1. RepairTyped /\ Started BY DEF RepairInv, RepairAgain, Started
<1>2. disk # << >> /\ RepairState BY <1>1 DEF RepairInv, RepairTyped
<1>3. /\ disk' = disk /\ archived' = archived /\ written' = written /\ rp' = Nobody
      /\ faults' \in Nat /\ faults' > 0
  BY <1>1 DEF RepairAgain, RepairFault, RepairTyped
<1>4. /\ rp'.pc = "idle" /\ ~Started'
      /\ DOMAIN rp' = {"pc", "logs", "table_numbers", "tables", "manifests", "next", "at", "copy", "info"}
  BY <1>3 DEF Nobody, Started
<1>5. RepairTyped' BY <1>1, <1>2, <1>3, <1>4 DEF RepairTyped
<1>6. FilesSound' BY <1>2, <1>3, <1>4 DEF RepairState, FilesSound
<1>7. LogsSound' /\ TablesSound' BY <1>4 DEF LogsSound, TablesSound
<1>8. CopySound' /\ DescriptorFollows' BY <1>4 DEF CopySound, DescriptorFollows, Copying, Describing
<1>9. NothingLost' BY <1>2, <1>3 DEF RepairState, NothingLost, OnDisk, InLogs
<1>10. NothingForgotten' BY <1>3 DEF NothingForgotten
<1>. QED BY <1>5, <1>6, <1>7, <1>8, <1>9, <1>10 DEF RepairInv, RepairState

LEMMA RepairStarts == RepairInit => RepairInv
<1> SUFFICES ASSUME RepairInit PROVE RepairInv OBVIOUS
<1>1. disk = << >> /\ faults = 0 /\ written = {} /\ rp = Nobody BY DEF RepairInit
<1>2. /\ rp.pc = "idle"
      /\ DOMAIN rp = {"pc", "logs", "table_numbers", "tables", "manifests", "next", "at", "copy", "info"}
  BY <1>1 DEF Nobody
<1>. QED BY <1>1, <1>2 DEF RepairInv, RepairTyped, Started

LEMMA RepairUnchanged == RepairInv /\ UNCHANGED repairVars => RepairInv'
<1> SUFFICES ASSUME RepairInv, UNCHANGED repairVars PROVE RepairInv' OBVIOUS
<1>1. disk' = disk /\ archived' = archived /\ rp' = rp /\ faults' = faults /\ written' = written
  BY DEF repairVars
<1>2. RepairTyped' BY <1>1 DEF RepairInv, RepairTyped, Started
<1>3. ASSUME disk # << >> PROVE RepairState'
  <2>1. RepairState BY <1>3 DEF RepairInv
  <2>2. FilesSound' /\ LogsSound' BY <2>1, <1>1 DEF RepairState, FilesSound, LogsSound, Started
  <2>3. TablesSound' BY <2>1, <1>1 DEF RepairState, TablesSound, Started, Scanned
  <2>4. CopySound' BY <2>1, <1>1 DEF RepairState, CopySound, Listed, Scanned
  <2>5. DescriptorFollows' BY <2>1, <1>1 DEF RepairState, DescriptorFollows, Scanned
  <2>6. NothingLost' BY <2>1, <1>1 DEF RepairState, NothingLost, OnDisk, InLogs
  <2>7. NothingForgotten'
    BY <2>1, <1>1 DEF RepairState, NothingForgotten, InTable, InLog, InCopy, Started, Listed, Scanned
  <2>. QED BY <2>2, <2>3, <2>4, <2>5, <2>6, <2>7 DEF RepairState
<1>. QED BY <1>1, <1>2, <1>3 DEF RepairInv

\* What the invariant says of a repair that reports success.
LEMMA RepairInvSuffices == RepairInv => RepairSound
<1> SUFFICES ASSUME RepairInv, rp.pc = "done" PROVE RepairSound
  BY DEF RepairSound, NothingDropped, DescriptorSound
<1>1. RepairTyped /\ Started BY DEF RepairInv, Started
<1>2. RepairState BY <1>1 DEF RepairInv, RepairTyped
<1>3. rp.logs = {} /\ rp.table_numbers = {} /\ DOMAIN disk.logs = {}
  BY <1>1, <1>2 DEF RepairState, LogsSound, TablesSound, Describing, Scanning
<1>4. /\ Installed = rp.info /\ disk.current = 1
      /\ rp.info.files = Scanned /\ rp.info.next = rp.next /\ rp.info.last \in Nat
      /\ \A t \in rp.tables : t.max_sequence <= rp.info.last
  BY <1>2 DEF RepairState, DescriptorFollows, Describing, Installed
<1>5. \A n \in Scanned : \E t \in rp.tables : n = t.number BY DEF Scanned
<1>6. \A t \in rp.tables :
         /\ t.number \in DOMAIN disk.tables /\ disk.tables[t.number].lost = {} /\ t.max_sequence \in Nat
         /\ \A e \in disk.tables[t.number].good : e.seq <= t.max_sequence
  BY <1>1, <1>2 DEF RepairState, TablesSound
<1>7. \A n \in Installed.files : n \in DOMAIN disk.tables /\ disk.tables[n].lost = {} BY <1>4, <1>5, <1>6
<1>8. \A n \in DOMAIN disk.tables \cup DOMAIN disk.logs : n < Installed.next
  BY <1>1, <1>2, <1>4 DEF RepairState, FilesSound
<1>9. ASSUME NEW e \in InDescriptor PROVE e.seq <= Installed.last
  <2>1. PICK n \in Scanned : e \in disk.tables[n].good BY <1>4, <1>9 DEF InDescriptor
  <2>2. PICK t \in rp.tables : n = t.number BY <1>5
  <2>3. PICK s \in Nat : s = t.max_sequence BY <1>6
  <2>4. e.seq <= s /\ s <= rp.info.last BY <2>1, <2>2, <2>3, <1>4, <1>6
  <2>5. e.seq \in Nat
    <3>1. Bounded(disk.tables[n].good) BY <2>2, <1>2, <1>6 DEF RepairState, FilesSound
    <3>. QED BY <2>1, <3>1 DEF Bounded
  <2>. QED BY <2>4, <2>5, <1>4
<1>10. ASSUME NEW e \in written PROVE e \in InDescriptor \/ (faults > 0 /\ e \in archived \cup OnDisk)
  <2>1. CASE faults = 0
    <3>1. InTable(e) BY <1>2, <1>3, <2>1 DEF RepairState, NothingForgotten, InLog, InCopy
    <3>2. PICK n \in DOMAIN disk.tables : e \in disk.tables[n].good /\ n \in Scanned
      BY <3>1, <1>1, <1>3 DEF InTable, Listed
    <3>. QED BY <3>2, <1>4 DEF InDescriptor
  <2>2. CASE faults # 0
    <3>1. faults > 0 BY <2>2, <1>1 DEF RepairTyped
    <3>2. e \notin InLogs BY <1>3 DEF InLogs
    <3>. QED BY <3>1, <3>2, <1>2 DEF RepairState, NothingLost
  <2>. QED BY <2>1, <2>2
<1>. QED BY <1>4, <1>7, <1>8, <1>9, <1>10 DEF RepairSound, NothingDropped, DescriptorSound

\* Whatever the directory holds and however often the repair fails or crashes,
\* an attempt that reports success leaves a descriptor that opens, and an entry
\* that could be read is in one of its tables or, after a failure, still on disk.
THEOREM RepairTheorem == RepairSpec => []RepairSound
<1>1. RepairInit => RepairInv BY RepairStarts
<1>2. RepairInv /\ [RepairNext]_repairVars => RepairInv'
  <2> SUFFICES ASSUME RepairInv, RepairNext PROVE RepairInv' BY RepairUnchanged
  <2>1. CASE \E d \in Directories : FindBroken(d) BY <2>1, FindBrokenKeeps
  <2>2. CASE FindFiles BY <2>2, FindFilesKeeps
  <2>3. CASE \E log \in rp.logs, ok \in BOOLEAN : ConvertLogToTable(log, ok) BY <2>3, ConvertLogKeeps
  <2>4. CASE ArchiveLog BY <2>4, ArchiveLogKeeps
  <2>5. CASE \E n \in rp.table_numbers : ScanTable(n) BY <2>5, ScanTableKeeps
  <2>6. CASE \E ok \in BOOLEAN : RepairTableCopy(ok) BY <2>6, RepairTableCopyKeeps
  <2>7. CASE ArchiveTable BY <2>7, ArchiveTableKeeps
  <2>8. CASE \E ok \in BOOLEAN : RepairTableFinish(ok) BY <2>8, RepairTableFinishKeeps
  <2>9. CASE \E ok \in BOOLEAN : RepairTableRename(ok) BY <2>9, RepairTableRenameKeeps
  <2>10. CASE \E ok \in BOOLEAN : WriteDescriptor(ok) BY <2>10, WriteDescriptorKeeps
  <2>11. CASE ArchiveManifests BY <2>11, InstallKeeps
  <2>12. CASE \E ok \in BOOLEAN : InstallManifest(ok) BY <2>12, InstallKeeps
  <2>13. CASE \E ok \in BOOLEAN : InstallCurrent(ok) BY <2>13, InstallKeeps
  <2>14. CASE RepairAgain BY <2>14, RepairAgainKeeps
  <2>. QED BY <2>1, <2>2, <2>3, <2>4, <2>5, <2>6, <2>7, <2>8, <2>9, <2>10, <2>11, <2>12, <2>13, <2>14
       DEF RepairNext
<1>3. RepairInv => RepairSound BY RepairInvSuffices
<1>. QED BY <1>1, <1>2, <1>3, PTL DEF RepairSpec


-----------------------------------------------------------------------------
(* The environment: the queue of the background thread, and the lock table *)

\* What was taken from the queue and what waits in it are the items, in order.
QueueSound ==
    /\ ran \in Seq(Nat) /\ queue_ \in Seq(Nat) /\ scheduled \in Nat
    /\ RunInOrder

\* A thread from its entry in the lock table until it removes the entry.
InLockTable(t) == opener[t] \in {"inserted", "locked", "refused", "removing", "unlocked"}

\* The entry is there, and is of one thread.
LockTableSound ==
    /\ DOMAIN opener = Openers
    /\ \A t \in Openers : InLockTable(t) => ProcessOf[t] \in locked_files_
    /\ \A t, u \in Openers :
          InLockTable(t) /\ InLockTable(u) /\ ProcessOf[t] = ProcessOf[u] => t = u

EnvInv == QueueSound /\ LockTableSound

LEMMA QueueKeeps ==
    ASSUME QueueSound, Schedule \/ BGThread
    PROVE  QueueSound'
<1>0. ran \in Seq(Nat) /\ queue_ \in Seq(Nat) BY DEF QueueSound
<1>1. ran \in Seq(Nat) /\ queue_ \in Seq(Nat) /\ scheduled \in Nat
      /\ ran \o queue_ = [i \in 1 .. scheduled |-> i]
  BY DEF QueueSound, RunInOrder
<1>2. CASE Schedule
  <2>1. queue_' = Append(queue_, scheduled + 1) /\ scheduled' = scheduled + 1 /\ ran' = ran
    BY <1>2 DEF Schedule
  <2>2. ran' \in Seq(Nat) /\ queue_' \in Seq(Nat) /\ scheduled' \in Nat BY <1>1, <2>1
  <2>3. PICK n \in Nat : n = scheduled + 1 BY <1>1
  <2>4. PICK all \in Seq(Nat) : all = ran \o queue_ BY <1>1, ConcatProperties
  <2>5. Len(all) = scheduled BY <1>1, <2>4
  <2>6. Append(all, n) = [i \in 1 .. n |-> i] BY <1>1, <2>3, <2>4, <2>5
  <2>7. ran' \o queue_' = Append(all, n)
    <3>1. << n >> \in Seq(Nat) OBVIOUS
    <3>2. Append(queue_, n) = queue_ \o << n >> BY <1>1, AppendIsConcat
    <3>3. Append(all, n) = all \o << n >> BY AppendIsConcat
    <3>4. (ran \o queue_) \o << n >> = ran \o (queue_ \o << n >>) BY <1>0, <3>1, ConcatAssociative
    <3>. QED BY <3>2, <3>3, <3>4, <2>1, <2>3, <2>4
  <2>. QED BY <2>1, <2>2, <2>3, <2>6, <2>7 DEF QueueSound, RunInOrder
<1>3. CASE BGThreadTakes
  <2>1. /\ ran' = Append(ran, Head(queue_)) /\ queue_' = Tail(queue_) /\ scheduled' = scheduled
        /\ queue_ # << >>
    BY <1>3 DEF BGThreadTakes
  <2>2. ran' \in Seq(Nat) /\ queue_' \in Seq(Nat) BY <1>1, <2>1
  <2>3. ran' \o queue_' = ran \o queue_
    <3>1. PICK h \in Nat : h = Head(queue_) BY <1>1, <2>1, HeadTailProperties
    <3>2. PICK t \in Seq(Nat) : t = Tail(queue_) BY <1>1, <2>1, HeadTailProperties
    <3>3. << h >> \in Seq(Nat) OBVIOUS
    <3>4. queue_ = << h >> \o t BY <1>1, <2>1, <3>1, <3>2
    <3>5. Append(ran, h) = ran \o << h >> BY <1>1, AppendIsConcat
    <3>6. (ran \o << h >>) \o t = ran \o (<< h >> \o t) BY <1>0, <3>3, ConcatAssociative
    <3>. QED BY <2>1, <3>1, <3>2, <3>4, <3>5, <3>6
  <2>. QED BY <1>1, <2>1, <2>2, <2>3 DEF QueueSound, RunInOrder
<1>4. CASE BGThreadWaits \/ BGThreadReturns
  BY <1>1, <1>4 DEF BGThreadWaits, BGThreadReturns, QueueSound, RunInOrder
<1>. QED BY <1>2, <1>3, <1>4 DEF BGThread

\* A step of a thread that leaves the lock table as it is, or enters or leaves.
LEMMA LockTableKeeps ==
    ASSUME LockTableSound, NEW t \in Openers, NEW pc, opener' = [opener EXCEPT ![t] = pc],
           \/ locked_files_' = locked_files_ /\ (InLockTable(t)' => InLockTable(t))
           \/ /\ ProcessOf[t] \notin locked_files_
              /\ locked_files_' = locked_files_ \cup {ProcessOf[t]}
           \/ /\ InLockTable(t) /\ ~InLockTable(t)'
              /\ locked_files_' = locked_files_ \ {ProcessOf[t]}
    PROVE  LockTableSound'
<1>1. DOMAIN opener' = Openers /\ \A u \in Openers \ {t} : InLockTable(u)' = InLockTable(u)
  BY DEF LockTableSound, InLockTable
<1>2. ASSUME NEW u \in Openers, InLockTable(u)' PROVE ProcessOf[u] \in locked_files_'
  <2>1. CASE u = t BY <1>2, <2>1 DEF LockTableSound
  <2>2. CASE u # t
    <3>1. InLockTable(u) BY <1>1, <1>2, <2>2
    <3>. QED BY <3>1, <2>2 DEF LockTableSound
  <2>. QED BY <2>1, <2>2
<1>3. ASSUME NEW u \in Openers, NEW v \in Openers, InLockTable(u)', InLockTable(v)',
             ProcessOf[u] = ProcessOf[v]
      PROVE  u = v
  <2>1. CASE u # t /\ v # t BY <1>1, <1>3, <2>1 DEF LockTableSound
  <2>2. CASE u = t /\ v # t
    <3>1. InLockTable(v) BY <1>1, <1>3, <2>2
    <3>2. ProcessOf[t] \in locked_files_ BY <3>1, <1>3, <2>2 DEF LockTableSound
    <3>3. InLockTable(t) BY <3>2, <1>3, <2>2
    <3>. QED BY <3>1, <3>3, <1>3, <2>2 DEF LockTableSound
  <2>3. CASE u # t /\ v = t
    <3>1. InLockTable(u) BY <1>1, <1>3, <2>3
    <3>2. ProcessOf[t] \in locked_files_ BY <3>1, <1>3, <2>3 DEF LockTableSound
    <3>3. InLockTable(t) BY <3>2, <1>3, <2>3
    <3>. QED BY <3>1, <3>3, <1>3, <2>3 DEF LockTableSound
  <2>. QED BY <2>1, <2>2, <2>3
<1>. QED BY <1>1, <1>2, <1>3 DEF LockTableSound

LEMMA OpenerKeeps ==
    ASSUME LockTableSound, NEW t \in Openers,
           \/ LockFile(t) \/ LockTableInsert(t) \/ RecordLock(t) \/ LockRefused(t)
           \/ LockRefusedRemove(t) \/ UnlockFile(t) \/ UnlockRemove(t) \/ UnlockClose(t)
    PROVE  LockTableSound'
<1>1. DOMAIN opener = Openers BY DEF LockTableSound
<1>2. PICK pc : opener' = [opener EXCEPT ![t] = pc]
  BY DEF LockFile, LockTableInsert, RecordLock, LockRefused, LockRefusedRemove, UnlockFile,
         UnlockRemove, UnlockClose, Goto
<1>3. opener'[t] = pc BY <1>1, <1>2
<1>4. CASE LockFile(t) \/ UnlockClose(t)
  <2>1. pc \in {"opened", "closed"} /\ locked_files_' = locked_files_
    BY <1>1, <1>3, <1>4 DEF LockFile, UnlockClose, Goto
  <2>2. ~InLockTable(t)' BY <2>1, <1>3 DEF InLockTable
  <2>. QED BY <2>1, <2>2, <1>2, LockTableKeeps
<1>5. CASE LockTableInsert(t)
  <2>1. CASE ProcessOf[t] \in locked_files_
    <3>1. pc = "closed" /\ locked_files_' = locked_files_
      BY <1>1, <1>3, <1>5, <2>1 DEF LockTableInsert, Goto
    <3>2. ~InLockTable(t)' BY <3>1, <1>3 DEF InLockTable
    <3>. QED BY <3>1, <3>2, <1>2, LockTableKeeps
  <2>2. CASE ProcessOf[t] \notin locked_files_
    <3>1. locked_files_' = locked_files_ \cup {ProcessOf[t]} BY <1>5, <2>2 DEF LockTableInsert
    <3>. QED BY <3>1, <2>2, <1>2, LockTableKeeps
  <2>. QED BY <2>1, <2>2
<1>6. CASE RecordLock(t) \/ LockRefused(t) \/ UnlockFile(t)
  <2>1. InLockTable(t) /\ locked_files_' = locked_files_
    BY <1>6 DEF RecordLock, LockRefused, UnlockFile, InLockTable
  <2>. QED BY <2>1, <1>2, LockTableKeeps
<1>7. CASE LockRefusedRemove(t) \/ UnlockRemove(t)
  <2>1. InLockTable(t) /\ locked_files_' = locked_files_ \ {ProcessOf[t]}
    BY <1>7 DEF LockRefusedRemove, UnlockRemove, InLockTable
  <2>2. pc \in {"closed", "closing"} BY <1>1, <1>3, <1>7 DEF LockRefusedRemove, UnlockRemove, Goto
  <2>3. ~InLockTable(t)' BY <2>2, <1>3 DEF InLockTable
  <2>. QED BY <2>1, <2>3, <1>2, LockTableKeeps
<1>. QED BY <1>4, <1>5, <1>6, <1>7

\* Background work runs once and in the order it was given to Schedule, and a
\* process's lock table lets one of its threads hold the lock: the half of
\* EnvPromises that is not about progress.
THEOREM EnvTheorem == EnvSpec => [](RunInOrder /\ OneHolderPerProcess)
<1>1. EnvInit => EnvInv
  <2> SUFFICES ASSUME EnvInit PROVE EnvInv OBVIOUS
  <2>1. QueueSound
    <3>1. ran = << >> /\ queue_ = << >> /\ scheduled = 0 BY DEF EnvInit
    <3>2. << >> \o << >> = [i \in 1 .. 0 |-> i] OBVIOUS
    <3>. QED BY <3>1, <3>2 DEF QueueSound, RunInOrder
  <2>2. LockTableSound BY DEF EnvInit, LockTableSound, InLockTable
  <2>. QED BY <2>1, <2>2 DEF EnvInv
<1>2. EnvInv /\ [EnvNext]_envVars => EnvInv'
  <2> SUFFICES ASSUME EnvInv, [EnvNext]_envVars PROVE EnvInv' OBVIOUS
  <2>1. CASE Schedule \/ BGThread
    <3>1. UNCHANGED lockVars
      BY <2>1 DEF Schedule, BGThread, BGThreadWaits, BGThreadTakes, BGThreadReturns
    <3>2. LockTableSound' BY <3>1 DEF EnvInv, lockVars, LockTableSound, InLockTable
    <3>. QED BY <2>1, <3>2, QueueKeeps DEF EnvInv
  <2>2. ASSUME NEW t \in Openers,
               \/ LockFile(t) \/ LockTableInsert(t) \/ RecordLock(t) \/ LockRefused(t)
               \/ LockRefusedRemove(t) \/ UnlockFile(t) \/ UnlockRemove(t) \/ UnlockClose(t)
        PROVE  EnvInv'
    <3>1. UNCHANGED queueVars
      BY <2>2 DEF LockFile, LockTableInsert, RecordLock, LockRefused, LockRefusedRemove,
                  UnlockFile, UnlockRemove, UnlockClose
    <3>2. QueueSound' BY <3>1 DEF EnvInv, queueVars, QueueSound, RunInOrder
    <3>. QED BY <2>2, <3>2, OpenerKeeps DEF EnvInv
  <2>3. CASE UNCHANGED envVars
    BY <2>3 DEF EnvInv, envVars, queueVars, lockVars, QueueSound, RunInOrder, LockTableSound, InLockTable
  <2>. QED BY <2>1, <2>2, <2>3 DEF EnvNext
<1>3. EnvInv => RunInOrder /\ OneHolderPerProcess
  BY DEF EnvInv, QueueSound, LockTableSound, InLockTable, OneHolderPerProcess
<1>. QED BY <1>1, <1>2, <1>3, PTL DEF EnvSpec
=============================================================================
