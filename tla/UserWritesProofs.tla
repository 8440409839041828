-------------------------- MODULE UserWritesProofs --------------------------
(***************************************************************************)
(* The stored writes of a repo: for any number of writes and of failures,  *)
(* what is pending is stored, restored in order, and wins.                 *)
(*                                                                         *)
(* The argument is about the order of three things that no step compares:  *)
(* the ids in the store, which start again when a session finds it empty,  *)
(* the numbers of the writes, and the messages on their way.  All three    *)
(* ascend together, so an answer is always that of the oldest pending      *)
(* write, and whatever is sent again is newer than all that was answered.  *)
(***************************************************************************)
EXTENDS UserWrites, FiniteSetTheorems, WellFoundedInduction, TLAPS

Records == [writeId : Nat, write : Nat]

Ascending(numbers) == \A i, j \in 1 .. Len(numbers) : i < j => numbers[i] < numbers[j]

\* The sequence holds the records of the set, oldest first.
InOrder(sequence, records) ==
    /\ sequence \in Seq(records)
    /\ \A r \in records : \E i \in 1 .. Len(sequence) : sequence[i] = r
    /\ \A i, j \in 1 .. Len(sequence) : i < j => sequence[i].write < sequence[j].write

UserWritesTypeOK ==
    /\ alive \in BOOLEAN /\ connected \in BOOLEAN /\ outOfOrder \in BOOLEAN
    /\ writeIdCounter \in Nat
    /\ issued \in Seq([covers : SUBSET Children, allowed : BOOLEAN])
    /\ writesDB \in SUBSET Records
    /\ toServer \in Seq(1 .. Len(issued)) /\ toClient \in Seq(1 .. Len(issued))
    /\ serverValue \in [Children -> Nat]
    /\ answered \in SUBSET (1 .. Len(issued)) /\ purgedWrites \in SUBSET (1 .. Len(issued))

\* The ids in the store are in the order of the writes, and new ones will be.
IdsInOrder ==
    /\ \A r, s \in writesDB : r.writeId < s.writeId <=> r.write < s.write
    /\ \A r, s \in writesDB : r.write = s.write => r = s
    /\ alive => \A r \in writesDB : r.writeId < writeIdCounter

\* Nothing is lost between the store, the tree and the connection.
PendingTogether ==
    /\ Numbers(writesDB) = 1 .. Len(issued) \ (answered \cup purgedWrites)
    /\ alive => InOrder(outstandingPuts, writesDB) /\ pendingWriteTree = outstandingPuts
    /\ ~alive => \E s : InOrder(s, writesDB)

\* While connected every pending write is on its way, or its answer is; the
\* answers are of older writes than the messages.
WireInOrder ==
    /\ Ascending(toClient) /\ Ascending(toServer)
    /\ \A i \in 1 .. Len(toClient), j \in 1 .. Len(toServer) : toClient[i] < toServer[j]
    /\ ~alive => ~connected
    /\ ~connected => toServer = << >> /\ toClient = << >>
    /\ connected => \A r \in writesDB :
         \/ \E i \in 1 .. Len(toClient) : toClient[i] = r.write
         \/ \E i \in 1 .. Len(toServer) : toServer[i] = r.write

\* What is pending or sent is newer than what was answered.
AnsweredAreOlder ==
    \A n \in answered :
        /\ \A r \in writesDB : n < r.write
        /\ \A i \in 1 .. Len(toServer) : n < toServer[i]

Served(n) == \A c \in Children : issued[n].allowed /\ c \in issued[n].covers => serverValue[c] >= n

\* The server's values are not older than what it has answered.
ServerKeepsUp ==
    /\ \A n \in answered : Served(n)
    /\ \A i \in 1 .. Len(toClient) : Served(toClient[i])

WritesInv ==
    /\ UserWritesTypeOK /\ IdsInOrder /\ PendingTogether /\ WireInOrder
    /\ AnsweredAreOlder /\ ServerKeepsUp /\ ~outOfOrder

-----------------------------------------------------------------------------
(* Sequences in order *)

\* A set of natural numbers has a least element: what induction rests on here.
LEMMA LeastNumber ==
    ASSUME NEW T, T \subseteq Nat, T # {}
    PROVE  \E m \in T : \A n \in T : m <= n
<1>1. PICK m \in T : \A n \in T : ~(<< n, m >> \in OpToRel(<, Nat))
  BY NatLessThanWellFounded, WFMin, Zenon
<1>2. \A n \in T : n \in Nat /\ m \in Nat /\ ~(n < m)
  BY <1>1, Zenon DEF OpToRel
<1>. QED BY <1>2

\* Two sequences in order of the same records that agree before m agree at m.
LEMMA OrdersAgree ==
    ASSUME NEW S \in SUBSET Records, NEW s, NEW t, InOrder(s, S), InOrder(t, S),
           NEW m \in 1 .. Len(s),
           \A i \in 1 .. (m - 1) : i <= Len(t) /\ s[i] = t[i]
    PROVE  m <= Len(t) /\ t[m] = s[m]
<1>1. /\ Len(s) \in Nat /\ Len(t) \in Nat
      /\ \A i \in 1 .. Len(s) : s[i] \in S /\ s[i].write \in Nat
      /\ \A i \in 1 .. Len(t) : t[i] \in S /\ t[i].write \in Nat
  <2>1. \A r \in S : r.write \in Nat
    BY DEF Records
  <2>2. s \in Seq(S) /\ t \in Seq(S)
    BY DEF InOrder
  <2>. QED BY <2>1, <2>2
<1>2. PICK j \in 1 .. Len(t) : t[j] = s[m]
  BY <1>1 DEF InOrder
<1>3. ~(j < m)
  <2>. SUFFICES ASSUME j < m PROVE FALSE
    OBVIOUS
  <2>1. j \in 1 .. (m - 1) /\ j \in 1 .. Len(s)
    BY <1>1
  <2>2. s[j] = s[m] /\ s[j].write < s[m].write
    BY <1>2, <2>1 DEF InOrder
  <2>. QED BY <1>1, <2>1, <2>2
<1>4. m \in 1 .. Len(t)
  BY <1>1, <1>3
<1>5. PICK k \in 1 .. Len(s) : s[k] = t[m]
  BY <1>1, <1>4 DEF InOrder
<1>6. ~(k < m)
  <2>. SUFFICES ASSUME k < m PROVE FALSE
    OBVIOUS
  <2>1. k \in 1 .. (m - 1) /\ k \in 1 .. Len(t)
    BY <1>1, <1>4
  <2>2. t[k] = t[m] /\ t[k].write < t[m].write
    BY <1>4, <1>5, <2>1 DEF InOrder
  <2>. QED BY <1>1, <2>1, <2>2
<1>7. m < j => t[m].write < s[m].write
  BY <1>2, <1>4 DEF InOrder
<1>8. m < k => s[m].write < t[m].write
  BY <1>5 DEF InOrder
<1>9. k = m \/ m < k
  BY <1>1, <1>6
<1>10. j = m \/ m < j
  BY <1>1, <1>3
<1>. QED BY <1>1, <1>2, <1>4, <1>5, <1>7, <1>8, <1>9, <1>10

\* The records of a set have one order.
LEMMA OneOrder ==
    ASSUME NEW S \in SUBSET Records, NEW s, NEW t, InOrder(s, S), InOrder(t, S)
    PROVE  s = t
<1>4. ASSUME NEW m \in 1 .. Len(t), \A i \in 1 .. (m - 1) : i <= Len(s) /\ t[i] = s[i]
      PROVE  m <= Len(s) /\ s[m] = t[m]
  BY <1>4, OrdersAgree
<1>. DEFINE Bad == {i \in Nat : /\ i \in 1 .. Len(s) \/ i \in 1 .. Len(t)
                                /\ ~(i \in 1 .. Len(s) /\ i \in 1 .. Len(t) /\ s[i] = t[i])}
<1>1. s \in Seq(S) /\ t \in Seq(S) /\ Len(s) \in Nat /\ Len(t) \in Nat
  BY DEF InOrder
<1>2. CASE Bad = {}
  <2>1. \A i \in 1 .. Len(s) : i \in 1 .. Len(t) /\ s[i] = t[i]
    BY <1>1, <1>2
  <2>2. \A i \in 1 .. Len(t) : i \in 1 .. Len(s)
    BY <1>1, <1>2
  <2>3. Len(s) = Len(t)
    BY <1>1, <2>1, <2>2
  <2>. QED BY <1>1, <2>1, <2>3
<1>3. CASE Bad # {}
  <2>1. PICK m \in Bad : \A n \in Bad : m <= n
    BY <1>3, LeastNumber
  <2>2. \A i \in 1 .. (m - 1) : i \notin Bad /\ i \in Nat
    BY <2>1
  <2>3. CASE m \in 1 .. Len(s)
    <3>1. \A i \in 1 .. (m - 1) : i \in 1 .. Len(s)
      BY <1>1, <2>3
    <3>2. \A i \in 1 .. (m - 1) : i <= Len(t) /\ s[i] = t[i]
      BY <1>1, <2>2, <3>1
    <3>3. m <= Len(t) /\ t[m] = s[m]
      BY <2>3, <3>2, OrdersAgree
    <3>. QED BY <1>1, <2>1, <2>3, <3>3
  <2>4. CASE m \in 1 .. Len(t)
    <3>1. \A i \in 1 .. (m - 1) : i \in 1 .. Len(t)
      BY <1>1, <2>4
    <3>2. \A i \in 1 .. (m - 1) : i <= Len(s) /\ t[i] = s[i]
      BY <1>1, <2>2, <3>1
    <3>3. m <= Len(s) /\ s[m] = t[m]
      BY <1>4, <2>4, <3>2
    <3>. QED BY <1>1, <2>1, <2>4, <3>3
  <2>. QED BY <2>1, <2>3, <2>4
<1>. QED BY <1>2, <1>3

\* userWrites gives the records in the order of their writes.
LEMMA StoredInOrder ==
    ASSUME UserWritesTypeOK, IdsInOrder, NEW s, InOrder(s, writesDB)
    PROVE  StoredWrites = s
<1>. DEFINE Sorted(w) == \A i, j \in DOMAIN w :
                            i < j => w[i] # w[j] /\ w[i].writeId <= w[j].writeId
<1>1. /\ writesDB \in SUBSET Records /\ s \in Seq(writesDB) /\ Len(s) \in Nat
      /\ DOMAIN s = 1 .. Len(s) /\ s \in [1 .. Len(s) -> writesDB]
  BY DEF InOrder, UserWritesTypeOK
<1>2. \A i \in 1 .. Len(s) : s[i] \in writesDB /\ s[i].write \in Nat /\ s[i].writeId \in Nat
  BY <1>1 DEF Records
<1>3. ASSUME NEW i \in 1 .. Len(s), NEW j \in 1 .. Len(s), i < j
      PROVE  s[i] # s[j] /\ s[i].writeId < s[j].writeId
  <2>1. s[i].write < s[j].write
    BY <1>3 DEF InOrder
  <2>. QED BY <1>2, <2>1 DEF IdsInOrder
<1>4. ASSUME NEW i \in 1 .. Len(s), NEW j \in 1 .. Len(s), s[i] = s[j]
      PROVE  i = j
  BY <1>3, <1>4
<1>5. s \in Bijection(1 .. Len(s), writesDB)
  BY <1>1, <1>4 DEF Bijection, Injection, Surjection, IsInjective, InOrder
<1>6. Cardinality(writesDB) = Len(s) /\ IsFiniteSet(writesDB)
  BY <1>1, <1>5, FS_CountingElements, FS_NatBijection DEF ExistsBijection
<1>7. s \in [1 .. Cardinality(writesDB) -> writesDB] /\ Sorted(s)
  BY <1>1, <1>2, <1>3, <1>6
<1>8. StoredWrites \in [1 .. Cardinality(writesDB) -> writesDB] /\ Sorted(StoredWrites)
  <2>1. PICK n : n = Cardinality(writesDB)
    OBVIOUS
  <2>2. s \in [1 .. n -> writesDB] /\ Sorted(s)
    BY <1>7, <2>1
  <2>3. StoredWrites = CHOOSE w \in [1 .. n -> writesDB] : Sorted(w)
    BY <2>1, Zenon DEF StoredWrites
  <2>. HIDE DEF Sorted
  <2>. QED BY <2>1, <2>2, <2>3, Zenon
<1>9. PICK w : w = StoredWrites
  OBVIOUS
<1>10. w \in [1 .. Len(s) -> writesDB] /\ Sorted(w)
  BY <1>6, <1>8, <1>9
<1>11. /\ w \in Seq(writesDB) /\ Len(w) = Len(s)
       /\ \A i \in 1 .. Len(w) : w[i] \in writesDB /\ w[i].write \in Nat /\ w[i].writeId \in Nat
  <2>1. \A r \in writesDB : r.write \in Nat /\ r.writeId \in Nat
    BY <1>1 DEF Records
  <2>. QED BY <1>1, <1>10, <2>1
<1>12. ASSUME NEW i \in 1 .. Len(w), NEW j \in 1 .. Len(w), i < j
       PROVE  w[i] # w[j] /\ w[i].write < w[j].write
  <2>1. w[i] # w[j] /\ w[i].writeId <= w[j].writeId
    BY <1>10, <1>11, <1>12
  <2>. QED BY <1>11, <2>1 DEF IdsInOrder
<1>13. w \in Injection(1 .. Len(s), writesDB)
  BY <1>1, <1>10, <1>11, <1>12 DEF Injection, IsInjective
<1>14. IsFiniteSet(1 .. Len(s)) /\ Cardinality(1 .. Len(s)) = Len(s)
  BY <1>1, FS_Interval
<1>15. w \in Surjection(1 .. Len(s), writesDB)
  BY <1>6, <1>13, <1>14, FS_Injection
<1>16. InOrder(w, writesDB)
  BY <1>11, <1>12, <1>15 DEF InOrder, Surjection
<1>. QED BY <1>1, <1>9, <1>16, OneOrder

\* What a new, newer record does to an order, and the removal of the oldest.
LEMMA OrderAppend ==
    ASSUME NEW S \in SUBSET Records, NEW s, InOrder(s, S), NEW r \in Records,
           \A q \in S : q.write < r.write
    PROVE  InOrder(Append(s, r), S \cup {r})
<1>1. s \in Seq(S) /\ Len(s) \in Nat
  BY DEF InOrder
<1>2. PICK t : t = Append(s, r)
  OBVIOUS
<1>3. /\ t \in Seq(S \cup {r}) /\ Len(t) = Len(s) + 1 /\ t[Len(s) + 1] = r
      /\ \A i \in 1 .. Len(s) : t[i] = s[i] /\ s[i] \in S
  <2>1. s \in Seq(S \cup {r})
    BY <1>1
  <2>. QED BY <1>1, <1>2, <2>1
<1>4. \A q \in S \cup {r} : \E i \in 1 .. Len(t) : t[i] = q
  <2>1. \A q \in S : \E i \in 1 .. Len(s) : s[i] = q
    BY DEF InOrder
  <2>2. \A i \in 1 .. Len(s) : i \in 1 .. Len(t)
    BY <1>1, <1>3
  <2>3. Len(s) + 1 \in 1 .. Len(t)
    BY <1>1, <1>3
  <2>. QED BY <1>3, <2>1, <2>2, <2>3
<1>5. ASSUME NEW i \in 1 .. Len(t), NEW j \in 1 .. Len(t), i < j
      PROVE  t[i].write < t[j].write
  <2>1. i \in 1 .. Len(s)
    BY <1>1, <1>3, <1>5
  <2>2. CASE j \in 1 .. Len(s)
    BY <1>3, <1>5, <2>1, <2>2 DEF InOrder
  <2>3. CASE j = Len(s) + 1
    BY <1>3, <2>1, <2>3
  <2>. QED BY <1>1, <1>3, <2>2, <2>3
<1>. QED BY <1>2, <1>3, <1>4, <1>5 DEF InOrder

LEMMA OrderTail ==
    ASSUME NEW S \in SUBSET Records, NEW s, InOrder(s, S), s # << >>
    PROVE  s[1] \in S /\ InOrder(Tail(s), S \ {s[1]}) /\ \A q \in S \ {s[1]} : s[1].write < q.write
<1>1. s \in Seq(S) /\ Len(s) \in Nat /\ Len(s) >= 1 /\ \A i \in 1 .. Len(s) : s[i] \in S
  BY DEF InOrder
<1>2. \A q \in S : q.write \in Nat
  BY DEF Records
<1>3. ASSUME NEW i \in 1 .. Len(s), i # 1
      PROVE  s[1].write < s[i].write /\ s[i] # s[1]
  <2>1. 1 \in 1 .. Len(s) /\ 1 < i
    BY <1>1, <1>3
  <2>2. s[1].write < s[i].write
    BY <2>1 DEF InOrder
  <2>. QED BY <1>1, <1>2, <2>1, <2>2
<1>4. PICK t : t = Tail(s)
  OBVIOUS
<1>5. t \in Seq(S) /\ Len(t) = Len(s) - 1 /\ \A i \in 1 .. Len(t) : t[i] = s[i + 1] /\ i + 1 \in 1 .. Len(s)
  BY <1>1, <1>4
<1>6. \A i \in 1 .. Len(t) : t[i] \in S \ {s[1]}
  <2>. SUFFICES ASSUME NEW i \in 1 .. Len(t) PROVE t[i] \in S \ {s[1]}
    OBVIOUS
  <2>1. i + 1 # 1 /\ i + 1 \in 1 .. Len(s) /\ t[i] = s[i + 1]
    BY <1>5
  <2>. QED BY <1>1, <1>3, <2>1
<1>7. t \in Seq(S \ {s[1]})
  BY <1>5, <1>6
<1>8. ASSUME NEW q \in S \ {s[1]}
      PROVE  s[1].write < q.write /\ \E i \in 1 .. Len(t) : t[i] = q
  <2>1. PICK j \in 1 .. Len(s) : s[j] = q
    BY DEF InOrder
  <2>2. j # 1
    BY <2>1
  <2>3. j - 1 \in 1 .. Len(t) /\ (j - 1) + 1 = j
    BY <1>1, <1>5, <2>2
  <2>. QED BY <1>3, <1>5, <2>1, <2>2, <2>3
<1>9. \A i, j \in 1 .. Len(t) : i < j => t[i].write < t[j].write
  <2>. SUFFICES ASSUME NEW i \in 1 .. Len(t), NEW j \in 1 .. Len(t), i < j
                PROVE  t[i].write < t[j].write
    OBVIOUS
  <2>1. i + 1 < j + 1 /\ i + 1 \in 1 .. Len(s) /\ j + 1 \in 1 .. Len(s)
    BY <1>5
  <2>. QED BY <1>5, <2>1 DEF InOrder
<1>10. InOrder(t, S \ {s[1]})
  BY <1>7, <1>8, <1>9 DEF InOrder
<1>. QED BY <1>1, <1>4, <1>8, <1>10

LEMMA AscendingAppend ==
    ASSUME NEW s \in Seq(Nat), Ascending(s), NEW n \in Nat, \A i \in 1 .. Len(s) : s[i] < n
    PROVE  Ascending(Append(s, n))
<1>1. PICK t : t = Append(s, n)
  OBVIOUS
<1>2. Len(t) = Len(s) + 1 /\ t[Len(s) + 1] = n /\ \A i \in 1 .. Len(s) : t[i] = s[i]
  BY <1>1
<1>3. ASSUME NEW i \in 1 .. Len(t), NEW j \in 1 .. Len(t), i < j
      PROVE  t[i] < t[j]
  <2>1. i \in 1 .. Len(s) /\ (j \in 1 .. Len(s) \/ j = Len(s) + 1)
    BY <1>2, <1>3
  <2>. QED BY <1>2, <1>3, <2>1 DEF Ascending
<1>. QED BY <1>1, <1>3 DEF Ascending

LEMMA AscendingTail ==
    ASSUME NEW s \in Seq(Nat), Ascending(s), s # << >>
    PROVE  /\ Ascending(Tail(s)) /\ Len(s) >= 1 /\ Len(Tail(s)) = Len(s) - 1
           /\ \A i \in 1 .. Len(Tail(s)) : /\ Tail(s)[i] = s[i + 1] /\ i + 1 \in 1 .. Len(s)
                                           /\ s[1] < s[i + 1]
<1>1. PICK t : t = Tail(s)
  OBVIOUS
<1>2. Len(s) \in Nat /\ Len(s) >= 1 /\ Len(t) = Len(s) - 1 /\ \A i \in 1 .. Len(t) : t[i] = s[i + 1]
  BY <1>1
<1>3. \A i \in 1 .. Len(t) : i + 1 \in 1 .. Len(s) /\ 1 < i + 1 /\ 1 \in 1 .. Len(s)
  BY <1>2
<1>4. \A i \in 1 .. Len(t) : s[1] < s[i + 1]
  BY <1>3 DEF Ascending
<1>5. ASSUME NEW i \in 1 .. Len(t), NEW j \in 1 .. Len(t), i < j
      PROVE  t[i] < t[j]
  <2>1. i + 1 < j + 1 /\ i + 1 \in 1 .. Len(s) /\ j + 1 \in 1 .. Len(s)
    BY <1>3, <1>5
  <2>. QED BY <1>2, <2>1 DEF Ascending
<1>. QED BY <1>1, <1>2, <1>3, <1>4, <1>5 DEF Ascending

LEMMA SeqWiden ==
    ASSUME NEW A, NEW B, A \subseteq B, NEW s \in Seq(A)
    PROVE  s \in Seq(B)
OBVIOUS

LEMMA SeqAppend ==
    ASSUME NEW A, NEW s \in Seq(A), NEW a \in A
    PROVE  Append(s, a) \in Seq(A)
OBVIOUS

LEMMA RecordFields ==
    ASSUME UserWritesTypeOK, PendingTogether, NEW r \in writesDB
    PROVE  /\ r \in Records /\ r.writeId \in Nat /\ r.write \in 1 .. Len(issued)
           /\ r.write \notin answered /\ r.write \notin purgedWrites
<1>1. r.write \in Numbers(writesDB)
  BY DEF Numbers
<1>. QED BY <1>1 DEF UserWritesTypeOK, PendingTogether, Records

-----------------------------------------------------------------------------
(* The steps *)

LEMMA WritesStart == UserWritesInit => WritesInv
<1>. SUFFICES ASSUME UserWritesInit PROVE WritesInv
  OBVIOUS
<1>. USE DEF UserWritesInit
<1>1. issued \in Seq([covers : SUBSET Children, allowed : BOOLEAN]) /\ Len(issued) = 0
  OBVIOUS
<1>2. UserWritesTypeOK
  <2>1. \A A : << >> \in Seq(A)
    OBVIOUS
  <2>2. serverValue \in [Children -> Nat] /\ writeIdCounter \in Nat
    BY WritesAssumption
  <2>. QED BY <1>1, <2>1, <2>2 DEF UserWritesTypeOK
<1>3. InOrder(<< >>, {})
  BY DEF InOrder
<1>4. PendingTogether
  BY <1>1, <1>3 DEF PendingTogether, Numbers
<1>5. IdsInOrder /\ WireInOrder /\ AnsweredAreOlder /\ ServerKeepsUp /\ ~outOfOrder
  BY DEF IdsInOrder, WireInOrder, Ascending, AnsweredAreOlder, ServerKeepsUp
<1>. QED BY <1>2, <1>4, <1>5 DEF WritesInv

\* A new write is newer than all there are, and its id than all in the store.
LEMMA MakeWriteKeeps ==
    ASSUME WritesInv, NEW covers \in SUBSET Children, NEW allowed \in BOOLEAN,
           MakeWrite(covers, allowed)
    PROVE  WritesInv'
<1>. USE DEF WritesInv
<1>1. PICK n, new, info : /\ n = Len(issued) + 1 /\ new = [writeId |-> writeIdCounter, write |-> n]
                          /\ info = [covers |-> covers, allowed |-> allowed]
  OBVIOUS
<1>2. /\ issued \in Seq([covers : SUBSET Children, allowed : BOOLEAN]) /\ Len(issued) \in Nat
      /\ n \in Nat /\ writeIdCounter \in Nat /\ alive
      /\ info \in [covers : SUBSET Children, allowed : BOOLEAN]
      /\ new \in Records /\ new.writeId = writeIdCounter /\ new.write = n
  BY <1>1 DEF UserWritesTypeOK, Records, MakeWrite
<1>3. /\ issued' = Append(issued, info) /\ writeIdCounter' = writeIdCounter + 1
      /\ writesDB' = {other \in writesDB : other.writeId # writeIdCounter} \cup {new}
      /\ pendingWriteTree' = Append(pendingWriteTree, new)
      /\ outstandingPuts' = Append(outstandingPuts, new)
      /\ toServer' = IF connected THEN Append(toServer, n) ELSE toServer
      /\ UNCHANGED << alive, connected, toClient, serverValue, answered, purgedWrites, outOfOrder >>
  BY <1>1, <1>2 DEF MakeWrite
<1>4. /\ issued' \in Seq([covers : SUBSET Children, allowed : BOOLEAN])
      /\ Len(issued') = Len(issued) + 1
      /\ \A i \in 1 .. Len(issued) : issued'[i] = issued[i] /\ i \in 1 .. Len(issued')
  BY <1>2, <1>3
<1>5. \A r \in writesDB : /\ r \in Records /\ r.write \in 1 .. Len(issued) /\ r.write < n
                          /\ r.writeId \in Nat /\ r.writeId < writeIdCounter
  BY <1>1, <1>2, RecordFields DEF IdsInOrder
<1>6. writesDB' = writesDB \cup {new} /\ new \notin writesDB
  BY <1>2, <1>3, <1>5
<1>7. /\ toServer \in Seq(1 .. Len(issued)) /\ toServer \in Seq(Nat)
      /\ toClient \in Seq(1 .. Len(issued)) /\ toClient \in Seq(Nat)
      /\ \A i \in 1 .. Len(toServer) : toServer[i] \in Nat /\ toServer[i] < n
      /\ \A i \in 1 .. Len(toClient) : toClient[i] \in 1 .. Len(issued) /\ toClient[i] < n
  BY <1>1, <1>2 DEF UserWritesTypeOK
<1>8. /\ \A i \in 1 .. Len(toServer) : i \in 1 .. Len(toServer') /\ toServer'[i] = toServer[i]
      /\ \A i \in 1 .. Len(toServer') :
           \/ i \in 1 .. Len(toServer) /\ toServer'[i] = toServer[i]
           \/ toServer'[i] = n
      /\ connected => Len(toServer') \in 1 .. Len(toServer') /\ toServer'[Len(toServer')] = n
  BY <1>1, <1>2, <1>3, <1>7
<1>9. UserWritesTypeOK'
  <2>1. 1 .. Len(issued) \subseteq 1 .. Len(issued') /\ n \in 1 .. Len(issued')
    BY <1>1, <1>2, <1>4
  <2>2. toServer \in Seq(1 .. Len(issued')) /\ toClient \in Seq(1 .. Len(issued'))
    BY <1>7, <2>1, SeqWiden
  <2>3. toServer' \in Seq(1 .. Len(issued'))
    BY <1>3, <2>1, <2>2, SeqAppend
  <2>4. answered' \in SUBSET (1 .. Len(issued')) /\ purgedWrites' \in SUBSET (1 .. Len(issued'))
    BY <1>3, <2>1 DEF UserWritesTypeOK
  <2>5. writesDB' \in SUBSET Records /\ writeIdCounter' \in Nat
    BY <1>2, <1>3, <1>5, <1>6
  <2>. QED BY <1>3, <1>4, <2>2, <2>3, <2>4, <2>5 DEF UserWritesTypeOK
<1>10. IdsInOrder'
  <2>1. \A r, s \in writesDB' : (r.writeId < s.writeId <=> r.write < s.write)
    BY <1>2, <1>5, <1>6 DEF IdsInOrder
  <2>2. \A r, s \in writesDB' : r.write = s.write => r = s
    BY <1>1, <1>2, <1>5, <1>6 DEF IdsInOrder
  <2>3. \A r \in writesDB' : r.writeId < writeIdCounter'
    BY <1>2, <1>3, <1>5, <1>6
  <2>. QED BY <2>1, <2>2, <2>3 DEF IdsInOrder
<1>11. PendingTogether'
  <2>1. Numbers(writesDB') = Numbers(writesDB) \cup {n}
    BY <1>2, <1>6 DEF Numbers
  <2>2. Numbers(writesDB)' = Numbers(writesDB')
    BY DEF Numbers
  <2>3. 1 .. Len(issued') = (1 .. Len(issued)) \cup {n} /\ n \notin answered /\ n \notin purgedWrites
    BY <1>1, <1>2, <1>4 DEF UserWritesTypeOK
  <2>4. Numbers(writesDB)' = 1 .. Len(issued') \ (answered' \cup purgedWrites')
    BY <1>3, <2>1, <2>2, <2>3 DEF PendingTogether
  <2>5. InOrder(outstandingPuts, writesDB) /\ pendingWriteTree = outstandingPuts
    BY <1>2 DEF PendingTogether
  <2>6. InOrder(Append(outstandingPuts, new), writesDB \cup {new})
    BY <1>2, <1>5, <2>5, OrderAppend DEF UserWritesTypeOK
  <2>. QED BY <1>2, <1>3, <1>6, <2>4, <2>5, <2>6 DEF PendingTogether, InOrder
<1>12. WireInOrder'
  <2>1. Ascending(toServer')
    <3>1. Ascending(toServer)
      BY DEF WireInOrder
    <3>. QED BY <1>2, <1>3, <1>7, <3>1, AscendingAppend
  <2>2. \A i \in 1 .. Len(toClient), j \in 1 .. Len(toServer') : toClient[i] < toServer'[j]
    BY <1>7, <1>8 DEF WireInOrder
  <2>3. ASSUME connected, NEW r \in writesDB'
        PROVE  \/ \E i \in 1 .. Len(toClient) : toClient[i] = r.write
               \/ \E i \in 1 .. Len(toServer') : toServer'[i] = r.write
    BY <1>2, <1>6, <1>8, <2>3 DEF WireInOrder
  <2>4. Ascending(toClient)
    BY DEF WireInOrder
  <2>. QED BY <1>2, <1>3, <2>1, <2>2, <2>3, <2>4 DEF WireInOrder, Ascending
<1>13. AnsweredAreOlder'
  <2>. SUFFICES ASSUME NEW m \in answered
                PROVE  /\ \A r \in writesDB' : m < r.write
                       /\ \A i \in 1 .. Len(toServer') : m < toServer'[i]
    BY <1>3 DEF AnsweredAreOlder
  <2>1. m < n
    BY <1>1, <1>2 DEF UserWritesTypeOK
  <2>. QED BY <1>2, <1>6, <1>8, <2>1 DEF AnsweredAreOlder
<1>14. ServerKeepsUp'
  <2>1. \A m \in 1 .. Len(issued) : Served(m) => Served(m)'
    BY <1>3, <1>4 DEF Served
  <2>2. \A m \in answered : Served(m)'
    BY <2>1 DEF ServerKeepsUp, UserWritesTypeOK
  <2>3. \A i \in 1 .. Len(toClient) : Served(toClient[i])'
    <3>. SUFFICES ASSUME NEW i \in 1 .. Len(toClient) PROVE Served(toClient[i])'
      OBVIOUS
    <3>1. Served(toClient[i]) /\ toClient[i] \in 1 .. Len(issued)
      BY <1>7 DEF ServerKeepsUp
    <3>. QED BY <1>3, <1>4, <3>1 DEF Served
  <2>. QED BY <1>3, <2>2, <2>3 DEF ServerKeepsUp, Served
<1>. QED BY <1>3, <1>9, <1>10, <1>11, <1>12, <1>13, <1>14

\* The answer to a pending write is that to the oldest one.
LEMMA AnswerToOldest ==
    ASSUME WritesInv, toClient # << >>, NEW r \in writesDB, r.write = Head(toClient)
    PROVE  alive /\ outstandingPuts # << >> /\ outstandingPuts[1] = r
<1>. USE DEF WritesInv
<1>1. alive /\ connected
  BY DEF WireInOrder, UserWritesTypeOK
<1>2. InOrder(outstandingPuts, writesDB) /\ pendingWriteTree = outstandingPuts
  BY <1>1 DEF PendingTogether
<1>3. outstandingPuts # << >>
  <2>1. \E i \in 1 .. Len(outstandingPuts) : outstandingPuts[i] = r
    BY <1>2 DEF InOrder
  <2>. QED BY <2>1
<1>4. PICK q : q = outstandingPuts[1]
  OBVIOUS
<1>5. q \in writesDB /\ \A s \in writesDB \ {q} : q.write < s.write
  BY <1>2, <1>3, <1>4, OrderTail DEF UserWritesTypeOK
<1>6. /\ toClient \in Seq(Nat) /\ toServer \in Seq(Nat) /\ Len(toClient) \in Nat
      /\ Len(toClient) >= 1 /\ Head(toClient) = toClient[1] /\ toClient[1] \in Nat
      /\ \A i \in 1 .. Len(toClient) : toClient[i] \in Nat
      /\ \A i \in 1 .. Len(toServer) : toServer[i] \in Nat
  BY DEF UserWritesTypeOK
<1>7. q.write >= toClient[1]
  <2>1. \A i \in 1 .. Len(toClient) : toClient[i] >= toClient[1]
    <3>. SUFFICES ASSUME NEW i \in 1 .. Len(toClient) PROVE toClient[i] >= toClient[1]
      OBVIOUS
    <3>1. i = 1 \/ (1 < i /\ 1 \in 1 .. Len(toClient))
      BY <1>6
    <3>2. (1 < i /\ 1 \in 1 .. Len(toClient)) => toClient[1] < toClient[i]
      BY DEF WireInOrder, Ascending
    <3>. QED BY <1>6, <3>1, <3>2
  <2>2. \A i \in 1 .. Len(toServer) : toServer[i] >= toClient[1]
    <3>1. 1 \in 1 .. Len(toClient)
      BY <1>6
    <3>. QED BY <1>6, <3>1 DEF WireInOrder
  <2>. QED BY <1>1, <1>5, <2>1, <2>2 DEF WireInOrder
<1>8. q.write \in Nat /\ r.write \in Nat
  BY <1>5, RecordFields
<1>. QED BY <1>1, <1>3, <1>4, <1>5, <1>6, <1>7, <1>8

LEMMA RemoveFirstOne ==
    ASSUME NEW S, NEW s \in Seq(S), s # << >>
    PROVE  RemoveAt(s, 1) = Tail(s)
<1>1. Len(s) \in Nat /\ Len(s) >= 1
  OBVIOUS
<1>2. SubSeq(s, 1, 1 - 1) = << >>
  OBVIOUS
<1>3. SubSeq(s, 1 + 1, Len(s)) = Tail(s)
  BY <1>1
<1>. QED BY <1>2, <1>3 DEF RemoveAt

LEMMA AckWriteKeeps ==
    ASSUME WritesInv, AckWrite
    PROVE  WritesInv'
<1>. USE DEF WritesInv
<1>1. /\ toClient # << >> /\ toClient' = Tail(toClient)
      /\ UNCHANGED << alive, writeIdCounter, connected, toServer, serverValue, issued,
                      purgedWrites, outOfOrder >>
  BY DEF AckWrite
<1>2. /\ toClient \in Seq(1 .. Len(issued)) /\ toClient \in Seq(Nat) /\ Len(toClient) \in Nat
      /\ Ascending(toClient) /\ Head(toClient) = toClient[1]
      /\ toServer \in Seq(1 .. Len(issued))
  BY <1>1 DEF UserWritesTypeOK, WireInOrder
<1>3. /\ Ascending(toClient') /\ Len(toClient) >= 1 /\ Len(toClient') = Len(toClient) - 1
      /\ \A i \in 1 .. Len(toClient') :
           toClient'[i] = toClient[i + 1] /\ i + 1 \in 1 .. Len(toClient) /\ toClient[1] < toClient'[i]
      /\ toClient' \in Seq(1 .. Len(issued))
  BY <1>1, <1>2, AscendingTail
<1>4. 1 \in 1 .. Len(toClient) /\ toClient[1] \in 1 .. Len(issued) /\ toClient[1] \in Nat
  BY <1>2, <1>3
<1>5. /\ \A i \in 1 .. Len(toServer) : toClient[1] < toServer[i]
      /\ \A i \in 1 .. Len(toClient'), j \in 1 .. Len(toServer) : toClient'[i] < toServer[j]
  BY <1>3, <1>4 DEF WireInOrder
<1>6. connected /\ alive
  BY <1>1 DEF WireInOrder, UserWritesTypeOK
<1>7. InOrder(outstandingPuts, writesDB) /\ pendingWriteTree = outstandingPuts
  BY <1>6 DEF PendingTogether
<1>8. \A r \in writesDB : r.write # toClient[1] =>
        \/ \E i \in 1 .. Len(toClient') : toClient'[i] = r.write
        \/ \E i \in 1 .. Len(toServer) : toServer[i] = r.write
  <2>. SUFFICES ASSUME NEW r \in writesDB, r.write # toClient[1],
                       NEW i \in 1 .. Len(toClient), toClient[i] = r.write
                PROVE  \E j \in 1 .. Len(toClient') : toClient'[j] = r.write
    BY <1>6 DEF WireInOrder
  <2>1. i - 1 \in 1 .. Len(toClient') /\ (i - 1) + 1 = i
    BY <1>2, <1>3
  <2>. QED BY <1>3, <2>1
<1>9. ServerKeepsUp' /\ UserWritesTypeOK' /\ IdsInOrder' /\ PendingTogether' /\ WireInOrder'
      /\ AnsweredAreOlder'
  <2>1. CASE \E r \in ToSet(outstandingPuts) : r.write = Head(toClient)
    <3>1. PICK r \in ToSet(outstandingPuts) : r.write = Head(toClient)
      BY <2>1
    <3>2. r \in writesDB
      BY <1>7, <3>1 DEF ToSet, InOrder
    <3>3. outstandingPuts # << >> /\ outstandingPuts[1] = r
      BY <1>1, <3>1, <3>2, AnswerToOldest
    <3>4. /\ outstandingPuts \in Seq(writesDB) /\ 1 \in DOMAIN outstandingPuts
          /\ DOMAIN outstandingPuts = 1 .. Len(outstandingPuts) /\ Len(outstandingPuts) \in Nat
      BY <1>7, <3>3 DEF InOrder
    <3>5. ASSUME NEW i \in DOMAIN outstandingPuts,
                 outstandingPuts[i].write = r.write \/ outstandingPuts[i].writeId = r.writeId
          PROVE  i = 1
      <4>. SUFFICES ASSUME i # 1 PROVE FALSE
        OBVIOUS
      <4>1. 1 < i /\ outstandingPuts[i] \in writesDB
        BY <3>4
      <4>2. r.write < outstandingPuts[i].write
        BY <1>7, <3>3, <3>4, <4>1 DEF InOrder
      <4>3. r.writeId < outstandingPuts[i].writeId
        BY <3>2, <4>1, <4>2 DEF IdsInOrder
      <4>4. /\ r.write \in Nat /\ outstandingPuts[i].write \in Nat
            /\ r.writeId \in Nat /\ outstandingPuts[i].writeId \in Nat
        BY <3>2, <4>1, RecordFields
      <4>. QED BY <3>5, <4>2, <4>3, <4>4
    <3>6. (CHOOSE i \in DOMAIN outstandingPuts : outstandingPuts[i].write = Head(toClient)) = 1
      BY <3>1, <3>3, <3>4, <3>5
    <3>7. (CHOOSE i \in DOMAIN pendingWriteTree : pendingWriteTree[i].writeId = r.writeId) = 1
      BY <1>7, <3>3, <3>4, <3>5
    <3>8. /\ outstandingPuts' = RemoveAt(outstandingPuts, 1)
          /\ pendingWriteTree' = RemoveAt(pendingWriteTree, 1)
          /\ writesDB' = Removed(r.writeId, r.write)
          /\ answered' = answered \cup {r.write}
      BY <2>1, <3>3, <3>6, <3>7 DEF AckWrite
    <3>9. outstandingPuts' = Tail(outstandingPuts) /\ pendingWriteTree' = Tail(outstandingPuts)
      BY <1>7, <3>3, <3>4, <3>8, RemoveFirstOne
    <3>10. /\ InOrder(Tail(outstandingPuts), writesDB \ {r})
           /\ \A q \in writesDB \ {r} : r.write < q.write
      BY <1>7, <3>3, OrderTail DEF UserWritesTypeOK
    <3>11. \A q \in writesDB : /\ q.write \in Nat /\ q.writeId \in Nat
                               /\ q.writeId = r.writeId => q.write = r.write
      BY <3>2, RecordFields DEF IdsInOrder
    <3>12. writesDB' = writesDB \ {r}
      BY <3>2, <3>8, <3>11 DEF Removed, IdsInOrder
    <3>13. \A q \in writesDB' : q \in writesDB /\ q.write # r.write /\ r.write < q.write
      BY <3>2, <3>10, <3>11, <3>12
    <3>14. r.write = toClient[1]
      BY <1>2, <3>1
    <3>15. UserWritesTypeOK'
      BY <1>1, <1>3, <1>4, <3>8, <3>12, <3>14 DEF UserWritesTypeOK
    <3>16. IdsInOrder'
      BY <1>1, <3>13 DEF IdsInOrder
    <3>17. PendingTogether'
      <4>1. Numbers(writesDB') = Numbers(writesDB) \ {r.write}
        BY <3>2, <3>12, <3>13 DEF Numbers
      <4>2. Numbers(writesDB)' = Numbers(writesDB')
        BY DEF Numbers
      <4>3. Numbers(writesDB)' = 1 .. Len(issued') \ (answered' \cup purgedWrites')
        BY <1>1, <3>8, <4>1, <4>2 DEF PendingTogether
      <4>. QED BY <1>1, <1>6, <3>9, <3>10, <3>12, <4>3 DEF PendingTogether, InOrder
    <3>18. WireInOrder'
      BY <1>1, <1>3, <1>5, <1>6, <1>8, <3>13, <3>14 DEF WireInOrder, Ascending
    <3>19. AnsweredAreOlder'
      BY <1>1, <1>5, <3>8, <3>13, <3>14 DEF AnsweredAreOlder
    <3>20. ServerKeepsUp'
      <4>1. \A i \in 1 .. Len(toClient') : Served(toClient'[i])
        BY <1>3 DEF ServerKeepsUp
      <4>2. Served(r.write)
        BY <1>4, <3>14 DEF ServerKeepsUp
      <4>. QED BY <1>1, <3>8, <4>1, <4>2 DEF ServerKeepsUp, Served
    <3>. QED BY <3>15, <3>16, <3>17, <3>18, <3>19, <3>20
  <2>2. CASE ~\E r \in ToSet(outstandingPuts) : r.write = Head(toClient)
    <3>1. UNCHANGED << outstandingPuts, pendingWriteTree, writesDB, answered >>
      BY <2>2 DEF AckWrite
    <3>2. \A r \in writesDB : r.write # toClient[1]
      <4>. SUFFICES ASSUME NEW r \in writesDB, r.write = toClient[1] PROVE FALSE
        OBVIOUS
      <4>1. PICK i \in 1 .. Len(outstandingPuts) : outstandingPuts[i] = r
        BY <1>7 DEF InOrder
      <4>2. r \in ToSet(outstandingPuts)
        BY <1>7, <4>1 DEF ToSet, InOrder
      <4>. QED BY <1>2, <2>2, <4>2
    <3>3. UserWritesTypeOK' /\ IdsInOrder' /\ PendingTogether' /\ AnsweredAreOlder'
      BY <1>1, <1>3, <3>1 DEF UserWritesTypeOK, IdsInOrder, PendingTogether, AnsweredAreOlder,
                              Numbers, InOrder
    <3>4. WireInOrder'
      BY <1>1, <1>3, <1>5, <1>6, <1>8, <3>1, <3>2 DEF WireInOrder, Ascending
    <3>5. ServerKeepsUp'
      <4>1. \A i \in 1 .. Len(toClient') : Served(toClient'[i])
        BY <1>3 DEF ServerKeepsUp
      <4>. QED BY <1>1, <3>1, <4>1 DEF ServerKeepsUp, Served
    <3>. QED BY <3>3, <3>4, <3>5
  <2>. QED BY <2>1, <2>2
<1>. QED BY <1>1, <1>9

LEMMA PurgeWritesKeeps ==
    ASSUME WritesInv, PurgeWrites
    PROVE  WritesInv'
<1>. USE DEF WritesInv
<1>1. /\ alive /\ writesDB' = {} /\ pendingWriteTree' = << >> /\ outstandingPuts' = << >>
      /\ purgedWrites' = purgedWrites \cup Numbers(writesDB)
      /\ UNCHANGED << alive, writeIdCounter, connected, toServer, toClient, serverValue, issued,
                      answered, outOfOrder >>
  BY DEF PurgeWrites
<1>2. InOrder(<< >>, {})
  BY DEF InOrder
<1>3. UserWritesTypeOK'
  BY <1>1 DEF UserWritesTypeOK, PendingTogether
<1>4. Numbers(writesDB)' = {}
  BY <1>1 DEF Numbers
<1>5. PendingTogether'
  BY <1>1, <1>2, <1>4 DEF PendingTogether, InOrder
<1>6. IdsInOrder' /\ WireInOrder' /\ AnsweredAreOlder' /\ ServerKeepsUp'
  BY <1>1 DEF IdsInOrder, WireInOrder, Ascending, AnsweredAreOlder, ServerKeepsUp, Served
<1>. QED BY <1>1, <1>3, <1>5, <1>6

\* What is restored is in order, so the counter goes on after the last id.
LEMMA RestoreWritesKeeps ==
    ASSUME WritesInv, RestoreWrites
    PROVE  WritesInv'
<1>. USE DEF WritesInv
<1>1. ~alive /\ UNCHANGED << writesDB, connected, toServer, toClient, serverValue, issued, answered,
                             purgedWrites >>
  BY DEF RestoreWrites
<1>2. PICK s : InOrder(s, writesDB)
  BY <1>1 DEF PendingTogether
<1>3. StoredWrites = s
  BY <1>2, StoredInOrder
<1>4. s \in Seq(writesDB) /\ Len(s) \in Nat /\ \A i \in 1 .. Len(s) : s[i] \in writesDB
  BY <1>2 DEF InOrder
<1>5. \A r \in writesDB : r.writeId \in Nat /\ r.write \in Nat
  BY RecordFields
<1>6. ASSUME NEW i \in 1 .. Len(s), NEW j \in 1 .. Len(s), i < j
      PROVE  s[i].writeId < s[j].writeId
  <2>1. s[i].write < s[j].write
    BY <1>2, <1>6 DEF InOrder
  <2>. QED BY <1>4, <2>1 DEF IdsInOrder
<1>7. \A i \in 2 .. Len(s) : s[i - 1].writeId < s[i].writeId
  <2>. SUFFICES ASSUME NEW i \in 2 .. Len(s) PROVE s[i - 1].writeId < s[i].writeId
    OBVIOUS
  <2>1. i - 1 \in 1 .. Len(s) /\ i \in 1 .. Len(s) /\ i - 1 < i
    BY <1>4
  <2>. QED BY <1>6, <2>1
<1>8. /\ alive' = TRUE /\ writeIdCounter' = CounterAfter(s) /\ pendingWriteTree' = s
      /\ outstandingPuts' = s /\ outOfOrder' = outOfOrder
  BY <1>3, <1>7 DEF RestoreWrites, RestoredPuts
<1>9. writeIdCounter' \in Nat /\ \A r \in writesDB : r.writeId < writeIdCounter'
  <2>1. CASE s = << >>
    BY <1>2, <1>8, <2>1 DEF CounterAfter, InOrder
  <2>2. CASE s # << >>
    <3>1. Len(s) \in 1 .. Len(s)
      BY <1>4, <2>2
    <3>2. writeIdCounter' = s[Len(s)].writeId + 1 /\ s[Len(s)].writeId \in Nat
      BY <1>4, <1>5, <1>8, <2>2, <3>1 DEF CounterAfter, Last
    <3>3. ASSUME NEW i \in 1 .. Len(s)
          PROVE  s[i].writeId <= s[Len(s)].writeId
      <4>1. i = Len(s) \/ i < Len(s)
        BY <1>4
      <4>. QED BY <1>4, <1>5, <1>6, <3>1, <4>1
    <3>4. ASSUME NEW r \in writesDB
          PROVE  r.writeId < writeIdCounter'
      <4>1. PICK i \in 1 .. Len(s) : s[i] = r
        BY <1>2 DEF InOrder
      <4>. QED BY <1>5, <3>2, <3>3, <4>1
    <3>. QED BY <3>2, <3>4
  <2>. QED BY <2>1, <2>2
<1>10. UserWritesTypeOK' /\ IdsInOrder'
  BY <1>1, <1>8, <1>9 DEF UserWritesTypeOK, IdsInOrder
<1>11. PendingTogether'
  BY <1>1, <1>2, <1>8 DEF PendingTogether, Numbers, InOrder
<1>12. WireInOrder' /\ AnsweredAreOlder' /\ ServerKeepsUp'
  BY <1>1, <1>8 DEF WireInOrder, Ascending, AnsweredAreOlder, ServerKeepsUp, Served
<1>. QED BY <1>8, <1>10, <1>11, <1>12

\* The writes that are sent again are those pending, in their order.
LEMMA ConnectKeeps ==
    ASSUME WritesInv, Connect
    PROVE  WritesInv'
<1>. USE DEF WritesInv
<1>1. /\ alive /\ ~connected /\ connected' = TRUE /\ toServer' = PutsToRestore
      /\ UNCHANGED << alive, writeIdCounter, pendingWriteTree, outstandingPuts, writesDB, toClient,
                      serverValue, issued, answered, purgedWrites, outOfOrder >>
  BY DEF Connect
<1>2. InOrder(outstandingPuts, writesDB) /\ toClient = << >>
  BY <1>1 DEF PendingTogether, WireInOrder
<1>3. /\ outstandingPuts \in Seq(writesDB) /\ Len(outstandingPuts) \in Nat
      /\ DOMAIN outstandingPuts = 1 .. Len(outstandingPuts)
      /\ \A i \in 1 .. Len(outstandingPuts) : outstandingPuts[i] \in writesDB
  BY <1>2 DEF InOrder
<1>4. \A r \in writesDB : r.write \in 1 .. Len(issued)
  BY RecordFields
<1>5. toServer' \in [1 .. Len(outstandingPuts) -> 1 .. Len(issued)]
  BY <1>1, <1>3, <1>4 DEF PutsToRestore
<1>6. PICK A : A = 1 .. Len(issued)
  OBVIOUS
<1>7. /\ toServer' \in Seq(A) /\ Len(toServer') = Len(outstandingPuts)
      /\ \A i \in 1 .. Len(toServer') : toServer'[i] = outstandingPuts[i].write
  <2>1. toServer' \in Seq(A) /\ Len(toServer') = Len(outstandingPuts)
    BY <1>3, <1>5, <1>6
  <2>. QED BY <1>1, <1>3, <2>1 DEF PutsToRestore
<1>8. UserWritesTypeOK' /\ IdsInOrder' /\ PendingTogether'
  BY <1>1, <1>6, <1>7 DEF UserWritesTypeOK, IdsInOrder, PendingTogether, Numbers, InOrder
<1>9. Ascending(toServer')
  BY <1>2, <1>7 DEF Ascending, InOrder
<1>10. \A r \in writesDB : \E i \in 1 .. Len(toServer') : toServer'[i] = r.write
  BY <1>2, <1>7 DEF InOrder
<1>11. WireInOrder'
  BY <1>1, <1>2, <1>9, <1>10 DEF WireInOrder, Ascending
<1>12. AnsweredAreOlder'
  BY <1>1, <1>3, <1>7 DEF AnsweredAreOlder
<1>13. ServerKeepsUp'
  BY <1>1 DEF ServerKeepsUp, Served
<1>. QED BY <1>1, <1>8, <1>11, <1>12, <1>13

\* The server's value becomes a newer one than all that were answered.
LEMMA ServerTakesKeeps ==
    ASSUME WritesInv, ServerTakes
    PROVE  WritesInv'
<1>. USE DEF WritesInv
<1>1. PICK n : n = Head(toServer)
  OBVIOUS
<1>2. /\ toServer # << >> /\ toServer' = Tail(toServer) /\ toClient' = Append(toClient, n)
      /\ serverValue' = [c \in Children |-> IF issued[n].allowed /\ c \in issued[n].covers THEN n
                                            ELSE serverValue[c]]
      /\ UNCHANGED << alive, writeIdCounter, pendingWriteTree, outstandingPuts, writesDB, connected,
                      issued, answered, purgedWrites, outOfOrder >>
  BY <1>1 DEF ServerTakes
<1>3. PICK A : A = 1 .. Len(issued)
  OBVIOUS
<1>4. /\ toServer \in Seq(A) /\ toClient \in Seq(A) /\ A \subseteq Nat
      /\ toServer \in Seq(Nat) /\ toClient \in Seq(Nat)
  BY <1>3 DEF UserWritesTypeOK
<1>5. /\ Ascending(toServer') /\ Len(toServer) >= 1 /\ Len(toServer') = Len(toServer) - 1
      /\ \A i \in 1 .. Len(toServer') :
           toServer'[i] = toServer[i + 1] /\ i + 1 \in 1 .. Len(toServer) /\ toServer[1] < toServer'[i]
      /\ toServer' \in Seq(A)
  BY <1>2, <1>4, AscendingTail DEF WireInOrder
<1>6. n = toServer[1] /\ n \in A /\ n \in Nat /\ 1 \in 1 .. Len(toServer)
  BY <1>1, <1>2, <1>4, <1>5
<1>7. /\ toClient' \in Seq(A) /\ Len(toClient') = Len(toClient) + 1 /\ Len(toClient) \in Nat
      /\ toClient'[Len(toClient) + 1] = n
      /\ \A i \in 1 .. Len(toClient) : toClient'[i] = toClient[i] /\ toClient[i] < n
      /\ \A i \in 1 .. Len(toClient) : toClient[i] \in A
  <2>1. \A i \in 1 .. Len(toClient) : toClient[i] < n
    BY <1>6 DEF WireInOrder
  <2>. QED BY <1>2, <1>4, <1>6, <2>1
<1>8. /\ \A i \in 1 .. Len(toClient') : \/ i \in 1 .. Len(toClient) /\ toClient'[i] = toClient[i]
                                        \/ toClient'[i] = n
      /\ \A i \in 1 .. Len(toClient) : i \in 1 .. Len(toClient') /\ toClient'[i] = toClient[i]
      /\ \E i \in 1 .. Len(toClient') : toClient'[i] = n
  BY <1>7
<1>9. serverValue' \in [Children -> Nat]
  BY <1>2, <1>6 DEF UserWritesTypeOK
<1>10. UserWritesTypeOK' /\ IdsInOrder' /\ PendingTogether'
  BY <1>2, <1>3, <1>5, <1>7, <1>9 DEF UserWritesTypeOK, IdsInOrder, PendingTogether, Numbers, InOrder
<1>11. WireInOrder'
  <2>1. Ascending(toClient')
    BY <1>2, <1>4, <1>6, <1>7, AscendingAppend DEF WireInOrder
  <2>2. \A i \in 1 .. Len(toClient'), j \in 1 .. Len(toServer') : toClient'[i] < toServer'[j]
    BY <1>5, <1>6, <1>8 DEF WireInOrder
  <2>3. connected /\ alive
    BY <1>2 DEF WireInOrder, UserWritesTypeOK
  <2>4. ASSUME NEW r \in writesDB
        PROVE  \/ \E i \in 1 .. Len(toClient') : toClient'[i] = r.write
               \/ \E i \in 1 .. Len(toServer') : toServer'[i] = r.write
    <3>1. CASE \E i \in 1 .. Len(toClient) : toClient[i] = r.write
      BY <1>8, <3>1
    <3>2. CASE \E i \in 1 .. Len(toServer) : toServer[i] = r.write
      <4>1. PICK i \in 1 .. Len(toServer) : toServer[i] = r.write
        BY <3>2
      <4>2. CASE i = 1
        BY <1>6, <1>8, <4>1, <4>2
      <4>3. CASE i # 1
        <5>1. i - 1 \in 1 .. Len(toServer') /\ (i - 1) + 1 = i
          BY <1>4, <1>5, <4>3
        <5>. QED BY <1>5, <4>1, <5>1
      <4>. QED BY <4>2, <4>3
    <3>. QED BY <2>3, <3>1, <3>2 DEF WireInOrder
  <2>. QED BY <1>2, <1>5, <2>1, <2>2, <2>3, <2>4 DEF WireInOrder, Ascending
<1>12. AnsweredAreOlder'
  BY <1>2, <1>5 DEF AnsweredAreOlder
<1>13. ASSUME NEW m \in Nat, m < n, Served(m)
       PROVE  Served(m)'
  <2>. SUFFICES ASSUME NEW c \in Children, issued[m].allowed, c \in issued[m].covers
                PROVE  serverValue'[c] >= m
    BY <1>2 DEF Served
  <2>1. serverValue[c] >= m /\ serverValue[c] \in Nat
    BY <1>13 DEF Served, UserWritesTypeOK
  <2>2. serverValue'[c] = n \/ serverValue'[c] = serverValue[c]
    BY <1>2
  <2>. QED BY <1>6, <1>13, <2>1, <2>2
<1>14. Served(n)'
  BY <1>2, <1>6 DEF Served
<1>15. ServerKeepsUp'
  <2>1. ASSUME NEW m \in answered
        PROVE  Served(m)'
    <3>1. m \in Nat /\ m < n /\ Served(m)
      BY <1>6 DEF AnsweredAreOlder, ServerKeepsUp, UserWritesTypeOK
    <3>. QED BY <1>13, <3>1
  <2>2. ASSUME NEW i \in 1 .. Len(toClient')
        PROVE  /\ toClient'[i] \in Nat
               /\ (toClient'[i] < n /\ Served(toClient'[i])) \/ toClient'[i] = n
    BY <1>4, <1>6, <1>7, <1>8 DEF ServerKeepsUp
  <2>3. ASSUME NEW i \in 1 .. Len(toClient')
        PROVE  \A m : m = toClient'[i] => Served(m)'
    BY <1>13, <1>14, <2>2
  <2>4. \A m \in answered' : Served(m)'
    BY <1>2, <2>1
  <2>. QED BY <2>3, <2>4 DEF ServerKeepsUp, Served
<1>. QED BY <1>2, <1>10, <1>11, <1>12, <1>15

\* What is on its way is lost, with the process or without it: the store is not.
LEMMA LossKeeps ==
    ASSUME WritesInv, Disconnect \/ Killed
    PROVE  WritesInv'
<1>. USE DEF WritesInv
<1>1. /\ alive /\ connected' = FALSE /\ toServer' = << >> /\ toClient' = << >>
      /\ UNCHANGED << writesDB, serverValue, issued, answered, purgedWrites, outOfOrder >>
      /\ \/ UNCHANGED << alive, writeIdCounter, pendingWriteTree, outstandingPuts >>
         \/ ~alive' /\ alive' = FALSE /\ writeIdCounter' = 0
  BY DEF Disconnect, Killed, WireInOrder, UserWritesTypeOK
<1>2. InOrder(outstandingPuts, writesDB)
  BY <1>1 DEF PendingTogether
<1>3. UserWritesTypeOK'
  <2>1. \A A : << >> \in Seq(A)
    OBVIOUS
  <2>2. alive' \in BOOLEAN
    BY <1>1, Zenon DEF UserWritesTypeOK
  <2>a. writeIdCounter' = writeIdCounter \/ writeIdCounter' = 0
    BY DEF Disconnect, Killed
  <2>3. writeIdCounter' \in Nat
    BY <2>a DEF UserWritesTypeOK
  <2>. QED BY <1>1, <2>1, <2>2, <2>3 DEF UserWritesTypeOK
<1>4. IdsInOrder'
  BY <1>1 DEF IdsInOrder
<1>5. PendingTogether'
  <2>1. Numbers(writesDB)' = 1 .. Len(issued') \ (answered' \cup purgedWrites')
    BY <1>1 DEF PendingTogether, Numbers
  <2>2. CASE UNCHANGED << alive, writeIdCounter, pendingWriteTree, outstandingPuts >>
    BY <1>1, <2>1, <2>2 DEF PendingTogether, InOrder
  <2>3. CASE ~alive'
    BY <1>1, <1>2, <2>1, <2>3 DEF PendingTogether, InOrder
  <2>. QED BY <1>1, <2>2, <2>3
<1>6. WireInOrder' /\ AnsweredAreOlder' /\ ServerKeepsUp'
  BY <1>1 DEF WireInOrder, Ascending, AnsweredAreOlder, ServerKeepsUp, Served
<1>. QED BY <1>1, <1>3, <1>4, <1>5, <1>6

-----------------------------------------------------------------------------
LEMMA WritesKeptByStep == WritesInv /\ [UserWritesNext]_userWritesVars => WritesInv'
<1>. SUFFICES ASSUME WritesInv, [UserWritesNext]_userWritesVars
              PROVE  WritesInv'
  OBVIOUS
<1>1. ASSUME NEW allowed \in BOOLEAN, SetValue(allowed)
      PROVE  WritesInv'
  BY <1>1, MakeWriteKeeps DEF SetValue
<1>2. ASSUME NEW allowed \in BOOLEAN, NEW child \in Children, Update(child, allowed)
      PROVE  WritesInv'
  <2>1. {child} \in SUBSET Children
    OBVIOUS
  <2>. QED BY <1>2, <2>1, MakeWriteKeeps DEF Update
<1>3. CASE UNCHANGED userWritesVars
  BY <1>3 DEF userWritesVars, WritesInv, UserWritesTypeOK, IdsInOrder, PendingTogether, Numbers,
              InOrder, WireInOrder, Ascending, AnsweredAreOlder, ServerKeepsUp, Served
<1>. QED
  BY <1>1, <1>2, <1>3, AckWriteKeeps, PurgeWritesKeeps, RestoreWritesKeeps, ConnectKeeps,
     ServerTakesKeeps, LossKeeps DEF UserWritesNext

LEMMA InvariantKeepsWrites == WritesInv => WritesKept
<1>. SUFFICES ASSUME WritesInv PROVE WritesKept
  OBVIOUS
<1>. USE DEF WritesInv
<1>1. PendingIsStored
  <2>1. alive => StoredWrites = outstandingPuts /\ pendingWriteTree = outstandingPuts
    BY StoredInOrder DEF PendingTogether
  <2>. QED BY <2>1 DEF PendingIsStored, PendingTogether
<1>2. LastWriteWins
  <2>. SUFFICES ASSUME writesDB = {}, NEW child \in Children, NEW n \in 1 .. Len(issued),
                       child \in issued[n].covers, issued[n].allowed, n \notin purgedWrites
                PROVE  serverValue[child] >= n
    BY DEF LastWriteWins
  <2>1. Numbers(writesDB) = {}
    BY DEF Numbers
  <2>2. n \in answered
    BY <2>1 DEF PendingTogether
  <2>. QED BY <2>2 DEF ServerKeepsUp, Served
<1>. QED BY <1>1, <1>2 DEF WritesKept, RestorableInOrder

\* For any number of writes, lost connections, crashes, rejections and purges in
\* any order: a pending write is in the store, the tree and the connection
\* together, what is stored is restored in order, and no older write is left over
\* a newer one at the server although every reconnection sends writes again.
THEOREM StoredWritesKept == UserWritesSpec => []WritesKept
BY WritesStart, WritesKeptByStep, InvariantKeepsWrites, PTL DEF UserWritesSpec
=============================================================================
