------------------------- MODULE TableReaderProofs -------------------------
(***************************************************************************)
(* Blocks that are read, shared and freed: for any number of threads,      *)
(* tables and addresses, BlocksSafe holds of TableReader.  No thread uses  *)
(* a block or a table that was deleted, though their addresses are used    *)
(* again, none leaks and none is deleted twice.                            *)
(*                                                                         *)
(* The facts of the inductive invariant speak of the parts of the state    *)
(* they relate, given as parameters: o the tables, b the blocks, e the     *)
(* entries of the block cache, u the threads, d what their iterators hold  *)
(* and n the last cache id.                                                *)
(***************************************************************************)
EXTENDS TableReader, FiniteSetTheorems, TLAPS

-----------------------------------------------------------------------------
(* The inductive invariant *)

Places == TableThreads \X {"held", "got"}
Hands(u) == [x \in Places |-> u[x[1]][x[2]]]
Datum == [block : Pointers, handle : Pointers \cup {Uncached}]

Steps == {"idle", "open", "use", "read", "insert", "got", "cleanup"}
Users == [pc : Steps, file : TableNumbers \cup {0}, table : Pointers \cup {0},
          offset : Offsets \cup {0}, held : Datum \cup {NoData}, got : Datum \cup {NoData}]
TableObjects == [file : TableNumbers, mapped : BOOLEAN, cache_id : Nat, in_cache : BOOLEAN,
                 refs : Nat]
BlockObjects == [of : Pointers \cup {0}, file : TableNumbers, offset : Offsets, owned : BOOLEAN]
Entries == [key : Nat \X Offsets, block : Pointers, in_cache : BOOLEAN, refs : Nat]
Objects(f, kind) == DOMAIN f \subseteq Pointers /\ f \in [DOMAIN f -> kind]

\* The types of the state.
ReaderTypes(o, b, e, u, n) ==
    /\ Objects(o, TableObjects) /\ Objects(b, BlockObjects) /\ Objects(e, Entries)
    /\ u \in [TableThreads -> Users] /\ n \in Nat

\* A thread has what its step needs: the table it uses, a name to open, a block
\* to insert.
Reading(u, t) == u[t].pc \in {"use", "read", "insert", "got", "cleanup"}
StepsSound(u) ==
    \A t \in TableThreads :
        /\ u[t].pc # "idle" => u[t].file \in TableNumbers
        /\ u[t].pc \in {"read", "insert"} => u[t].offset \in Offsets
        /\ u[t].held # NoData => u[t].pc \in {"use", "read", "insert", "got"}
        /\ u[t].got # NoData => u[t].pc \in {"insert", "got"}
        /\ u[t].pc = "insert" => u[t].got # NoData /\ u[t].got.handle = Uncached

\* A table in use is open and is the one of the file asked for; its count says
\* how many use it; its cache id is its own.
ReadersOf(u, p) == {t \in TableThreads : Reading(u, t) /\ u[t].table = p}
TablesSound(o, u, n) ==
    /\ \A t \in TableThreads : Reading(u, t) =>
          u[t].table \in DOMAIN o /\ o[u[t].table].file = u[t].file
    /\ \A p \in DOMAIN o : o[p].refs = Cardinality(ReadersOf(u, p))
    /\ \A p \in DOMAIN o : o[p].cache_id <= n
    /\ \A p, q \in DOMAIN o : o[p].cache_id = o[q].cache_id => p = q

\* Handles and entries refer to what exists, an entry counts its handles, and a
\* block has exactly one entry or one iterator that read it for itself.
Holders(d, h) == {x \in Places : d[x] # NoData /\ d[x].handle = h}
Owns(d, x) == d[x] # NoData /\ d[x].handle = Uncached
HandsLive(b, e, d) ==
    \A x \in Places : d[x] # NoData =>
        /\ d[x].block \in DOMAIN b
        /\ d[x].handle # Uncached => d[x].handle \in DOMAIN e /\ e[d[x].handle].block = d[x].block
EntriesCount(b, e, d) ==
    \A h \in DOMAIN e : e[h].block \in DOMAIN b /\ e[h].refs = Cardinality(Holders(d, h))
OneOwner(e, d) ==
    /\ \A g, h \in DOMAIN e : e[g].block = e[h].block => g = h
    /\ \A x, y \in Places : Owns(d, x) /\ Owns(d, y) /\ d[x].block = d[y].block => x = y
    /\ \A h \in DOMAIN e, x \in Places : Owns(d, x) => d[x].block # e[h].block
NoneLeaks(b, e, d) ==
    \A p \in DOMAIN b : \/ \E h \in DOMAIN e : e[h].block = p
                        \/ \E x \in Places : Owns(d, x) /\ d[x].block = p
OwnersSound(b, e, d) ==
    /\ Objects(b, BlockObjects) /\ Objects(e, Entries) /\ d \in [Places -> Datum \cup {NoData}]
    /\ HandsLive(b, e, d) /\ EntriesCount(b, e, d) /\ OneOwner(e, d) /\ NoneLeaks(b, e, d)

\* A block in hand is of the file that its thread reads, and points into no
\* file but that of the table its thread uses; a block to insert owns its
\* contents; a block just got is at the offset asked for.
HandsRight(b, u) ==
    \A t \in TableThreads :
        /\ u[t].held # NoData => /\ b[u[t].held.block].file = u[t].file
                                 /\ \/ b[u[t].held.block].owned
                                    \/ b[u[t].held.block].of = u[t].table
        /\ u[t].got # NoData => /\ b[u[t].got.block].file = u[t].file
                                /\ b[u[t].got.block].offset = u[t].offset
                                /\ \/ b[u[t].got.block].owned
                                   \/ b[u[t].got.block].of = u[t].table
        /\ u[t].pc = "insert" => b[u[t].got.block].owned

\* A cached block owns its contents, and its key names its offset and, by the
\* cache id that no later table has, the file it is of.
KeysRight(o, b, e, n) ==
    \A h \in DOMAIN e :
        /\ b[e[h].block].owned
        /\ e[h].key[1] <= n
        /\ b[e[h].block].offset = e[h].key[2]
        /\ \A p \in DOMAIN o : o[p].cache_id = e[h].key[1] => b[e[h].block].file = o[p].file

\* All of it.
ReaderSound(o, b, e, u, n) ==
    /\ ReaderTypes(o, b, e, u, n) /\ StepsSound(u) /\ TablesSound(o, u, n)
    /\ OwnersSound(b, e, Hands(u)) /\ HandsRight(b, u) /\ KeysRight(o, b, e, n)
ReaderInv == ReaderSound(open, block, cacheEntry, user, last_id_)

-----------------------------------------------------------------------------
(* Counting holders *)

\* What an iterator holds is not the empty sequence that stands for nothing.
LEMMA DatumIsSome == \A x \in Datum : x # NoData
BY DEF Datum, NoData

\* There are finitely many places to hold a block, and so finitely many holders.
LEMMA HoldersFinite ==
    ASSUME NEW d, NEW h
    PROVE  IsFiniteSet(Holders(d, h)) /\ Cardinality(Holders(d, h)) \in Nat
<1>1. IsFiniteSet({"held", "got"})
  <2>1. IsFiniteSet({"held"})
    BY FS_Singleton
  <2>2. {"held", "got"} = {"held"} \cup {"got"}
    OBVIOUS
  <2> QED
    BY <2>1, <2>2, FS_AddElement
<1>2. IsFiniteSet(Places)
  BY <1>1, ReaderAssumption, FS_Product DEF Places
<1>3. Holders(d, h) \subseteq Places
  BY DEF Holders
<1> QED
  BY <1>2, <1>3, FS_Subset, FS_CardinalityType

\* A set without elements is the empty set, and is the only one counted zero.
LEMMA CountZero ==
    ASSUME NEW S, IsFiniteSet(S), Cardinality(S) = 0
    PROVE  S = {}
BY FS_EmptySet

\* One more and one fewer.
LEMMA CountMore ==
    ASSUME NEW S, IsFiniteSet(S), NEW x, x \notin S
    PROVE  Cardinality(S \cup {x}) = Cardinality(S) + 1
BY FS_AddElement

LEMMA CountLess ==
    ASSUME NEW S, IsFiniteSet(S), NEW x \in S
    PROVE  /\ Cardinality(S \ {x}) = Cardinality(S) - 1
           /\ Cardinality(S) > 0
<1>1. Cardinality(S \ {x}) = Cardinality(S) - 1
  BY FS_RemoveElement
<1>2. Cardinality(S) \in Nat /\ S # {}
  BY FS_CardinalityType
<1>3. Cardinality(S) # 0
  BY <1>2, FS_EmptySet
<1> QED
  BY <1>1, <1>2, <1>3

-----------------------------------------------------------------------------
(* What the operations on blocks and entries do to their owners *)

\* One reference more, one fewer.
More(f, p) == [f EXCEPT ![p].refs = @ + 1]
Fewer(f, p) == [f EXCEPT ![p].refs = @ - 1]

\* Deleting the entries that nobody refers to, with their blocks, takes nothing
\* from anybody.
LEMMA CommitKeepsOwners ==
    ASSUME NEW b, NEW e, NEW d, OwnersSound(b, e, d)
    PROVE  OwnersSound(Freed(b, {e[h].block : h \in Unreferenced(e)}),
                       Freed(e, Unreferenced(e)), d)
<1> DEFINE gone == Unreferenced(e)
           b2 == Freed(b, {e[h].block : h \in gone})
           e2 == Freed(e, gone)
<1>1. gone \subseteq DOMAIN e /\ \A h \in gone : e[h].refs = 0
  BY DEF Unreferenced
<1>2. DOMAIN b2 = DOMAIN b \ {e[h].block : h \in gone} /\ \A p \in DOMAIN b2 : b2[p] = b[p]
  BY DEF Freed
<1>3. DOMAIN e2 = DOMAIN e \ gone /\ \A h \in DOMAIN e2 : e2[h] = e[h]
  BY DEF Freed
<1>4. \A x \in Places : d[x] # NoData /\ d[x].handle \in DOMAIN e => d[x].handle \notin gone
  <2> SUFFICES ASSUME NEW x \in Places, d[x] # NoData, d[x].handle \in gone
               PROVE  FALSE
    BY <1>1
  <2>1. x \in Holders(d, d[x].handle)
    BY DEF Holders
  <2>2. Cardinality(Holders(d, d[x].handle)) = 0
    BY <1>1 DEF OwnersSound, EntriesCount
  <2> QED
    BY <2>1, <2>2, HoldersFinite, CountZero
<1>5. Objects(b2, BlockObjects) /\ Objects(e2, Entries)
  BY <1>2, <1>3 DEF OwnersSound, Objects, Freed
<1>6. HandsLive(b2, e2, d)
  <2> SUFFICES ASSUME NEW x \in Places, d[x] # NoData
               PROVE  /\ d[x].block \in DOMAIN b2
                      /\ d[x].handle # Uncached => /\ d[x].handle \in DOMAIN e2
                                                   /\ e2[d[x].handle].block = d[x].block
    BY DEF HandsLive
  <2>1. d[x].block \in DOMAIN b
    BY DEF OwnersSound, HandsLive
  <2>2. CASE d[x].handle = Uncached
    <3>1. \A h \in DOMAIN e : d[x].block # e[h].block
      BY <2>2 DEF OwnersSound, OneOwner, Owns
    <3> QED
      BY <1>1, <1>2, <2>1, <2>2, <3>1
  <2>3. CASE d[x].handle # Uncached
    <3>1. d[x].handle \in DOMAIN e /\ e[d[x].handle].block = d[x].block
      BY <2>3 DEF OwnersSound, HandsLive
    <3>2. d[x].handle \in DOMAIN e \ gone
      BY <1>4, <3>1
    <3>3. \A h \in gone : e[h].block # d[x].block
      BY <1>1, <3>1, <3>2 DEF OwnersSound, OneOwner
    <3> QED
      BY <1>2, <1>3, <2>1, <3>1, <3>2, <3>3
  <2> QED
    BY <2>2, <2>3
<1>7. EntriesCount(b2, e2, d)
  <2> SUFFICES ASSUME NEW h \in DOMAIN e2
               PROVE  e2[h].block \in DOMAIN b2 /\ e2[h].refs = Cardinality(Holders(d, h))
    BY DEF EntriesCount
  <2>1. e[h].block \in DOMAIN b /\ e[h].refs = Cardinality(Holders(d, h))
    BY <1>3 DEF OwnersSound, EntriesCount
  <2>2. \A g \in gone : e[g].block # e[h].block
    BY <1>1, <1>3 DEF OwnersSound, OneOwner
  <2> QED
    BY <1>2, <1>3, <2>1, <2>2
<1>8. OneOwner(e2, d)
  BY <1>3 DEF OwnersSound, OneOwner
<1>9. NoneLeaks(b2, e2, d)
  <2> SUFFICES ASSUME NEW p \in DOMAIN b2
               PROVE  \/ \E h \in DOMAIN e2 : e2[h].block = p
                      \/ \E x \in Places : Owns(d, x) /\ d[x].block = p
    BY DEF NoneLeaks
  <2>1. \/ \E h \in DOMAIN e : e[h].block = p
        \/ \E x \in Places : Owns(d, x) /\ d[x].block = p
    BY <1>2 DEF OwnersSound, NoneLeaks
  <2> QED
    BY <1>2, <1>3, <2>1
<1> QED
  BY <1>5, <1>6, <1>7, <1>8, <1>9 DEF OwnersSound


\* Entries may leave the cache, and nothing else about them changes.
LEMMA UncachedKeepsOwners ==
    ASSUME NEW b, NEW e, NEW d, OwnersSound(b, e, d), NEW e2, Objects(e2, Entries),
           DOMAIN e2 = DOMAIN e,
           \A h \in DOMAIN e : e2[h].block = e[h].block /\ e2[h].refs = e[h].refs
    PROVE  OwnersSound(b, e2, d)
<1>1. HandsLive(b, e2, d)
  BY DEF OwnersSound, HandsLive
<1>2. EntriesCount(b, e2, d)
  BY DEF OwnersSound, EntriesCount
<1>3. OneOwner(e2, d)
  BY DEF OwnersSound, OneOwner
<1>4. NoneLeaks(b, e2, d)
  BY DEF OwnersSound, NoneLeaks
<1> QED
  BY <1>1, <1>2, <1>3, <1>4 DEF OwnersSound

\* An iterator takes a handle of a cached block.
LEMMA LookupKeepsOwners ==
    ASSUME NEW b, NEW e, NEW d, OwnersSound(b, e, d),
           NEW x \in Places, d[x] = NoData, NEW h \in DOMAIN e
    PROVE  OwnersSound(b, More(e, h), [d EXCEPT ![x] = Data2(e[h].block, h)])
<1> DEFINE data == Data2(e[h].block, h)
           e2 == More(e, h)
           d2 == [d EXCEPT ![x] = data]
<1>1. /\ e \in [DOMAIN e -> Entries] /\ h \in Pointers /\ h # Uncached
      /\ d \in [Places -> Datum \cup {NoData}]
  BY ReaderAssumption DEF OwnersSound, Objects, Uncached
<1>2. data \in Datum /\ data # NoData /\ data.block = e[h].block /\ data.handle = h
  BY <1>1, DatumIsSome DEF Data2, Datum, Entries
<1>3. /\ d2 \in [Places -> Datum \cup {NoData}] /\ d2[x] = data
      /\ \A y \in Places \ {x} : d2[y] = d[y]
  BY <1>1, <1>2
<1>4. /\ Objects(e2, Entries) /\ DOMAIN e2 = DOMAIN e
      /\ e2[h].refs = e[h].refs + 1
      /\ \A g \in DOMAIN e : e2[g].block = e[g].block
      /\ \A g \in DOMAIN e \ {h} : e2[g].refs = e[g].refs
  BY <1>1 DEF OwnersSound, Objects, Entries, More
<1> HIDE DEF data, e2, d2
<1>5. HandsLive(b, e2, d2)
  <2> SUFFICES ASSUME NEW y \in Places, d2[y] # NoData
               PROVE  /\ d2[y].block \in DOMAIN b
                      /\ d2[y].handle # Uncached => /\ d2[y].handle \in DOMAIN e2
                                                    /\ e2[d2[y].handle].block = d2[y].block
    BY DEF HandsLive
  <2>1. CASE y = x
    BY <1>2, <1>3, <1>4, <2>1 DEF OwnersSound, EntriesCount
  <2>2. CASE y # x
    BY <1>3, <1>4, <2>2 DEF OwnersSound, HandsLive
  <2> QED
    BY <2>1, <2>2
<1>6. EntriesCount(b, e2, d2)
  <2> SUFFICES ASSUME NEW g \in DOMAIN e
               PROVE  e2[g].block \in DOMAIN b /\ e2[g].refs = Cardinality(Holders(d2, g))
    BY <1>4 DEF EntriesCount
  <2>1. e[g].block \in DOMAIN b /\ e[g].refs = Cardinality(Holders(d, g))
    BY DEF OwnersSound, EntriesCount
  <2>2. CASE g = h
    <3>1. Holders(d2, g) = Holders(d, g) \cup {x} /\ x \notin Holders(d, g)
      BY <1>2, <1>3, <2>2 DEF Holders
    <3>2. Cardinality(Holders(d2, g)) = Cardinality(Holders(d, g)) + 1
      BY <3>1, HoldersFinite, CountMore
    <3> QED
      BY <1>4, <2>1, <2>2, <3>2
  <2>3. CASE g # h
    <3>1. Holders(d2, g) = Holders(d, g)
      BY <1>2, <1>3, <2>3 DEF Holders
    <3> QED
      BY <1>4, <2>1, <2>3, <3>1
  <2> QED
    BY <2>2, <2>3
<1>7. \A y \in Places : (Owns(d2, y) <=> Owns(d, y)) /\ (Owns(d, y) => d2[y] = d[y])
  BY <1>1, <1>2, <1>3 DEF Owns
<1>8. OneOwner(e2, d2)
  BY <1>4, <1>7 DEF OwnersSound, OneOwner
<1>9. NoneLeaks(b, e2, d2)
  BY <1>4, <1>7 DEF OwnersSound, NoneLeaks
<1> QED
  BY <1>3, <1>4, <1>5, <1>6, <1>8, <1>9 DEF OwnersSound, e2, d2, data

\* An iterator reads a block for itself.
LEMMA ReadKeepsOwners ==
    ASSUME NEW b, NEW e, NEW d, OwnersSound(b, e, d),
           NEW x \in Places, d[x] = NoData, NEW p \in Pointers \ DOMAIN b, NEW o \in BlockObjects
    PROVE  OwnersSound(Placed(b, p, o), e, [d EXCEPT ![x] = Data2(p, Uncached)])
<1> DEFINE data == Data2(p, Uncached)
           b2 == Placed(b, p, o)
           d2 == [d EXCEPT ![x] = data]
<1>1. d \in [Places -> Datum \cup {NoData}] /\ DOMAIN e \subseteq Pointers /\ Uncached \notin Pointers
  BY ReaderAssumption DEF OwnersSound, Objects, Uncached
<1>2. data \in Datum /\ data # NoData /\ data.block = p /\ data.handle = Uncached
  BY DatumIsSome DEF Data2, Datum
<1>3. /\ d2 \in [Places -> Datum \cup {NoData}] /\ d2[x] = data
      /\ \A y \in Places \ {x} : d2[y] = d[y]
  BY <1>1, <1>2
<1>4. Objects(b2, BlockObjects) /\ DOMAIN b2 = DOMAIN b \cup {p}
  BY DEF OwnersSound, Objects, Placed
<1> HIDE DEF data, b2, d2
<1>5. HandsLive(b2, e, d2)
  <2> SUFFICES ASSUME NEW y \in Places, d2[y] # NoData
               PROVE  /\ d2[y].block \in DOMAIN b2
                      /\ d2[y].handle # Uncached => /\ d2[y].handle \in DOMAIN e
                                                    /\ e[d2[y].handle].block = d2[y].block
    BY DEF HandsLive
  <2>1. CASE y = x
    BY <1>2, <1>3, <1>4, <2>1
  <2>2. CASE y # x
    BY <1>3, <1>4, <2>2 DEF OwnersSound, HandsLive
  <2> QED
    BY <2>1, <2>2
<1>6. EntriesCount(b2, e, d2)
  <2> SUFFICES ASSUME NEW g \in DOMAIN e
               PROVE  e[g].block \in DOMAIN b2 /\ e[g].refs = Cardinality(Holders(d2, g))
    BY DEF EntriesCount
  <2>1. e[g].block \in DOMAIN b /\ e[g].refs = Cardinality(Holders(d, g))
    BY DEF OwnersSound, EntriesCount
  <2>2. Holders(d2, g) = Holders(d, g)
    BY <1>1, <1>2, <1>3 DEF Holders
  <2> QED
    BY <1>4, <2>1, <2>2
<1>7. /\ Owns(d2, x) /\ d2[x].block = p /\ ~Owns(d, x)
      /\ \A y \in Places \ {x} : (Owns(d2, y) <=> Owns(d, y)) /\ d2[y] = d[y]
  BY <1>2, <1>3 DEF Owns
<1>8. \A y \in Places : Owns(d, y) => d[y].block # p
  BY DEF OwnersSound, HandsLive, Owns
<1>9. \A g \in DOMAIN e : e[g].block # p
  BY DEF OwnersSound, EntriesCount
<1>10. OneOwner(e, d2)
  <2>1. \A y, z \in Places : Owns(d2, y) /\ Owns(d2, z) /\ d2[y].block = d2[z].block => y = z
    BY <1>7, <1>8 DEF OwnersSound, OneOwner
  <2>2. \A h \in DOMAIN e, y \in Places : Owns(d2, y) => d2[y].block # e[h].block
    BY <1>7, <1>9 DEF OwnersSound, OneOwner
  <2> QED
    BY <2>1, <2>2 DEF OwnersSound, OneOwner
<1>11. NoneLeaks(b2, e, d2)
  BY <1>4, <1>7 DEF OwnersSound, NoneLeaks
<1> QED
  BY <1>3, <1>4, <1>5, <1>6, <1>10, <1>11 DEF OwnersSound, b2, d2, data


\* The block that an iterator read for itself becomes the cache's.
LEMMA InsertKeepsOwners ==
    ASSUME NEW b, NEW e, NEW d, OwnersSound(b, e, d), NEW x \in Places, Owns(d, x),
           NEW h \in Pointers \ DOMAIN e, NEW entry \in Entries,
           entry.block = d[x].block, entry.refs = 1
    PROVE  OwnersSound(b, Placed(e, h, entry), [d EXCEPT ![x] = Data2(d[x].block, h)])
<1> DEFINE data == Data2(d[x].block, h)
           e2 == Placed(e, h, entry)
           d2 == [d EXCEPT ![x] = data]
<1>1. /\ d \in [Places -> Datum \cup {NoData}] /\ h # Uncached
      /\ d[x] # NoData /\ d[x].handle = Uncached /\ d[x] \in Datum
  BY ReaderAssumption DEF OwnersSound, Uncached, Owns
<1>2. data \in Datum /\ data # NoData /\ data.block = d[x].block /\ data.handle = h
  BY <1>1, DatumIsSome DEF Data2, Datum
<1>3. /\ d2 \in [Places -> Datum \cup {NoData}] /\ d2[x] = data
      /\ \A y \in Places \ {x} : d2[y] = d[y]
  BY <1>1, <1>2
<1>4. /\ Objects(e2, Entries) /\ DOMAIN e2 = DOMAIN e \cup {h} /\ e2[h] = entry
      /\ \A g \in DOMAIN e : e2[g] = e[g]
  BY DEF OwnersSound, Objects, Placed
<1>5. d[x].block \in DOMAIN b
  BY <1>1 DEF OwnersSound, HandsLive
<1> HIDE DEF data, e2, d2
<1>6. HandsLive(b, e2, d2)
  <2> SUFFICES ASSUME NEW y \in Places, d2[y] # NoData
               PROVE  /\ d2[y].block \in DOMAIN b
                      /\ d2[y].handle # Uncached => /\ d2[y].handle \in DOMAIN e2
                                                    /\ e2[d2[y].handle].block = d2[y].block
    BY DEF HandsLive
  <2>1. CASE y = x
    BY <1>2, <1>3, <1>4, <1>5, <2>1
  <2>2. CASE y # x
    BY <1>3, <1>4, <2>2 DEF OwnersSound, HandsLive
  <2> QED
    BY <2>1, <2>2
<1>7. EntriesCount(b, e2, d2)
  <2> SUFFICES ASSUME NEW g \in DOMAIN e2
               PROVE  e2[g].block \in DOMAIN b /\ e2[g].refs = Cardinality(Holders(d2, g))
    BY DEF EntriesCount
  <2>1. CASE g = h
    <3>1. Holders(d, h) = {}
      BY <1>1 DEF Holders, OwnersSound, HandsLive
    <3>2. Holders(d2, h) = {x}
      BY <1>2, <1>3, <3>1 DEF Holders
    <3>3. Cardinality(Holders(d2, h)) = 1
      BY <3>2, FS_Singleton
    <3> QED
      BY <1>4, <1>5, <2>1, <3>3
  <2>2. CASE g # h
    <3>1. g \in DOMAIN e /\ g # Uncached
      BY <1>4, <2>2, ReaderAssumption DEF OwnersSound, Objects, Uncached
    <3>2. Holders(d2, g) = Holders(d, g)
      BY <1>1, <1>2, <1>3, <2>2, <3>1 DEF Holders
    <3> QED
      BY <1>4, <3>1, <3>2 DEF OwnersSound, EntriesCount
  <2> QED
    BY <2>1, <2>2
<1>8. /\ ~Owns(d2, x)
      /\ \A y \in Places \ {x} : (Owns(d2, y) <=> Owns(d, y)) /\ d2[y] = d[y]
  BY <1>1, <1>2, <1>3 DEF Owns
<1>9. \A g \in DOMAIN e : e[g].block # d[x].block
  BY DEF OwnersSound, OneOwner
<1>10. \A y \in Places \ {x} : Owns(d, y) => d[y].block # d[x].block
  BY DEF OwnersSound, OneOwner
<1>11. OneOwner(e2, d2)
  <2>1. \A f, g \in DOMAIN e2 : e2[f].block = e2[g].block => f = g
    BY <1>4, <1>9 DEF OwnersSound, OneOwner
  <2>2. \A y, z \in Places : Owns(d2, y) /\ Owns(d2, z) /\ d2[y].block = d2[z].block => y = z
    BY <1>8 DEF OwnersSound, OneOwner
  <2>3. \A g \in DOMAIN e2, y \in Places : Owns(d2, y) => d2[y].block # e2[g].block
    BY <1>4, <1>8, <1>10 DEF OwnersSound, OneOwner
  <2> QED
    BY <2>1, <2>2, <2>3 DEF OneOwner
<1>12. NoneLeaks(b, e2, d2)
  <2> SUFFICES ASSUME NEW p \in DOMAIN b
               PROVE  \/ \E g \in DOMAIN e2 : e2[g].block = p
                      \/ \E y \in Places : Owns(d2, y) /\ d2[y].block = p
    BY DEF NoneLeaks
  <2>1. CASE p = d[x].block
    BY <1>4, <2>1
  <2>2. CASE p # d[x].block
    BY <1>4, <1>8, <2>2 DEF OwnersSound, NoneLeaks
  <2> QED
    BY <2>1, <2>2
<1> QED
  BY <1>3, <1>4, <1>6, <1>7, <1>11, <1>12 DEF OwnersSound, e2, d2, data

\* An iterator gives up a handle of a cached block.
LEMMA ReleaseKeepsOwners ==
    ASSUME NEW b, NEW e, NEW d, OwnersSound(b, e, d), NEW x \in Places,
           d[x] # NoData, NEW h, h = d[x].handle, h # Uncached
    PROVE  OwnersSound(b, Fewer(e, h), [d EXCEPT ![x] = NoData])
<1> DEFINE e2 == Fewer(e, h)
           d2 == [d EXCEPT ![x] = NoData]
<1>1. d \in [Places -> Datum \cup {NoData}] /\ e \in [DOMAIN e -> Entries] /\ h \in DOMAIN e
  BY DEF OwnersSound, Objects, HandsLive
<1>2. /\ d2 \in [Places -> Datum \cup {NoData}] /\ d2[x] = NoData
      /\ \A y \in Places \ {x} : d2[y] = d[y]
  BY <1>1
<1>3. x \in Holders(d, h)
  BY DEF Holders
<1>4. e[h].refs = Cardinality(Holders(d, h)) /\ e[h].refs > 0
  BY <1>1, <1>3, HoldersFinite, CountLess DEF OwnersSound, EntriesCount
<1>5. /\ Objects(e2, Entries) /\ DOMAIN e2 = DOMAIN e
      /\ e2[h].refs = e[h].refs - 1
      /\ \A g \in DOMAIN e : e2[g].block = e[g].block
      /\ \A g \in DOMAIN e \ {h} : e2[g].refs = e[g].refs
  <2>1. e[h].refs - 1 \in Nat
    BY <1>1, <1>4 DEF Entries
  <2> QED
    BY <1>1, <2>1 DEF OwnersSound, Objects, Entries, Fewer
<1> HIDE DEF e2, d2
<1>6. HandsLive(b, e2, d2)
  BY <1>2, <1>5 DEF OwnersSound, HandsLive
<1>7. EntriesCount(b, e2, d2)
  <2> SUFFICES ASSUME NEW g \in DOMAIN e
               PROVE  e2[g].block \in DOMAIN b /\ e2[g].refs = Cardinality(Holders(d2, g))
    BY <1>5 DEF EntriesCount
  <2>1. e[g].block \in DOMAIN b /\ e[g].refs = Cardinality(Holders(d, g))
    BY DEF OwnersSound, EntriesCount
  <2>2. CASE g = h
    <3>1. Holders(d2, g) = Holders(d, g) \ {x}
      BY <1>2 DEF Holders
    <3>2. Cardinality(Holders(d2, g)) = Cardinality(Holders(d, g)) - 1
      BY <1>3, <2>2, <3>1, HoldersFinite, CountLess
    <3> QED
      BY <1>5, <2>1, <2>2, <3>2
  <2>3. CASE g # h
    <3>1. Holders(d2, g) = Holders(d, g)
      BY <1>2, <2>3 DEF Holders
    <3> QED
      BY <1>5, <2>1, <2>3, <3>1
  <2> QED
    BY <2>2, <2>3
<1>8. \A y \in Places : (Owns(d2, y) <=> Owns(d, y)) /\ (Owns(d, y) => d2[y] = d[y])
  BY <1>2 DEF Owns
<1>9. OneOwner(e2, d2)
  BY <1>5, <1>8 DEF OwnersSound, OneOwner
<1>10. NoneLeaks(b, e2, d2)
  BY <1>5, <1>8 DEF OwnersSound, NoneLeaks
<1> QED
  BY <1>2, <1>5, <1>6, <1>7, <1>9, <1>10 DEF OwnersSound, e2, d2

\* An iterator deletes the block that it read for itself.
LEMMA DeleteKeepsOwners ==
    ASSUME NEW b, NEW e, NEW d, OwnersSound(b, e, d), NEW x \in Places, Owns(d, x)
    PROVE  OwnersSound(Freed(b, {d[x].block}), e, [d EXCEPT ![x] = NoData])
<1> DEFINE b2 == Freed(b, {d[x].block})
           d2 == [d EXCEPT ![x] = NoData]
<1>1. /\ d \in [Places -> Datum \cup {NoData}] /\ d[x] # NoData /\ d[x].handle = Uncached
      /\ Uncached \notin DOMAIN e
  BY ReaderAssumption DEF OwnersSound, Owns, Objects, Uncached
<1>2. /\ d2 \in [Places -> Datum \cup {NoData}] /\ d2[x] = NoData
      /\ \A y \in Places \ {x} : d2[y] = d[y]
  BY <1>1
<1>3. Objects(b2, BlockObjects) /\ DOMAIN b2 = DOMAIN b \ {d[x].block}
  BY DEF OwnersSound, Objects, Freed
<1>4. \A g \in DOMAIN e : e[g].block # d[x].block
  BY DEF OwnersSound, OneOwner
<1>5. \A y \in Places \ {x} : Owns(d, y) => d[y].block # d[x].block
  BY DEF OwnersSound, OneOwner
<1> HIDE DEF b2, d2
<1>6. HandsLive(b2, e, d2)
  <2> SUFFICES ASSUME NEW y \in Places, d2[y] # NoData
               PROVE  /\ d2[y].block \in DOMAIN b2
                      /\ d2[y].handle # Uncached => /\ d2[y].handle \in DOMAIN e
                                                    /\ e[d2[y].handle].block = d2[y].block
    BY DEF HandsLive
  <2>1. y # x /\ d2[y] = d[y]
    BY <1>2
  <2>2. /\ d[y].block \in DOMAIN b
        /\ d[y].handle # Uncached => d[y].handle \in DOMAIN e /\ e[d[y].handle].block = d[y].block
    BY <2>1 DEF OwnersSound, HandsLive
  <2>3. d[y].block # d[x].block
    BY <1>4, <1>5, <2>1, <2>2 DEF Owns
  <2> QED
    BY <1>3, <2>1, <2>2, <2>3
<1>7. EntriesCount(b2, e, d2)
  <2> SUFFICES ASSUME NEW g \in DOMAIN e
               PROVE  e[g].block \in DOMAIN b2 /\ e[g].refs = Cardinality(Holders(d2, g))
    BY DEF EntriesCount
  <2>1. Holders(d2, g) = Holders(d, g)
    BY <1>1, <1>2 DEF Holders
  <2> QED
    BY <1>3, <1>4, <2>1 DEF OwnersSound, EntriesCount
<1>8. /\ ~Owns(d2, x)
      /\ \A y \in Places \ {x} : (Owns(d2, y) <=> Owns(d, y)) /\ d2[y] = d[y]
  BY <1>2 DEF Owns
<1>9. OneOwner(e, d2)
  BY <1>8 DEF OwnersSound, OneOwner
<1>10. NoneLeaks(b2, e, d2)
  BY <1>3, <1>8 DEF OwnersSound, NoneLeaks
<1> QED
  BY <1>2, <1>3, <1>6, <1>7, <1>9, <1>10 DEF OwnersSound, b2, d2

\* What was got takes the place of what was held.
LEMMA MoveKeepsOwners ==
    ASSUME NEW b, NEW e, NEW d, OwnersSound(b, e, d),
           NEW x \in Places, NEW y \in Places, x # y, d[x] = NoData
    PROVE  OwnersSound(b, e, [d EXCEPT ![x] = d[y], ![y] = NoData])
<1> DEFINE d2 == [d EXCEPT ![x] = d[y], ![y] = NoData]
<1>1. d \in [Places -> Datum \cup {NoData}]
  BY DEF OwnersSound
<1>2. /\ d2 \in [Places -> Datum \cup {NoData}] /\ d2[x] = d[y] /\ d2[y] = NoData
      /\ \A z \in Places \ {x, y} : d2[z] = d[z]
  BY <1>1
<1> HIDE DEF d2
<1>3. HandsLive(b, e, d2)
  BY <1>2 DEF OwnersSound, HandsLive
<1>4. EntriesCount(b, e, d2)
  <2> SUFFICES ASSUME NEW g \in DOMAIN e
               PROVE  e[g].block \in DOMAIN b /\ e[g].refs = Cardinality(Holders(d2, g))
    BY DEF EntriesCount
  <2>1. CASE y \in Holders(d, g)
    <3> DEFINE rest == Holders(d, g) \ {y}
    <3>1. Holders(d2, g) = rest \cup {x} /\ x \notin rest
      BY <1>2, <2>1 DEF Holders
    <3>2. IsFiniteSet(rest) /\ Cardinality(rest) = Cardinality(Holders(d, g)) - 1
      BY <2>1, HoldersFinite, CountLess, FS_Subset
    <3>3. Cardinality(rest \cup {x}) = Cardinality(rest) + 1
      BY <3>1, <3>2, CountMore
    <3>4. Cardinality(Holders(d2, g)) = Cardinality(Holders(d, g))
      BY <3>1, <3>2, <3>3, HoldersFinite
    <3> QED
      BY <3>4 DEF OwnersSound, EntriesCount
  <2>2. CASE y \notin Holders(d, g)
    <3>1. Holders(d2, g) = Holders(d, g)
      BY <1>2, <2>2 DEF Holders
    <3> QED
      BY <3>1 DEF OwnersSound, EntriesCount
  <2> QED
    BY <2>1, <2>2
<1>5. /\ ~Owns(d, x) /\ ~Owns(d2, y) /\ (Owns(d2, x) <=> Owns(d, y)) /\ d2[x] = d[y]
      /\ \A z \in Places \ {x, y} : (Owns(d2, z) <=> Owns(d, z)) /\ d2[z] = d[z]
  BY <1>2 DEF Owns
<1>6. OneOwner(e, d2)
  <2>1. \A v, w \in Places : Owns(d2, v) /\ Owns(d2, w) /\ d2[v].block = d2[w].block => v = w
    <3> SUFFICES ASSUME NEW v \in Places, NEW w \in Places,
                        Owns(d2, v), Owns(d2, w), d2[v].block = d2[w].block
                 PROVE  v = w
      OBVIOUS
    <3>1. v # y /\ w # y
      BY <1>5
    <3>2. PICK v0 \in Places : v0 = IF v = x THEN y ELSE v
      OBVIOUS
    <3>3. PICK w0 \in Places : w0 = IF w = x THEN y ELSE w
      OBVIOUS
    <3>4. Owns(d, v0) /\ d[v0] = d2[v] /\ Owns(d, w0) /\ d[w0] = d2[w]
      BY <1>5, <3>1, <3>2, <3>3
    <3>5. v0 = w0
      BY <3>4 DEF OwnersSound, OneOwner
    <3> QED
      BY <3>1, <3>2, <3>3, <3>5
  <2>2. \A g \in DOMAIN e, z \in Places : Owns(d2, z) => d2[z].block # e[g].block
    BY <1>5 DEF OwnersSound, OneOwner
  <2> QED
    BY <2>1, <2>2 DEF OwnersSound, OneOwner
<1>7. NoneLeaks(b, e, d2)
  BY <1>5 DEF OwnersSound, NoneLeaks
<1> QED
  BY <1>2, <1>3, <1>4, <1>6, <1>7 DEF OwnersSound, d2


-----------------------------------------------------------------------------
(* What the threads hold and which tables they use *)

LEMMA HandsOf ==
    ASSUME NEW u \in [TableThreads -> Users]
    PROVE  /\ Hands(u) \in [Places -> Datum \cup {NoData}]
           /\ \A t \in TableThreads :
                 /\ << t, "held" >> \in Places /\ Hands(u)[<< t, "held" >>] = u[t].held
                 /\ << t, "got" >> \in Places /\ Hands(u)[<< t, "got" >>] = u[t].got
<1>1. \A x \in Places : /\ x[1] \in TableThreads /\ x[2] \in {"held", "got"}
                        /\ u[x[1]][x[2]] \in Datum \cup {NoData}
  BY DEF Places, Users
<1> QED
  BY <1>1 DEF Hands, Places

\* When one thread changes, only its places do.
Only(t, u, u2) == \A s \in TableThreads \ {t} : u2[s] = u[s]
OnlyPlacesOf(t, u, u2) ==
    /\ \A x \in Places :
          \/ x = << t, "held" >> \/ x = << t, "got" >>
          \/ Hands(u2)[x] = Hands(u)[x] /\ x # << t, "held" >> /\ x # << t, "got" >>
    /\ << t, "held" >> \in Places /\ << t, "got" >> \in Places
    /\ << t, "held" >> # << t, "got" >>
    /\ Hands(u)[<< t, "held" >>] = u[t].held /\ Hands(u)[<< t, "got" >>] = u[t].got
    /\ Hands(u2)[<< t, "held" >>] = u2[t].held /\ Hands(u2)[<< t, "got" >>] = u2[t].got
    /\ Hands(u) \in [Places -> Datum \cup {NoData}]
    /\ \A d \in [Places -> Datum \cup {NoData}] :
          (\A x \in Places : Hands(u2)[x] = d[x]) => Hands(u2) = d

LEMMA HandsAfter ==
    ASSUME NEW u \in [TableThreads -> Users], NEW u2 \in [TableThreads -> Users],
           NEW t \in TableThreads, Only(t, u, u2)
    PROVE  OnlyPlacesOf(t, u, u2)
<1>1. \A x \in Places : \/ x = << t, "held" >> \/ x = << t, "got" >>
                        \/ x[1] \in TableThreads \ {t}
  BY DEF Places
<1>2. \A x \in Places : x[1] \in TableThreads \ {t} =>
          Hands(u2)[x] = Hands(u)[x] /\ x # << t, "held" >> /\ x # << t, "got" >>
  BY DEF Hands, Only
<1>3. /\ << t, "held" >> \in Places /\ << t, "got" >> \in Places
      /\ << t, "held" >> # << t, "got" >>
      /\ Hands(u)[<< t, "held" >>] = u[t].held /\ Hands(u)[<< t, "got" >>] = u[t].got
      /\ Hands(u2)[<< t, "held" >>] = u2[t].held /\ Hands(u2)[<< t, "got" >>] = u2[t].got
      /\ Hands(u) \in [Places -> Datum \cup {NoData}]
  BY HandsOf
<1>4. \A d \in [Places -> Datum \cup {NoData}] :
          (\A x \in Places : Hands(u2)[x] = d[x]) => Hands(u2) = d
  BY HandsOf
<1> QED
  BY <1>1, <1>2, <1>3, <1>4 DEF OnlyPlacesOf

LEMMA HandsSame ==
    ASSUME NEW u \in [TableThreads -> Users], NEW u2 \in [TableThreads -> Users],
           NEW t \in TableThreads, Only(t, u, u2),
           u2[t].held = u[t].held, u2[t].got = u[t].got
    PROVE  Hands(u2) = Hands(u)
<1>0. OnlyPlacesOf(t, u, u2)
  BY HandsAfter
<1>1. \A x \in Places : Hands(u2)[x] = Hands(u)[x]
  BY <1>0 DEF OnlyPlacesOf
<1> QED
  BY <1>1, <1>0 DEF OnlyPlacesOf

LEMMA HandsGot ==
    ASSUME NEW u \in [TableThreads -> Users], NEW u2 \in [TableThreads -> Users],
           NEW t \in TableThreads, Only(t, u, u2),
           u2[t].held = u[t].held
    PROVE  Hands(u2) = [Hands(u) EXCEPT ![<< t, "got" >>] = u2[t].got]
<1>0. OnlyPlacesOf(t, u, u2)
  BY HandsAfter
<1>1. PICK d : d = [Hands(u) EXCEPT ![<< t, "got" >>] = u2[t].got]
  OBVIOUS
<1>2. u2[t].got \in Datum \cup {NoData} /\ u2[t].held \in Datum \cup {NoData}
  BY DEF Users
<1>3. d \in [Places -> Datum \cup {NoData}]
  BY <1>1, <1>2, <1>0 DEF OnlyPlacesOf
<1>4. \A x \in Places : Hands(u2)[x] = d[x]
  BY <1>1, <1>0 DEF OnlyPlacesOf
<1> QED
  BY <1>1, <1>3, <1>4, <1>0 DEF OnlyPlacesOf

LEMMA HandsHeld ==
    ASSUME NEW u \in [TableThreads -> Users], NEW u2 \in [TableThreads -> Users],
           NEW t \in TableThreads, Only(t, u, u2),
           u2[t].got = u[t].got
    PROVE  Hands(u2) = [Hands(u) EXCEPT ![<< t, "held" >>] = u2[t].held]
<1>0. OnlyPlacesOf(t, u, u2)
  BY HandsAfter
<1>1. PICK d : d = [Hands(u) EXCEPT ![<< t, "held" >>] = u2[t].held]
  OBVIOUS
<1>2. u2[t].got \in Datum \cup {NoData} /\ u2[t].held \in Datum \cup {NoData}
  BY DEF Users
<1>3. d \in [Places -> Datum \cup {NoData}]
  BY <1>1, <1>2, <1>0 DEF OnlyPlacesOf
<1>4. \A x \in Places : Hands(u2)[x] = d[x]
  BY <1>1, <1>0 DEF OnlyPlacesOf
<1> QED
  BY <1>1, <1>3, <1>4, <1>0 DEF OnlyPlacesOf

LEMMA HandsMoved ==
    ASSUME NEW u \in [TableThreads -> Users], NEW u2 \in [TableThreads -> Users],
           NEW t \in TableThreads, Only(t, u, u2),
           u2[t].held = u[t].got, u2[t].got = NoData
    PROVE  Hands(u2) = [Hands(u) EXCEPT ![<< t, "held" >>] = u[t].got,
                                        ![<< t, "got" >>] = NoData]
<1>0. OnlyPlacesOf(t, u, u2)
  BY HandsAfter
<1>1. PICK d : d = [Hands(u) EXCEPT ![<< t, "held" >>] = u[t].got,
                                        ![<< t, "got" >>] = NoData]
  OBVIOUS
<1>2. u2[t].got \in Datum \cup {NoData} /\ u2[t].held \in Datum \cup {NoData}
  BY DEF Users
<1>3. d \in [Places -> Datum \cup {NoData}]
  BY <1>1, <1>2, <1>0 DEF OnlyPlacesOf
<1>4. \A x \in Places : Hands(u2)[x] = d[x]
  BY <1>1, <1>0 DEF OnlyPlacesOf
<1> QED
  BY <1>1, <1>3, <1>4, <1>0 DEF OnlyPlacesOf

LEMMA ReadersFinite ==
    ASSUME NEW u, NEW p
    PROVE  IsFiniteSet(ReadersOf(u, p)) /\ Cardinality(ReadersOf(u, p)) \in Nat
<1>1. ReadersOf(u, p) \subseteq TableThreads
  BY DEF ReadersOf
<1> QED
  BY <1>1, ReaderAssumption, FS_Subset, FS_CardinalityType

\* Some tables are no longer there, the others are as they were.
SomeClosed(o, o2) ==
    /\ DOMAIN o2 \subseteq DOMAIN o
    /\ \A p \in DOMAIN o2 : o2[p].file = o[p].file /\ o2[p].cache_id = o[p].cache_id

\* Tables are as sound for threads that use the same ones.
LEMMA SameReaders ==
    ASSUME NEW o, NEW u, NEW n, TablesSound(o, u, n), NEW u2,
           \A t \in TableThreads : /\ Reading(u2, t) <=> Reading(u, t)
                                   /\ Reading(u, t) => /\ u2[t].table = u[t].table
                                                       /\ u2[t].file = u[t].file
    PROVE  TablesSound(o, u2, n)
<1>1. \A p : ReadersOf(u2, p) = ReadersOf(u, p)
  BY DEF ReadersOf
<1> QED
  BY <1>1 DEF TablesSound

\* A thread begins to use an open table.
LEMMA TakeKeepsTables ==
    ASSUME NEW o, NEW u, NEW n, TablesSound(o, u, n), o \in [DOMAIN o -> TableObjects],
           NEW u2, NEW t \in TableThreads, Only(t, u, u2),
           ~Reading(u, t), Reading(u2, t), NEW p \in DOMAIN o,
           u2[t].table = p, u2[t].file = o[p].file
    PROVE  TablesSound(More(o, p), u2, n)
<1> DEFINE o2 == More(o, p)
<1>1. /\ DOMAIN o2 = DOMAIN o /\ o2[p].refs = o[p].refs + 1
      /\ \A q \in DOMAIN o : o2[q].file = o[q].file /\ o2[q].cache_id = o[q].cache_id
      /\ \A q \in DOMAIN o \ {p} : o2[q].refs = o[q].refs
  BY DEF TableObjects, More
<1> HIDE DEF o2
<1>2. ReadersOf(u2, p) = ReadersOf(u, p) \cup {t} /\ t \notin ReadersOf(u, p)
  BY DEF ReadersOf, Reading, Only
<1>3. \A q \in DOMAIN o \ {p} : ReadersOf(u2, q) = ReadersOf(u, q)
  BY DEF ReadersOf, Reading, Only
<1>4. Cardinality(ReadersOf(u2, p)) = Cardinality(ReadersOf(u, p)) + 1
  BY <1>2, ReadersFinite, CountMore
<1>5. \A q \in DOMAIN o2 : o2[q].refs = Cardinality(ReadersOf(u2, q))
  BY <1>1, <1>3, <1>4 DEF TablesSound
<1>6. \A s \in TableThreads : Reading(u2, s) =>
          u2[s].table \in DOMAIN o2 /\ o2[u2[s].table].file = u2[s].file
  BY <1>1 DEF TablesSound, Reading, Only
<1> QED
  BY <1>1, <1>5, <1>6 DEF TablesSound, o2

\* The cache gives up the table of a file: only a table that nobody uses goes.
LEMMA UncacheKeepsTables ==
    ASSUME NEW o, NEW u, NEW n, TablesSound(o, u, n), Objects(o, TableObjects), NEW file
    PROVE  /\ TablesSound(Uncache(o, file), u, n) /\ Objects(Uncache(o, file), TableObjects)
           /\ SomeClosed(o, Uncache(o, file))
<1> DEFINE in == {p \in DOMAIN o : o[p].in_cache /\ o[p].file = file}
           o2 == Uncache(o, file)
<1>1. /\ DOMAIN o2 = DOMAIN o \ {p \in in : o[p].refs = 0}
      /\ \A p \in DOMAIN o2 : o2[p] = IF p \in in THEN [o[p] EXCEPT !.in_cache = FALSE] ELSE o[p]
  BY DEF Uncache, Freed
<1>2. \A p \in DOMAIN o2 : /\ o2[p] \in TableObjects /\ o2[p].file = o[p].file
                           /\ o2[p].cache_id = o[p].cache_id /\ o2[p].refs = o[p].refs
  <2>1. \A r \in TableObjects : LET r2 == [r EXCEPT !.in_cache = FALSE]
                                IN  /\ r2 \in TableObjects /\ r2.file = r.file
                                    /\ r2.cache_id = r.cache_id /\ r2.refs = r.refs
    BY DEF TableObjects
  <2> SUFFICES ASSUME NEW p \in DOMAIN o2
               PROVE  /\ o2[p] \in TableObjects /\ o2[p].file = o[p].file
                      /\ o2[p].cache_id = o[p].cache_id /\ o2[p].refs = o[p].refs
    OBVIOUS
  <2>2. o[p] \in TableObjects
    BY <1>1 DEF Objects
  <2>3. CASE p \in in
    <3>1. o2[p] = [o[p] EXCEPT !.in_cache = FALSE]
      BY <1>1, <2>3
    <3> HIDE DEF o2
    <3> QED
      BY <2>1, <2>2, <3>1
  <2>4. CASE p \notin in
    BY <1>1, <2>2, <2>4
  <2> QED
    BY <2>3, <2>4
<1>3. Objects(o2, TableObjects)
  <2>1. o2 = [p \in DOMAIN o2 |-> o2[p]]
    BY DEF Uncache, Freed
  <2> QED
    BY <1>1, <1>2, <2>1 DEF Objects
<1> HIDE DEF o2
<1>4. \A t \in TableThreads : Reading(u, t) => u[t].table \in DOMAIN o2
  <2> SUFFICES ASSUME NEW t \in TableThreads, Reading(u, t)
               PROVE  u[t].table \in DOMAIN o2
    OBVIOUS
  <2>1. u[t].table \in DOMAIN o /\ t \in ReadersOf(u, u[t].table)
    BY DEF TablesSound, ReadersOf
  <2>2. o[u[t].table].refs = Cardinality(ReadersOf(u, u[t].table))
    BY <2>1 DEF TablesSound
  <2>3. o[u[t].table].refs # 0
    BY <2>1, <2>2, ReadersFinite, CountZero
  <2> QED
    BY <1>1, <2>1, <2>3
<1>5. DOMAIN o2 \subseteq DOMAIN o
  BY <1>1
<1>6. TablesSound(o2, u, n)
  BY <1>2, <1>4, <1>5 DEF TablesSound
<1> QED
  BY <1>2, <1>3, <1>5, <1>6 DEF o2, SomeClosed

\* A thread opens a table: its address and its cache id are new.
LEMMA OpenKeepsTables ==
    ASSUME NEW o, NEW u, NEW n \in Nat, TablesSound(o, u, n), Objects(o, TableObjects),
           NEW u2, NEW t \in TableThreads, Only(t, u, u2),
           ~Reading(u, t), Reading(u2, t), NEW p \in Pointers \ DOMAIN o,
           NEW table \in TableObjects, table.refs = 1, table.cache_id = n + 1,
           u2[t].table = p, u2[t].file = table.file,
           NEW o2, o2 = Placed(o, p, table), NEW n2, n2 = n + 1
    PROVE  TablesSound(o2, u2, n2) /\ Objects(o2, TableObjects)
<1>1. /\ DOMAIN o2 = DOMAIN o \cup {p} /\ o2[p] = table /\ \A q \in DOMAIN o : o2[q] = o[q]
      /\ Objects(o2, TableObjects)
  BY DEF Placed, Objects
<1>2. \A q \in DOMAIN o : ReadersOf(u2, q) = ReadersOf(u, q)
  BY DEF ReadersOf, Reading, Only
<1>3. ReadersOf(u2, p) = {t}
  <2>1. \A s \in TableThreads : Reading(u, s) => u[s].table # p
    BY DEF TablesSound
  <2> QED
    BY <2>1 DEF ReadersOf, Reading, Only
<1>4. \A q \in DOMAIN o2 : o2[q].refs = Cardinality(ReadersOf(u2, q))
  <2>1. o2[p].refs = Cardinality(ReadersOf(u2, p))
    BY <1>1, <1>3, FS_Singleton
  <2>2. \A q \in DOMAIN o : o2[q].refs = Cardinality(ReadersOf(u, q))
    BY <1>1 DEF TablesSound
  <2>3. \A q \in DOMAIN o : o2[q].refs = Cardinality(ReadersOf(u2, q))
    BY <1>2, <2>2
  <2> QED
    BY <1>1, <2>1, <2>3
<1>5. \A s \in TableThreads : Reading(u2, s) =>
          u2[s].table \in DOMAIN o2 /\ o2[u2[s].table].file = u2[s].file
  BY <1>1 DEF TablesSound, Reading, Only
<1>6. \A q \in DOMAIN o : o[q].cache_id \in Nat /\ o[q].cache_id <= n
  BY DEF TablesSound, Objects, TableObjects
<1>7. \A q \in DOMAIN o2 : o2[q].cache_id <= n2
  BY <1>1, <1>6
<1>8. \A q, r \in DOMAIN o2 : o2[q].cache_id = o2[r].cache_id => q = r
  BY <1>1, <1>6 DEF TablesSound
<1> QED
  BY <1>1, <1>4, <1>5, <1>7, <1>8 DEF TablesSound

\* A thread stops using a table; it goes if nobody else keeps it.
LEMMA DropKeepsTables ==
    ASSUME NEW o, NEW u, NEW n, TablesSound(o, u, n), Objects(o, TableObjects),
           NEW u2, NEW t \in TableThreads, Only(t, u, u2),
           Reading(u, t), ~Reading(u2, t), NEW p, p = u[t].table
    PROVE  LET o2 == Dropped(Fewer(o, p), p)
           IN  TablesSound(o2, u2, n) /\ Objects(o2, TableObjects) /\ SomeClosed(o, o2)
<1>1. PICK o1 : o1 = Fewer(o, p)
  OBVIOUS
<1> DEFINE o2 == Dropped(o1, p)
<1>2. p \in DOMAIN o /\ t \in ReadersOf(u, p) /\ o[p].refs = Cardinality(ReadersOf(u, p))
  BY DEF TablesSound, ReadersOf
<1>3. /\ ReadersOf(u2, p) = ReadersOf(u, p) \ {t}
      /\ \A q \in DOMAIN o \ {p} : ReadersOf(u2, q) = ReadersOf(u, q)
  BY DEF ReadersOf, Reading, Only
<1>4. Cardinality(ReadersOf(u2, p)) = o[p].refs - 1 /\ o[p].refs - 1 \in Nat
  BY <1>2, <1>3, ReadersFinite, CountLess
<1>5. /\ Objects(o1, TableObjects) /\ DOMAIN o1 = DOMAIN o /\ o1[p].refs = o[p].refs - 1
      /\ \A q \in DOMAIN o : o1[q].file = o[q].file /\ o1[q].cache_id = o[q].cache_id
      /\ \A q \in DOMAIN o \ {p} : o1[q].refs = o[q].refs
  BY <1>1, <1>2, <1>4 DEF Objects, TableObjects, Fewer
<1>6. \A q \in DOMAIN o1 : o1[q].refs = Cardinality(ReadersOf(u2, q))
  <2>1. \A q \in DOMAIN o \ {p} : o1[q].refs = Cardinality(ReadersOf(u, q))
    BY <1>5 DEF TablesSound
  <2>2. \A q \in DOMAIN o \ {p} : o1[q].refs = Cardinality(ReadersOf(u2, q))
    BY <1>3, <2>1
  <2> QED
    BY <1>4, <1>5, <2>2
<1>7. \A s \in TableThreads : Reading(u2, s) =>
          u2[s].table \in DOMAIN o1 /\ o1[u2[s].table].file = u2[s].file
  BY <1>5 DEF TablesSound, Reading, Only
<1>8. /\ DOMAIN o2 \subseteq DOMAIN o1 /\ \A q \in DOMAIN o2 : o2[q] = o1[q]
      /\ Objects(o2, TableObjects)
      /\ \A q \in DOMAIN o1 : q \in DOMAIN o2 \/ o1[q].refs = 0
  <2>1. CASE o1[p].refs = 0 /\ ~o1[p].in_cache
    BY <1>5, <2>1 DEF Dropped, Freed, Objects
  <2>2. CASE ~(o1[p].refs = 0 /\ ~o1[p].in_cache)
    BY <1>5, <2>2 DEF Dropped
  <2> QED
    BY <2>1, <2>2
<1> HIDE DEF o2
<1>9. \A s \in TableThreads : Reading(u2, s) => u2[s].table \in DOMAIN o2
  <2> SUFFICES ASSUME NEW s \in TableThreads, Reading(u2, s), u2[s].table \notin DOMAIN o2
               PROVE  FALSE
    OBVIOUS
  <2>1. u2[s].table \in DOMAIN o1 /\ o1[u2[s].table].refs = 0
    BY <1>7, <1>8
  <2>2. s \in ReadersOf(u2, u2[s].table)
    BY DEF ReadersOf, Only
  <2> QED
    BY <1>6, <2>1, <2>2, ReadersFinite, CountZero
<1>10. TablesSound(o2, u2, n)
  BY <1>5, <1>6, <1>7, <1>8, <1>9 DEF TablesSound
<1> QED
  BY <1>1, <1>5, <1>8, <1>10 DEF o2, SomeClosed


-----------------------------------------------------------------------------
(* Steps *)

\* What is right of the blocks in hand stays so while they stay.
LEMMA HandsStayRight ==
    ASSUME NEW b, NEW u \in [TableThreads -> Users], HandsRight(b, u), NEW b2, NEW e2,
           HandsLive(b2, e2, Hands(u)), \A p \in DOMAIN b2 : b2[p] = b[p], StepsSound(u)
    PROVE  HandsRight(b2, u)
<1> SUFFICES ASSUME NEW t \in TableThreads
             PROVE  /\ u[t].held # NoData => b2[u[t].held.block] = b[u[t].held.block]
                    /\ u[t].got # NoData => b2[u[t].got.block] = b[u[t].got.block]
  BY DEF HandsRight, StepsSound
<1>1. /\ << t, "held" >> \in Places /\ Hands(u)[<< t, "held" >>] = u[t].held
      /\ << t, "got" >> \in Places /\ Hands(u)[<< t, "got" >>] = u[t].got
  BY HandsOf
<1>2. /\ u[t].held # NoData => u[t].held.block \in DOMAIN b2
      /\ u[t].got # NoData => u[t].got.block \in DOMAIN b2
  BY <1>1 DEF HandsLive
<1> QED
  BY <1>2

\* The end of a step of the block cache: what nobody refers to is deleted.
LEMMA CommitSound ==
    ASSUME NEW o, NEW b, NEW e, NEW u, NEW n, ReaderSound(o, b, e, u, n)
    PROVE  ReaderSound(o, Freed(b, {e[h].block : h \in Unreferenced(e)}),
                       Freed(e, Unreferenced(e)), u, n)
<1> DEFINE b2 == Freed(b, {e[h].block : h \in Unreferenced(e)})
           e2 == Freed(e, Unreferenced(e))
<1>1. OwnersSound(b2, e2, Hands(u))
  BY CommitKeepsOwners DEF ReaderSound
<1>2. DOMAIN b2 \subseteq DOMAIN b /\ \A p \in DOMAIN b2 : b2[p] = b[p]
  BY DEF Freed
<1>3. DOMAIN e2 \subseteq DOMAIN e /\ \A h \in DOMAIN e2 : e2[h] = e[h]
  BY DEF Freed
<1> HIDE DEF b2, e2
<1>4. HandsRight(b2, u)
  BY <1>1, <1>2, HandsStayRight DEF ReaderSound, ReaderTypes, OwnersSound
<1>5. KeysRight(o, b2, e2, n)
  <2>1. \A h \in DOMAIN e2 : e2[h].block \in DOMAIN b2
    BY <1>1 DEF OwnersSound, EntriesCount
  <2>2. \A h \in DOMAIN e2 : b2[e2[h].block] = b[e[h].block] /\ h \in DOMAIN e /\ e2[h] = e[h]
    BY <1>2, <1>3, <2>1
  <2> QED
    BY <2>2 DEF ReaderSound, KeysRight
<1> QED
  BY <1>1, <1>4, <1>5 DEF ReaderSound, ReaderTypes, OwnersSound, b2, e2

\* The keys stay right while tables close and entries leave the cache.
LEMMA KeysStayRight ==
    ASSUME NEW o, NEW b, NEW e, NEW n, KeysRight(o, b, e, n),
           NEW o2, SomeClosed(o, o2), NEW e2, DOMAIN e2 = DOMAIN e,
           \A h \in DOMAIN e : e2[h].key = e[h].key /\ e2[h].block = e[h].block
    PROVE  KeysRight(o2, b, e2, n)
BY DEF KeysRight, SomeClosed

LEMMA UseTableSound ==
    ASSUME ReaderInv, NEW t \in TableThreads, NEW file \in TableNumbers, UseTable(t, file)
    PROVE  ReaderInv'
<1> USE DEF ReaderInv, ReaderSound
<1>1. /\ UNCHANGED << block, cacheEntry, last_id_ >> /\ user[t].pc = "idle"
      /\ user[t].held = NoData /\ user[t].got = NoData
      /\ user \in [TableThreads -> Users]
  BY DEF UseTable, StepsSound, ReaderTypes
<1>2. CASE /\ user' = [user EXCEPT ![t].pc = "open", ![t].file = file]
           /\ UNCHANGED open
  <2>1. /\ user' \in [TableThreads -> Users] /\ Only(t, user, user')
        /\ user'[t].pc = "open" /\ user'[t].file = file
        /\ user'[t].held = user[t].held /\ user'[t].got = user[t].got
    BY <1>1, <1>2 DEF Users, Steps, Only
  <2>2. Hands(user') = Hands(user)
    BY <1>1, <2>1, HandsSame
  <2>3. TablesSound(open, user', last_id_)
    BY <1>1, <2>1, SameReaders DEF Reading, Only
  <2>4. StepsSound(user')
    BY <1>1, <2>1 DEF StepsSound, Only
  <2>5. HandsRight(block, user')
    BY <1>1, <2>1 DEF HandsRight, Only
  <2> QED
    BY <1>1, <1>2, <2>1, <2>2, <2>3, <2>4, <2>5 DEF ReaderTypes
<1>3. ASSUME NEW p \in DOMAIN open, open[p].in_cache, open[p].file = file,
             open' = [open EXCEPT ![p].refs = @ + 1],
             user' = [user EXCEPT ![t].pc = "use", ![t].file = file, ![t].table = p]
      PROVE  ReaderInv'
  <2>1. p \in Pointers /\ open \in [DOMAIN open -> TableObjects]
    BY DEF ReaderTypes, Objects
  <2>2. /\ user' \in [TableThreads -> Users] /\ Only(t, user, user')
        /\ user'[t].pc = "use" /\ user'[t].file = file /\ user'[t].table = p
        /\ user'[t].held = user[t].held /\ user'[t].got = user[t].got
    <3>1. user[t] \in Users
      BY <1>1
    <3>2. PICK r : r = [user[t] EXCEPT !.pc = "use", !.file = file, !.table = p]
      OBVIOUS
    <3>3. /\ r \in Users /\ r.pc = "use" /\ r.file = file /\ r.table = p
          /\ r.held = user[t].held /\ r.got = user[t].got
      BY <2>1, <3>1, <3>2 DEF Users, Steps
    <3>4. user' = [user EXCEPT ![t] = r]
      BY <1>1, <1>3, <3>1, <3>2 DEF Users
    <3> QED
      BY <1>1, <3>3, <3>4 DEF Only
  <2>3. Hands(user') = Hands(user)
    BY <1>1, <2>2, HandsSame
  <2>4. ~Reading(user, t) /\ Reading(user', t)
    BY <1>1, <2>2 DEF Reading, Only
  <2>5. TablesSound(open', user', last_id_)
    <3>1. user'[t].file = open[p].file /\ open' = More(open, p)
      BY <1>3, <2>2 DEF More
    <3> QED
      BY <2>1, <2>2, <2>4, <3>1, TakeKeepsTables
  <2>6. Objects(open', TableObjects) /\ SomeClosed(open, open')
    BY <1>3, <2>1 DEF ReaderTypes, Objects, TableObjects, SomeClosed
  <2>7. KeysRight(open', block, cacheEntry, last_id_)
    BY <2>6, KeysStayRight
  <2>8. StepsSound(user')
    BY <1>1, <2>2 DEF StepsSound, Only
  <2>9. HandsRight(block, user')
    BY <1>1, <2>2 DEF HandsRight, Only
  <2> QED
    BY <1>1, <2>2, <2>3, <2>5, <2>6, <2>7, <2>8, <2>9 DEF ReaderTypes
<1> QED
  BY <1>2, <1>3 DEF UseTable

LEMMA OpenTableFailsSound ==
    ASSUME ReaderInv, NEW t \in TableThreads, OpenTableFails(t)
    PROVE  ReaderInv'
<1> USE DEF ReaderInv, ReaderSound
<1>1. /\ UNCHANGED << open, block, cacheEntry, last_id_ >> /\ user[t].pc = "open"
      /\ user[t].held = NoData /\ user[t].got = NoData
      /\ user \in [TableThreads -> Users]
  BY DEF OpenTableFails, StepsSound, ReaderTypes
<1>2. Idle \in Users /\ Idle.pc = "idle" /\ Idle.held = NoData /\ Idle.got = NoData
  BY DEF Idle, Users, Steps
<1>3. /\ user' \in [TableThreads -> Users] /\ Only(t, user, user')
      /\ user'[t] = Idle
  BY <1>1, <1>2 DEF OpenTableFails, Only
<1>4. Hands(user') = Hands(user)
  BY <1>1, <1>2, <1>3, HandsSame
<1>5. TablesSound(open, user', last_id_)
  BY <1>1, <1>2, <1>3, SameReaders DEF Reading, Only
<1>6. StepsSound(user')
  BY <1>2, <1>3 DEF StepsSound, Only
<1>7. HandsRight(block, user')
  BY <1>2, <1>3 DEF HandsRight, Only
<1> QED
  BY <1>1, <1>3, <1>4, <1>5, <1>6, <1>7 DEF ReaderTypes

LEMMA OpenTableSound ==
    ASSUME ReaderInv, NEW t \in TableThreads, NEW mapped \in BOOLEAN, OpenTable(t, mapped)
    PROVE  ReaderInv'
<1> USE DEF ReaderInv, ReaderSound
<1>1. PICK table : table = [file |-> user[t].file, mapped |-> mapped, cache_id |-> NewId,
                            in_cache |-> TRUE, refs |-> 1]
  OBVIOUS
<1>2. PICK p \in Free(open) :
          /\ open' = Placed(Uncache(open, user[t].file), p, table)
          /\ user' = [user EXCEPT ![t].pc = "use", ![t].table = p]
  BY <1>1 DEF OpenTable
<1>3. /\ UNCHANGED << block, cacheEntry >> /\ last_id_' = last_id_ + 1 /\ last_id_ \in Nat
      /\ user[t].pc = "open" /\ user[t].held = NoData /\ user[t].got = NoData
      /\ user \in [TableThreads -> Users] /\ user[t].file \in TableNumbers
  BY DEF OpenTable, StepsSound, ReaderTypes
<1>4. p \in Pointers /\ p \notin DOMAIN open
  BY DEF Free
<1>5. PICK o1 : o1 = Uncache(open, user[t].file)
  OBVIOUS
<1>6. /\ TablesSound(o1, user, last_id_) /\ Objects(o1, TableObjects)
      /\ SomeClosed(open, o1)
  BY <1>5, UncacheKeepsTables DEF ReaderTypes
<1>7. /\ user' \in [TableThreads -> Users] /\ Only(t, user, user')
      /\ user'[t].pc = "use" /\ user'[t].file = user[t].file /\ user'[t].table = p
      /\ user'[t].held = user[t].held /\ user'[t].got = user[t].got
  BY <1>2, <1>3, <1>4 DEF Users, Steps, Only
<1>8. /\ table \in TableObjects /\ table.refs = 1 /\ table.cache_id = last_id_ + 1
      /\ table.file = user[t].file
  BY <1>1, <1>3 DEF TableObjects, NewId
<1>9. ~Reading(user, t) /\ Reading(user', t)
  BY <1>3, <1>7 DEF Reading, Only
<1>10. TablesSound(open', user', last_id_') /\ Objects(open', TableObjects)
  <2>1. p \in Pointers \ DOMAIN o1
    BY <1>4, <1>6 DEF SomeClosed
  <2>2. user'[t].file = table.file /\ open' = Placed(o1, p, table)
    BY <1>2, <1>5, <1>7, <1>8
  <2> HIDE DEF ReaderInv, ReaderSound
  <2> QED
    BY <1>3, <1>6, <1>7, <1>8, <1>9, <2>1, <2>2, OpenKeepsTables, SMTT(40)
<1>11. Hands(user') = Hands(user)
  BY <1>3, <1>7, HandsSame
<1>12. KeysRight(open', block, cacheEntry, last_id_')
  <2>1. DOMAIN open' = DOMAIN o1 \cup {p} /\ open'[p] = table
        /\ \A q \in DOMAIN o1 : q # p /\ open'[q] = o1[q]
    BY <1>2, <1>4, <1>5, <1>6 DEF Placed, SomeClosed
  <2>2. \A h \in DOMAIN cacheEntry : cacheEntry[h].key[1] \in Nat /\ cacheEntry[h].key[1] <= last_id_
    BY DEF ReaderTypes, Objects, Entries, KeysRight
  <2>3. \A h \in DOMAIN cacheEntry : /\ cacheEntry[h].key[1] <= last_id_ + 1
                                     /\ cacheEntry[h].key[1] # table.cache_id
    BY <1>3, <1>8, <2>2
  <2>4. KeysRight(o1, block, cacheEntry, last_id_)
    BY <1>6, KeysStayRight
  <2> QED
    BY <1>3, <2>1, <2>3, <2>4 DEF KeysRight
<1>13. StepsSound(user')
  BY <1>3, <1>7 DEF StepsSound, Only
<1>14. HandsRight(block, user')
  BY <1>3, <1>7 DEF HandsRight, Only
<1> QED
  BY <1>3, <1>7, <1>10, <1>11, <1>12, <1>13, <1>14 DEF ReaderTypes


LEMMA EvictFromTableCacheSound ==
    ASSUME ReaderInv, NEW file \in TableNumbers, EvictFromTableCache(file)
    PROVE  ReaderInv'
<1> USE DEF ReaderInv, ReaderSound
<1>1. UNCHANGED << block, cacheEntry, user, last_id_ >> /\ open' = Uncache(open, file)
  BY DEF EvictFromTableCache
<1>2. /\ TablesSound(open', user, last_id_) /\ Objects(open', TableObjects)
      /\ SomeClosed(open, open')
  BY <1>1, UncacheKeepsTables DEF ReaderTypes
<1>3. KeysRight(open', block, cacheEntry, last_id_)
  BY <1>2, KeysStayRight
<1> QED
  BY <1>1, <1>2, <1>3 DEF ReaderTypes

LEMMA UnrefEntrySound ==
    ASSUME ReaderInv, NEW t \in TableThreads, UnrefEntry(t)
    PROVE  ReaderInv'
<1> USE DEF ReaderInv, ReaderSound
<1>1. /\ UNCHANGED << block, cacheEntry, last_id_ >> /\ user[t].pc = "cleanup"
      /\ user[t].held = NoData /\ user[t].got = NoData
      /\ user \in [TableThreads -> Users]
  BY DEF UnrefEntry, StepsSound, ReaderTypes
<1>2. Idle \in Users /\ Idle.pc = "idle" /\ Idle.held = NoData /\ Idle.got = NoData
  BY DEF Idle, Users, Steps
<1>3. user' \in [TableThreads -> Users] /\ Only(t, user, user') /\ user'[t] = Idle
  BY <1>1, <1>2 DEF UnrefEntry, Only
<1>4. Hands(user') = Hands(user)
  BY <1>1, <1>2, <1>3, HandsSame
<1>5. Reading(user, t) /\ ~Reading(user', t)
  BY <1>1, <1>2, <1>3 DEF Reading
<1>6. /\ TablesSound(open', user', last_id_) /\ Objects(open', TableObjects)
      /\ SomeClosed(open, open')
  <2>1. PICK p : p = user[t].table
    OBVIOUS
  <2>2. open' = Dropped(Fewer(open, p), p)
    BY <2>1 DEF UnrefEntry, Fewer
  <2> QED
    BY <1>3, <1>5, <2>1, <2>2, DropKeepsTables DEF ReaderTypes
<1>7. KeysRight(open', block, cacheEntry, last_id_)
  BY <1>6, KeysStayRight
<1>8. StepsSound(user')
  BY <1>2, <1>3 DEF StepsSound, Only
<1>9. HandsRight(block, user')
  BY <1>2, <1>3 DEF HandsRight, Only
<1> QED
  BY <1>1, <1>3, <1>4, <1>6, <1>7, <1>8, <1>9 DEF ReaderTypes

LEMMA BlockLookupSound ==
    ASSUME ReaderInv, NEW t \in TableThreads, NEW offset \in Offsets, BlockLookup(t, offset)
    PROVE  ReaderInv'
<1> USE DEF ReaderInv, ReaderSound
<1>1. /\ UNCHANGED << open, block, last_id_ >> /\ user[t].pc = "use" /\ user[t].got = NoData
      /\ user \in [TableThreads -> Users] /\ user[t] \in Users
  BY DEF BlockLookup, StepsSound, ReaderTypes
<1>2. CASE /\ user' = [user EXCEPT ![t] = [[user[t] EXCEPT !.offset = offset] EXCEPT !.pc = "read"]]
           /\ UNCHANGED cacheEntry
  <2>1. PICK r : r = [[user[t] EXCEPT !.offset = offset] EXCEPT !.pc = "read"]
    OBVIOUS
  <2>2. /\ r \in Users /\ r.pc = "read" /\ r.file = user[t].file /\ r.table = user[t].table
        /\ r.held = user[t].held /\ r.got = user[t].got /\ r.offset = offset
    BY <1>1, <2>1 DEF Users, Steps
  <2>3. user' \in [TableThreads -> Users] /\ Only(t, user, user') /\ user'[t] = r
    BY <1>1, <1>2, <2>1, <2>2 DEF Only
  <2>4. Hands(user') = Hands(user)
    BY <1>1, <2>2, <2>3, HandsSame
  <2>5. TablesSound(open, user', last_id_)
    BY <1>1, <2>2, <2>3, SameReaders DEF Reading, Only
  <2>6. StepsSound(user')
    BY <1>1, <2>2, <2>3 DEF StepsSound, Only
  <2>7. HandsRight(block, user')
    BY <1>1, <2>2, <2>3 DEF HandsRight, Only
  <2> QED
    BY <1>1, <1>2, <2>3, <2>4, <2>5, <2>6, <2>7 DEF ReaderTypes
<1>3. ASSUME NEW h \in DOMAIN cacheEntry, cacheEntry[h].key = BlockKey(t, offset),
             cacheEntry' = [cacheEntry EXCEPT ![h].refs = @ + 1],
             user' = [user EXCEPT ![t] = [[user[t] EXCEPT !.offset = offset]
                          EXCEPT !.pc = "got", !.got = Data2(cacheEntry[h].block, h)]]
      PROVE  ReaderInv'
  <2>1. PICK data : data = Data2(cacheEntry[h].block, h)
    OBVIOUS
  <2>2. cacheEntry \in [DOMAIN cacheEntry -> Entries] /\ h \in Pointers
    BY DEF ReaderTypes, Objects
  <2>3. data \in Datum /\ data # NoData /\ data.block = cacheEntry[h].block /\ data.handle = h
    BY <2>1, <2>2, DatumIsSome DEF Data2, Datum, Entries
  <2>4. PICK r : r = [[user[t] EXCEPT !.offset = offset] EXCEPT !.pc = "got", !.got = data]
    OBVIOUS
  <2>5. /\ r \in Users /\ r.pc = "got" /\ r.file = user[t].file /\ r.table = user[t].table
        /\ r.held = user[t].held /\ r.got = data /\ r.offset = offset
    BY <1>1, <2>3, <2>4 DEF Users, Steps
  <2>6. user' \in [TableThreads -> Users] /\ Only(t, user, user') /\ user'[t] = r
    BY <1>1, <1>3, <2>1, <2>4, <2>5 DEF Only
  <2>7. Hands(user') = [Hands(user) EXCEPT ![<< t, "got" >>] = data]
    <3>1. Hands(user') = [Hands(user) EXCEPT ![<< t, "got" >>] = user'[t].got]
      BY <1>1, <2>5, <2>6, HandsGot
    <3> QED
      BY <2>5, <2>6, <3>1
  <2>8. << t, "got" >> \in Places /\ Hands(user)[<< t, "got" >>] = NoData
    BY <1>1, HandsOf
  <2>9. OwnersSound(block, cacheEntry', Hands(user'))
    <3>1. cacheEntry' = More(cacheEntry, h)
      BY <1>3 DEF More
    <3>2. Hands(user') = [Hands(user) EXCEPT ![<< t, "got" >>] = Data2(cacheEntry[h].block, h)]
      BY <2>1, <2>7
    <3>3. OwnersSound(block, cacheEntry, Hands(user))
      OBVIOUS
    <3> HIDE DEF ReaderInv, ReaderSound
    <3>4. OwnersSound(block, More(cacheEntry, h),
                      [Hands(user) EXCEPT ![<< t, "got" >>] = Data2(cacheEntry[h].block, h)])
      BY <2>8, <3>3, LookupKeepsOwners, Zenon
    <3> QED
      BY <3>1, <3>2, <3>4
  <2>10. TablesSound(open, user', last_id_)
    BY <1>1, <2>5, <2>6, SameReaders DEF Reading, Only
  <2>11. StepsSound(user')
    BY <1>1, <2>3, <2>5, <2>6 DEF StepsSound, Only
  <2>12. /\ DOMAIN cacheEntry' = DOMAIN cacheEntry
         /\ \A g \in DOMAIN cacheEntry : /\ cacheEntry'[g].key = cacheEntry[g].key
                                         /\ cacheEntry'[g].block = cacheEntry[g].block
    BY <1>3, <2>2 DEF Entries
  <2>13. KeysRight(open, block, cacheEntry', last_id_)
    BY <2>12, KeysStayRight DEF SomeClosed
  <2>14. /\ block[data.block].owned /\ block[data.block].offset = offset
         /\ block[data.block].file = user[t].file
    <3>1. user[t].table \in DOMAIN open /\ open[user[t].table].file = user[t].file
      BY <1>1 DEF TablesSound, Reading
    <3>2. /\ cacheEntry[h].key[1] = open[user[t].table].cache_id
          /\ cacheEntry[h].key[2] = offset
      BY <1>3 DEF BlockKey
    <3> QED
      BY <2>3, <3>1, <3>2 DEF KeysRight
  <2>15. HandsRight(block, user')
    BY <1>1, <2>5, <2>6, <2>14 DEF HandsRight, Only
  <2> QED
    BY <1>1, <2>6, <2>9, <2>10, <2>11, <2>13, <2>15 DEF ReaderTypes, OwnersSound
<1> QED
  BY <1>2, <1>3 DEF BlockLookup

LEMMA ReadBlockFailsSound ==
    ASSUME ReaderInv, NEW t \in TableThreads, ReadBlockFails(t)
    PROVE  ReaderInv'
<1> USE DEF ReaderInv, ReaderSound
<1>1. /\ UNCHANGED << open, block, cacheEntry, last_id_ >> /\ user[t].pc = "read"
      /\ user[t].got = NoData /\ user \in [TableThreads -> Users]
  BY DEF ReadBlockFails, StepsSound, ReaderTypes
<1>2. /\ user' \in [TableThreads -> Users] /\ Only(t, user, user')
      /\ user'[t].pc = "got" /\ user'[t].file = user[t].file /\ user'[t].table = user[t].table
      /\ user'[t].held = user[t].held /\ user'[t].got = user[t].got
  <2>1. PICK r : r = [user[t] EXCEPT !.pc = "got", !.got = NoData]
    OBVIOUS
  <2>2. user[t] \in Users
    BY <1>1
  <2>3. /\ r \in Users /\ r.pc = "got" /\ r.file = user[t].file /\ r.table = user[t].table
        /\ r.held = user[t].held /\ r.got = NoData
    BY <2>1, <2>2 DEF Users, Steps
  <2>4. user' = [user EXCEPT ![t] = r]
    BY <1>1, <2>1 DEF ReadBlockFails, Users
  <2> QED
    BY <1>1, <2>3, <2>4 DEF Only
<1>3. Hands(user') = Hands(user)
  BY <1>1, <1>2, HandsSame
<1>4. TablesSound(open, user', last_id_)
  BY <1>1, <1>2, SameReaders DEF Reading, Only
<1>5. StepsSound(user')
  BY <1>1, <1>2 DEF StepsSound, Only
<1>6. HandsRight(block, user')
  BY <1>1, <1>2 DEF HandsRight, Only
<1> QED
  BY <1>1, <1>2, <1>3, <1>4, <1>5, <1>6 DEF ReaderTypes

LEMMA ReadDataBlockSound ==
    ASSUME ReaderInv, NEW t \in TableThreads, NEW compressed \in BOOLEAN,
           NEW fill_cache \in BOOLEAN, ReadDataBlock(t, compressed, fill_cache)
    PROVE  ReaderInv'
<1> USE DEF ReaderInv, ReaderSound
<1>1. /\ UNCHANGED << open, cacheEntry, last_id_ >> /\ user[t].pc = "read"
      /\ user[t].got = NoData /\ user \in [TableThreads -> Users] /\ user[t] \in Users
      /\ user[t].file \in TableNumbers /\ user[t].offset \in Offsets
  BY DEF ReadDataBlock, StepsSound, ReaderTypes
<1>2. user[t].table \in DOMAIN open /\ user[t].table \in Pointers
      /\ open[user[t].table].mapped \in BOOLEAN
  BY <1>1 DEF TablesSound, Reading, ReaderTypes, Objects, TableObjects
<1>3. PICK owned : owned = (compressed \/ ~open[user[t].table].mapped)
  OBVIOUS
<1>4. owned \in BOOLEAN
  BY <1>3
<1>5. PICK contents : contents = [of |-> IF owned THEN 0 ELSE user[t].table, file |-> user[t].file,
                                  offset |-> user[t].offset, owned |-> owned]
  OBVIOUS
<1>6. PICK b \in Free(block) :
         /\ block' = Placed(block, b, contents)
         /\ user' = [user EXCEPT ![t].pc = IF Cachable(owned) /\ fill_cache THEN "insert" ELSE "got",
                                 ![t].got = Data2(b, Uncached)]
  BY <1>3, <1>5 DEF ReadDataBlock
<1>7. /\ contents \in BlockObjects /\ contents.owned = owned /\ contents.file = user[t].file
      /\ contents.offset = user[t].offset /\ (~owned => contents.of = user[t].table)
  BY <1>1, <1>2, <1>4, <1>5 DEF BlockObjects
<1>8. b \in Pointers \ DOMAIN block
  BY DEF Free
<1>9. PICK pc : pc = IF Cachable(owned) /\ fill_cache THEN "insert" ELSE "got"
  OBVIOUS
<1>10. pc \in {"insert", "got"} /\ (pc = "insert" => owned)
  BY <1>9 DEF Cachable
<1>11. PICK data : data = Data2(b, Uncached)
  OBVIOUS
<1>12. data \in Datum /\ data # NoData /\ data.block = b /\ data.handle = Uncached
  BY <1>8, <1>11, DatumIsSome DEF Data2, Datum
<1>13. /\ user' \in [TableThreads -> Users] /\ Only(t, user, user')
       /\ user'[t].pc = pc /\ user'[t].file = user[t].file /\ user'[t].table = user[t].table
       /\ user'[t].offset = user[t].offset /\ user'[t].held = user[t].held /\ user'[t].got = data
  <2>1. PICK r : r = [user[t] EXCEPT !.pc = pc, !.got = data]
    OBVIOUS
  <2>2. /\ r \in Users /\ r.pc = pc /\ r.file = user[t].file /\ r.table = user[t].table
        /\ r.offset = user[t].offset /\ r.held = user[t].held /\ r.got = data
    BY <1>1, <1>10, <1>12, <2>1 DEF Users, Steps
  <2>3. user' = [user EXCEPT ![t] = r]
    BY <1>1, <1>6, <1>9, <1>11, <2>1 DEF Users
  <2> QED
    BY <1>1, <2>2, <2>3 DEF Only
<1>14. OwnersSound(block', cacheEntry, Hands(user'))
  <2>1. Hands(user') = [Hands(user) EXCEPT ![<< t, "got" >>] = user'[t].got]
    BY <1>1, <1>13, HandsGot
  <2>2. Hands(user') = [Hands(user) EXCEPT ![<< t, "got" >>] = Data2(b, Uncached)]
    BY <1>11, <1>13, <2>1
  <2>3. << t, "got" >> \in Places /\ Hands(user)[<< t, "got" >>] = NoData
    BY <1>1, HandsOf
  <2> QED
    BY <1>6, <1>7, <1>8, <2>2, <2>3, ReadKeepsOwners
<1>15. TablesSound(open, user', last_id_)
  BY <1>1, <1>10, <1>13, SameReaders DEF Reading, Only
<1>16. StepsSound(user')
  BY <1>1, <1>10, <1>12, <1>13 DEF StepsSound, Only
<1>17. block'[b] = contents /\ \A p \in DOMAIN block : p # b /\ block'[p] = block[p]
  BY <1>6, <1>8 DEF Placed
<1>18. HandsRight(block', user')
  <2>1. \A s \in TableThreads : /\ user[s].held # NoData => user[s].held.block \in DOMAIN block
                                /\ user[s].got # NoData => user[s].got.block \in DOMAIN block
    BY <1>1, HandsOf DEF OwnersSound, HandsLive
  <2> SUFFICES ASSUME NEW s \in TableThreads
               PROVE  HandsRight(block', user')!(s)
    BY DEF HandsRight
  <2>2. CASE s = t
    BY <1>1, <1>7, <1>10, <1>12, <1>13, <1>17, <2>1, <2>2 DEF HandsRight
  <2>3. CASE s # t
    <3>1. user'[s] = user[s]
      BY <1>13, <2>3 DEF Only
    <3> QED
      BY <1>17, <2>1, <3>1 DEF HandsRight, StepsSound
  <2> QED
    BY <2>2, <2>3
<1>19. KeysRight(open, block', cacheEntry, last_id_)
  <2>1. \A h \in DOMAIN cacheEntry : cacheEntry[h].block \in DOMAIN block
    BY DEF OwnersSound, EntriesCount
  <2> QED
    BY <1>17, <2>1 DEF KeysRight
<1> QED
  BY <1>1, <1>13, <1>14, <1>15, <1>16, <1>18, <1>19 DEF ReaderTypes, OwnersSound


LEMMA EvictBlockSound ==
    ASSUME ReaderInv, NEW h \in DOMAIN cacheEntry, EvictBlock(h)
    PROVE  ReaderInv'
<1> USE DEF ReaderInv, ReaderSound
<1>1. PICK e : e = [cacheEntry EXCEPT ![h].in_cache = FALSE]
  OBVIOUS
<1>2. /\ UNCHANGED << open, user, last_id_ >>
      /\ cacheEntry' = Freed(e, Unreferenced(e))
      /\ block' = Freed(block, {e[g].block : g \in Unreferenced(e)})
  BY <1>1 DEF EvictBlock, CommitEntries
<1>3. Objects(cacheEntry, Entries)
  BY DEF ReaderTypes
<1>4. /\ Objects(e, Entries) /\ DOMAIN e = DOMAIN cacheEntry
      /\ \A g \in DOMAIN cacheEntry : /\ e[g].block = cacheEntry[g].block
                                      /\ e[g].refs = cacheEntry[g].refs
                                      /\ e[g].key = cacheEntry[g].key
  BY <1>1, <1>3 DEF Objects, Entries
<1>5. OwnersSound(block, e, Hands(user))
  BY <1>4, UncachedKeepsOwners
<1>6. KeysRight(open, block, e, last_id_)
  BY <1>4, KeysStayRight DEF SomeClosed
<1>7. ReaderSound(open, block, e, user, last_id_)
  BY <1>4, <1>5, <1>6 DEF ReaderTypes
<1> HIDE DEF ReaderSound
<1>8. ReaderSound(open, block', cacheEntry', user, last_id_)
  BY <1>2, <1>7, CommitSound
<1> QED
  BY <1>2, <1>8

LEMMA InsertBlockSound ==
    ASSUME ReaderInv, NEW t \in TableThreads, InsertBlock(t)
    PROVE  ReaderInv'
<1> USE DEF ReaderInv, ReaderSound
<1>1. /\ UNCHANGED << open, last_id_ >> /\ user[t].pc = "insert" /\ user[t].offset \in Offsets
      /\ user[t].got # NoData /\ user[t].got.handle = Uncached
      /\ user \in [TableThreads -> Users] /\ user[t] \in Users /\ user[t].got \in Datum
  BY DEF InsertBlock, StepsSound, ReaderTypes, Users
<1>2. PICK key : key = BlockKey(t, user[t].offset)
  OBVIOUS
<1>3. PICK old : old = [q \in DOMAIN cacheEntry |->
                          IF cacheEntry[q].key = key THEN [cacheEntry[q] EXCEPT !.in_cache = FALSE]
                          ELSE cacheEntry[q]]
  OBVIOUS
<1>4. PICK p : p = user[t].got.block
  OBVIOUS
<1>5. PICK entry : entry = [key |-> key, block |-> p, in_cache |-> TRUE, refs |-> 1]
  OBVIOUS
<1>6. PICK h \in Free(cacheEntry) :
         /\ CommitEntries(Placed(old, h, entry))
         /\ user' = [user EXCEPT ![t].pc = "got", ![t].got.handle = h]
  BY <1>2, <1>3, <1>4, <1>5 DEF InsertBlock
<1>7. h \in Pointers \ DOMAIN cacheEntry /\ p \in Pointers
  BY <1>1, <1>4 DEF Free, Datum
<1>8. /\ user[t].table \in DOMAIN open /\ open[user[t].table].file = user[t].file
      /\ open[user[t].table].cache_id \in Nat
      /\ key[1] = open[user[t].table].cache_id /\ key[2] = user[t].offset
      /\ key \in Nat \X Offsets
  BY <1>1, <1>2 DEF TablesSound, Reading, ReaderTypes, Objects, TableObjects, BlockKey
<1>9. /\ entry \in Entries /\ entry.block = p /\ entry.refs = 1 /\ entry.key = key
  BY <1>5, <1>7, <1>8 DEF Entries
<1>10. /\ Objects(old, Entries) /\ DOMAIN old = DOMAIN cacheEntry
       /\ \A g \in DOMAIN cacheEntry : /\ old[g].block = cacheEntry[g].block
                                       /\ old[g].refs = cacheEntry[g].refs
                                       /\ old[g].key = cacheEntry[g].key
  <2>1. \A r \in Entries : LET r2 == [r EXCEPT !.in_cache = FALSE]
                           IN  /\ r2 \in Entries /\ r2.block = r.block
                               /\ r2.refs = r.refs /\ r2.key = r.key
    BY DEF Entries
  <2>2. DOMAIN cacheEntry \subseteq Pointers /\ \A g \in DOMAIN cacheEntry : cacheEntry[g] \in Entries
    BY DEF ReaderTypes, Objects
  <2>3. \A g \in DOMAIN cacheEntry : \/ old[g] = [cacheEntry[g] EXCEPT !.in_cache = FALSE]
                                     \/ old[g] = cacheEntry[g]
    BY <1>3
  <2>4. \A g \in DOMAIN cacheEntry :
            /\ old[g] \in Entries /\ old[g].block = cacheEntry[g].block
            /\ old[g].refs = cacheEntry[g].refs /\ old[g].key = cacheEntry[g].key
    BY <2>1, <2>2, <2>3
  <2>5. DOMAIN old = DOMAIN cacheEntry /\ old = [g \in DOMAIN cacheEntry |-> old[g]]
    BY <1>3
  <2> QED
    BY <2>2, <2>4, <2>5 DEF Objects
<1>11. PICK data : data = Data2(p, h)
  OBVIOUS
<1>12. data \in Datum /\ data # NoData /\ data.block = p /\ data.handle = h
       /\ data = [user[t].got EXCEPT !.handle = h]
  BY <1>1, <1>4, <1>7, <1>11, DatumIsSome DEF Data2, Datum
<1>13. /\ user' \in [TableThreads -> Users] /\ Only(t, user, user')
       /\ user'[t].pc = "got" /\ user'[t].file = user[t].file /\ user'[t].table = user[t].table
       /\ user'[t].offset = user[t].offset /\ user'[t].held = user[t].held /\ user'[t].got = data
  <2>1. PICK r : r = [user[t] EXCEPT !.pc = "got", !.got = data]
    OBVIOUS
  <2>2. /\ r \in Users /\ r.pc = "got" /\ r.file = user[t].file /\ r.table = user[t].table
        /\ r.offset = user[t].offset /\ r.held = user[t].held /\ r.got = data
    BY <1>1, <1>12, <2>1 DEF Users, Steps
  <2>3. user' = [user EXCEPT ![t] = r]
    BY <1>1, <1>6, <1>12, <2>1 DEF Users
  <2> QED
    BY <1>1, <2>2, <2>3 DEF Only
<1>14. PICK e : e = Placed(old, h, entry)
  OBVIOUS
<1>15. OwnersSound(block, e, Hands(user'))
  <2>1. OwnersSound(block, old, Hands(user))
    BY <1>10, UncachedKeepsOwners
  <2>2. << t, "got" >> \in Places /\ Hands(user)[<< t, "got" >>] = user[t].got
    BY <1>1, HandsOf
  <2>3. /\ Owns(Hands(user), << t, "got" >>) /\ entry.block = Hands(user)[<< t, "got" >>].block
        /\ h \in Pointers \ DOMAIN old
    BY <1>1, <1>4, <1>7, <1>9, <1>10, <2>2 DEF Owns
  <2>4. Hands(user') = [Hands(user) EXCEPT ![<< t, "got" >>] = user'[t].got]
    BY <1>1, <1>13, HandsGot
  <2>5. Hands(user') = [Hands(user) EXCEPT ![<< t, "got" >>] =
                                       Data2(Hands(user)[<< t, "got" >>].block, h)]
    BY <1>4, <1>11, <1>13, <2>2, <2>4
  <2> HIDE DEF ReaderInv, ReaderSound
  <2>6. OwnersSound(block, Placed(old, h, entry),
                    [Hands(user) EXCEPT ![<< t, "got" >>] =
                                 Data2(Hands(user)[<< t, "got" >>].block, h)])
    BY <1>9, <2>1, <2>2, <2>3, InsertKeepsOwners, Zenon
  <2> QED
    BY <1>14, <2>5, <2>6
<1>16. /\ block[p].owned /\ block[p].file = user[t].file /\ block[p].offset = user[t].offset
  BY <1>1, <1>4 DEF HandsRight
<1>17. KeysRight(open, block, e, last_id_)
  <2>1. KeysRight(open, block, old, last_id_)
    BY <1>10, KeysStayRight DEF SomeClosed
  <2>2. DOMAIN e = DOMAIN old \cup {h} /\ e[h] = entry
        /\ \A g \in DOMAIN old : g # h /\ e[g] = old[g]
    BY <1>7, <1>10, <1>14 DEF Placed
  <2>3. key[1] <= last_id_
    BY <1>8 DEF TablesSound
  <2>4. \A q \in DOMAIN open : open[q].cache_id = key[1] => block[p].file = open[q].file
    BY <1>8, <1>16 DEF TablesSound
  <2> QED
    BY <1>8, <1>9, <1>16, <2>1, <2>2, <2>3, <2>4 DEF KeysRight
<1>18. TablesSound(open, user', last_id_)
  BY <1>1, <1>13, SameReaders DEF Reading, Only
<1>19. StepsSound(user')
  BY <1>1, <1>12, <1>13 DEF StepsSound, Only
<1>20. HandsRight(block, user')
  <2>1. \A s \in TableThreads : s = t \/ user'[s] = user[s]
    BY <1>13 DEF Only
  <2> SUFFICES ASSUME NEW s \in TableThreads
               PROVE  HandsRight(block, user')!(s)
    BY DEF HandsRight
  <2>2. CASE s = t
    <3>1. user'[s].held # NoData => /\ block[user'[s].held.block].file = user'[s].file
                                    /\ \/ block[user'[s].held.block].owned
                                       \/ block[user'[s].held.block].of = user'[s].table
      BY <1>13, <2>2 DEF HandsRight
    <3> QED
      BY <1>12, <1>13, <1>16, <2>2, <3>1
  <2>3. CASE s # t
    BY <2>1, <2>3 DEF HandsRight
  <2> QED
    BY <2>2, <2>3
<1>21. ReaderSound(open, block, e, user', last_id_)
  BY <1>13, <1>15, <1>17, <1>18, <1>19, <1>20 DEF ReaderTypes, OwnersSound
<1> HIDE DEF ReaderSound
<1>22. ReaderSound(open, block', cacheEntry', user', last_id_)
  BY <1>6, <1>14, <1>21, CommitSound DEF CommitEntries
<1> QED
  BY <1>1, <1>22

\* The iterator of a block is deleted, whoever owns the block.
LEMMA CleanupSound ==
    ASSUME ReaderInv, NEW t \in TableThreads, Cleanup(user[t].held)
    PROVE  ReaderSound(open, block', cacheEntry', [user EXCEPT ![t].held = NoData], last_id_)
<1> USE DEF ReaderInv, ReaderSound
<1>1. PICK u : u = [user EXCEPT ![t].held = NoData]
  OBVIOUS
<1>2. user \in [TableThreads -> Users] /\ user[t].held \in Datum \cup {NoData}
  BY DEF ReaderTypes, Users
<1>3. /\ u \in [TableThreads -> Users] /\ Only(t, user, u)
      /\ u[t].pc = user[t].pc /\ u[t].file = user[t].file /\ u[t].table = user[t].table
      /\ u[t].offset = user[t].offset /\ u[t].got = user[t].got /\ u[t].held = NoData
  <2>1. PICK r : r = [user[t] EXCEPT !.held = NoData]
    OBVIOUS
  <2>2. /\ r \in Users /\ r.pc = user[t].pc /\ r.file = user[t].file /\ r.table = user[t].table
        /\ r.offset = user[t].offset /\ r.got = user[t].got /\ r.held = NoData
    BY <1>2, <2>1 DEF Users, Steps
  <2>3. u = [user EXCEPT ![t] = r]
    BY <1>1, <1>2, <2>1
  <2> QED
    BY <1>2, <2>2, <2>3 DEF Only
<1>4. << t, "held" >> \in Places /\ Hands(user)[<< t, "held" >>] = user[t].held
  BY <1>2, HandsOf
<1>5. Hands(u) = [Hands(user) EXCEPT ![<< t, "held" >>] = NoData]
  <2>1. Hands(u) = [Hands(user) EXCEPT ![<< t, "held" >>] = u[t].held]
    BY <1>2, <1>3, HandsHeld
  <2> QED
    BY <1>3, <2>1
<1>6. TablesSound(open, u, last_id_)
  BY <1>3, SameReaders DEF Reading, Only
<1>7. StepsSound(u)
  <2>1. \A s \in TableThreads : s = t \/ u[s] = user[s]
    BY <1>3 DEF Only
  <2> QED
    BY <1>3, <2>1 DEF StepsSound
<1>8. HandsRight(block, u)
  <2>1. \A s \in TableThreads : s = t \/ u[s] = user[s]
    BY <1>3 DEF Only
  <2> QED
    BY <1>3, <2>1 DEF HandsRight
<1>9. CASE user[t].held = NoData
  <2>1. UNCHANGED << block, cacheEntry >>
    BY <1>9 DEF Cleanup
  <2>2. Hands(u) = Hands(user)
    BY <1>2, <1>3, <1>9, HandsSame
  <2> QED
    BY <1>1, <1>3, <1>6, <1>7, <1>8, <2>1, <2>2 DEF ReaderTypes
<1>10. CASE user[t].held # NoData /\ user[t].held.handle = Uncached
  <2>1. UNCHANGED cacheEntry /\ block' = Freed(block, {user[t].held.block})
    BY <1>10 DEF Cleanup
  <2>2. Owns(Hands(user), << t, "held" >>)
    BY <1>4, <1>10 DEF Owns
  <2>3. OwnersSound(block', cacheEntry, Hands(u))
    <3>1. OwnersSound(block, cacheEntry, Hands(user))
      OBVIOUS
    <3> HIDE DEF ReaderInv, ReaderSound
    <3>2. OwnersSound(Freed(block, {Hands(user)[<< t, "held" >>].block}), cacheEntry,
                      [Hands(user) EXCEPT ![<< t, "held" >>] = NoData])
      BY <1>4, <2>2, <3>1, DeleteKeepsOwners, Zenon
    <3> QED
      BY <1>4, <1>5, <2>1, <3>2
  <2>4. \A q \in DOMAIN block' : block'[q] = block[q]
    BY <2>1 DEF Freed
  <2>5. HandsRight(block', u)
    BY <1>3, <1>7, <1>8, <2>3, <2>4, HandsStayRight DEF OwnersSound
  <2>6. KeysRight(open, block', cacheEntry, last_id_)
    <3>1. \A h \in DOMAIN cacheEntry : cacheEntry[h].block \in DOMAIN block'
      BY <2>3 DEF OwnersSound, EntriesCount
    <3>2. \A h \in DOMAIN cacheEntry : block'[cacheEntry[h].block] = block[cacheEntry[h].block]
      BY <2>4, <3>1
    <3> QED
      BY <3>2 DEF KeysRight
  <2> QED
    BY <1>1, <1>3, <1>6, <1>7, <2>1, <2>3, <2>5, <2>6 DEF ReaderTypes, OwnersSound
<1>11. CASE user[t].held # NoData /\ user[t].held.handle # Uncached
  <2>1. PICK h : h = user[t].held.handle
    OBVIOUS
  <2>2. PICK e : e = Fewer(cacheEntry, h)
    OBVIOUS
  <2>3. /\ cacheEntry' = Freed(e, Unreferenced(e))
        /\ block' = Freed(block, {e[g].block : g \in Unreferenced(e)})
    BY <1>11, <2>1, <2>2 DEF Cleanup, CommitEntries, Fewer
  <2>4. OwnersSound(block, e, Hands(u))
    <3>1. OwnersSound(block, cacheEntry, Hands(user))
      OBVIOUS
    <3>2. /\ Hands(user)[<< t, "held" >>] # NoData
          /\ h = Hands(user)[<< t, "held" >>].handle /\ h # Uncached
      BY <1>4, <1>11, <2>1
    <3> HIDE DEF ReaderInv, ReaderSound
    <3>3. OwnersSound(block, Fewer(cacheEntry, h),
                      [Hands(user) EXCEPT ![<< t, "held" >>] = NoData])
      BY <1>4, <3>1, <3>2, ReleaseKeepsOwners, Zenon
    <3> QED
      BY <1>5, <2>2, <3>3
  <2>5. /\ DOMAIN e = DOMAIN cacheEntry
        /\ \A g \in DOMAIN cacheEntry : /\ e[g].block = cacheEntry[g].block
                                        /\ e[g].key = cacheEntry[g].key
    BY <2>2 DEF Fewer, ReaderTypes, Objects, Entries
  <2>6. KeysRight(open, block, e, last_id_)
    BY <2>5, KeysStayRight DEF SomeClosed
  <2>7. ReaderSound(open, block, e, u, last_id_)
    BY <1>3, <1>6, <1>7, <1>8, <2>4, <2>6 DEF ReaderTypes, OwnersSound
  <2> HIDE DEF ReaderSound
  <2> QED
    BY <1>1, <2>3, <2>7, CommitSound
<1> QED
  BY <1>9, <1>10, <1>11


LEMMA DeleteIteratorSound ==
    ASSUME ReaderInv, NEW t \in TableThreads, DeleteIterator(t)
    PROVE  ReaderInv'
<1>1. PICK u : u = [user EXCEPT ![t].held = NoData]
  OBVIOUS
<1>2. ReaderSound(open, block', cacheEntry', u, last_id_)
  BY <1>1, CleanupSound DEF DeleteIterator
<1> USE DEF ReaderInv, ReaderSound
<1>3. /\ user \in [TableThreads -> Users] /\ user[t] \in Users
      /\ user[t].pc = "use" /\ user[t].got = NoData /\ UNCHANGED << open, last_id_ >>
  BY DEF ReaderTypes, DeleteIterator, StepsSound
<1>4. /\ user' \in [TableThreads -> Users] /\ u \in [TableThreads -> Users] /\ Only(t, u, user')
      /\ user'[t].pc = "cleanup" /\ u[t].pc = "use"
      /\ user'[t].file = u[t].file /\ user'[t].table = u[t].table
      /\ user'[t].held = NoData /\ u[t].held = NoData
      /\ user'[t].got = NoData /\ u[t].got = NoData
  <2>1. PICK r : r = [user[t] EXCEPT !.held = NoData]
    OBVIOUS
  <2>2. PICK r2 : r2 = [user[t] EXCEPT !.pc = "cleanup", !.held = NoData]
    OBVIOUS
  <2>3. /\ r \in Users /\ r2 \in Users /\ r.pc = "use" /\ r2.pc = "cleanup"
        /\ r.file = r2.file /\ r.table = r2.table /\ r.held = NoData /\ r2.held = NoData
        /\ r.got = NoData /\ r2.got = NoData
    BY <1>3, <2>1, <2>2 DEF Users, Steps
  <2>4. u = [user EXCEPT ![t] = r]
    BY <1>1, <1>3, <2>1
  <2>5. user' = [user EXCEPT ![t] = r2]
    BY <1>3, <2>2 DEF DeleteIterator, Users
  <2> QED
    BY <1>3, <2>3, <2>4, <2>5 DEF Only
<1>5. Hands(user') = Hands(u)
  BY <1>4, HandsSame
<1>6. TablesSound(open, user', last_id_)
  BY <1>2, <1>4, SameReaders DEF Reading, Only
<1>7. \A s \in TableThreads : s = t \/ user'[s] = u[s]
  BY <1>4 DEF Only
<1>8. StepsSound(user')
  BY <1>2, <1>4, <1>7 DEF StepsSound
<1>9. HandsRight(block', user')
  BY <1>2, <1>4, <1>7 DEF HandsRight
<1> QED
  BY <1>2, <1>3, <1>4, <1>5, <1>6, <1>8, <1>9 DEF ReaderTypes

LEMMA ReplaceDataSound ==
    ASSUME ReaderInv, NEW t \in TableThreads, ReplaceData(t)
    PROVE  ReaderInv'
<1>1. PICK u : u = [user EXCEPT ![t].held = NoData]
  OBVIOUS
<1>2. ReaderSound(open, block', cacheEntry', u, last_id_)
  BY <1>1, CleanupSound DEF ReplaceData
<1> USE DEF ReaderInv, ReaderSound
<1>3. /\ user \in [TableThreads -> Users] /\ user[t] \in Users
      /\ user[t].pc = "got" /\ UNCHANGED << open, last_id_ >>
      /\ user[t].got \in Datum \cup {NoData}
  BY DEF ReaderTypes, ReplaceData, Users
<1>4. /\ user' \in [TableThreads -> Users] /\ u \in [TableThreads -> Users] /\ Only(t, u, user')
      /\ user'[t].pc = "use" /\ u[t].pc = "got"
      /\ user'[t].file = u[t].file /\ user'[t].table = u[t].table
      /\ user'[t].held = u[t].got /\ u[t].held = NoData /\ user'[t].got = NoData
  <2>1. PICK r : r = [user[t] EXCEPT !.held = NoData]
    OBVIOUS
  <2>2. PICK r2 : r2 = [user[t] EXCEPT !.pc = "use", !.held = user[t].got, !.got = NoData]
    OBVIOUS
  <2>3. /\ r \in Users /\ r2 \in Users /\ r.pc = "got" /\ r2.pc = "use"
        /\ r.file = r2.file /\ r.table = r2.table /\ r.held = NoData
        /\ r.got = user[t].got /\ r2.held = user[t].got /\ r2.got = NoData
    BY <1>3, <2>1, <2>2 DEF Users, Steps
  <2>4. u = [user EXCEPT ![t] = r]
    BY <1>1, <1>3, <2>1
  <2>5. user' = [user EXCEPT ![t] = r2]
    BY <1>3, <2>2 DEF ReplaceData, Users
  <2> QED
    BY <1>3, <2>3, <2>4, <2>5 DEF Only
<1>5. OwnersSound(block', cacheEntry', Hands(user'))
  <2>1. OwnersSound(block', cacheEntry', Hands(u))
    BY <1>2
  <2>2. /\ << t, "held" >> \in Places /\ << t, "got" >> \in Places
        /\ << t, "held" >> # << t, "got" >>
        /\ Hands(u)[<< t, "held" >>] = NoData /\ Hands(u)[<< t, "got" >>] = u[t].got
    BY <1>4, HandsOf
  <2>3. Hands(user') = [Hands(u) EXCEPT ![<< t, "held" >>] = u[t].got, ![<< t, "got" >>] = NoData]
    BY <1>4, HandsMoved
  <2> HIDE DEF ReaderInv, ReaderSound
  <2>4. OwnersSound(block', cacheEntry',
                    [Hands(u) EXCEPT ![<< t, "held" >>] = Hands(u)[<< t, "got" >>],
                                     ![<< t, "got" >>] = NoData])
    BY <2>1, <2>2, MoveKeepsOwners, Zenon
  <2> QED
    BY <2>2, <2>3, <2>4
<1>6. TablesSound(open, user', last_id_)
  BY <1>2, <1>4, SameReaders DEF Reading, Only
<1>7. \A s \in TableThreads : s = t \/ user'[s] = u[s]
  BY <1>4 DEF Only
<1>8. StepsSound(user')
  BY <1>2, <1>4, <1>7 DEF StepsSound
<1>9. HandsRight(block', user')
  <2> SUFFICES ASSUME NEW s \in TableThreads
               PROVE  HandsRight(block', user')!(s)
    BY DEF HandsRight
  <2>1. CASE s = t
    BY <1>2, <1>4, <2>1 DEF HandsRight
  <2>2. CASE s # t
    BY <1>2, <1>7, <2>2 DEF HandsRight
  <2> QED
    BY <2>1, <2>2
<1> QED
  BY <1>2, <1>3, <1>4, <1>5, <1>6, <1>8, <1>9 DEF ReaderTypes

-----------------------------------------------------------------------------
(* The theorem *)

LEMMA ReaderInitSound == TableReaderInit => ReaderInv
<1> SUFFICES ASSUME TableReaderInit PROVE ReaderInv
  OBVIOUS
<1>1. Idle \in Users /\ Idle.pc = "idle" /\ Idle.held = NoData /\ Idle.got = NoData
  BY DEF Idle, Users, Steps
<1>2. user \in [TableThreads -> Users] /\ \A t \in TableThreads : user[t] = Idle
  BY <1>1 DEF TableReaderInit
<1>3. DOMAIN open = {} /\ DOMAIN block = {} /\ DOMAIN cacheEntry = {} /\ last_id_ = 0
  BY DEF TableReaderInit
<1>4. Objects(open, TableObjects) /\ Objects(block, BlockObjects) /\ Objects(cacheEntry, Entries)
  BY <1>3 DEF Objects, TableReaderInit
<1>5. \A x \in Places : Hands(user)[x] = NoData
  <2>1. \A x \in Places : x[1] \in TableThreads /\ x[2] \in {"held", "got"}
    BY DEF Places
  <2>2. Idle["held"] = NoData /\ Idle["got"] = NoData
    BY DEF Idle
  <2> QED
    BY <1>2, <2>1, <2>2 DEF Hands
<1>6. OwnersSound(block, cacheEntry, Hands(user))
  BY <1>2, <1>3, <1>4, <1>5, HandsOf
     DEF OwnersSound, HandsLive, EntriesCount, OneOwner, NoneLeaks, Owns
<1>7. StepsSound(user)
  BY <1>1, <1>2 DEF StepsSound
<1>8. TablesSound(open, user, last_id_)
  BY <1>1, <1>2, <1>3 DEF TablesSound, Reading
<1>9. HandsRight(block, user) /\ KeysRight(open, block, cacheEntry, last_id_)
  BY <1>1, <1>2, <1>3 DEF HandsRight, KeysRight
<1> QED
  BY <1>2, <1>3, <1>4, <1>6, <1>7, <1>8, <1>9 DEF ReaderInv, ReaderSound, ReaderTypes

\* Every step keeps the invariant.
LEMMA ReaderStepSound == ReaderInv /\ [TableReaderNext]_readerVars => ReaderInv'
<1> SUFFICES ASSUME ReaderInv, [TableReaderNext]_readerVars PROVE ReaderInv'
  OBVIOUS
<1>1. CASE UNCHANGED readerVars
  BY <1>1 DEF readerVars, ReaderInv
<1>2. ASSUME NEW t \in TableThreads,
             \/ \E file \in TableNumbers : UseTable(t, file)
             \/ OpenTableFails(t)
             \/ \E mapped \in BOOLEAN : OpenTable(t, mapped)
      PROVE  ReaderInv'
  BY <1>2, UseTableSound, OpenTableFailsSound, OpenTableSound
<1>3. ASSUME NEW t \in TableThreads,
             \/ \E offset \in Offsets : BlockLookup(t, offset)
             \/ ReadBlockFails(t)
             \/ \E compressed, fill_cache \in BOOLEAN : ReadDataBlock(t, compressed, fill_cache)
      PROVE  ReaderInv'
  BY <1>3, BlockLookupSound, ReadBlockFailsSound, ReadDataBlockSound
<1>4. ASSUME NEW t \in TableThreads,
             InsertBlock(t) \/ ReplaceData(t) \/ DeleteIterator(t) \/ UnrefEntry(t)
      PROVE  ReaderInv'
  BY <1>4, InsertBlockSound, ReplaceDataSound, DeleteIteratorSound, UnrefEntrySound
<1>5. CASE \E file \in TableNumbers : EvictFromTableCache(file)
  BY <1>5, EvictFromTableCacheSound
<1>6. CASE \E h \in DOMAIN cacheEntry : EvictBlock(h)
  BY <1>6, EvictBlockSound
<1> QED
  BY <1>1, <1>2, <1>3, <1>4, <1>5, <1>6 DEF TableReaderNext

\* The invariant says what the run checks.
LEMMA ReaderInvSafe == ReaderInv => BlocksSafe
<1> SUFFICES ASSUME ReaderInv PROVE BlocksSafe
  OBVIOUS
<1> USE DEF ReaderInv, ReaderSound
<1>1. /\ user \in [TableThreads -> Users]
      /\ \A x \in Places : HandData(x) = Hands(user)[x]
      /\ InHand = {x \in Places : Hands(user)[x] # NoData}
  BY DEF ReaderTypes, HandData, InHand, Places, Hands
<1>2. BlocksOwned
  <2> SUFFICES ASSUME NEW b \in DOMAIN block
               PROVE  Cardinality({h \in DOMAIN cacheEntry : cacheEntry[h].block = b})
                        + Cardinality({x \in InHand : /\ HandData(x).block = b
                                                      /\ HandData(x).handle = Uncached}) = 1
    BY DEF BlocksOwned
  <2>1. PICK H : H = {h \in DOMAIN cacheEntry : cacheEntry[h].block = b}
    OBVIOUS
  <2>2. PICK X : X = {x \in Places : Owns(Hands(user), x) /\ Hands(user)[x].block = b}
    OBVIOUS
  <2>3. X = {x \in InHand : HandData(x).block = b /\ HandData(x).handle = Uncached}
    BY <1>1, <2>2 DEF Owns
  <2>4. /\ \A g, h \in H : g = h
        /\ \A x, y \in X : x = y
        /\ \A h \in H, x \in X : FALSE
    BY <2>1, <2>2 DEF OwnersSound, OneOwner
  <2>5. H # {} \/ X # {}
    BY <2>1, <2>2 DEF OwnersSound, NoneLeaks
  <2>6. \/ (\E h : H = {h}) /\ X = {}
        \/ (\E x : X = {x}) /\ H = {}
    <3>1. CASE H # {}
      <4>1. PICK h \in H : TRUE
        BY <3>1
      <4>2. H = {h} /\ X = {}
        BY <2>4, <4>1
      <4> QED
        BY <4>2
    <3>2. CASE X # {}
      <4>1. PICK x \in X : TRUE
        BY <3>2
      <4>2. X = {x} /\ H = {}
        BY <2>4, <4>1
      <4> QED
        BY <4>2
    <3> QED
      BY <2>5, <3>1, <3>2
  <2>7. Cardinality(H) + Cardinality(X) = 1
    <3>1. /\ \A x : Cardinality({x}) = 1
          /\ Cardinality({}) = 0
      BY FS_Singleton, FS_EmptySet
    <3>2. \/ Cardinality(H) = 1 /\ Cardinality(X) = 0
          \/ Cardinality(X) = 1 /\ Cardinality(H) = 0
      BY <2>6, <3>1
    <3> QED
      BY <3>2
  <2> QED
    BY <2>1, <2>3, <2>7
<1>3. ContentsLive
  <2>1. ASSUME NEW t \in TableThreads, NEW k \in {"held", "got"}, NEW p,
               user[t][k] # NoData, p = user[t][k].block
        PROVE  Usable(p)
    <3>1. << t, k >> \in Places /\ Hands(user)[<< t, k >>] = user[t][k]
      BY DEF Places, Hands
    <3>2. p \in DOMAIN block
      BY <2>1, <3>1 DEF OwnersSound, HandsLive
    <3>3. /\ Reading(user, t) /\ block[p].file = user[t].file
          /\ block[p].owned \/ block[p].of = user[t].table
      BY <1>1, <2>1 DEF StepsSound, HandsRight, Reading, Users
    <3>4. user[t].table \in DOMAIN open /\ open[user[t].table].file = user[t].file
      BY <3>3 DEF TablesSound
    <3> QED
      BY <3>2, <3>3, <3>4 DEF Usable
  <2>2. \A x \in InHand : Usable(HandData(x).block)
    <3> SUFFICES ASSUME NEW x \in InHand PROVE Usable(HandData(x).block)
      OBVIOUS
    <3>1. /\ x[1] \in TableThreads /\ x[2] \in {"held", "got"} /\ user[x[1]][x[2]] # NoData
          /\ HandData(x) = user[x[1]][x[2]]
      BY DEF InHand, HandData
    <3> QED
      BY <2>1, <3>1
  <2>3. \A h \in DOMAIN cacheEntry : Usable(cacheEntry[h].block)
    BY DEF OwnersSound, EntriesCount, KeysRight, Usable
  <2> QED
    BY <2>2, <2>3 DEF ContentsLive
<1>4. RightBlock
  BY DEF RightBlock, HandsRight
<1> QED
  BY <1>2, <1>3, <1>4 DEF BlocksSafe

\* Of any number of threads that read any tables through the shared caches, at
\* addresses that are used again, every block has one owner, lives as long as
\* anybody can read it and is the one that was asked for.
THEOREM SharedBlocksSafe == TableReaderSpec => []BlocksSafe
<1>1. TableReaderInit => ReaderInv
  BY ReaderInitSound
<1>2. ReaderInv /\ [TableReaderNext]_readerVars => ReaderInv'
  BY ReaderStepSound
<1>3. ReaderInv => BlocksSafe
  BY ReaderInvSafe
<1> QED
  BY <1>1, <1>2, <1>3, PTL DEF TableReaderSpec
=============================================================================
