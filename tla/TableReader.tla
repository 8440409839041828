---------------------------- MODULE TableReader ----------------------------
(***************************************************************************)
(* Who owns what while tables are read (table/table.cc, table/format.cc,   *)
(* table/iterator.cc, table/two_level_iterator.cc): tables that the table  *)
(* cache shares and may evict, their blocks, owned or pointing into a      *)
(* mapped file, and the block cache that threads fill and evict from       *)
(* concurrently.                                                           *)
(*                                                                         *)
(* A pointer is a number; a freed one is used again.  The caches are what  *)
(* TableCache shows them to be: an entry lives while it is cached or       *)
(* somebody holds a handle of it.                                          *)
(***************************************************************************)
EXTENDS Naturals, FiniteSets

CONSTANTS
    TableThreads,   \* threads that read
    TableNumbers,   \* numbers of the table files
    Offsets,        \* offsets of the data blocks of a file
    Pointers,       \* bound: addresses of tables, of blocks and of entries
    MaxCacheIds     \* bound on the tables opened

ASSUME ReaderAssumption ==
    IsFiniteSet(TableThreads) /\ Pointers \subseteq Nat \ {0} /\ MaxCacheIds \in Nat

VARIABLES
    open,        \* Table objects: pointer -> [file, mapped, cache_id, in_cache, refs]
    block,       \* Block objects: pointer -> [of, file, offset, owned]; of is the table
                 \* whose file it points into
    cacheEntry,  \* block cache: pointer -> [key, block, in_cache, refs]
    user,        \* per thread: [pc, file, table, offset, held, got]
    last_id_     \* of the block cache

readerVars == << open, block, cacheEntry, user, last_id_ >>

Free(objects) == {p \in Pointers : p \notin DOMAIN objects /\ \A q \in Pointers :
                                                q < p => q \in DOMAIN objects}
Placed(objects, p, o) == [q \in DOMAIN objects \cup {p} |-> IF q = p THEN o ELSE objects[q]]
Freed(objects, gone) == [q \in DOMAIN objects \ gone |-> objects[q]]

\* What data_iter_ holds: the block and the handle that its cleanup releases.
NoData == << >>
Data2(b, handle) == [block |-> b, handle |-> handle]
Uncached == 0

Idle == [pc |-> "idle", file |-> 0, table |-> 0, offset |-> 0, held |-> NoData, got |-> NoData]

-----------------------------------------------------------------------------
(* Tables *)

\* A handle of a table is given up, or the cache gives the table up; the last
\* one deletes it and closes its file.
Dropped(tables, p) ==
    IF tables[p].refs = 0 /\ ~tables[p].in_cache THEN Freed(tables, {p}) ELSE tables
Uncache(tables, file) ==
    LET in == {p \in DOMAIN tables : tables[p].in_cache /\ tables[p].file = file}
        out == [p \in DOMAIN tables |-> IF p \in in THEN [tables[p] EXCEPT !.in_cache = FALSE]
                                        ELSE tables[p]]
    IN  Freed(out, {p \in in : tables[p].refs = 0})

UseTable(t, file) ==
    /\ user[t].pc = "idle"
    /\ LET in == {p \in DOMAIN open : open[p].in_cache /\ open[p].file = file}
       IN  \/ /\ in = {}
              /\ user' = [user EXCEPT ![t].pc = "open", ![t].file = file]
              /\ UNCHANGED open
           \/ \E p \in in :
                 /\ open' = [open EXCEPT ![p].refs = @ + 1]
                 /\ user' = [user EXCEPT ![t].pc = "use", ![t].file = file, ![t].table = p]
    /\ UNCHANGED << block, cacheEntry, last_id_ >>

\* A short file, a bad footer or an index block that cannot be read.
OpenTableFails(t) ==
    /\ user[t].pc = "open"
    /\ user' = [user EXCEPT ![t] = Idle]
    /\ UNCHANGED << open, block, cacheEntry, last_id_ >>

NewId == last_id_ + 1

\* The table goes to the table cache in place of one that another thread put
\* there meanwhile.  Whether its filter can be read makes no difference here.
OpenTable(t, mapped) ==
    /\ user[t].pc = "open" /\ last_id_ < MaxCacheIds
    /\ \E p \in Free(open) :
          /\ open' = Placed(Uncache(open, user[t].file), p,
                          [file |-> user[t].file, mapped |-> mapped,
                           cache_id |-> NewId, in_cache |-> TRUE, refs |-> 1])
          /\ user' = [user EXCEPT ![t].pc = "use", ![t].table = p]
    /\ last_id_' = last_id_ + 1
    /\ UNCHANGED << block, cacheEntry >>

\* The table cache evicts the table of a file.
EvictFromTableCache(file) ==
    /\ \E p \in DOMAIN open : open[p].in_cache /\ open[p].file = file
    /\ open' = Uncache(open, file)
    /\ UNCHANGED << block, cacheEntry, user, last_id_ >>

-----------------------------------------------------------------------------
(* Blocks *)

BlockKey(t, offset) == << open[user[t].table].cache_id, offset >>

\* BlockReader looks into the block cache.  Without a cache it reads every
\* block, as it does here when nobody fills the cache.
BlockLookup(t, offset) ==
    /\ user[t].pc = "use"
    /\ LET in == {h \in DOMAIN cacheEntry : /\ cacheEntry[h].in_cache
                                            /\ cacheEntry[h].key = BlockKey(t, offset)}
           asked == [user[t] EXCEPT !.offset = offset]
       IN  \/ /\ in = {}
              /\ user' = [user EXCEPT ![t] = [asked EXCEPT !.pc = "read"]]
              /\ UNCHANGED cacheEntry
           \/ \E h \in in :
                 /\ cacheEntry' = [cacheEntry EXCEPT ![h].refs = @ + 1]
                 /\ user' = [user EXCEPT ![t] = [asked EXCEPT !.pc = "got",
                                                    !.got = Data2(cacheEntry[h].block, h)]]
    /\ UNCHANGED << open, block, last_id_ >>

\* An I/O error, a truncated block, a wrong checksum or a bad type.
ReadBlockFails(t) ==
    /\ user[t].pc = "read"
    /\ user' = [user EXCEPT ![t].pc = "got", ![t].got = NoData]
    /\ UNCHANGED << open, block, cacheEntry, last_id_ >>

\* Mutant of Cachable: a block that points into the mapped file is cached too.
CachableAlways(owned) == TRUE

\* ReadBlock: uncompressed contents of a mapped file are used where they are.
Cachable(owned) == owned
ReadDataBlock(t, compressed, fill_cache) ==
    /\ user[t].pc = "read"
    /\ LET owned == compressed \/ ~open[user[t].table].mapped
       IN  \E b \in Free(block) :
             /\ block' = Placed(block, b, [of |-> IF owned THEN 0 ELSE user[t].table, file |-> user[t].file,
                                         offset |-> user[t].offset, owned |-> owned])
             /\ user' = [user EXCEPT
                            ![t].pc = IF Cachable(owned) /\ fill_cache THEN "insert" ELSE "got",
                            ![t].got = Data2(b, Uncached)]
    /\ UNCHANGED << open, cacheEntry, last_id_ >>

\* The entries of the block cache without those that nobody refers to, whose
\* blocks are deleted (DeleteCachedBlock).
Unreferenced(entries) == {h \in DOMAIN entries : entries[h].refs = 0 /\ ~entries[h].in_cache}
CommitEntries(entries) ==
    LET gone == Unreferenced(entries)
    IN  /\ cacheEntry' = Freed(entries, gone)
        /\ block' = Freed(block, {entries[h].block : h \in gone})

\* Insert replaces the entry of a thread that read the same block.
InsertBlock(t) ==
    /\ user[t].pc = "insert"
    /\ \E h \in Free(cacheEntry) :
          LET key == BlockKey(t, user[t].offset)
              old == [q \in DOMAIN cacheEntry |->
                        IF cacheEntry[q].key = key THEN [cacheEntry[q] EXCEPT !.in_cache = FALSE]
                        ELSE cacheEntry[q]]
          IN  /\ CommitEntries(Placed(old, h, [key |-> key, block |-> user[t].got.block,
                                             in_cache |-> TRUE, refs |-> 1]))
              /\ user' = [user EXCEPT ![t].pc = "got", ![t].got.handle = h]
    /\ UNCHANGED << open, last_id_ >>

EvictBlock(h) ==
    /\ cacheEntry[h].in_cache
    /\ CommitEntries([cacheEntry EXCEPT ![h].in_cache = FALSE])
    /\ UNCHANGED << open, user, last_id_ >>

\* The iterator of a block is deleted: DeleteBlock or ReleaseBlock.
Cleanup(data) ==
    IF data = NoData THEN UNCHANGED << block, cacheEntry >>
    ELSE IF data.handle = Uncached
    THEN block' = Freed(block, {data.block}) /\ UNCHANGED cacheEntry
    ELSE CommitEntries([cacheEntry EXCEPT ![data.handle].refs = @ - 1])

\* SetDataIterator: the new block is there before the old one is let go.
ReplaceData(t) ==
    /\ user[t].pc = "got"
    /\ Cleanup(user[t].held)
    /\ user' = [user EXCEPT ![t].pc = "use", ![t].held = user[t].got, ![t].got = NoData]
    /\ UNCHANGED << open, last_id_ >>

\* The iterator is deleted: its members with it, then its cleanups.
DeleteIterator(t) ==
    /\ user[t].pc = "use"
    /\ Cleanup(user[t].held)
    /\ user' = [user EXCEPT ![t].pc = "cleanup", ![t].held = NoData]
    /\ UNCHANGED << open, last_id_ >>
UnrefEntry(t) ==
    /\ user[t].pc = "cleanup"
    /\ open' = Dropped([open EXCEPT ![user[t].table].refs = @ - 1], user[t].table)
    /\ user' = [user EXCEPT ![t] = Idle]
    /\ UNCHANGED << block, cacheEntry, last_id_ >>

TableReaderInit ==
    /\ open = << >> /\ block = << >> /\ cacheEntry = << >> /\ last_id_ = 0
    /\ user = [t \in TableThreads |-> Idle]

TableReaderNext ==
    \/ \E t \in TableThreads :
          \/ \E file \in TableNumbers : UseTable(t, file)
          \/ OpenTableFails(t)
          \/ \E mapped \in BOOLEAN : OpenTable(t, mapped)
          \/ \E offset \in Offsets : BlockLookup(t, offset)
          \/ ReadBlockFails(t)
          \/ \E compressed, fill_cache \in BOOLEAN : ReadDataBlock(t, compressed, fill_cache)
          \/ InsertBlock(t) \/ ReplaceData(t) \/ DeleteIterator(t) \/ UnrefEntry(t)
    \/ \E file \in TableNumbers : EvictFromTableCache(file)
    \/ \E h \in DOMAIN cacheEntry : EvictBlock(h)

TableReaderSpec == TableReaderInit /\ [][TableReaderNext]_readerVars

-----------------------------------------------------------------------------
(* Properties *)

HandData(x) == user[x[1]][x[2]]
InHand == {x \in TableThreads \X {"held", "got"} : HandData(x) # NoData}

\* Every block is somebody's to delete, and only one's: of the cache, or of
\* the iterator that read it and found no place for it there.  None leaks and
\* none is deleted twice, whoever inserts, evicts or lets go meanwhile.
BlocksOwned ==
    \A b \in DOMAIN block :
        Cardinality({h \in DOMAIN cacheEntry : cacheEntry[h].block = b})
          + Cardinality({x \in InHand : HandData(x).block = b /\ HandData(x).handle = Uncached}) = 1

\* Contents can be read as long as anybody may read them: the block is not
\* deleted, and if it points into a mapped file then the file is still open,
\* for an iterator as well as for whoever finds it in the cache later.
Usable(b) == b \in DOMAIN block /\ (block[b].owned \/
                 (block[b].of \in DOMAIN open /\ open[block[b].of].file = block[b].file))
ContentsLive ==
    /\ \A x \in InHand : Usable(HandData(x).block)
    /\ \A h \in DOMAIN cacheEntry : Usable(cacheEntry[h].block)

\* A reader gets the block of the file it asked for, though the block cache is
\* shared by all tables and keeps blocks of tables that are gone.
RightBlock ==
    \A t \in TableThreads : user[t].got # NoData =>
        LET b == block[user[t].got.block]
        IN  b.file = user[t].file /\ b.offset = user[t].offset

\* A block has one owner, lives as long as it can be read, and is the one asked
\* for, while tables and cached blocks come and go under their readers.
BlocksSafe == BlocksOwned /\ ContentsLive /\ RightBlock
=============================================================================
