----------------------------- MODULE TableCache -----------------------------
(***************************************************************************)
(* The cache of open tables: leveldb's LRU cache (util/cache.cc), the      *)
(* table cache on top of it (db/table_cache.cc) and the limit on memory    *)
(* mapped files below it (Limiter and NewRandomAccessFile of               *)
(* util/env_posix.cc).                                                     *)
(*                                                                         *)
(* Every cache operation holds the mutex of its shard from start to end;   *)
(* what threads interleave is the look-up, the opening of a missing table, *)
(* its insertion, its use and its release.  Handles are numbers; a freed   *)
(* handle is gone from entry.                                              *)
(***************************************************************************)
EXTENDS Naturals, Sequences, FiniteSets, FiniteSetsExt, SequencesExt

CONSTANTS
    Readers,          \* threads that read tables
    Files,            \* table numbers, the keys of the cache
    HashOf,           \* HashOf[f], the hash of a key
    ShardBits,        \* a hash is below ShardBits * kNumShards
    kNumShards,
    capacity_,        \* of each shard
    InitialLength,    \* 4, the smallest length of a hash table
    MmapLimit,        \* the most files to be mapped at a time
    FdLimit,          \* the most descriptors to be kept for the others
    MaxHandles        \* bound on the entries ever made

VARIABLES
    entry,     \* live LRUHandles: handle -> [key, file, in_cache, refs]
    shard,     \* per shard [usage, lru, in_use, list]: lru is oldest first
    mmaps,     \* mmap_limit_: how many more files may be mapped
    fds,       \* fd_limit_: how many more descriptors may be kept
    reader,    \* the threads
    made,      \* handles made so far
    shut       \* the caches are being destroyed

tableVars == << entry, shard, mmaps, fds, reader, made, shut >>

Shard(hash) == hash \div ShardBits
ShardOf(f) == Shard(HashOf[f])
ShardSet == 0 .. kNumShards - 1

-----------------------------------------------------------------------------
(* HandleTable: a list of buckets, each a chain of handles *)

Bucket(list, f) == (HashOf[f] % Len(list)) + 1

\* Lookup: the handle in the chain of the key, in a set.
TableLookup(list, es, f) == {h \in ToSet(list[Bucket(list, f)]) : es[h].key = f}

TableElems(list) == Len(FlattenSeq(list))

\* Resize: the buckets are taken in order and each handle is put at the head
\* of its new chain.
NewLength(elems) == CHOOSE n \in {InitialLength * 2 ^ i : i \in 0 .. elems} :
                        /\ n >= elems \/ n = InitialLength
                        /\ n = InitialLength \/ n \div 2 < elems
Resize(list, es) ==
    LET n == NewLength(TableElems(list))
        order == FlattenSeq(list)
        mine(b) == SelectSeq(order, LAMBDA h : (HashOf[es[h].key] % n) + 1 = b)
    IN  [b \in 1 .. n |-> Reverse(mine(b))]

\* Insert: the handle takes the place of one with the same key, or goes to the
\* end of its chain.
TableInsert(list, es, h) ==
    LET b == Bucket(list, es[h].key)
        old == TableLookup(list, es, es[h].key)
        new == [list EXCEPT ![b] = IF old = {} THEN Append(@, h)
                                   ELSE [i \in DOMAIN @ |-> IF @[i] \in old THEN h ELSE @[i]]]
    IN  IF old = {} /\ TableElems(new) > Len(list) THEN Resize(new, es) ELSE new

TableRemove(list, es, f) ==
    [list EXCEPT ![Bucket(list, f)] = SelectSeq(@, LAMBDA h : es[h].key # f)]

-----------------------------------------------------------------------------
(* LRUCache.  A step carries the state [sh, es, freed] of one shard along:    *)
(* its lists, the handles, and the handles whose deleter ran.                 *)

LRU_Remove(c, h) == [c EXCEPT !.sh.lru = SelectSeq(@, LAMBDA x : x # h),
                              !.sh.in_use = @ \ {h}]

Ref(c, h) ==
    LET moved == IF c.es[h].refs = 1 /\ c.es[h].in_cache
                 THEN [LRU_Remove(c, h) EXCEPT !.sh.in_use = @ \cup {h}] ELSE c
    IN  [moved EXCEPT !.es[h].refs = @ + 1]

Unref(c, h) ==
    LET e == c.es[h]
    IN  IF e.refs = 1
        THEN [c EXCEPT !.es = [x \in DOMAIN c.es \ {h} |-> c.es[x]],
                       !.freed = @ \cup {e.file}]
        ELSE IF e.in_cache /\ e.refs = 2
        THEN [LRU_Remove(c, h) EXCEPT !.es[h].refs = 1, !.sh.lru = Append(@, h)]
        ELSE [c EXCEPT !.es[h].refs = @ - 1]

\* Mutant of FinishErase: the reference of the cache stays.
FinishEraseKeepingRef(c, h) ==
    [LRU_Remove(c, h) EXCEPT !.es[h].in_cache = FALSE, !.sh.usage = @ - 1]

\* The handle is out of the hash table already.
FinishErase(c, h) ==
    LET out == LRU_Remove(c, h)
    IN  Unref([out EXCEPT !.es[h].in_cache = FALSE, !.sh.usage = @ - 1], h)

\* Remove from the hash table and FinishErase, if there is such a key.
CacheErase(c, f) ==
    LET old == TableLookup(c.sh.list, c.es, f)
    IN  IF old = {} THEN c
        ELSE FinishErase([c EXCEPT !.sh.list = TableRemove(@, c.es, f)],
                         CHOOSE h \in old : TRUE)

\* Insert's last loop: the oldest unused handles go while there are too many.
EvictOldest(c) ==
    LET after[i \in 0 .. Len(c.sh.lru)] ==
            IF i = 0 THEN c
            ELSE IF after[i - 1].sh.usage > capacity_
            THEN CacheErase(after[i - 1], c.es[c.sh.lru[i]].key)
            ELSE after[i - 1]
    IN  after[Len(c.sh.lru)]

\* Insert a table under a new handle, with a reference for the caller; every
\* entry of the table cache has charge 1.
CacheInsert(c, h, f, file) ==
    LET cached == capacity_ > 0
        e == [key |-> f, file |-> file, in_cache |-> cached,
              refs |-> IF cached THEN 2 ELSE 1]
        es == [x \in DOMAIN c.es \cup {h} |-> IF x = h THEN e ELSE c.es[x]]
        old == TableLookup(c.sh.list, c.es, f)
        in == [c EXCEPT !.es = es, !.sh.in_use = @ \cup {h}, !.sh.usage = @ + 1,
                        !.sh.list = TableInsert(@, es, h)]
    IN  IF ~cached THEN EvictOldest([c EXCEPT !.es = es])
        ELSE IF old = {} THEN EvictOldest(in)
        ELSE EvictOldest(FinishErase(in, CHOOSE o \in old : TRUE))

PruneShard(c) ==
    LET after[i \in 0 .. Len(c.sh.lru)] ==
            IF i = 0 THEN c ELSE CacheErase(after[i - 1], c.es[c.sh.lru[i]].key)
    IN  after[Len(c.sh.lru)]

-----------------------------------------------------------------------------
(* The table cache *)

ShardState(s) == [sh |-> shard[s], es |-> entry, freed |-> {}]

\* What the files of a set give back to the limits when they are closed.
GivenBack(files, kind) == Cardinality({f \in files : f[2] = kind})

\* A cache operation on shard s ends in c: the deleter of a freed entry
\* (DeleteEntry) closes its file.
CommitShard(s, c) ==
    /\ entry' = c.es
    /\ shard' = [shard EXCEPT ![s] = c.sh]
    /\ mmaps' = mmaps + GivenBack(c.freed, "mmap")
    /\ fds' = fds + GivenBack(c.freed, "fd")

NotReading == [pc |-> "idle"]

\* FindTable looks the table up.
FindTable(t, f) ==
    /\ ~shut /\ reader[t].pc = "idle"
    /\ LET s == ShardOf(f)
           found == TableLookup(shard[s].list, entry, f)
       IN  \/ /\ found = {}
              /\ reader' = [reader EXCEPT ![t] = [pc |-> "open", key |-> f]]
              /\ UNCHANGED << entry, shard, mmaps, fds >>
           \/ \E h \in found :
                 /\ CommitShard(s, Ref(ShardState(s), h))
                 /\ reader' = [reader EXCEPT ![t] = [pc |-> "use", handle |-> h, key |-> f]]
    /\ UNCHANGED << made, shut >>

\* NewRandomAccessFile maps the file if it may, else keeps a descriptor if it
\* may, else opens the file on every read.
OpenFile(t) ==
    /\ reader[t].pc = "open"
    /\ \E kind \in {IF mmaps > 0 THEN "mmap" ELSE IF fds > 0 THEN "fd" ELSE "temporary"} :
          /\ reader' = [reader EXCEPT ![t] = [pc |-> "opened", key |-> @.key, kind |-> kind]]
          /\ mmaps' = IF kind = "mmap" THEN mmaps - 1 ELSE mmaps
          /\ fds' = IF kind = "fd" THEN fds - 1 ELSE fds
    /\ UNCHANGED << entry, shard, made, shut >>

\* The file cannot be opened, sized or mapped; errors are not cached.
OpenFileFails(t) ==
    /\ reader[t].pc = "open"
    /\ reader' = [reader EXCEPT ![t] = NotReading]
    /\ UNCHANGED << entry, shard, mmaps, fds, made, shut >>

\* Table::Open fails: the file is closed.
TableOpenFails(t) ==
    /\ reader[t].pc = "opened"
    /\ mmaps' = mmaps + GivenBack({<< made, reader[t].kind >>}, "mmap")
    /\ fds' = fds + GivenBack({<< made, reader[t].kind >>}, "fd")
    /\ reader' = [reader EXCEPT ![t] = NotReading]
    /\ UNCHANGED << entry, shard, made, shut >>

\* The opened table is put into the cache.
InsertTable(t) ==
    /\ reader[t].pc = "opened"
    /\ made < MaxHandles
    /\ LET h == made + 1
           f == reader[t].key
           s == ShardOf(f)
       IN  /\ CommitShard(s, CacheInsert(ShardState(s), h, f, << h, reader[t].kind >>))
           /\ reader' = [reader EXCEPT ![t] = [pc |-> "use", handle |-> h, key |-> f]]
           /\ made' = h
    /\ UNCHANGED shut

\* Get is done, or the iterator's cleanup (UnrefEntry) runs.
ReleaseTable(t) ==
    /\ reader[t].pc = "use"
    /\ CommitShard(ShardOf(reader[t].key), Unref(ShardState(ShardOf(reader[t].key)), reader[t].handle))
    /\ reader' = [reader EXCEPT ![t] = NotReading]
    /\ UNCHANGED << made, shut >>

\* TableCache::Evict, for a table whose file is deleted.
EvictTable(f) ==
    /\ ~shut
    /\ TableLookup(shard[ShardOf(f)].list, entry, f) # {}
    /\ CommitShard(ShardOf(f), CacheErase(ShardState(ShardOf(f)), f))
    /\ UNCHANGED << reader, made, shut >>

\* Prune goes through the shards one by one.
Prune(s) ==
    /\ ~shut
    /\ shard[s].lru # << >>
    /\ CommitShard(s, PruneShard(ShardState(s)))
    /\ UNCHANGED << reader, made, shut >>

\* The table cache is deleted once nobody uses it: each unused entry loses the
\* reference of its shard.
DeleteShard(c) ==
    LET after[i \in 0 .. Len(c.sh.lru)] ==
            IF i = 0 THEN c
            ELSE Unref([after[i - 1] EXCEPT !.es[c.sh.lru[i]].in_cache = FALSE], c.sh.lru[i])
    IN  [after[Len(c.sh.lru)] EXCEPT !.sh.lru = << >>]
DeleteCache(s) ==
    /\ \A t \in Readers : reader[t].pc = "idle"
    /\ shard[s].lru # << >>
    /\ CommitShard(s, DeleteShard(ShardState(s)))
    /\ shut' = TRUE
    /\ UNCHANGED << reader, made >>

EmptyTable == Resize(<< >>, << >>)

TableCacheInit ==
    /\ entry = << >>
    /\ shard = [s \in ShardSet |-> [usage |-> 0, lru |-> << >>, in_use |-> {},
                                    list |-> EmptyTable]]
    /\ mmaps = MmapLimit /\ fds = FdLimit
    /\ reader = [t \in Readers |-> NotReading]
    /\ made = 0
    /\ shut = FALSE

TableCacheNext ==
    \/ \E t \in Readers :
          \/ \E f \in Files : FindTable(t, f)
          \/ OpenFile(t) \/ OpenFileFails(t) \/ TableOpenFails(t) \/ InsertTable(t)
          \/ ReleaseTable(t)
    \/ \E f \in Files : EvictTable(f)
    \/ \E s \in ShardSet : Prune(s) \/ DeleteCache(s)

-----------------------------------------------------------------------------
(* Properties *)

Holders(h) == {t \in Readers : reader[t].pc = "use" /\ reader[t].handle = h}

\* A handle lives exactly as long as somebody refers to it: its reference
\* count is the number of its users and one for the cache, whatever readers
\* that missed the same table, evictions and erasures do to it meanwhile.
RefsCounted ==
    /\ \A h \in DOMAIN entry :
          /\ entry[h].refs = Cardinality(Holders(h)) + IF entry[h].in_cache THEN 1 ELSE 0
          /\ entry[h].refs > 0
    /\ \A t \in Readers : reader[t].pc = "use" =>
          reader[t].handle \in DOMAIN entry /\ entry[reader[t].handle].key = reader[t].key

\* What the comment at the top of cache.cc says of the two lists: an entry of
\* the cache is in use or on the LRU list and never on both, the hash table
\* finds just these entries, and usage_ is their charge.
ListsExact ==
    shut \/ \A s \in ShardSet :
        LET cached == {h \in DOMAIN entry : entry[h].in_cache /\ ShardOf(entry[h].key) = s}
        IN  /\ ToSet(shard[s].lru) = {h \in cached : entry[h].refs = 1}
            /\ Len(shard[s].lru) = Cardinality(ToSet(shard[s].lru))
            /\ shard[s].in_use = {h \in cached : entry[h].refs >= 2}
            /\ shard[s].usage = Cardinality(cached)
            /\ \A h \in cached : TableLookup(shard[s].list, entry, entry[h].key) = {h}
            /\ TableElems(shard[s].list) = Cardinality(cached)

\* The limits on mapped files and kept descriptors count the open tables: none
\* is lost or given back twice on the way from a failed open, a duplicate
\* insertion or an eviction.
OpenKinds(kind) ==
    Cardinality({h \in DOMAIN entry : entry[h].file[2] = kind})
        + Cardinality({t \in Readers : reader[t].pc = "opened" /\ reader[t].kind = kind})
LimitsExact == /\ mmaps + OpenKinds("mmap") = MmapLimit
               /\ fds + OpenKinds("fd") = FdLimit

\* References, lists, hash table, charge and limits agree with one another and
\* with the handles readers hold, however opens, evictions and releases overlap.
CacheExact == RefsCounted /\ ListsExact /\ LimitsExact
=============================================================================
