---------------------------- MODULE TableFormat ----------------------------
(***************************************************************************)
(* Table files of leveldb: how TableBuilder lays entries out in blocks     *)
(* (table/table_builder.cc, block_builder.cc, filter_block.cc) and how a   *)
(* lookup finds them again (table/table.cc, block.cc), with the comparator *)
(* and the filter policy it depends on (util/comparator.cc, util/bloom.cc, *)
(* db/dbformat.cc).                                                        *)
(*                                                                         *)
(* A user key is a sequence of bytes 0 .. ByteMax.  An internal key is     *)
(* encoded as the user key followed by its tag, here one cell.  A block is *)
(* a sequence of encoded entries, each at its offset.                      *)
(***************************************************************************)
EXTENDS Integers, Sequences, FiniteSets

CONSTANTS
    ByteMax,                 \* largest byte, 255 in the code
    TableKeys,               \* internal keys [user, tag] that may be added
    TagMax,                  \* tag of kMaxSequenceNumber and kValueTypeForSeek
    block_size,              \* Options::block_size
    block_restart_interval,
    kFilterBase,             \* bytes of data that share a filter
    bits_per_key, HashBits,  \* bloom filter and width of its hash
    MaxTableEntries          \* bound on the entries of a table

VARIABLES
    tb,         \* TableBuilder::Rep
    damagedBlocks  \* history: offsets of blocks damaged after they were written

formatVars == << tb, damagedBlocks >>

-----------------------------------------------------------------------------
(* Comparators *)

SharedPrefix(a, b) ==
    LET n == IF Len(a) < Len(b) THEN Len(a) ELSE Len(b)
    IN  CHOOSE i \in 0 .. n : /\ \A j \in 1 .. i : a[j] = b[j]
                              /\ i = n \/ a[i + 1] # b[i + 1]

\* Slice::compare
ByteLess(a, b) ==
    LET i == SharedPrefix(a, b)
    IN  IF i = Len(a) \/ i = Len(b) THEN Len(a) < Len(b) ELSE a[i + 1] < b[i + 1]

FindShortestSeparator(start, limit) ==
    LET i == SharedPrefix(start, limit)
    IN  IF i = Len(start) \/ i = Len(limit) THEN start
        ELSE IF start[i + 1] < ByteMax /\ start[i + 1] + 1 < limit[i + 1]
        THEN Append(SubSeq(start, 1, i), start[i + 1] + 1)
        ELSE start

FindShortSuccessor(key) ==
    LET up == {i \in DOMAIN key : key[i] # ByteMax}
    IN  IF up = {} THEN key
        ELSE LET i == CHOOSE i \in up : \A j \in up : i <= j
             IN  Append(SubSeq(key, 1, i - 1), key[i] + 1)

IKey(user, tag) == [user |-> user, tag |-> tag]
EncodeKey(k) == Append(k.user, k.tag)
ExtractUserKey(cells) == SubSeq(cells, 1, Len(cells) - 1)
DecodeKey(cells) == IKey(ExtractUserKey(cells), cells[Len(cells)])

IKeyLess(a, b) == ByteLess(a.user, b.user) \/ (a.user = b.user /\ a.tag > b.tag)

\* Shorter physically but larger logically: the earliest tag is tacked on.
Shortened(k, user) ==
    IF Len(user) < Len(k.user) /\ ByteLess(k.user, user) THEN IKey(user, TagMax) ELSE k

\* Mutant of InternalSeparator: the earliest tag is tacked on in any case.
SeparatorAnyTag(start, limit) == IKey(FindShortestSeparator(start.user, limit.user), TagMax)

InternalSeparator(start, limit) ==
    Shortened(start, FindShortestSeparator(start.user, limit.user))
InternalSuccessor(k) == Shortened(k, FindShortSuccessor(k.user))

-----------------------------------------------------------------------------
(* Blocks.  An entry is [at, shared, delta, value] and takes its three lengths, *)
(* delta and value; values take one cell.                                       *)

EntrySize(e) == 3 + Len(e.delta) + 1
EmptyBlock == [entries |-> << >>, restarts |-> << 0 >>, counter |-> 0, size |-> 0,
               last_key |-> << >>]

BlockAdd(b, interval, key, value) ==
    LET full   == b.counter >= interval
        shared == IF full THEN 0 ELSE SharedPrefix(b.last_key, key)
        e      == [at |-> b.size, shared |-> shared, value |-> value,
                   delta |-> SubSeq(key, shared + 1, Len(key))]
    IN  [entries |-> Append(b.entries, e),
         restarts |-> IF full THEN Append(b.restarts, b.size) ELSE b.restarts,
         counter |-> IF full THEN 1 ELSE b.counter + 1,
         size |-> b.size + EntrySize(e),
         last_key |-> SubSeq(b.last_key, 1, shared) \o e.delta]

CurrentSizeEstimate(b) == b.size + Len(b.restarts) + 1

\* Block::Iter: x = [cur, next, ri, key, value]; cur = b.size is not Valid, ri
\* counts restart points from 0, next is NextEntryOffset.
DecodeEntry(b, off) == b.entries[CHOOSE i \in DOMAIN b.entries : b.entries[i].at = off]
GetRestartPoint(b, i) == b.restarts[i + 1]
EndIter(b) == [cur |-> b.size, next |-> b.size, ri |-> Len(b.restarts), key |-> << >>, value |-> 0]
IterValid(b, x) == x.cur < b.size

SeekToRestartPoint(b, i) ==
    [cur |-> b.size, next |-> GetRestartPoint(b, i), ri |-> i, key |-> << >>, value |-> 0]

ParseNextKey(b, x) ==
    IF x.next >= b.size THEN EndIter(b)
    ELSE LET e == DecodeEntry(b, x.next)
         IN  [cur |-> x.next, next |-> x.next + EntrySize(e), value |-> e.value,
              key |-> SubSeq(x.key, 1, e.shared) \o e.delta,
              ri |-> CHOOSE r \in x.ri .. Len(b.restarts) - 1 :
                        /\ \A s \in x.ri + 1 .. r : GetRestartPoint(b, s) < x.next
                        /\ r + 1 < Len(b.restarts) => GetRestartPoint(b, r + 1) >= x.next]

\* Parse on until the entry ends at off.
RECURSIVE ParseUntil(_, _, _)
ParseUntil(b, x, off) ==
    LET y == ParseNextKey(b, x)
    IN  IF IterValid(b, y) /\ y.next < off THEN ParseUntil(b, y, off) ELSE y
\* Parse on until the key is not before the target.
RECURSIVE ParseTo(_, _, _)
ParseTo(b, x, target) ==
    LET y == ParseNextKey(b, x)
    IN  IF IterValid(b, y) /\ IKeyLess(DecodeKey(y.key), target) THEN ParseTo(b, y, target)
        ELSE y

BlockSeekToFirst(b) == ParseNextKey(b, SeekToRestartPoint(b, 0))
BlockSeekToLast(b) == ParseUntil(b, SeekToRestartPoint(b, Len(b.restarts) - 1), b.size)
BlockNext(b, x) == ParseNextKey(b, x)

BlockPrev(b, x) ==
    LET before == {r \in 0 .. x.ri : GetRestartPoint(b, r) < x.cur}
    IN  IF before = {} THEN EndIter(b)
        ELSE ParseUntil(b, SeekToRestartPoint(b, CHOOSE r \in before :
                                                    \A s \in before : s <= r), x.cur)

\* The last restart point whose key is before the target, by binary search.
RECURSIVE SearchRestarts(_, _, _, _)
SearchRestarts(b, target, left, right) ==
    IF left >= right THEN left
    ELSE LET mid == (left + right + 1) \div 2
             key == DecodeKey(DecodeEntry(b, GetRestartPoint(b, mid)).delta)
         IN  IF IKeyLess(key, target) THEN SearchRestarts(b, target, mid, right)
             ELSE SearchRestarts(b, target, left, mid - 1)
BlockSeek(b, target) ==
    IF b.entries = << >> THEN EndIter(b)
    ELSE ParseTo(b, SeekToRestartPoint(b, SearchRestarts(b, target, 0, Len(b.restarts) - 1)), target)

-----------------------------------------------------------------------------
(* Filters.  A filter is the set of its bits with their number; an empty one is *)
(* no filter at all in result_.                                                 *)

\* Hash: any function of the bytes.
KeyHash(user) ==
    LET h[i \in 0 .. Len(user)] == IF i = 0 THEN 5 ELSE (h[i - 1] * 7 + user[i] * 3 + 1) % 2 ^ HashBits
    IN  h[Len(user)]
\* Double hashing with a rotation for the step.
Probes == LET k == (bits_per_key * 69) \div 100
          IN  IF k < 1 THEN 1 ELSE IF k > 30 THEN 30 ELSE k
Rotated(h) == (h \div 2 ^ (HashBits \div 2)) + ((h * 2 ^ (HashBits \div 2)) % 2 ^ HashBits)
ProbedBits(user, bits) ==
    LET h == KeyHash(user)
    IN  {((h + j * Rotated(h)) % 2 ^ HashBits) % bits : j \in 0 .. Probes - 1}
MinFilterBits == 64
CreateFilter(users, n) ==
    LET wanted == IF n * bits_per_key < MinFilterBits THEN MinFilterBits ELSE n * bits_per_key
        bits   == 8 * ((wanted + 7) \div 8)
    IN  [bits |-> bits, set |-> UNION {ProbedBits(u, bits) : u \in users}]
FilterMatches(filter, user) == ProbedBits(user, filter.bits) \subseteq filter.set

\* FilterBlockBuilder: f = [keys, offsets, result]
GenerateFilter(f) ==
    [keys |-> << >>, offsets |-> Append(f.offsets, Len(f.result)),
     result |-> IF f.keys = << >> THEN f.result
                ELSE Append(f.result, CreateFilter({f.keys[i] : i \in DOMAIN f.keys}, Len(f.keys)))]
RECURSIVE StartBlock(_, _)
StartBlock(f, block_offset) ==
    IF block_offset \div kFilterBase > Len(f.offsets)
    THEN StartBlock(GenerateFilter(f), block_offset) ELSE f
FinishFilter(f) == IF f.keys = << >> THEN f ELSE GenerateFilter(f)

KeyMayMatch(f, block_offset, user) ==
    LET index == block_offset \div kFilterBase
        start == f.offsets[index + 1]
        limit == IF index + 2 <= Len(f.offsets) THEN f.offsets[index + 2] ELSE Len(f.result)
    IN  \/ index >= Len(f.offsets)
        \/ start < limit /\ FilterMatches(f.result[start + 1], user)

-----------------------------------------------------------------------------
(* TableBuilder.  file maps an offset to the block there; num_entries is the      *)
(* length of the history added.                                                   *)

kBlockTrailerSize == 5

\* WriteBlock, WriteRawBlock: an append that fails leaves the offset alone.
WriteBlock(r, b, ok) ==
    IF ~ok THEN [r EXCEPT !.ok = FALSE]
    ELSE [r EXCEPT !.file = [o \in DOMAIN @ \cup {r.offset} |-> IF o = r.offset THEN b ELSE @[o]],
                   !.offset = @ + b.size + Len(b.restarts) + 1 + kBlockTrailerSize]

TableFlush(r, ok) ==
    IF ~r.ok \/ r.data_block.entries = << >> THEN r
    ELSE LET w == WriteBlock(r, r.data_block, ok)
         IN  [w EXCEPT !.data_block = EmptyBlock,
                       !.pending = IF ok THEN << r.offset >> ELSE @,
                       !.filter = StartBlock(@, w.offset)]

\* The index entry of a block waits for the first key after it.
IndexPending(r, key) ==
    IF r.pending = << >> THEN r
    ELSE [r EXCEPT !.index_block = BlockAdd(@, 1, EncodeKey(key), r.pending[1]),
                   !.pending = << >>]

TableAdd(k, ok) ==
    /\ ~tb.closed /\ Len(tb.added) < MaxTableEntries
    /\ tb.added # << >> => IKeyLess(tb.added[Len(tb.added)], k)
    /\ tb' = IF ~tb.ok THEN tb
             ELSE LET r == IndexPending(tb, IF tb.added = << >> THEN k
                                            ELSE InternalSeparator(tb.added[Len(tb.added)], k))
                      s == [r EXCEPT !.added = Append(@, k),
                                     !.filter.keys = Append(@, k.user),
                                     !.data_block = BlockAdd(@, block_restart_interval, EncodeKey(k),
                                                             Len(r.added) + 1)]
                  IN  IF CurrentSizeEstimate(s.data_block) >= block_size THEN TableFlush(s, ok)
                      ELSE s
    /\ UNCHANGED damagedBlocks

\* Finish: the last block, the filter, the metaindex, the index and the footer.
TableFinish(ok) ==
    /\ ~tb.closed
    /\ LET r == TableFlush(tb, ok)
           s == IF r.added = << >> THEN r
                ELSE IndexPending(r, InternalSuccessor(r.added[Len(r.added)]))
       IN  tb' = [s EXCEPT !.closed = TRUE, !.filter = FinishFilter(@),
                           !.ok = @ /\ ok]
    /\ UNCHANGED damagedBlocks

TableAbandon ==
    /\ ~tb.closed
    /\ tb' = [tb EXCEPT !.closed = TRUE, !.ok = FALSE]
    /\ UNCHANGED damagedBlocks

DamageBlock(o) ==
    /\ tb.closed /\ tb.ok /\ damagedBlocks = {}
    /\ damagedBlocks' = {o}
    /\ UNCHANGED tb

FormatInit ==
    /\ tb = [data_block |-> EmptyBlock, index_block |-> EmptyBlock, pending |-> << >>,
             filter |-> [keys |-> << >>, offsets |-> << >>, result |-> << >>],
             file |-> << >>, offset |-> 0, added |-> << >>, closed |-> FALSE, ok |-> TRUE]
    /\ damagedBlocks = {}

FormatNext ==
    \/ \E k \in TableKeys, ok \in BOOLEAN : TableAdd(k, ok)
    \/ \E ok \in BOOLEAN : TableFinish(ok)
    \/ TableAbandon
    \/ \E o \in DOMAIN tb.file : DamageBlock(o)

-----------------------------------------------------------------------------
(* Reading.  ReadBlock verifies the checksum, so a damaged block is an error. *)

BlockError == [error |-> TRUE, found |-> {}]
NotFound == [error |-> FALSE, found |-> {}]
InternalGet(k, filtered) ==
    LET i == BlockSeek(tb.index_block, k)
        offset == i.value
    IN  IF ~IterValid(tb.index_block, i) THEN NotFound
        ELSE IF filtered /\ ~KeyMayMatch(tb.filter, offset, k.user) THEN NotFound
        ELSE IF offset \in damagedBlocks THEN BlockError
        ELSE LET x == BlockSeek(tb.file[offset], k)
             IN  [error |-> FALSE,
                  found |-> IF IterValid(tb.file[offset], x) THEN {[key |-> DecodeKey(x.key), nth |-> x.value]}
                            ELSE {}]

ApproximateOffsetOf(k) ==
    LET i == BlockSeek(tb.index_block, k)
    IN  IF IterValid(tb.index_block, i) THEN i.value ELSE tb.offset

-----------------------------------------------------------------------------
(* Properties *)

Readable == tb.closed /\ tb.ok
\* Lookups ask for a user key at a tag.
Targets == {IKey(k.user, t) : k \in TableKeys, t \in {0, 2, TagMax}} \cup TableKeys
FirstFrom(k) == {n \in DOMAIN tb.added : /\ ~IKeyLess(tb.added[n], k)
                                         /\ \A m \in 1 .. n - 1 : IKeyLess(tb.added[m], k)}

\* A table that was finished without an error answers every lookup with the
\* first entry at or after the key, through shortened index keys, restart
\* points and prefix compression; with a filter it may answer "not found" only
\* if it has no entry of the user key; a damaged block is an error, never a
\* wrong answer.
LookupExact ==
    Readable => \A k \in Targets, filtered \in BOOLEAN :
        LET r == InternalGet(k, filtered)
            due == FirstFrom(k)
            relevant == {n \in due : tb.added[n].user = k.user}
        IN  \/ r.error /\ damagedBlocks # {}
            \/ r.found = {[key |-> tb.added[n], nth |-> n] : n \in due}
            \/ r.found = {} /\ relevant = {}

\* In every block a cursor moves as over the sorted sequence of its entries,
\* whichever way it came to its position.
Cursor(b, x) == IF IterValid(b, x) THEN x.value ELSE 0
BlockCursorExact ==
    \A o \in DOMAIN tb.file :
        LET b == tb.file[o]
            lo == b.entries[1].value
            hi == b.entries[Len(b.entries)].value
            Is(n) == IF n \in lo .. hi THEN n ELSE 0
        IN  /\ Cursor(b, BlockSeekToFirst(b)) = lo
            /\ Cursor(b, BlockSeekToLast(b)) = hi
            /\ \A n \in lo .. hi :
                  LET x == BlockSeek(b, tb.added[n])
                      y == BlockPrev(b, x)
                      z == BlockNext(b, x)
                  IN  /\ Cursor(b, x) = n /\ Cursor(b, y) = Is(n - 1) /\ Cursor(b, z) = Is(n + 1)
                      /\ n > lo => Cursor(b, BlockNext(b, y)) = n
                      /\ n < hi => Cursor(b, BlockPrev(b, z)) = n

\* The offsets told for keys never fall as the keys grow (GetApproximateSizes
\* subtracts them).
OffsetsMonotone ==
    Readable => \A j, k \in TableKeys :
        IKeyLess(j, k) => ApproximateOffsetOf(j) <= ApproximateOffsetOf(k)

\* Lookups, cursors and offsets of a finished table agree with the sorted sequence
\* of entries it was built from, through shortened index keys, shared prefixes,
\* restart points and filters.
TablesExact == LookupExact /\ BlockCursorExact /\ OffsetsMonotone
=============================================================================
