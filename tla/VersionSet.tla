----------------------------- MODULE VersionSet -----------------------------
(***************************************************************************)
(* Versions of a leveldb database (db/version_set.cc, db/version_set.h):   *)
(* the table files of each level, how a lookup walks them, and how the     *)
(* files of a compaction are chosen.                                       *)
(*                                                                         *)
(* A version is a function from level to the sequence of the FileMetaData  *)
(* of its files.  Sizes are counted in entries.  The contents of the table *)
(* files are not part of a version: operators that read them take tables,  *)
(* a function from file number to set of entries.                          *)
(***************************************************************************)
EXTENDS DBFormat

CONSTANTS
    kNumLevels,             \* number of levels, 7 in the code
    kMaxMemCompactLevel,    \* deepest level a memtable is flushed to, 2
    kL0_CompactionTrigger,  \* level-0 files that start a compaction, 4
    max_file_size,          \* Options::max_file_size
    Level1Bytes,            \* MaxBytesForLevel(1), 10 MB in the code
    allowed_seeks           \* seeks a new file may cost, at least 100

ASSUME LevelsAssumption == /\ kNumLevels \in Nat /\ kNumLevels >= 2
                           /\ kMaxMemCompactLevel \in 0 .. kNumLevels - 1

Levels == 0 .. kNumLevels - 1

FileMetaData(number, size, smallest, largest) ==
    [number |-> number, file_size |-> size,
     smallest |-> smallest, largest |-> largest]

EmptyVersion == [l \in Levels |-> << >>]
FilesOf(files) == {files[i] : i \in DOMAIN files}
AllFiles(v) == UNION {FilesOf(v[l]) : l \in Levels}
Numbers(v) == {f.number : f \in AllFiles(v)}

-----------------------------------------------------------------------------
(* Size limits *)

TargetFileSize == max_file_size
MaxGrandParentOverlapBytes == 10 * TargetFileSize
ExpandedCompactionByteSizeLimit == 25 * TargetFileSize
MaxFileSizeForLevel(level) == TargetFileSize
MaxBytesForLevel(level) == Level1Bytes * 10 ^ (level - 1)

TotalFileSize(files) ==
    LET sum[i \in 0 .. Len(files)] ==
            IF i = 0 THEN 0 ELSE sum[i - 1] + files[i].file_size
    IN  sum[Len(files)]

-----------------------------------------------------------------------------
(* Searching and overlap *)

\* Binary search for the first file whose largest key is not before key; the
\* result is an index from 0, Len(files) if there is none.
FindFile(files, key) ==
    LET bound == 0 .. Len(files)
        search[left \in bound, right \in bound] ==
            IF left >= right THEN right
            ELSE LET mid == (left + right) \div 2
                 IN  IF ILess(files[mid + 1].largest, key)
                     THEN search[mid + 1, right]
                     ELSE search[left, mid]
    IN  search[0, Len(files)]

\* A NULL user key is before every file on the left, after them on the right.
AfterFile(user_key, f) == user_key # NULL /\ user_key > f.largest.key
BeforeFile(user_key, f) == user_key # NULL /\ user_key < f.smallest.key

SomeFileOverlapsRange(disjoint, files, lo, hi) ==
    IF ~disjoint
    THEN \E f \in FilesOf(files) : ~AfterFile(lo, f) /\ ~BeforeFile(hi, f)
    ELSE LET index == IF lo = NULL THEN 0
                      ELSE FindFile(files,
                               InternalKey(lo, kMaxSequenceNumber, kValueTypeForSeek))
         IN  index < Len(files) /\ ~BeforeFile(hi, files[index + 1])

OverlapInLevel(v, level, lo, hi) ==
    SomeFileOverlapsRange(level > 0, v[level], lo, hi)

\* The files of a level that overlap a range of user keys.  In level 0 the
\* first file that reaches outside the range widens it and restarts the scan.
GetOverlappingInputs(v, level, begin, end) ==
    LET bounds == Keys \cup {NULL}
        Hits(lo, hi, f) == ~AfterFile(lo, f) /\ ~BeforeFile(hi, f)
        Wider(lo, hi, f) == \/ lo # NULL /\ f.smallest.key < lo
                            \/ hi # NULL /\ f.largest.key > hi
        scan[lo \in bounds, hi \in bounds] ==
            LET hits == SelectSeq(v[level], LAMBDA f : Hits(lo, hi, f))
                wide == {i \in DOMAIN hits : level = 0 /\ Wider(lo, hi, hits[i])}
            IN  IF wide = {} THEN hits
                ELSE LET f == hits[CHOOSE i \in wide : \A j \in wide : i <= j]
                     IN  IF lo # NULL /\ f.smallest.key < lo
                         THEN scan[f.smallest.key, hi]
                         ELSE scan[lo, f.largest.key]
    IN  scan[begin, end]

\* Mutant of PickLevelForMemTableOutput: level 0 is not examined.
PickBelowLevel0(v, lo, hi) ==
    LET deepest == {l \in 0 .. kMaxMemCompactLevel :
                        \A m \in 0 .. l - 1 : ~OverlapInLevel(v, m + 1, lo, hi)}
    IN  CHOOSE l \in deepest : \A m \in deepest : m <= l

\* The level a flushed memtable goes to: deeper while nothing there overlaps
\* it and it does not overlap too much of the level after.
PickLevelForMemTableOutput(v, lo, hi) ==
    LET Fits(level) ==
            /\ ~OverlapInLevel(v, level + 1, lo, hi)
            /\ level + 2 < kNumLevels =>
                   TotalFileSize(GetOverlappingInputs(v, level + 2, lo, hi))
                       <= MaxGrandParentOverlapBytes
        deepest == {l \in 0 .. kMaxMemCompactLevel : \A m \in 0 .. l - 1 : Fits(m)}
    IN  IF OverlapInLevel(v, 0, lo, hi) THEN 0
        ELSE CHOOSE l \in deepest : \A m \in deepest : m <= l

-----------------------------------------------------------------------------
(* Lookup *)

\* The files of a level that may hold the key.  In level 0 they may overlap;
\* below, the first file that does not end before the key is the only one.
FilesToSearch(v, level, key, seq) ==
    IF level = 0
    THEN {f \in FilesOf(v[0]) : f.smallest.key <= key /\ key <= f.largest.key}
    ELSE LET index == FindFile(v[level], LookupKey(key, seq))
             here  == {v[level][i] : i \in {index + 1} \cap DOMAIN v[level]}
         IN  {f \in here : f.smallest.key <= key}

\* ForEachOverlapping: what a lookup visits, and its order: level by level, in
\* level 0 from the newest file to the oldest.
Visits(v, key, seq) ==
    UNION {{[level |-> l, file |-> f] : f \in FilesToSearch(v, l, key, seq)} : l \in Levels}
NewestFirst(a, b) == a.number > b.number
VisitedBefore(a, b) == \/ a.level < b.level
                       \/ a.level = b.level /\ NewestFirst(a.file, b.file)

\* Version::Get: the first visited file that holds an entry of the key answers.
VersionGet(v, tables, key, seq) ==
    LET Found(x) == SeekEntry(tables[x.file.number], key, seq)
        First(hits) == {x \in hits : \A y \in hits : y = x \/ VisitedBefore(x, y)}
    IN  UNION {Found(x) : x \in UNION {First(hits) : hits \in
                  {{x \in Visits(v, key, seq) : Found(x) # {}}}}}

\* The file charged for a read that went on to a second file: the first one.
GetSeek(v, tables, key, seq) ==
    {x \in Visits(v, key, seq) :
        /\ SeekEntry(tables[x.file.number], key, seq) = {}
        /\ Cardinality(Visits(v, key, seq)) >= 2
        /\ \A y \in Visits(v, key, seq) : y = x \/ VisitedBefore(x, y)}

\* RecordReadSample: an iterator's sample charges the first of two files that
\* may hold the key.
SampleSeek(v, key, seq) ==
    {x \in Visits(v, key, seq) :
        /\ Cardinality(Visits(v, key, seq)) >= 2
        /\ \A y \in Visits(v, key, seq) : y = x \/ VisitedBefore(x, y)}

\* VersionSet::ApproximateOffsetOf: a file before the key counts whole, a file
\* around it up to the key, and below level 0 a file after it ends the level.
OffsetIn(entries, f, ikey) ==
    IF ILeq(f.largest, ikey) THEN f.file_size
    ELSE Cardinality({e \in entries : ILess(e, ikey)})
VersionOffsetOf(v, tables, ikey) ==
    LET upTo[l \in Levels, i \in Nat] ==
            IF i > Len(v[l]) \/ (l > 0 /\ ILess(ikey, v[l][i].smallest))
            THEN IF l = kNumLevels - 1 THEN 0 ELSE upTo[l + 1, 1]
            ELSE OffsetIn(tables[v[l][i].number], v[l][i], ikey) + upTo[l, i + 1]
    IN  upTo[0, 1]

-----------------------------------------------------------------------------
(* Version edits *)

BySmallestKey(a, b) == \/ ILess(a.smallest, b.smallest)
                       \/ ~ILess(b.smallest, a.smallest) /\ a.number < b.number
SortedFiles(F) ==
    [i \in 1 .. Cardinality(F) |->
        CHOOSE f \in F : Cardinality({g \in F : BySmallestKey(g, f)}) = i - 1]

\* The part of a VersionEdit that changes files: added and deleted are sets of
\* pairs of a level and a file, or the number of a file.
NoChange == [added |-> {}, deleted |-> {}]

\* Builder::Apply collects one more edit: a file that is added again is no
\* longer deleted.
BuilderApply(b, edit) ==
    [added   |-> b.added \cup edit.added,
     deleted |-> (b.deleted \cup edit.deleted)
                     \ {<< a[1], a[2].number >> : a \in edit.added}]

\* Builder::SaveTo merges the files of the base version with the added ones,
\* sorted by smallest key, and leaves out the deleted ones.
SaveTo(b, base) ==
    [l \in Levels |->
        SortedFiles({f \in FilesOf(base[l]) \cup {a[2] : a \in {x \in b.added : x[1] = l}} :
                         << l, f.number >> \notin b.deleted})]

ApplyEdit(v, edit) == SaveTo(BuilderApply(NoChange, edit), v)

\* Finalize: the level most in need of a compaction, the first one among
\* equals.  A score is a fraction, compared by cross multiplication.
Score(v, level) ==
    IF level = 0 THEN [n |-> Len(v[0]), d |-> kL0_CompactionTrigger]
    ELSE [n |-> TotalFileSize(v[level]), d |-> MaxBytesForLevel(level)]
CompactionLevel(v) ==
    CHOOSE l \in 0 .. kNumLevels - 2 :
        \A m \in (0 .. kNumLevels - 2) \ {l} :
            LET a == Score(v, l)  b == Score(v, m)
            IN  IF m < l THEN a.n * b.d > b.n * a.d ELSE a.n * b.d >= b.n * a.d
CompactionDue(v) == LET s == Score(v, CompactionLevel(v)) IN s.n >= s.d

-----------------------------------------------------------------------------
(* Choosing the files of a compaction *)

GetRange(F) == [smallest |-> Smallest({f.smallest : f \in F}),
                largest  |-> Largest({f.largest : f \in F})]

\* The files of a level that overlap the range of the files in F.
Overlapping(v, level, F) ==
    LET r == GetRange(F)
    IN  GetOverlappingInputs(v, level, r.smallest.key, r.largest.key)

\* Whether the inputs grow from in0 to ex0, and with that from in1 to ex1: more
\* files of the level, within the limit, and none of the next one.
Grows(in0, in1, ex0, ex1) ==
    /\ in1 # << >>
    /\ Len(ex0) > Len(in0)
    /\ TotalFileSize(in1) + TotalFileSize(ex0) < ExpandedCompactionByteSizeLimit
    /\ Len(ex1) = Len(in1)

Compaction(v, level, inputs) ==
    [level |-> level, inputs |-> inputs, input_version |-> v,
     grandparents |-> IF level + 2 < kNumLevels
                      THEN Overlapping(v, level + 2, FilesOf(inputs[1]) \cup FilesOf(inputs[2]))
                      ELSE << >>,
     pointer |-> GetRange(FilesOf(inputs[1])).largest]

\* SetupOtherInputs: the files of the next level, more files of this level
\* when that adds none there, the grandparents, and the new compact pointer.
SetupOtherInputs(v, level, in0) ==
    LET With1(in1) ==
            LET Try(ex0, ex1) ==
                    Compaction(v, level,
                        IF Grows(in0, in1, ex0, ex1) THEN << ex0, ex1 >> ELSE << in0, in1 >>)
                With0(ex0) == Try(ex0, Overlapping(v, level + 1, FilesOf(ex0)))
            IN  With0(Overlapping(v, level, FilesOf(in0) \cup FilesOf(in1)))
    IN  With1(Overlapping(v, level + 1, FilesOf(in0)))

\* PickCompaction: by size, from the first file after the compact pointer of
\* the level, else the file that cost too many seeks.  The set is empty when
\* there is nothing to do.
NextFile(files, pointer) ==
    LET after == SelectSeq(files, LAMBDA f : \A p \in pointer : ILess(p, f.largest))
    IN  IF after = << >> THEN files[1] ELSE after[1]
PickFile(v, compact_pointer, file_to_compact) ==
    IF CompactionDue(v)
    THEN {[level |-> l, file |-> NextFile(v[l], compact_pointer[l])] : l \in {CompactionLevel(v)}}
    ELSE file_to_compact
PickCompaction(v, compact_pointer, file_to_compact) ==
    {SetupOtherInputs(v, p.level,
        IF p.level = 0
        THEN GetOverlappingInputs(v, 0, p.file.smallest.key, p.file.largest.key)
        ELSE << p.file >>) : p \in PickFile(v, compact_pointer, file_to_compact)}

\* CompactRange: the overlapping files, below level 0 only as many as reach the
\* size of one output file.
CompactRangeInputs(v, level, begin, end) ==
    LET inputs == GetOverlappingInputs(v, level, begin, end)
        enough == {i \in DOMAIN inputs :
                      TotalFileSize(SubSeq(inputs, 1, i)) >= MaxFileSizeForLevel(level)}
    IN  IF level = 0 \/ enough = {} THEN inputs
        ELSE SubSeq(inputs, 1, CHOOSE i \in enough : \A j \in enough : i <= j)
CompactRangePick(v, level, begin, end) ==
    LET inputs == CompactRangeInputs(v, level, begin, end)
    IN  IF inputs = << >> THEN {} ELSE {SetupOtherInputs(v, level, inputs)}

IsTrivialMove(c) == /\ Len(c.inputs[1]) = 1
                    /\ Len(c.inputs[2]) = 0
                    /\ TotalFileSize(c.grandparents) <= MaxGrandParentOverlapBytes

MoveEdit(c) == [added   |-> {<< c.level + 1, c.inputs[1][1] >>},
                deleted |-> {<< c.level, c.inputs[1][1].number >>}]

\* AddInputDeletions.
InputDeletions(c) ==
    UNION {{<< c.level + w - 1, f.number >> : f \in FilesOf(c.inputs[w])} : w \in 1 .. 2}

\* Mutant of IsBaseLevelForKey: the levels below are not searched.
BaseLevelAlways(c, key) == TRUE

\* No level below the output level holds a file whose range contains the key.
IsBaseLevelForKey(c, key) ==
    \A l \in c.level + 2 .. kNumLevels - 1 :
        \A f \in FilesOf(c.input_version[l]) :
            key < f.smallest.key \/ key > f.largest.key

\* ShouldStopBefore: s.gi grandparents lie before the keys seen so far; those
\* passed since the first key count as overlap of the current output.
ShouldStopBefore(c, s, ikey) ==
    LET gi == Cardinality({i \in DOMAIN c.grandparents :
                              ILess(c.grandparents[i].largest, ikey)})
        overlap == s.overlap + IF s.seen
                               THEN TotalFileSize(SubSeq(c.grandparents, s.gi + 1, gi))
                               ELSE 0
        stop == overlap > MaxGrandParentOverlapBytes
    IN  [gi |-> gi, stop |-> stop, overlap |-> IF stop THEN 0 ELSE overlap]

\* The loop of DoCompactionWork: which of the merged entries are dropped, and
\* where the output is cut into files.  The result is the sequence of the
\* output files, each the set of its entries.
CompactionOutputs(c, entries, smallest_snapshot) ==
    LET input == InOrder(entries)
        init == [outs |-> << >>, cur |-> {}, key |-> {}, last |-> kMaxSequenceNumber,
                 gi |-> 0, seen |-> FALSE, overlap |-> 0]
        Step(s, e) ==
            LET g == ShouldStopBefore(c, s, KeyOf(e))
                close == g.stop /\ s.cur # {}
                outs == IF close THEN Append(s.outs, s.cur) ELSE s.outs
                cur  == IF close THEN {} ELSE s.cur
                last == IF s.key = {e.key} THEN s.last ELSE kMaxSequenceNumber
                drop == \/ last <= smallest_snapshot
                        \/ /\ e.type = kTypeDeletion
                           /\ e.seq <= smallest_snapshot
                           /\ IsBaseLevelForKey(c, e.key)
                more == IF drop THEN cur ELSE cur \cup {e}
                full == ~drop /\ Cardinality(more) >= MaxFileSizeForLevel(c.level)
            IN  [outs |-> IF full THEN Append(outs, more) ELSE outs,
                 cur  |-> IF full THEN {} ELSE more,
                 key  |-> {e.key}, last |-> e.seq,
                 gi |-> g.gi, seen |-> TRUE, overlap |-> g.overlap]
        after[i \in 0 .. Len(input)] ==
            IF i = 0 THEN init ELSE Step(after[i - 1], input[i])
        end == after[Len(input)]
    IN  IF end.cur = {} THEN end.outs ELSE Append(end.outs, end.cur)

\* The metadata of a table file with these entries.
TableMeta(number, entries) ==
    LET ks == {KeyOf(e) : e \in entries}
    IN  FileMetaData(number, Cardinality(entries), Smallest(ks), Largest(ks))
=============================================================================
