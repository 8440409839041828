----------------------------- MODULE Iterators -----------------------------
(***************************************************************************)
(* A database iterator (db/db_iter.cc) over a merging iterator             *)
(* (table/merger.cc) whose children are the memtable and the concatenating *)
(* iterator of a level (table/two_level_iterator.cc over                   *)
(* LevelFileNumIterator).  The table iterator of a single file is the same *)
(* two-level iterator over its index block; here a file is a sorted run.   *)
(*                                                                         *)
(* A position is the set of the entry it is at, {} where Valid() is false. *)
(* Every turn of a loop of DBIter is a step, and writers go on adding to   *)
(* the memtable between the steps.                                         *)
(***************************************************************************)
EXTENDS VersionSet

CONSTANTS
    IterWrites,     \* writes before the iterator is made
    IterAdds        \* bound on the writes after

VARIABLES
    runs,           \* [mem, level, tables, unreadable]: the entries of the memtable,
                    \* the files of the level, and those that cannot be opened
    sequence_,      \* what the iterator may see
    it,             \* the iterator
    want            \* history: the key a correct iterator is at, {} if none

iterVars == << runs, sequence_, it, want >>

Least(S) == IF S = {} THEN {} ELSE {Smallest(S)}
Greatest(S) == IF S = {} THEN {} ELSE {Largest(S)}
AtOrAfter(S, t) == {e \in S : ILeq(t, e)}
Before(S, t) == {e \in S : ILess(e, t)}
After(S, t) == {e \in S : ILess(t, e)}
The(S) == CHOOSE e \in S : TRUE

-----------------------------------------------------------------------------
(* Two-level iterator: [index, block, at, status], index the position of      *)
(* LevelFileNumIterator (the number of files marks it invalid), block the     *)
(* file that data_iter_ is for, 0 for NULL.                                   *)

Unreadable(x) == x.block \in runs.unreadable
Data(x) == IF x.block = 0 \/ Unreadable(x) THEN {} ELSE runs.tables[x.block]

\* SetDataIterator keeps the first error of the iterators it replaces.
SetDataIterator(x, block) ==
    [x EXCEPT !.block = block, !.at = {}, !.status = @ \/ Unreadable(x)]
InitDataBlock(x, index) ==
    LET block == IF index < Len(runs.level) THEN runs.level[index + 1].number ELSE 0
    IN  IF block = x.block /\ block # 0 THEN [x EXCEPT !.index = index]
        ELSE [SetDataIterator(x, block) EXCEPT !.index = index]

RECURSIVE SkipEmptyDataBlocksForward(_)
SkipEmptyDataBlocksForward(x) ==
    IF x.at # {} THEN x
    ELSE IF x.index >= Len(runs.level) THEN SetDataIterator(x, 0)
    ELSE LET y == InitDataBlock(x, x.index + 1)
         IN  SkipEmptyDataBlocksForward([y EXCEPT !.at = Least(Data(y))])

RECURSIVE SkipEmptyDataBlocksBackward(_)
SkipEmptyDataBlocksBackward(x) ==
    IF x.at # {} THEN x
    ELSE IF x.index >= Len(runs.level) THEN SetDataIterator(x, 0)
    ELSE LET y == InitDataBlock(x, IF x.index = 0 THEN Len(runs.level) ELSE x.index - 1)
         IN  SkipEmptyDataBlocksBackward([y EXCEPT !.at = Greatest(Data(y))])

LevelSeek(x, target) ==
    LET y == InitDataBlock(x, FindFile(runs.level, target))
    IN  SkipEmptyDataBlocksForward([y EXCEPT !.at = Least(AtOrAfter(Data(y), target))])
LevelSeekToFirst(x) ==
    LET y == InitDataBlock(x, 0)
    IN  SkipEmptyDataBlocksForward([y EXCEPT !.at = Least(Data(y))])
LevelSeekToLast(x) ==
    LET y == InitDataBlock(x, IF runs.level = << >> THEN 0 ELSE Len(runs.level) - 1)
    IN  SkipEmptyDataBlocksBackward([y EXCEPT !.at = Greatest(Data(y))])
LevelNext(x) ==
    SkipEmptyDataBlocksForward([x EXCEPT !.at = Least(After(Data(x), The(x.at)))])
LevelPrev(x) ==
    SkipEmptyDataBlocksBackward([x EXCEPT !.at = Greatest(Before(Data(x), The(x.at)))])

-----------------------------------------------------------------------------
(* Merging iterator: m = [mem, lvl, current, direction_] *)

ChildSeek(m, c, t) == IF c = "mem" THEN [m EXCEPT !.mem.at = Least(AtOrAfter(runs.mem, t))]
                      ELSE [m EXCEPT !.lvl = LevelSeek(@, t)]
ChildSeekToFirst(m, c) == IF c = "mem" THEN [m EXCEPT !.mem.at = Least(runs.mem)]
                          ELSE [m EXCEPT !.lvl = LevelSeekToFirst(@)]
ChildSeekToLast(m, c) == IF c = "mem" THEN [m EXCEPT !.mem.at = Greatest(runs.mem)]
                         ELSE [m EXCEPT !.lvl = LevelSeekToLast(@)]
ChildNext(m, c) == IF c = "mem" THEN [m EXCEPT !.mem.at = Least(After(runs.mem, The(@)))]
                   ELSE [m EXCEPT !.lvl = LevelNext(@)]
ChildPrev(m, c) == IF c = "mem" THEN [m EXCEPT !.mem.at = Greatest(Before(runs.mem, The(@)))]
                   ELSE [m EXCEPT !.lvl = LevelPrev(@)]

ValidChildren(m) == {c \in {"mem", "lvl"} : m[c].at # {}}
FindSmallest(m) ==
    [m EXCEPT !.current = {c \in ValidChildren(m) : \A d \in ValidChildren(m) :
                              ILeq(The(m[c].at), The(m[d].at))}]
FindLargest(m) ==
    [m EXCEPT !.current = {c \in ValidChildren(m) : \A d \in ValidChildren(m) :
                              ILeq(The(m[d].at), The(m[c].at))}]
EntryAt(m) == UNION {m[c].at : c \in m.current}

MergeSeekToFirst(m) ==
    [FindSmallest(ChildSeekToFirst(ChildSeekToFirst(m, "mem"), "lvl")) EXCEPT
        !.direction_ = "forward"]
MergeSeekToLast(m) ==
    [FindLargest(ChildSeekToLast(ChildSeekToLast(m, "mem"), "lvl")) EXCEPT
        !.direction_ = "reverse"]
MergeSeek(m, t) ==
    [FindSmallest(ChildSeek(ChildSeek(m, "mem", t), "lvl", t)) EXCEPT
        !.direction_ = "forward"]

OtherChild(c) == IF c = "mem" THEN "lvl" ELSE "mem"

\* Mutant of TurnForward: the other child stays where reverse moves left it.
TurnForwardInPlace(m, c) == m

\* A change of direction moves the other child to its side of the key.
TurnForward(m, c) ==
    IF m.direction_ = "forward" THEN m
    ELSE LET s == ChildSeek(m, OtherChild(c), The(EntryAt(m)))
         IN  IF s[OtherChild(c)].at = EntryAt(m) THEN ChildNext(s, OtherChild(c)) ELSE s
TurnReverse(m, c) ==
    IF m.direction_ = "reverse" THEN m
    ELSE LET s == ChildSeek(m, OtherChild(c), The(EntryAt(m)))
         IN  IF s[OtherChild(c)].at # {} THEN ChildPrev(s, OtherChild(c))
             ELSE ChildSeekToLast(s, OtherChild(c))
MergeNext(m) ==
    LET c == The(m.current)
    IN  [FindSmallest(ChildNext(TurnForward(m, c), c)) EXCEPT !.direction_ = "forward"]
MergePrev(m) ==
    LET c == The(m.current)
    IN  [FindLargest(ChildPrev(TurnReverse(m, c), c)) EXCEPT !.direction_ = "reverse"]

-----------------------------------------------------------------------------
(* DBIter.  it = [pc, m, direction_, valid_, saved, skipping, skip]: saved is     *)
(* the entry of saved_key_ and saved_value_, skip the user key to skip past.      *)

Shown == IF it.direction_ = "forward" THEN EntryAt(it.m) ELSE it.saved

\* What a reader at sequence_ can see, and a correct cursor over it.
Visible == {e \in runs.mem \cup UNION {runs.tables[f.number] : f \in FilesOf(runs.level)} :
                e.seq <= sequence_}
Live == {e \in Visible : e.type = kTypeValue /\ \A f \in Visible : f.key = e.key => f.seq <= e.seq}
FirstOf(S) == {e \in S : \A f \in S : e.key <= f.key}
LastOf(S) == {e \in S : \A f \in S : f.key <= e.key}

Invalid(i) == [i EXCEPT !.pc = "idle", !.valid_ = FALSE, !.saved = {}]

\* FindNextUserEntry is entered with a valid position or not at all.
EnterForward(i) ==
    it' = IF EntryAt(i.m) = {} THEN Invalid(i) ELSE [i EXCEPT !.pc = "fwd"]

IterSeek(target) ==
    /\ it.pc = "idle"
    /\ EnterForward([it EXCEPT !.direction_ = "forward", !.skipping = FALSE,
                               !.m = MergeSeek(@, LookupKey(target, sequence_))])
    /\ want' = FirstOf({e \in Live : e.key >= target})
    /\ UNCHANGED << runs, sequence_ >>

IterSeekToFirst ==
    /\ it.pc = "idle"
    /\ EnterForward([it EXCEPT !.direction_ = "forward", !.skipping = FALSE,
                               !.m = MergeSeekToFirst(@)])
    /\ want' = FirstOf(Live)
    /\ UNCHANGED << runs, sequence_ >>

IterSeekToLast ==
    /\ it.pc = "idle"
    /\ it' = [it EXCEPT !.pc = "rev", !.direction_ = "reverse", !.saved = {},
                        !.skipping = FALSE, !.m = MergeSeekToLast(@)]
    /\ want' = LastOf(Live)
    /\ UNCHANGED << runs, sequence_ >>

\* In reverse the position is before the entries of the key shown.
IterNext ==
    /\ it.pc = "idle" /\ it.valid_
    /\ IF it.direction_ = "reverse"
       THEN EnterForward([it EXCEPT !.direction_ = "forward", !.skipping = TRUE,
                                    !.skip = The(it.saved).key,
                                    !.m = IF EntryAt(@) = {} THEN MergeSeekToFirst(@)
                                          ELSE MergeNext(@)])
       ELSE EnterForward([it EXCEPT !.skipping = TRUE, !.skip = The(EntryAt(it.m)).key])
    /\ want' = FirstOf({e \in Live : \A x \in Shown : e.key > x.key})
    /\ UNCHANGED << runs, sequence_ >>

\* One turn of FindNextUserEntry.
Shows(e) == /\ e.seq <= sequence_ /\ e.type = kTypeValue
            /\ ~(it.skipping /\ e.key <= it.skip)
FindNextUserEntry ==
    /\ it.pc = "fwd"
    /\ LET e == The(EntryAt(it.m))
           hides == e.seq <= sequence_ /\ e.type = kTypeDeletion
           i == [it EXCEPT !.m = MergeNext(@), !.skipping = @ \/ hides,
                           !.skip = IF hides THEN e.key ELSE @]
       IN  IF Shows(e) THEN it' = [it EXCEPT !.pc = "idle", !.valid_ = TRUE, !.saved = {}]
           ELSE EnterForward(i)
    /\ UNCHANGED << runs, sequence_, want >>

\* Forward to reverse: back until the key changes, a turn a step.
IterPrev ==
    /\ it.pc = "idle" /\ it.valid_
    /\ it' = IF it.direction_ = "forward"
             THEN [it EXCEPT !.pc = "turn", !.saved = EntryAt(it.m)]
             ELSE [it EXCEPT !.pc = "rev", !.skipping = FALSE]
    /\ want' = LastOf({e \in Live : \A x \in Shown : e.key < x.key})
    /\ UNCHANGED << runs, sequence_ >>
ScanBack ==
    /\ it.pc = "turn"
    /\ LET i == [it EXCEPT !.m = MergePrev(@)]
       IN  it' = IF EntryAt(i.m) = {} THEN Invalid(i)
                 ELSE IF The(EntryAt(i.m)).key < The(it.saved).key
                 THEN [i EXCEPT !.pc = "rev", !.direction_ = "reverse", !.skipping = FALSE]
                 ELSE i
    /\ UNCHANGED << runs, sequence_, want >>

\* One turn of FindPrevUserEntry; skipping stands for value_type # kTypeDeletion.
FindPrevUserEntry ==
    /\ it.pc = "rev"
    /\ LET at == EntryAt(it.m)
           Done == IF it.skipping THEN [it EXCEPT !.pc = "idle", !.valid_ = TRUE]
                   ELSE [Invalid(it) EXCEPT !.direction_ = "forward"]
           seen == \E e \in at : e.seq <= sequence_
           ends == at = {} \/ (seen /\ it.skipping /\ The(at).key < The(it.saved).key)
           value == The(at).type = kTypeValue
       IN  it' = IF ends THEN Done
                 ELSE IF ~seen THEN [it EXCEPT !.m = MergePrev(@)]
                 ELSE [it EXCEPT !.m = MergePrev(@), !.skipping = value,
                                 !.saved = IF value THEN at ELSE {}]
    /\ UNCHANGED << runs, sequence_, want >>

\* A writer adds to the memtable.
IterMemTableAdd(key, type) ==
    /\ it.pc # "none"
    /\ LET seqs == {e.seq : e \in runs.mem \cup UNION {runs.tables[f.number] : f \in FilesOf(runs.level)}}
           seq  == Cardinality(seqs) + 1
       IN  /\ seq <= IterWrites + IterAdds
           /\ runs' = [runs EXCEPT !.mem = @ \cup {InternalKey(key, seq, type)}]
    /\ UNCHANGED << sequence_, it, want >>

-----------------------------------------------------------------------------
\* NewIterator over a database of IterWrites writes, the first of which are in
\* tables, cut into two files after a key.
FileIfAny(n, tables) ==
    LET S == tables[n]
    IN  IF S = {} THEN << >> ELSE << FileMetaData(n, Cardinality(S), Smallest(S), Largest(S)) >>
NewIterator ==
    /\ it.pc = "none"
    /\ \E w \in [1 .. IterWrites -> Keys \X {kTypeDeletion, kTypeValue}],
          flushed \in 0 .. IterWrites, cut \in Keys, seq \in 1 .. IterWrites,
          bad \in {{}, {1}, {2}} :
          LET E(i) == InternalKey(w[i][1], i, w[i][2])
              tables == [n \in {1, 2} |-> {e \in {E(i) : i \in 1 .. flushed} :
                                              (e.key <= cut) = (n = 1)}]
          IN  /\ \A n \in bad : tables[n] # {}
              /\ runs' = [mem |-> {E(i) : i \in flushed + 1 .. IterWrites},
                          tables |-> tables, unreadable |-> bad,
                          level |-> FileIfAny(1, tables) \o FileIfAny(2, tables)]
              /\ sequence_' = seq
    /\ it' = [it EXCEPT !.pc = "idle"]
    /\ UNCHANGED want

IterInit ==
    /\ runs = [mem |-> {}, level |-> << >>, tables |-> << >>, unreadable |-> {}]
    /\ sequence_ = 0 /\ want = {}
    /\ it = [pc |-> "none", direction_ |-> "forward", valid_ |-> FALSE, saved |-> {},
             skipping |-> FALSE, skip |-> NULL,
             m |-> [mem |-> [at |-> {}], current |-> {}, direction_ |-> "forward",
                    lvl |-> [index |-> 0, block |-> 0, at |-> {}, status |-> FALSE]]]

IterNextState ==
    \/ NewIterator
    \/ \E k \in Keys : IterSeek(k)
    \/ IterSeekToFirst \/ IterSeekToLast \/ IterNext \/ IterPrev
    \/ FindNextUserEntry \/ ScanBack \/ FindPrevUserEntry
    \/ \E k \in Keys, type \in {kTypeDeletion, kTypeValue} : IterMemTableAdd(k, type)

-----------------------------------------------------------------------------
(* Properties *)

\* Whatever the sequence of seeks, steps and turns, and whatever is written
\* meanwhile, the iterator is at the key, and the value, that the snapshot has
\* there; if a table could not be read it reports an error.
IteratorExact ==
    it.pc = "idle" =>
        \/ it.m.lvl.status \/ Unreadable(it.m.lvl)
        \/ it.valid_ = (want # {}) /\ (it.valid_ => Shown = want)
=============================================================================
