------------------------------ MODULE SkipList ------------------------------
(***************************************************************************)
(* The memtable's skip list (db/skiplist.h): one writer at a time inserts  *)
(* while readers search and iterate without any lock.                      *)
(*                                                                         *)
(* A step is one load or store that another thread can see.  Links are     *)
(* stored with release and loaded with acquire semantics, so they behave   *)
(* as if interleaved; max_height_ is neither, and a reader may find any    *)
(* value it ever had.  The list never holds equal keys.                    *)
(***************************************************************************)
EXTENDS Integers, FiniteSets

CONSTANTS
    ListKeys,       \* keys, integers above 0; compare_ is their order
    kMaxHeight,
    ListReaders,    \* reading threads, each with one iterator
    MaxSearches     \* bound on the operations of each of them

ASSUME ListAssumption ==
    /\ ListKeys \subseteq Nat \ {0} /\ ListKeys # {} /\ IsFiniteSet(ListKeys)
    /\ kMaxHeight \in Nat \ {0}

VARIABLES
    next_,          \* next_[n][i]: link of node n at level i
    max_height_,    \* the values it had, the greatest is the present one
    ins,            \* the writer in Insert
    done,           \* history: keys whose Insert has returned
    iter            \* the iterators

listVars == << next_, max_height_, ins, done, iter >>

\* A node is known by its key; head_ sorts before every key and NULL after.
head_ == 0
End == 1 + CHOOSE k \in ListKeys : \A j \in ListKeys : j <= k
ListLevels == 0 .. kMaxHeight - 1

NoInsert == [pc |-> "idle"]
Resting(node, seen) == [pc |-> "idle", node |-> node, ops |-> seen]

ListInit ==
    /\ next_ = [n \in {head_} |-> [i \in ListLevels |-> End]]
    /\ max_height_ = {1}
    /\ ins = NoInsert
    /\ done = {}
    /\ iter = [r \in ListReaders |-> Resting(End, 0)]

-----------------------------------------------------------------------------
(* Insert *)

Height == CHOOSE h \in max_height_ : \A g \in max_height_ : g <= h

\* Mutant of LastBefore: the search does not advance at a level.
HeadBefore(key, i) == head_

\* FindGreaterOrEqual as the only writer sees it: the last node before the key
\* at a level.
LastBefore(key, i) ==
    LET linked == {head_} \cup {n \in DOMAIN next_ :
                      \E m \in DOMAIN next_ : i \in DOMAIN next_[m] /\ next_[m][i] = n}
        before == {n \in linked : n < key}
    IN  CHOOSE n \in before : \A m \in before : m <= n

\* The search for prev and the choice of a height.  A greater height is stored
\* into max_height_ at once.
InsertBegins(key, height) ==
    /\ ins.pc = "idle"
    /\ key \notin DOMAIN next_
    /\ ins' = [pc |-> "link", key |-> key, height |-> height, level |-> 0,
               prev |-> [i \in 0 .. height - 1 |->
                            IF i < Height THEN LastBefore(key, i) ELSE head_]]
    /\ max_height_' = IF height > Height THEN max_height_ \cup {height} ELSE max_height_
    /\ UNCHANGED << next_, done, iter >>

\* One turn of Insert's loop, from the lowest level up: the new node's link,
\* then the link to it.
InsertLinks ==
    /\ ins.pc = "link"
    /\ LET i == ins.level
           p == ins.prev[i]
           own == [j \in 0 .. ins.height - 1 |->
                      IF j = i THEN next_[p][i]
                      ELSE IF ins.key \in DOMAIN next_ THEN next_[ins.key][j] ELSE End]
       IN  next_' = [n \in DOMAIN next_ \cup {ins.key} |->
                        IF n = ins.key THEN own
                        ELSE IF n = p THEN [next_[n] EXCEPT ![i] = ins.key] ELSE next_[n]]
    /\ ins' = IF ins.level + 1 = ins.height THEN NoInsert ELSE [ins EXCEPT !.level = @ + 1]
    /\ done' = IF ins.level + 1 = ins.height THEN done \cup {ins.key} ELSE done
    /\ UNCHANGED << max_height_, iter >>

-----------------------------------------------------------------------------
(* Readers.  A search remembers, as history, where it began and the keys whose  *)
(* insertion had returned by then.                                              *)

Searching(r, what, target) ==
    /\ iter[r].pc = "idle" /\ iter[r].ops < MaxSearches
    /\ \E h \in max_height_ :   \* GetMaxHeight, a plain load
          iter' = [iter EXCEPT ![r] = [pc |-> what, target |-> target, x |-> head_,
                                   level |-> h - 1, known |-> done, ops |-> @.ops + 1,
                                   node |-> @.node]]
    /\ UNCHANGED << next_, max_height_, ins, done >>

\* Seek, and Contains, which compares the key that is found.
Seek(r, target) == Searching(r, "seek", target)
\* Prev looks for the last node before the current one.
Prev(r) == iter[r].node # End /\ Searching(r, "prev", iter[r].node)
SeekToLast(r) == Searching(r, "last", End)

\* The search stays on its level or goes down one.  FindGreaterOrEqual returns
\* the next node at level 0, FindLessThan and FindLast the node before it; Prev
\* and SeekToLast make of head_ an invalid iterator.
Answer(r, node) ==
    iter' = [iter EXCEPT ![r] = [pc |-> "found", what |-> @.pc, target |-> @.target,
                             node |-> node, known |-> @.known, ops |-> @.ops]]
SearchStep(r) ==
    /\ iter[r].pc \in {"seek", "prev", "last"}
    /\ LET s == iter[r]
           next == next_[s.x][s.level]
       IN  \/ next < s.target /\ iter' = [iter EXCEPT ![r].x = next]
           \/ next >= s.target /\ s.level > 0 /\ iter' = [iter EXCEPT ![r].level = @ - 1]
           \/ next >= s.target /\ s.level = 0
              /\ Answer(r, IF s.pc = "seek" THEN next
                           ELSE IF s.x = head_ THEN End ELSE s.x)
    /\ UNCHANGED << next_, max_height_, ins, done >>

\* Next and SeekToFirst load one link.
Step(r, from) ==
    /\ iter[r].pc = "idle" /\ iter[r].ops < MaxSearches
    /\ iter' = [iter EXCEPT ![r] = [pc |-> "found", what |-> "seek", target |-> from + 1,
                                node |-> next_[from][0], known |-> done, ops |-> @.ops + 1]]
    /\ UNCHANGED << next_, max_height_, ins, done >>
NextNode(r) == iter[r].node # End /\ Step(r, iter[r].node)
SeekToFirst(r) == Step(r, head_)

\* The caller looks at the iterator.
Look(r) ==
    /\ iter[r].pc = "found"
    /\ iter' = [iter EXCEPT ![r] = Resting(@.node, @.ops)]
    /\ UNCHANGED << next_, max_height_, ins, done >>

ListNext ==
    \/ \E k \in ListKeys, h \in 1 .. kMaxHeight : InsertBegins(k, h)
    \/ InsertLinks
    \/ \E r \in ListReaders :
          \/ \E k \in ListKeys : Seek(r, k)
          \/ Prev(r) \/ SeekToLast(r) \/ SearchStep(r) \/ NextNode(r) \/ SeekToFirst(r)
          \/ Look(r)

-----------------------------------------------------------------------------
(* Properties *)

\* The nodes a walk along level i meets, in one step or more.
OnLevel(i) == {n \in DOMAIN next_ \ {head_} :
                  \E m \in DOMAIN next_ : i \in DOMAIN next_[m] /\ next_[m][i] = n}

\* At every moment of an insertion each level is an ascending list of just the
\* nodes that are tall enough and already linked there, and a level holds no
\* node that the level below does not.
LevelsNested ==
    /\ \A n \in DOMAIN next_ : \A i \in DOMAIN next_[n] : next_[n][i] > n
    /\ \A i \in ListLevels \ {0} : OnLevel(i) \subseteq OnLevel(i - 1)
    /\ done \subseteq OnLevel(0)
    /\ \A i \in ListLevels : \A a \in OnLevel(i) \cup {head_} :
          \A b \in OnLevel(i) : b > a => next_[a][i] <= b

\* A search that runs beside an insertion, with a stale height or not, misses
\* no key whose insertion had returned before it began: nothing known lies
\* between where it should look and what it found.
SearchesComplete ==
    \A r \in ListReaders : iter[r].pc = "found" =>
        LET f == iter[r]
        IN  IF f.what = "seek"
            THEN /\ f.node >= f.target
                 /\ f.node # End => f.node \in OnLevel(0)
                 /\ \A k \in f.known : k >= f.target => k >= f.node
            ELSE /\ f.node # End => f.node < f.target /\ f.node \in OnLevel(0)
                 /\ \A k \in f.known : k < f.target => f.node # End /\ k <= f.node
=============================================================================
