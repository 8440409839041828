------------------------------ MODULE MemTable ------------------------------
(***************************************************************************)
(* What a memtable is made of (db/memtable.h): the skip list that orders   *)
(* its entries and the arena that holds the memory of their nodes.  The    *)
(* writer allocates, readers only read; the two parts share no variable.   *)
(***************************************************************************)
EXTENDS SkipList, Arena

memTableVars == << listVars, arenaVars >>

MemTableInit == ListInit /\ ArenaInit

MemTableNext ==
    \/ ListNext /\ UNCHANGED arenaVars
    \/ ArenaNext /\ UNCHANGED listVars

MemTableSpec == MemTableInit /\ [][MemTableNext]_memTableVars

\* What a memtable stands on: searches of the list beside an insertion are
\* complete, its levels are nested, and the pieces the arena gives to its nodes
\* never overlap.
MemTableSound == LevelsNested /\ SearchesComplete /\ PiecesDisjoint
=============================================================================
