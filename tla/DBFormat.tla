------------------------------ MODULE DBFormat ------------------------------
(***************************************************************************)
(* Internal keys of leveldb (db/dbformat.h, db/dbformat.cc).               *)
(*                                                                         *)
(* A user key is a number: its order is the order of the user comparator.  *)
(* An internal key is a user key with a tag that packs the sequence number *)
(* of the write and the kind of the entry; a table or a memtable entry is  *)
(* an internal key with a value.                                           *)
(***************************************************************************)
EXTENDS Integers, Sequences, FiniteSets

CONSTANTS
    Keys,               \* the user keys, a finite set of integers
    kMaxSequenceNumber  \* larger than every sequence number in use

kTypeDeletion == 0
kTypeValue == 1
\* The type that sorts first among the entries of a sequence number.
kValueTypeForSeek == kTypeValue

\* No key: a range without a bound, and the value of a deletion marker.
NULL == -1

\* PackSequenceAndType: the type is the low byte of the tag.
Tag(k) == k.seq * 256 + k.type

InternalKey(key, seq, type) == [key |-> key, seq |-> seq, type |-> type]
KeyOf(e) == InternalKey(e.key, e.seq, e.type)

\* The key that sorts before every entry of a user key visible at seq.
LookupKey(key, seq) == InternalKey(key, seq, kValueTypeForSeek)

\* InternalKeyComparator: user keys ascending, then tags descending, so the
\* newest entry of a user key comes first.
ILess(a, b) == \/ a.key < b.key
               \/ a.key = b.key /\ Tag(a) > Tag(b)
ILeq(a, b) == ILess(a, b) \/ (a.key = b.key /\ Tag(a) = Tag(b))

\* The least and the greatest entry of a non-empty set of internal keys.
Smallest(S) == CHOOSE a \in S : \A b \in S : ILeq(a, b)
Largest(S) == CHOOSE a \in S : \A b \in S : ILeq(b, a)

\* The entries of a finite set in the order of the comparator.
InOrder(S) ==
    [i \in 1 .. Cardinality(S) |->
        CHOOSE a \in S : Cardinality({b \in S : ILess(b, a)}) = i - 1]

-----------------------------------------------------------------------------
\* The entry a reader at sequence number seq finds for key in a sorted run of
\* entries (a memtable, a table file): Seek goes to the first entry at or after
\* the lookup key, which is one of the key or there is none.
SeekEntry(entries, key, seq) ==
    {e \in entries :
        /\ e.key = key
        /\ ILeq(LookupKey(key, seq), e)
        /\ \A f \in entries : ILeq(LookupKey(key, seq), f) => ILeq(e, f)}

\* What is returned to the reader: a deletion marker reads as NULL.
ValueOf(e) == IF e.type = kTypeValue THEN e.val ELSE NULL
=============================================================================
