----------------------------- MODULE Encodings -----------------------------
(***************************************************************************)
(* What leveldb writes and how it reads it back: integers and slices       *)
(* (util/coding.cc), write batches (db/write_batch.cc) and the memtable    *)
(* they are inserted into (db/memtable.cc, db/dbformat.cc), version edits  *)
(* (db/version_edit.cc), file names (db/filename.cc, util/logging.cc) and  *)
(* the footer of a table file (table/format.cc).                           *)
(*                                                                         *)
(* A byte has VarBits + 1 bits.  A sequence number takes SeqBytes bytes,   *)
(* the count of a batch one byte, and the tag of an internal key one byte  *)
(* for the type below those of the sequence.                               *)
(***************************************************************************)
EXTENDS VersionSet

CONSTANTS
    VarBits,          \* bits of a varint in a byte, 7 in the code
    Width32, Width64, \* bits of uint32_t and uint64_t
    SeqBytes,         \* bytes of a sequence number
    BatchKeys, BatchValues, \* sequences of bytes
    Edits,            \* version edits that are written
    Padding,          \* digits of a file name, 6 in the code
    MaxOps,           \* bound on the operations of a batch
    MaxNumber         \* bound on the file numbers tried

VARIABLES
    rep,      \* WriteBatch::rep_
    ops,      \* history: operations of the batch
    whole,    \* history: length of rep before it was cut
    editRec,  \* [edit, bytes, cut]: an edit and what is left of its encoding
    fileNo    \* a file number

codeVars == << rep, ops, whole, editRec, fileNo >>

-----------------------------------------------------------------------------
(* util/coding.cc.  Readers return [ok, v, rest]. *)

B == 2 ^ VarBits
ByteBase == 2 * B

RECURSIVE PutVarint(_)
PutVarint(v) == IF v < B THEN << v >> ELSE << (v % B) + B >> \o PutVarint(v \div B)
RECURSIVE VarintLength(_)
VarintLength(v) == IF v < B THEN 1 ELSE 1 + VarintLength(v \div B)
PutFixed(v, bytes) == [i \in 1 .. bytes |-> (v \div ByteBase ^ (i - 1)) % ByteBase]
DecodeFixed(s) == LET sum[i \in 0 .. Len(s)] == IF i = 0 THEN 0 ELSE sum[i - 1] + s[i] * ByteBase ^ (i - 1)
                  IN  sum[Len(s)]
PutLengthPrefixedSlice(s) == PutVarint(Len(s)) \o s

Bad(v) == [ok |-> FALSE, v |-> v, rest |-> << >>]
Got(v, rest) == [ok |-> TRUE, v |-> v, rest |-> rest]
Drop(s, n) == SubSeq(s, n + 1, Len(s))

RECURSIVE VarintPtr(_, _, _, _)
VarintPtr(s, width, shift, result) ==
    IF shift >= width \/ s = << >> THEN Bad(0)
    ELSE LET value == (result + (s[1] % B) * 2 ^ shift) % 2 ^ width
         IN  IF s[1] < B THEN Got(value, Tail(s))
             ELSE VarintPtr(Tail(s), width, shift + VarBits, value)
GetVarint32(s) == VarintPtr(s, Width32, 0, 0)
GetVarint64(s) == VarintPtr(s, Width64, 0, 0)
GetLengthPrefixedSlice(s) ==
    LET r == GetVarint32(s)
    IN  IF r.ok /\ Len(r.rest) >= r.v THEN Got(SubSeq(r.rest, 1, r.v), Drop(r.rest, r.v))
        ELSE Bad(<< >>)

-----------------------------------------------------------------------------
(* Write batches *)

kHeader == SeqBytes + 1
Count(r) == r[kHeader]

SetCount(r, n) == [r EXCEPT ![kHeader] = n % ByteBase]
BatchSequence(r) == DecodeFixed(SubSeq(r, 1, SeqBytes))

Operation(type, key, value) == [type |-> type, key |-> key, value |-> value]
OpBytes(op) ==
    << op.type >> \o PutLengthPrefixedSlice(op.key)
    \o (IF op.type = kTypeValue THEN PutLengthPrefixedSlice(op.value) ELSE << >>)

\* The batch, an edit or the file numbers: one of them at a time.
BatchOpen == Len(rep) = whole /\ editRec.bytes = << >> /\ fileNo = 1
NoBatch == ops = << >> /\ Len(rep) = whole
BatchUpdate(op) ==
    /\ BatchOpen /\ Len(ops) < MaxOps
    /\ rep' = SetCount(rep, Count(rep) + 1) \o OpBytes(op)
    /\ ops' = Append(ops, op)
    /\ whole' = Len(rep')
    /\ UNCHANGED << editRec, fileNo >>

\* WriteBatchInternal::Append, of a batch of two operations (a group of writers).
BatchAppend(first, second) ==
    /\ BatchOpen /\ Len(ops) + 2 <= MaxOps
    /\ LET src == [i \in 1 .. SeqBytes |-> 0] \o << 2 >> \o OpBytes(first) \o OpBytes(second)
       IN  rep' = SetCount(rep, Count(rep) + Count(src)) \o Drop(src, kHeader)
    /\ ops' = ops \o << first, second >>
    /\ whole' = Len(rep')
    /\ UNCHANGED << editRec, fileNo >>

SetSequence(seq) ==
    /\ BatchOpen /\ ops # << >> /\ BatchSequence(rep) = 0
    /\ rep' = PutFixed(seq, SeqBytes) \o Drop(rep, SeqBytes)
    /\ UNCHANGED << ops, whole, editRec, fileNo >>

\* The record is read back from a log that lost its end.
CutBatch(n) ==
    /\ BatchOpen /\ ops # << >> /\ n < whole
    /\ rep' = SubSeq(rep, 1, n)
    /\ UNCHANGED << ops, whole, editRec, fileNo >>

\* One operation: [ok, v, rest].
ReadOperation(s) ==
    LET key   == GetLengthPrefixedSlice(Tail(s))
        value == GetLengthPrefixedSlice(key.rest)
    IN  CASE s[1] = kTypeValue -> IF key.ok /\ value.ok
                                  THEN Got(Operation(kTypeValue, key.v, value.v), value.rest)
                                  ELSE Bad(<< >>)
          [] s[1] = kTypeDeletion -> IF key.ok THEN Got(Operation(kTypeDeletion, key.v, << >>), key.rest)
                                     ELSE Bad(<< >>)
          [] OTHER -> Bad(<< >>)
\* WriteBatch::Iterate: the calls of the handler and the status.
RECURSIVE IterateFrom(_, _, _)
IterateFrom(s, calls, count) ==
    IF s = << >> THEN [calls |-> calls, ok |-> Len(calls) = count]
    ELSE LET r == ReadOperation(s)
         IN  IF r.ok THEN IterateFrom(r.rest, Append(calls, r.v), count)
             ELSE [calls |-> calls, ok |-> FALSE]
Iterate(r) ==
    IF Len(r) < kHeader THEN [calls |-> << >>, ok |-> FALSE]
    ELSE IterateFrom(Drop(r, kHeader), << >>, Count(r))

-----------------------------------------------------------------------------
(* The memtable: a set of encoded entries *)

PackSequenceAndType(seq, type) == << type >> \o PutFixed(seq, SeqBytes)
TagBytes == SeqBytes + 1
MemEntry(seq, op) ==
    PutVarint(Len(op.key) + TagBytes) \o op.key \o PackSequenceAndType(seq, op.type)
    \o PutLengthPrefixedSlice(op.value)
\* MemTableInserter
InsertInto(r) == LET calls == Iterate(r).calls
                 IN  {MemEntry(BatchSequence(r) + i - 1, calls[i]) : i \in DOMAIN calls}
EncodedLookupKey(key, seq) == PutVarint(Len(key) + TagBytes) \o key \o PackSequenceAndType(seq, kTypeValue)

\* InternalKeyComparator on length-prefixed internal keys.
UserPart(ikey) == SubSeq(ikey, 1, Len(ikey) - TagBytes)
TagPart(ikey) == Drop(ikey, Len(ikey) - TagBytes)
BytesBefore(a, b) ==
    \E i \in 0 .. Len(a) : /\ i < Len(b) /\ SubSeq(a, 1, i) = SubSeq(b, 1, i)
                           /\ IF i = Len(a) THEN TRUE ELSE a[i + 1] < b[i + 1]

\* Mutant of EntryBefore: tags ascend.
EntryBeforeAscending(a, b) ==
    LET x == GetLengthPrefixedSlice(a).v
        y == GetLengthPrefixedSlice(b).v
    IN  \/ BytesBefore(UserPart(x), UserPart(y))
        \/ UserPart(x) = UserPart(y) /\ DecodeFixed(TagPart(x)) < DecodeFixed(TagPart(y))

EntryBefore(a, b) ==
    LET x == GetLengthPrefixedSlice(a).v
        y == GetLengthPrefixedSlice(b).v
    IN  \/ BytesBefore(UserPart(x), UserPart(y))
        \/ /\ UserPart(x) = UserPart(y)
           /\ DecodeFixed(TagPart(x)) > DecodeFixed(TagPart(y))

\* MemTable::Get: "absent", or what the entry says.
MemGet(table, key, seq) ==
    LET from  == {e \in table : ~EntryBefore(e, EncodedLookupKey(key, seq))}
        entry == CHOOSE e \in from : \A f \in from : ~EntryBefore(f, e)
        ikey  == GetLengthPrefixedSlice(entry)
    IN  IF from = {} \/ UserPart(ikey.v) # key THEN << "absent" >>
        ELSE IF TagPart(ikey.v)[1] = kTypeValue THEN << "value", GetLengthPrefixedSlice(ikey.rest).v >>
        ELSE << "deleted" >>

-----------------------------------------------------------------------------
(* Version edits: [comparator, log_number, prev_log_number, next_file_number,   *)
(* last_sequence: << >> or << v >>; compact_pointers, new_files: sequences;     *)
(* deleted_files: a set].  The tags are those of the code, below ByteBase.      *)

ClearEdit == [comparator |-> << >>, log_number |-> << >>, prev_log_number |-> << >>,
              next_file_number |-> << >>, last_sequence |-> << >>,
              compact_pointers |-> << >>, deleted_files |-> {}, new_files |-> << >>]

\* The fields in the order they are written, with their tags.
RECURSIVE PairsInOrder(_)
PairsInOrder(set) ==
    IF set = {} THEN << >>
    ELSE LET p == CHOOSE p \in set : \A q \in set : p[1] < q[1] \/ (p[1] = q[1] /\ p[2] <= q[2])
         IN  << p >> \o PairsInOrder(set \ {p})
EditFields(e) ==
    LET deleted == PairsInOrder(e.deleted_files)
        Optional(tag, field) == IF field = << >> THEN << >> ELSE << << tag, field[1] >> >>
    IN  Optional(1, e.comparator) \o Optional(2, e.log_number) \o Optional(9, e.prev_log_number)
        \o Optional(3, e.next_file_number) \o Optional(4, e.last_sequence)
        \o [i \in DOMAIN e.compact_pointers |-> << 5, e.compact_pointers[i] >>]
        \o [i \in DOMAIN deleted |-> << 6, deleted[i] >>]
        \o [i \in DOMAIN e.new_files |-> << 7, e.new_files[i] >>]

EncodeField(tag, v) ==
    PutVarint(tag) \o
    CASE tag = 1 -> PutLengthPrefixedSlice(v)
      [] tag \in {2, 3, 4, 9} -> PutVarint(v)
      [] tag = 5 -> PutVarint(v[1]) \o PutLengthPrefixedSlice(v[2])
      [] tag = 6 -> PutVarint(v[1]) \o PutVarint(v[2])
      [] tag = 7 -> PutVarint(v[1]) \o PutVarint(v[2]) \o PutVarint(v[3])
                    \o PutLengthPrefixedSlice(v[4]) \o PutLengthPrefixedSlice(v[5])
RECURSIVE EncodeFields(_)
EncodeFields(fields) ==
    IF fields = << >> THEN << >>
    ELSE EncodeField(fields[1][1], fields[1][2]) \o EncodeFields(Tail(fields))
EncodeTo(e) == EncodeFields(EditFields(e))

\* Readers of the fields, one after the other: v is the tuple read.
GetLevel(s) == LET r == GetVarint32(s) IN [r EXCEPT !.ok = @ /\ r.v < kNumLevels]
GetPart(kind, s) ==
    CASE kind = "level" -> GetLevel(s)
      [] kind = "number" -> GetVarint64(s)
      [] kind = "slice" -> GetLengthPrefixedSlice(s)
RECURSIVE GetParts(_, _, _)
GetParts(kinds, s, v) ==
    IF kinds = << >> THEN Got(v, s)
    ELSE LET r == GetPart(kinds[1], s)
         IN  IF r.ok THEN GetParts(Tail(kinds), r.rest, Append(v, r.v)) ELSE Bad(v)
Parts(tag) ==
    CASE tag = 1 -> << "slice" >>
      [] tag \in {2, 3, 4, 9} -> << "number" >>
      [] tag = 5 -> << "level", "slice" >>
      [] tag = 6 -> << "level", "number" >>
      [] tag = 7 -> << "level", "number", "number", "slice", "slice" >>
ApplyField(e, tag, v) ==
    CASE tag = 1 -> [e EXCEPT !.comparator = v]
      [] tag = 2 -> [e EXCEPT !.log_number = v]
      [] tag = 3 -> [e EXCEPT !.next_file_number = v]
      [] tag = 4 -> [e EXCEPT !.last_sequence = v]
      [] tag = 9 -> [e EXCEPT !.prev_log_number = v]
      [] tag = 5 -> [e EXCEPT !.compact_pointers = Append(@, v)]
      [] tag = 6 -> [e EXCEPT !.deleted_files = @ \cup {v}]
      [] tag = 7 -> [e EXCEPT !.new_files = Append(@, v)]

RECURSIVE DecodeFields(_, _)
DecodeFields(s, e) ==
    LET t == GetVarint32(s)
        r == GetParts(Parts(t.v), t.rest, << >>)
    IN  IF ~t.ok THEN [ok |-> s = << >>, e |-> e]
        ELSE IF t.v \notin 1 .. 9 \ {8} THEN [ok |-> FALSE, e |-> e]
        ELSE IF ~r.ok THEN [ok |-> FALSE, e |-> e]
        ELSE DecodeFields(r.rest, ApplyField(e, t.v, r.v))
DecodeFrom(s) == DecodeFields(s, ClearEdit)

WriteEdit(e) ==
    /\ editRec.bytes = << >> /\ NoBatch /\ fileNo = 1
    /\ editRec' = [edit |-> e, bytes |-> EncodeTo(e), cut |-> FALSE]
    /\ UNCHANGED << rep, ops, whole, fileNo >>
CutEdit(n) ==
    /\ editRec.bytes # << >> /\ ~editRec.cut /\ n < Len(editRec.bytes)
    /\ editRec' = [editRec EXCEPT !.bytes = SubSeq(@, 1, n), !.cut = TRUE]
    /\ UNCHANGED << rep, ops, whole, fileNo >>

-----------------------------------------------------------------------------
(* File names: the decimal digits of the number and the suffix. *)

RECURSIVE Digits(_)
Digits(n) == IF n < 10 THEN << n >> ELSE Digits(n \div 10) \o << n % 10 >>
\* %06llu
PaddedDigits(n) ==
    LET d == Digits(n) IN [i \in 1 .. Padding - Len(d) |-> 0] \o d
MakeFileName(n, suffix) == [prefix |-> "", digits |-> PaddedDigits(n), suffix |-> suffix]
DescriptorFileName(n) == [prefix |-> "MANIFEST-", digits |-> PaddedDigits(n), suffix |-> ""]

MaxUint64 == 2 ^ Width64 - 1

ConsumeDecimalNumber(digits) ==
    LET v[i \in 0 .. Len(digits)] ==
            IF i = 0 THEN 0
            ELSE IF v[i - 1] < 0 \/ v[i - 1] > MaxUint64 \div 10
                    \/ (v[i - 1] = MaxUint64 \div 10 /\ digits[i] > MaxUint64 % 10) THEN -1
            ELSE v[i - 1] * 10 + digits[i]
    IN  v[Len(digits)]
\* << >>, or the number and the type.
FileTypeOf(name) ==
    CASE name.prefix = "MANIFEST-" /\ name.suffix = "" -> "descriptor"
      [] name.prefix = "" /\ name.suffix = "log" -> "log"
      [] name.prefix = "" /\ name.suffix \in {"sst", "ldb"} -> "table"
      [] name.prefix = "" /\ name.suffix = "dbtmp" -> "temp"
      [] OTHER -> "none"
ParseFileName(name) ==
    LET n == ConsumeDecimalNumber(name.digits)
    IN  IF name.digits = << >> \/ n < 0 \/ FileTypeOf(name) = "none" THEN << >>
        ELSE << n, FileTypeOf(name) >>

NextFileNumber ==
    /\ fileNo < MaxNumber /\ NoBatch /\ editRec.bytes = << >>
    /\ fileNo' = fileNo + 1
    /\ UNCHANGED << rep, ops, whole, editRec >>

-----------------------------------------------------------------------------
(* The footer of a table file: the handles of two blocks, padded to a fixed     *)
(* length, and a magic number.  A handle is << offset, size >>.                 *)

\* The bytes of the longest varint, 10 in the code.
kMaxVarint == (Width64 + VarBits - 1) \div VarBits
kMaxEncodedLength == 2 * kMaxVarint
\* Eight bytes in the code, two here; the last one could not end a varint.
kTableMagicNumber == << B + 1, ByteBase - 1 >>
kEncodedLength == 2 * kMaxEncodedLength + Len(kTableMagicNumber)

EncodeHandle(h) == PutVarint(h[1]) \o PutVarint(h[2])
DecodeHandle(s) == GetParts(<< "number", "number" >>, s, << >>)
\* resize pads with zeros, or cuts.
EncodeFooter(metaindex, index) ==
    LET handles == EncodeHandle(metaindex) \o EncodeHandle(index)
    IN  [i \in 1 .. 2 * kMaxEncodedLength |-> IF i <= Len(handles) THEN handles[i] ELSE 0]
        \o kTableMagicNumber
\* [ok, v]: the two handles.
DecodeFooter(s) ==
    LET metaindex == DecodeHandle(s)
        index     == DecodeHandle(metaindex.rest)
    IN  IF Drop(s, 2 * kMaxEncodedLength) # kTableMagicNumber \/ ~metaindex.ok THEN Bad(<< >>)
        ELSE IF index.ok THEN Got(<< metaindex.v, index.v >>, << >>) ELSE Bad(<< >>)
\* Table::Open reads the end of the file.
OpenFooter(file) ==
    IF Len(file) < kEncodedLength THEN Bad(<< >>)
    ELSE DecodeFooter(Drop(file, Len(file) - kEncodedLength))

-----------------------------------------------------------------------------
BatchOps == {Operation(kTypeValue, k, v) : k \in BatchKeys, v \in BatchValues}
            \cup {Operation(kTypeDeletion, k, << >>) : k \in BatchKeys}
CodeInit ==
    /\ rep = [i \in 1 .. kHeader |-> 0] /\ ops = << >> /\ whole = kHeader
    /\ editRec = [edit |-> ClearEdit, bytes |-> << >>, cut |-> FALSE]
    /\ fileNo = 1
CodeNext ==
    \/ \E op \in BatchOps : BatchUpdate(op)
    \/ \E p, q \in BatchOps : BatchAppend(p, q)
    \/ \E seq \in {1, ByteBase - 1} : SetSequence(seq)
    \/ \E n \in 0 .. whole - 1 : CutBatch(n)
    \/ \E e \in Edits : WriteEdit(e)
    \/ \E n \in 1 .. Len(editRec.bytes) - 1 : CutEdit(n)
    \/ NextFileNumber

-----------------------------------------------------------------------------
(* Properties *)

\* A batch read back gives its operations in order.  One that lost its end is
\* reported, and what its handler saw before is a prefix of them.
BatchExact ==
    LET r == Iterate(rep)
    IN  /\ r.calls = SubSeq(ops, 1, Len(r.calls))
        /\ r.ok <=> Len(rep) = whole
        /\ r.ok => r.calls = ops

\* A reader of the memtable at a sequence number sees, for every key, the last
\* operation of the batch up to that number: length prefixes, the order of
\* internal keys and the tag of the lookup key fit together.
MemGetExact ==
    Len(rep) > kHeader =>
        \E calls \in {Iterate(rep).calls}, table \in {InsertInto(rep)}, first \in {BatchSequence(rep)} :
        \A k \in BatchKeys, s \in first .. first + Len(calls) :
            LET mine == {i \in DOMAIN calls : calls[i].key = k /\ first + i - 1 <= s}
                last == calls[CHOOSE i \in mine : \A j \in mine : j <= i]
            IN  MemGet(table, k, s) =
                IF mine = {} THEN << "absent" >>
                ELSE IF last.type = kTypeValue THEN << "value", last.value >> ELSE << "deleted" >>

\* An edit read back is the edit written; if the end of the record is lost, it
\* is an error or the edit of the fields before the cut.
RECURSIVE EditOf(_, _)
EditOf(fields, n) == IF n = 0 THEN ClearEdit ELSE ApplyField(EditOf(fields, n - 1), fields[n][1],
    IF fields[n][1] \in {1, 2, 3, 4, 9} THEN << fields[n][2] >> ELSE fields[n][2])
EditExact ==
    editRec.bytes # << >> =>
        LET r == DecodeFrom(editRec.bytes)
            fields == EditFields(editRec.edit)
        IN  /\ ~editRec.cut => r.ok /\ r.e = editRec.edit
            /\ r.ok => \E n \in 0 .. Len(fields) : r.e = EditOf(fields, n)

\* A file name says the number and the type it was made from, for every number
\* up to the largest, and no two files share a name; a number beyond uint64_t
\* is rejected instead of wrapping into the name of another file.
NamesExact ==
    /\ \A suffix \in {"log", "ldb", "sst", "dbtmp"} :
          LET r == ParseFileName(MakeFileName(fileNo, suffix))
          IN  IF fileNo > MaxUint64 THEN r = << >>
              ELSE r = << fileNo, FileTypeOf(MakeFileName(fileNo, suffix)) >>
    /\ fileNo <= MaxUint64 => ParseFileName(DescriptorFileName(fileNo)) = << fileNo, "descriptor" >>

\* A table is opened with the two handles its footer was written with, whatever
\* the blocks before it hold and up to the largest offset and size a handle may
\* have (the padding never cuts a handle); a file that lost the end of its
\* magic number is not taken for a table.
FooterExact ==
    fileNo \in 2 .. MaxUint64 =>
    \A size \in {0, fileNo - 1, MaxUint64 - 1} :
        LET handles == << << fileNo - 1, size >>, << size, fileNo - 1 >> >>
            file    == kTableMagicNumber \o EncodeFooter(handles[1], handles[2])
        IN  /\ OpenFooter(file).ok /\ OpenFooter(file).v = handles
            /\ \A n \in 1 .. Len(kTableMagicNumber) :
                   ~OpenFooter(SubSeq(file, 1, Len(file) - n)).ok

\* What the database writes as bytes is read back as it was, and a lost end is an
\* error or a prefix: batches, memtable entries, edits, file names and footers.
ReadBack == BatchExact /\ MemGetExact /\ EditExact /\ NamesExact /\ FooterExact
=============================================================================
