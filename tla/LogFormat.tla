----------------------------- MODULE LogFormat -----------------------------
(***************************************************************************)
(* The log file format (db/log_writer.cc, db/log_reader.cc): records cut   *)
(* into fragments that fit the blocks of a file, read back after the       *)
(* writer died, the tail was lost or a block was damaged.                  *)
(*                                                                         *)
(* A file is a sequence of cells.  A fragment is a header of kHeaderSize   *)
(* cells, the first of which carries its length and type, and a cell       *)
(* << record, position >> for each unit of payload.  The checksum tells    *)
(* every damage.                                                           *)
(***************************************************************************)
EXTENDS Integers, Sequences, FiniteSets

CONSTANTS
    kBlock, kHeaderSize,   \* kBlockSize and the header, in cells
    RecordSizes,           \* sizes of the records that are written
    MaxRecords,            \* bound on their number
    MaxDamage              \* bound on damaged cells

\* A block holds a header and more, as kBlockSize = 32768 and kHeaderSize = 7 do.
ASSUME LogAssumption ==
    /\ kBlock \in Nat /\ kHeaderSize \in Nat \ {0} /\ kHeaderSize < kBlock
    /\ RecordSizes \subseteq Nat

VARIABLES
    file,           \* the cells
    writer,         \* [off, rec, left, begin]: block_offset_ and the record
                    \* being written, rec = 0 outside AddRecord
    sizes,          \* history: size of each record added
    starts, ends,   \* history: first and last cell of each record, 0 if none
    damaged,        \* history: damaged cells
    torn,           \* history: a writer went on after an incomplete record
    rdr             \* the reader, or [pc |-> "none"]

logVars == << file, writer, sizes, starts, ends, damaged, torn, rdr >>

kFullType == 1
kFirstType == 2
kMiddleType == 3
kLastType == 4
kEof == 5
kBadRecord == 6

Zero == << "zero", 0, 0 >>
Junk == << "junk", 0, 0 >>
HeaderCell(length, type) == << "header", length, type >>
HeaderRest == << "crc", 0, 0 >>
PayloadCell(rec, pos) == << "payload", rec, pos >>

-----------------------------------------------------------------------------
(* Writer *)

AddRecord(size) ==
    /\ rdr.pc = "none" /\ writer.rec = 0 /\ torn # "crashed" /\ Len(sizes) < MaxRecords
    /\ writer' = [writer EXCEPT !.rec = Len(sizes) + 1, !.left = size, !.begin = TRUE]
    /\ sizes' = Append(sizes, size)
    /\ starts' = Append(starts, 0) /\ ends' = Append(ends, 0)
    /\ UNCHANGED << file, damaged, torn, rdr >>

\* Mutant of RecordType: the end of a record is tested first.
RecordTypeByEnd(begin, end) == IF end THEN kLastType ELSE IF begin THEN kFirstType ELSE kMiddleType

\* One turn of AddRecord's loop: the trailer of a full block, then
\* EmitPhysicalRecord.
RecordType(begin, end) == IF begin /\ end THEN kFullType ELSE IF begin THEN kFirstType
                          ELSE IF end THEN kLastType ELSE kMiddleType
Fragment(rec, pos, n, type) ==
    << HeaderCell(n, type) >> \o [i \in 1 .. kHeaderSize - 1 |-> HeaderRest]
        \o [i \in 1 .. n |-> PayloadCell(rec, pos + i - 1)]
EmitFragment ==
    /\ writer.rec # 0
    /\ LET leftover == kBlock - writer.off
           new  == leftover < kHeaderSize
           fill == [i \in 1 .. IF new THEN leftover ELSE 0 |-> Zero]
           off  == IF new THEN 0 ELSE writer.off
           avail == kBlock - off - kHeaderSize
           n    == IF writer.left < avail THEN writer.left ELSE avail
           end  == writer.left = n
           pos  == sizes[writer.rec] - writer.left
       IN  /\ file' = file \o fill
                        \o Fragment(writer.rec, pos, n, RecordType(writer.begin, end))
           /\ starts' = IF writer.begin
                        THEN [starts EXCEPT ![writer.rec] = Len(file) + Len(fill) + 1]
                        ELSE starts
           /\ ends' = IF end THEN [ends EXCEPT ![writer.rec] = Len(file')] ELSE ends
           /\ writer' = [off |-> off + kHeaderSize + n, rec |-> IF end THEN 0 ELSE writer.rec,
                         left |-> writer.left - n, begin |-> FALSE]
    /\ UNCHANGED << sizes, damaged, torn, rdr >>

\* The writer dies, or the machine: the file ends anywhere.  Records that are
\* not whole were never acknowledged or not synced.
Complete(r) == ends[r] # 0
LogCrash(n) ==
    /\ rdr.pc = "none" /\ torn = "no"
    /\ file' = SubSeq(file, 1, n)
    /\ writer' = [off |-> 0, rec |-> 0, left |-> 0, begin |-> FALSE]
    /\ ends' = [r \in DOMAIN ends |-> IF ends[r] > n THEN 0 ELSE ends[r]]
    /\ torn' = "crashed"
    /\ UNCHANGED << sizes, starts, damaged, rdr >>

\* A writer for a file with contents goes on (Writer with dest_length).
Reuse ==
    /\ rdr.pc = "none" /\ torn = "crashed"
    /\ writer' = [writer EXCEPT !.off = Len(file) % kBlock]
    /\ torn' = "reused"
    /\ UNCHANGED << file, sizes, starts, ends, damaged, rdr >>

DamageCell(i) ==
    /\ rdr.pc = "none" /\ writer.rec = 0
    /\ Cardinality(damaged) < MaxDamage
    /\ file' = [file EXCEPT ![i] = Junk]
    /\ damaged' = damaged \cup {i}
    /\ UNCHANGED << writer, sizes, starts, ends, torn, rdr >>

-----------------------------------------------------------------------------
(* Reader.  The buffer is the rest [at, end) of a block; offsets count from 0. *)

OpenReader(initial) ==
    /\ rdr.pc = "none" /\ writer.rec = 0
    /\ LET in == initial % kBlock
           \* SkipToInitialBlock: not into a block of which only a trailer is left
           start == initial - in + IF in > kBlock - (kHeaderSize - 1) THEN kBlock ELSE 0
       IN  rdr' = [pc |-> "read", initial |-> initial, at |-> start, end |-> start,
                   eof |-> FALSE, resyncing |-> initial > 0, in_fragment |-> FALSE,
                   scratch |-> << >>, out |-> << >>, reports |-> 0]
    /\ UNCHANGED << file, writer, sizes, starts, ends, damaged, torn >>

\* ReadPhysicalRecord reads the next block.
ReadBlock ==
    /\ rdr.pc = "read" /\ rdr.end - rdr.at < kHeaderSize /\ ~rdr.eof
    /\ LET from == rdr.end
           last == IF from + kBlock <= Len(file) THEN from + kBlock
                   ELSE IF from < Len(file) THEN Len(file) ELSE from
       IN  rdr' = [rdr EXCEPT !.at = from, !.end = last, !.eof = last - from < kBlock]
    /\ UNCHANGED << file, writer, sizes, starts, ends, damaged, torn >>

Payload(at, n) == [i \in 1 .. n |-> file[at + kHeaderSize + i]]

\* The rest of the buffer is dropped, and a length beyond it means corruption,
\* or that the writer died if the file ends there.
DropBuffer(type, report) == [type |-> type, payload |-> << >>, at |-> rdr.end, report |-> report]

TooLong == IF rdr.eof THEN DropBuffer(kEof, FALSE) ELSE DropBuffer(kBadRecord, TRUE)

\* The checksum of a payload of n cells is right.
Intact(n) == /\ \A i \in 2 .. kHeaderSize : file[rdr.at + i] = HeaderRest
             /\ \A i \in 1 .. n : file[rdr.at + kHeaderSize + i][1] = "payload"

\* What the header at the front of the buffer leads ReadPhysicalRecord to: the
\* type, the payload, what is left of the buffer and whether a drop is
\* reported.  A damaged header may show any length; damage is caught by the
\* checksum or by the length.
Physical ==
    LET head == file[rdr.at + 1]
        room == rdr.end - rdr.at - kHeaderSize
        BadCrc == DropBuffer(kBadRecord, TRUE)
        \* what takes the place of a header but is none
        NoHeader == head[1] \in {"junk", "crc", "payload"}
    IN  IF NoHeader THEN {TooLong, BadCrc}
        ELSE IF head[1] = "zero" THEN {DropBuffer(kBadRecord, FALSE)}
        ELSE IF head[2] > room THEN {TooLong}
        ELSE IF ~Intact(head[2]) THEN {BadCrc}
        ELSE LET next == rdr.at + kHeaderSize + head[2]
             IN  {[type |-> IF rdr.at < rdr.initial THEN kBadRecord ELSE head[3],
                   payload |-> IF rdr.at < rdr.initial THEN << >> ELSE Payload(rdr.at, head[2]),
                   at |-> next, report |-> FALSE]}

\* ReportDrop tells the reporter unless what is dropped began before the
\* initial offset.
Reported(yes, at, bytes) == IF yes /\ at - bytes >= rdr.initial THEN 1 ELSE 0

\* ReadRecord's handling of one physical record.
Fragmented(p, r) ==
    LET bytes == Len(p.payload)
        lost  == rdr.in_fragment /\ rdr.scratch # << >>
        Give2(rec) == [r EXCEPT !.out = Append(@, rec), !.in_fragment = FALSE,
                                !.scratch = << >>]
        Alarm(s, yes, n) == [s EXCEPT !.reports = @ + Reported(yes, p.at, n)]
    IN  IF p.type = kFullType THEN Alarm(Give2(p.payload), lost, Len(rdr.scratch))
        ELSE IF p.type = kFirstType
        THEN Alarm([r EXCEPT !.in_fragment = TRUE, !.scratch = p.payload],
                   lost, Len(rdr.scratch))
        ELSE IF p.type = kMiddleType
        THEN IF rdr.in_fragment THEN [r EXCEPT !.scratch = @ \o p.payload]
             ELSE Alarm(r, TRUE, bytes)
        ELSE IF p.type = kLastType
        THEN IF rdr.in_fragment THEN Give2(rdr.scratch \o p.payload)
             ELSE Alarm(r, TRUE, bytes)
        ELSE IF p.type = kEof THEN [r EXCEPT !.pc = "done"]
        ELSE Alarm([r EXCEPT !.in_fragment = FALSE, !.scratch = << >>],
                   rdr.in_fragment, Len(rdr.scratch))

ReadFragment ==
    /\ rdr.pc = "read" /\ rdr.end - rdr.at >= kHeaderSize
    /\ \E p \in Physical :
          LET r == [rdr EXCEPT !.at = p.at,
                               !.reports = @ + Reported(p.report, p.at, rdr.end - rdr.at),
                               !.resyncing = @ /\ p.type = kMiddleType]
          IN  rdr' = IF rdr.resyncing /\ p.type \in {kMiddleType, kLastType} THEN r
                     ELSE Fragmented(p, r)
    /\ UNCHANGED << file, writer, sizes, starts, ends, damaged, torn >>

\* A truncated header at the end, or nothing.
ReadEnd ==
    /\ rdr.pc = "read" /\ rdr.end - rdr.at < kHeaderSize /\ rdr.eof
    /\ rdr' = [rdr EXCEPT !.pc = "done", !.scratch = << >>]
    /\ UNCHANGED << file, writer, sizes, starts, ends, damaged, torn >>

LogInit ==
    /\ file = << >> /\ sizes = << >> /\ starts = << >> /\ ends = << >> /\ damaged = {} /\ torn = "no"
    /\ writer = [off |-> 0, rec |-> 0, left |-> 0, begin |-> FALSE]
    /\ rdr = [pc |-> "none"]

LogNext ==
    \/ \E n \in RecordSizes : AddRecord(n)
    \/ EmitFragment
    \/ \E n \in 0 .. Len(file) : LogCrash(n)
    \/ Reuse
    \/ \E i \in DOMAIN file : DamageCell(i)
    \/ \E n \in 0 .. Len(file) : OpenReader(n)
    \/ ReadBlock \/ ReadFragment \/ ReadEnd

LogSpec == LogInit /\ [][LogNext]_logVars

-----------------------------------------------------------------------------
(* Properties *)

Contents2(r) == [i \in 1 .. sizes[r] |-> PayloadCell(r, i - 1)]

\* Each record returned is one that was written, whole and unmixed, and they
\* come in order, whatever was lost, damaged or appended after a torn tail.
OnlyWritten ==
    rdr.pc # "none" =>
        \E pick \in [DOMAIN rdr.out -> DOMAIN sizes] :
            /\ \A i \in DOMAIN rdr.out : rdr.out[i] = Contents2(pick[i])
            /\ \A i, j \in DOMAIN rdr.out : i < j => pick[i] < pick[j]

BlockOf(i) == (i - 1) \div kBlock
Touched(r) == \E i \in starts[r] .. ends[r], d \in damaged : BlockOf(i) = BlockOf(d)

\* A reader finds every whole record at or after its initial offset that has
\* no part in a damaged block: a torn tail or a damaged block costs nothing
\* else.  A writer that goes on after a torn record may lose more.
LossConfined ==
    rdr.pc = "done" /\ torn # "reused" =>
        \A r \in DOMAIN sizes :
            Complete(r) /\ starts[r] - 1 >= rdr.initial /\ ~Touched(r)
                => \E i \in DOMAIN rdr.out : rdr.out[i] = Contents2(r)

\* A log that merely ends early is no corruption.
NoFalseAlarm ==
    rdr.pc # "none" /\ torn # "reused" /\ damaged = {} /\ rdr.initial = 0 => rdr.reports = 0

\* What a reader of the log gets after a crash or damage: records that were
\* written, in order, all that the damage left, and no report without damage.
LogExact == OnlyWritten /\ LossConfined /\ NoFalseAlarm
=============================================================================
