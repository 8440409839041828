------------------------------- MODULE Repair -------------------------------
(***************************************************************************)
(* db/repair.cc of leveldb: RepairDB rebuilds the descriptor of a database *)
(* from its tables and logs.  Steps may fail with an I/O error, and the    *)
(* process may crash between any two of them and be started again.         *)
(*                                                                         *)
(* An entry is [key, seq].  A table is [good, lost]: the entries an        *)
(* iterator returns and those in blocks it cannot read.  A log is a        *)
(* sequence of records [entry, damage].                                    *)
(***************************************************************************)
EXTENDS Integers, Sequences, FiniteSets

CONSTANTS
    Directories,     \* directories [tables, logs, descs] to repair
    BadSequence,     \* what a damaged record may say its sequence number is
    MaxRepairFaults  \* bound on I/O errors and crashes

\* Files are finite, and what can be read of them has sequence numbers.
IsEntry(e) == DOMAIN e = {"key", "seq"} /\ e.seq \in Nat
ASSUME RepairAssumption ==
    /\ BadSequence \in Nat
    /\ \A d \in Directories :
          /\ DOMAIN d.tables \cup DOMAIN d.logs \subseteq Nat
          /\ IsFiniteSet(DOMAIN d.tables \cup DOMAIN d.logs)
          /\ \A n \in DOMAIN d.tables : \A entries \in {d.tables[n].good, d.tables[n].lost} :
                IsFiniteSet(entries) /\ \A e \in entries : IsEntry(e)
          /\ \A n \in DOMAIN d.logs :
                /\ IsFiniteSet(DOMAIN d.logs[n])
                /\ \A i \in DOMAIN d.logs[n] : /\ IsEntry(d.logs[n][i].entry)
                                               /\ d.logs[n][i].damage \in {"none", "changed", "unframed"}

VARIABLES
    disk,      \* [tables, logs, descs, current]; << >> before there is one
    archived,  \* entries in files under lost/
    rp,        \* the Repairer; pc is the step it is at
    faults,    \* history: I/O errors and crashes
    written    \* history: entries that were readable when the repair began

repairVars == << disk, archived, rp, faults, written >>

-----------------------------------------------------------------------------
Nobody == [pc |-> "idle", logs |-> {}, table_numbers |-> {}, tables |-> {}, manifests |-> {},
           next |-> 1, at |-> 0, copy |-> 0, info |-> << >>]
MaxSeq(entries) == LET seqs == {e.seq : e \in entries} \cup {0} IN CHOOSE s \in seqs : \A u \in seqs : u <= s
Removing(f, n) == [m \in DOMAIN f \ {n} |-> f[m]]
Adding(f, n, v) == [m \in DOMAIN f \cup {n} |-> IF m = n THEN v ELSE f[m]]
RepairFault == faults < MaxRepairFaults /\ faults' = faults + 1

\* The reader of ConvertLogToTable does not verify checksums: a record whose
\* contents changed is inserted as it reads now; one the reader cannot frame is
\* dropped.
ReadsAs(record) ==
    CASE record.damage = "none" -> {record.entry}
      [] record.damage = "changed" -> {[record.entry EXCEPT !.seq = BadSequence]}
      [] record.damage = "unframed" -> {}
LogEntries(log) == UNION {ReadsAs(log[i]) : i \in DOMAIN log}

FindFiles ==
    /\ rp.pc = "idle" /\ disk # << >>
    /\ LET numbers == DOMAIN disk.tables \cup DOMAIN disk.logs
       IN  rp' = [Nobody EXCEPT !.pc = "logs", !.logs = DOMAIN disk.logs,
                                !.table_numbers = DOMAIN disk.tables, !.manifests = DOMAIN disk.descs,
                                !.next = IF numbers = {} THEN 1
                                         ELSE 1 + CHOOSE n \in numbers : \A m \in numbers : m <= n]
    /\ UNCHANGED << disk, archived, faults, written >>

\* Mutant of ConvertLogToTable: the new table is not listed.
ConvertLogUnlisted(log, ok) ==
    /\ rp.pc = "logs" /\ log \in rp.logs
    /\ IF ok THEN UNCHANGED faults ELSE RepairFault
    /\ disk' = IF ok /\ LogEntries(disk.logs[log]) # {}
               THEN [disk EXCEPT !.tables = Adding(@, rp.next, [good |-> LogEntries(disk.logs[log]), lost |-> {}])]
               ELSE disk
    /\ rp' = [rp EXCEPT !.pc = "archive_log", !.at = log, !.next = @ + 1]
    /\ UNCHANGED << archived, written >>

\* ConvertLogToTable.  BuildTable leaves no file behind if there is nothing to
\* put in it or it fails.
ConvertLogToTable(log, ok) ==
    /\ rp.pc = "logs" /\ log \in rp.logs
    /\ IF ok THEN UNCHANGED faults ELSE RepairFault
    /\ LET entries == LogEntries(disk.logs[log])
           built   == ok /\ entries # {}
       IN  /\ disk' = IF built THEN [disk EXCEPT !.tables = Adding(@, rp.next, [good |-> entries, lost |-> {}])]
                      ELSE disk
           /\ rp' = [rp EXCEPT !.pc = "archive_log", !.at = log, !.next = @ + 1,
                               !.table_numbers = IF built THEN @ \cup {rp.next} ELSE @]
    /\ UNCHANGED << archived, written >>

ArchiveLog ==
    /\ rp.pc = "archive_log"
    /\ disk' = [disk EXCEPT !.logs = Removing(@, rp.at)]
    /\ archived' = archived \cup LogEntries(disk.logs[rp.at])
    /\ rp' = [rp EXCEPT !.pc = "logs", !.logs = @ \ {rp.at}]
    /\ UNCHANGED << faults, written >>

\* ExtractMetaData, ScanTable: a table that reads to its end is kept as it is.
Info(n) == [number |-> n, max_sequence |-> MaxSeq(disk.tables[n].good)]
ScanTable(n) ==
    /\ rp.pc = "logs" /\ rp.logs = {} /\ n \in rp.table_numbers
    /\ rp' = IF disk.tables[n].lost = {}
             THEN [rp EXCEPT !.table_numbers = @ \ {n}, !.tables = @ \cup {Info(n)}]
             ELSE [rp EXCEPT !.table_numbers = @ \ {n}, !.pc = "copy", !.at = n, !.info = Info(n)]
    /\ UNCHANGED << disk, archived, faults, written >>

\* RepairTable: a new file, which is no table before Finish; the source goes to
\* lost/ first.
RepairTableCopy(ok) ==
    /\ rp.pc = "copy"
    /\ IF ok THEN UNCHANGED faults ELSE RepairFault
    /\ disk' = IF ok THEN [disk EXCEPT !.tables = Adding(@, rp.next, [good |-> {}, lost |-> disk.tables[rp.at].good])]
               ELSE disk
    /\ rp' = [rp EXCEPT !.pc = IF ok THEN "archive_table" ELSE "logs", !.copy = rp.next, !.next = @ + 1]
    /\ UNCHANGED << archived, written >>

ArchiveTable ==
    /\ rp.pc = "archive_table"
    /\ archived' = archived \cup disk.tables[rp.at].good
    /\ disk' = [disk EXCEPT !.tables = Removing(@, rp.at)]
    /\ rp' = [rp EXCEPT !.pc = "finish"]
    /\ UNCHANGED << faults, written >>

\* Abandon if nothing was copied: the file stays.  Finish or Close may fail:
\* it is deleted.
RepairTableFinish(ok) ==
    /\ rp.pc = "finish"
    /\ IF ok THEN UNCHANGED faults ELSE RepairFault
    /\ LET entries == disk.tables[rp.copy].lost
       IN  /\ disk' = IF ~ok THEN [disk EXCEPT !.tables = Removing(@, rp.copy)]
                      ELSE IF entries = {} THEN disk
                      ELSE [disk EXCEPT !.tables[rp.copy] = [good |-> entries, lost |-> {}]]
           /\ rp' = [rp EXCEPT !.pc = IF ok /\ entries # {} THEN "rename" ELSE "logs"]
    /\ UNCHANGED << archived, written >>

RepairTableRename(ok) ==
    /\ rp.pc = "rename"
    /\ IF ok THEN UNCHANGED faults ELSE RepairFault
    /\ disk' = [disk EXCEPT !.tables = IF ok THEN Adding(Removing(@, rp.copy), rp.at, @[rp.copy])
                                       ELSE Removing(@, rp.copy)]
    /\ rp' = [rp EXCEPT !.pc = "logs", !.tables = IF ok THEN @ \cup {rp.info} ELSE @]
    /\ UNCHANGED << archived, written >>

\* WriteDescriptor: the edit goes to a temporary file first.
WriteDescriptor(ok) ==
    /\ rp.pc = "logs" /\ rp.logs = {} /\ rp.table_numbers = {}
    /\ IF ok THEN UNCHANGED faults ELSE RepairFault
    /\ rp' = [rp EXCEPT !.pc = IF ok THEN "archive_manifests" ELSE "failed",
                        !.info = [files |-> {t.number : t \in rp.tables}, next |-> rp.next,
                                  last |-> MaxSeq({[seq |-> t.max_sequence] : t \in rp.tables})]]
    /\ UNCHANGED << disk, archived, written >>

ArchiveManifests ==
    /\ rp.pc = "archive_manifests"
    /\ disk' = [disk EXCEPT !.descs = [n \in DOMAIN @ \ rp.manifests |-> @[n]]]
    /\ rp' = [rp EXCEPT !.pc = "install"]
    /\ UNCHANGED << archived, faults, written >>

InstallManifest(ok) ==
    /\ rp.pc = "install"
    /\ IF ok THEN UNCHANGED faults ELSE RepairFault
    /\ disk' = IF ok THEN [disk EXCEPT !.descs = Adding(@, 1, rp.info)] ELSE disk
    /\ rp' = [rp EXCEPT !.pc = IF ok THEN "current" ELSE "failed"]
    /\ UNCHANGED << archived, written >>

InstallCurrent(ok) ==
    /\ rp.pc = "current"
    /\ IF ok THEN UNCHANGED faults ELSE RepairFault
    /\ disk' = IF ok THEN [disk EXCEPT !.current = 1] ELSE disk
    /\ rp' = [rp EXCEPT !.pc = IF ok THEN "done" ELSE "failed"]
    /\ UNCHANGED << archived, written >>

\* The process dies, or the caller tries again after an error.
RepairAgain ==
    /\ rp.pc \notin {"idle", "done"}
    /\ IF rp.pc = "failed" THEN UNCHANGED faults ELSE RepairFault
    /\ rp' = Nobody
    /\ UNCHANGED << disk, archived, written >>

Readable0(d) == (UNION {d.tables[n].good : n \in DOMAIN d.tables})
                \cup UNION {{d.logs[n][i].entry : i \in {j \in DOMAIN d.logs[n] : d.logs[n][j].damage = "none"}}
                            : n \in DOMAIN d.logs}
FindBroken(d) ==
    /\ disk = << >>
    /\ disk' = [tables |-> d.tables, logs |-> d.logs, descs |-> d.descs, current |-> 0]
    /\ written' = Readable0(d)
    /\ UNCHANGED << archived, rp, faults >>

RepairInit == disk = << >> /\ archived = {} /\ rp = Nobody /\ faults = 0 /\ written = {}
RepairNext ==
    \/ \E d \in Directories : FindBroken(d)
    \/ FindFiles
    \/ \E log \in rp.logs, ok \in BOOLEAN : ConvertLogToTable(log, ok)
    \/ ArchiveLog
    \/ \E n \in rp.table_numbers : ScanTable(n)
    \/ \E ok \in BOOLEAN : RepairTableCopy(ok)
    \/ ArchiveTable
    \/ \E ok \in BOOLEAN : RepairTableFinish(ok)
    \/ \E ok \in BOOLEAN : RepairTableRename(ok)
    \/ \E ok \in BOOLEAN : WriteDescriptor(ok)
    \/ ArchiveManifests
    \/ \E ok \in BOOLEAN : InstallManifest(ok)
    \/ \E ok \in BOOLEAN : InstallCurrent(ok)
    \/ RepairAgain

RepairSpec == RepairInit /\ [][RepairNext]_repairVars

-----------------------------------------------------------------------------
(* Properties *)

Installed == disk.descs[1]
InDescriptor == UNION {disk.tables[n].good : n \in Installed.files}

\* When the repair reports success, in this attempt or after any number of
\* attempts that crashed or failed, every entry that could be read at the
\* beginning is in a table of the new descriptor.  After an I/O error or a crash
\* it may be in a file under lost/ instead, or in a table that could not be
\* copied and was left where it is; the repair itself never destroys it.
OnDisk == UNION {disk.tables[n].good : n \in DOMAIN disk.tables}
NothingDropped ==
    rp.pc = "done" => \A e \in written :
        e \in InDescriptor \/ (faults > 0 /\ e \in archived \cup OnDisk)

\* The new descriptor can be opened: its tables exist and can be read to their
\* end, its next file number is above every file's and its last sequence above
\* every entry's.
DescriptorSound ==
    rp.pc = "done" =>
        /\ disk.current = 1
        /\ \A n \in Installed.files : n \in DOMAIN disk.tables /\ disk.tables[n].lost = {}
        /\ \A n \in DOMAIN disk.tables \cup DOMAIN disk.logs : n < Installed.next
        /\ \A e \in InDescriptor : e.seq <= Installed.last

\* A repair loses nothing that could be read, failures of its own steps included,
\* and leaves a descriptor that opens.
RepairSound == NothingDropped /\ DescriptorSound
=============================================================================
