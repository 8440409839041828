------------------------------- MODULE DBImpl -------------------------------
(***************************************************************************)
(* The leveldb database (db/db_impl.cc, with the parts of version_set.cc   *)
(* that log and install versions): the writers' queue and its batch        *)
(* groups, the switch of memtables, reads and snapshots, the background    *)
(* thread with its flushes and compactions, manual compactions, and the    *)
(* files a crash leaves behind and Open recovers from.                     *)
(*                                                                         *)
(* A step is what a thread does between taking and releasing mutex_, with  *)
(* the unlocked I/O that follows joined to it where no other thread can    *)
(* tell.  prev_log_number_ is always 0 in a database of this version and   *)
(* options_.reuse_logs keeps its default, false.                           *)
(***************************************************************************)
EXTENDS VersionSet

CONSTANTS
    Threads,         \* the client threads
    NoThread,        \* manual_compaction_ == NULL
    Requests,        \* what a client may write: [batch, sync], the batch a
                     \* sequence of [type, key]
    ReadKeys,        \* the keys clients read
    Ranges,          \* the ranges <<begin, end>> given to CompactRange
    WriteBuffer,     \* options_.write_buffer_size, in entries
    MaxGroupSize,    \* largest batch group, in entries
    kL0_SlowdownWritesTrigger, kL0_StopWritesTrigger,
    MaxWrites,       \* bound on the writes
    MaxEvents,       \* bound on everything else that clients and environment
                     \* start: reads, snapshots, range compactions, restarts
                     \* and I/O errors
    IOErrors,        \* whether the file system may report errors
    TornAppends      \* whether a failed append may leave part of a record

VARIABLES
    \* the directory
    tables,     \* table files: number -> set of entries
    logs,       \* log files: number -> [recs, synced], recs a sequence of sets
                \* of entries, the first synced of them on stable storage
    manifests,  \* descriptor files: number -> what its replay yields
    CURRENT,    \* number of the descriptor that CURRENT names, 0 if none
    \* the process
    up,              \* DB::Open has returned and the process runs
    shutting_down_,  \* the destructor waits for the background thread
    mem_, imm_,      \* memtables; imm_ is {} for NULL, else {memtable}
    logfile_number_,
    vs,              \* VersionSet: current version and counters
    pending_outputs_,
    snapshots_,      \* sequence numbers, oldest first
    bg_error_,       \* a background error was recorded
    bg,              \* the background thread
    compact,         \* its CompactionState, {} outside DoCompactionWork
    manual_compaction_,
    writers_,        \* the queue of writers
    thr,             \* the client threads
    \* history and bounds
    store, pending,  \* what the clients wrote, for the abstract specification
    view, snaps,     \* what they read
    used             \* how much of each bound is used up

disk == << tables, logs, manifests, CURRENT >>
memory == << mem_, imm_, logfile_number_ >>
ghosts == << store, pending >>
vars == << disk, up, shutting_down_, memory, vs, pending_outputs_, snapshots_,
           bg_error_, bg, compact, manual_compaction_, writers_, thr, ghosts, view, snaps, used >>

Idle == [pc |-> "idle"]
NoBatch == << >>    \* the NULL batch of TEST_CompactMemTable
Torn == {}          \* a record of which only a part was written

\* What the process starts from: nothing.
NoVersionSet ==
    [current |-> EmptyVersion, next_file_number |-> 0, last_sequence |-> 0,
     log_number |-> 0, manifest_file_number |-> 0,
     compact_pointer |-> [l \in Levels |-> {}],
     file_to_compact |-> {}, seeks |-> << >>]

\* One more event.
Spend == used.events < MaxEvents /\ used' = [used EXCEPT !.events = @ + 1]
Fault == IOErrors /\ Spend

-----------------------------------------------------------------------------
(* What a reader sees *)

\* DBImpl::Get's search: memtable, immutable memtable, then the version.
Search(mem, imm, v, tabs, key, seq) ==
    LET m == SeekEntry(mem, key, seq)
        i == SeekEntry(UNION imm, key, seq)
    IN  IF m # {} THEN m ELSE IF i # {} THEN i ELSE VersionGet(v, tabs, key, seq)
Value(found) == IF found = {} THEN NULL ELSE ValueOf(CHOOSE e \in found : TRUE)

\* The contents at a sequence number.
Contents(mem, imm, v, tabs, seq) == [k \in Keys |-> Value(Search(mem, imm, v, tabs, k, seq))]
ViewAt(seq) == Contents(mem_, imm_, vs.current, tables, seq)

\* The records a log reader returns: those before the first damaged one.
Readable(log) ==
    LET bad == {i \in DOMAIN log.recs : log.recs[i] = Torn}
    IN  IF bad = {} THEN log.recs
        ELSE SubSeq(log.recs, 1, (CHOOSE i \in bad : \A j \in bad : i <= j) - 1)
Records(recs) == UNION {recs[i] : i \in DOMAIN recs}

NotBelow(S, from) == {n \in S : n >= from}
LiveLogs(from) == NotBelow(DOMAIN logs, from)

\* What Open would make of a directory.
Recovered(tabs, lgs, mans, current) ==
    IF current = 0 THEN [k \in Keys |-> NULL]
    ELSE Contents(UNION {Records(Readable(lgs[n])) :
                            n \in NotBelow(DOMAIN lgs, mans[current].log_number)},
                  {}, mans[current].files, tabs, kMaxSequenceNumber)

\* What a client would be told next, of the present and of each snapshot; while
\* no process runs the contents are what the next Open will recover.
Observe ==
    /\ view' = IF up' THEN Contents(mem_', imm_', vs'.current, tables', vs'.last_sequence)
               ELSE Recovered(tables', logs', manifests', CURRENT')
    /\ snaps' = [i \in DOMAIN snapshots_' |->
                    Contents(mem_', imm_', vs'.current, tables', snapshots_'[i])]

-----------------------------------------------------------------------------
(* Scheduling and garbage collection *)

NeedsCompaction(s) == CompactionDue(s.current) \/ s.file_to_compact # {}

\* MaybeScheduleCompaction, given the state it runs in.
Scheduled(imm, manual, s, err) ==
    /\ ~shutting_down_
    /\ ~err
    /\ imm # {} \/ manual # NoThread \/ NeedsCompaction(s)
MaybeScheduleCompaction(imm, manual, s, err) ==
    bg' = IF bg.pc = "idle" /\ Scheduled(imm, manual, s, err)
          THEN [pc |-> "scheduled"] ELSE bg

\* Mutant of PinnedVersions: readers do not reference their version.
PinnedByCompaction(comp) == {c.input_version : c \in comp}

\* The versions readers and the running compaction hold references to.
PinnedVersions(comp) ==
    {thr[t].version : t \in {u \in Threads : thr[u].pc = "read"}}
        \cup {c.input_version : c \in comp}

\* Mutant of DeleteObsoleteFiles: bg_error_ is not tested.
DeleteAfterError(s, outputs, comp, err, tabs) ==
    LET live == outputs \cup Numbers(s.current)
                    \cup UNION {Numbers(v) : v \in PinnedVersions(comp)}
        Keep(f, S) == [n \in DOMAIN f \cap S |-> f[n]]
    IN  /\ tables' = Keep(tabs, live)
        /\ logs' = Keep(logs, LiveLogs(s.log_number))
        /\ manifests' = Keep(manifests,
                             {n \in DOMAIN manifests : n >= s.manifest_file_number})

\* DeleteObsoleteFiles, given the state it runs in; after a background error
\* nothing is deleted.
DeleteObsoleteFiles(s, outputs, comp, err, tabs) ==
    LET live == outputs \cup Numbers(s.current)
                    \cup UNION {Numbers(v) : v \in PinnedVersions(comp)}
        Keep(f, S) == [n \in DOMAIN f \cap S |-> f[n]]
    IN  IF err
        THEN tables' = tabs /\ UNCHANGED << logs, manifests >>
        ELSE /\ tables' = Keep(tabs, live)
             /\ logs' = Keep(logs, LiveLogs(s.log_number))
             /\ manifests' = Keep(manifests,
                                  {n \in DOMAIN manifests : n >= s.manifest_file_number})

-----------------------------------------------------------------------------
(* Writes *)

\* DBImpl::Write queues the writer; delay is allow_delay of MakeRoomForWrite.
Write(t, batch, sync) ==
    /\ up /\ ~shutting_down_ /\ thr[t].pc = "idle"
    /\ used.writes < MaxWrites
    /\ used' = [used EXCEPT !.writes = @ + 1]
    /\ thr' = [thr EXCEPT ![t] = [pc |-> "write", batch |-> batch, sync |-> sync,
                                  delay |-> TRUE, id |-> used.writes + 1]]
    /\ writers_' = Append(writers_, t)
    /\ UNCHANGED << disk, up, shutting_down_, memory, vs, pending_outputs_, snapshots_,
                    bg_error_, bg, compact, manual_compaction_, ghosts >>
    /\ Observe

\* What a writer does when Write returns: a client is done, CompactRange waits
\* for the memtable to be flushed or goes on.
Manual(w, level) == [pc |-> "manual", level |-> level, max_level |-> w.max_level,
                     range |-> w.range, begin |-> w.range[1], done |-> FALSE]
Returned(w, ok) ==
    IF w.batch # NoBatch THEN Idle
    ELSE IF ok THEN [pc |-> "waitimm", range |-> w.range, max_level |-> w.max_level]
    ELSE Manual(w, 0)

\* The writer t at the head of the queue leaves alone with a status.
Dequeue(t, ok) ==
    /\ writers_' = Tail(writers_)
    /\ thr' = [thr EXCEPT ![t] = Returned(@, ok)]

AtFront(t) == up /\ writers_ # << >> /\ Head(writers_) = t /\ thr[t].pc = "write"

\* MakeRoomForWrite yields the background error.
WriteRefused(t) ==
    /\ AtFront(t)
    /\ bg_error_
    /\ Dequeue(t, FALSE)
    /\ UNCHANGED << disk, up, shutting_down_, memory, vs, pending_outputs_, snapshots_,
                    bg_error_, bg, compact, manual_compaction_, ghosts, used >>
    /\ Observe

TooManyL0Files(limit) == Len(vs.current[0]) >= limit

\* One millisecond of delay, at most once for a write.
WriteDelayed(t) ==
    /\ AtFront(t)
    /\ ~bg_error_
    /\ thr[t].batch # NoBatch /\ thr[t].delay
    /\ TooManyL0Files(kL0_SlowdownWritesTrigger)
    /\ thr' = [thr EXCEPT ![t].delay = FALSE]
    /\ UNCHANGED << disk, up, shutting_down_, memory, vs, pending_outputs_, snapshots_,
                    bg_error_, bg, compact, manual_compaction_, writers_, ghosts, used >>
    /\ Observe

HasRoom(t) == thr[t].batch # NoBatch /\ Cardinality(mem_) <= WriteBuffer

\* Past the error check, the delay and the two waits of MakeRoomForWrite.
MayProceed(t) ==
    /\ AtFront(t)
    /\ ~bg_error_
    /\ thr[t].batch # NoBatch /\ thr[t].delay => ~TooManyL0Files(kL0_SlowdownWritesTrigger)
    /\ HasRoom(t) \/ (imm_ = {} /\ ~TooManyL0Files(kL0_StopWritesTrigger))

\* The new log file cannot be created: its number is given back.
SwitchFails(t) ==
    /\ MayProceed(t) /\ ~HasRoom(t)
    /\ Fault
    /\ Dequeue(t, FALSE)
    /\ UNCHANGED << disk, up, shutting_down_, memory, vs, pending_outputs_, snapshots_,
                    bg_error_, bg, compact, manual_compaction_, ghosts >>
    /\ Observe

EmptyLog == [recs |-> << >>, synced |-> 0]

\* The state after the memtable switch of MakeRoomForWrite, or without one.
AfterSwitch(switch) ==
    LET n == vs.next_file_number
    IN  IF switch
        THEN [mem |-> {}, imm |-> {mem_}, log |-> n,
              vs |-> [vs EXCEPT !.next_file_number = n + 1],
              logs |-> [m \in DOMAIN logs \cup {n} |-> IF m = n THEN EmptyLog ELSE logs[m]]]
        ELSE [mem |-> mem_, imm |-> imm_, log |-> logfile_number_, vs |-> vs, logs |-> logs]

\* BuildBatchGroup: how many writers of the queue the group takes.  A NULL
\* batch joins the group of the writer before it.
GroupLength ==
    LET first == thr[Head(writers_)]
        size[i \in 0 .. Len(writers_)] ==
            IF i = 0 THEN 0 ELSE size[i - 1] + Len(thr[writers_[i]].batch)
        Joins(i) == LET w == thr[writers_[i]]
                    IN  /\ ~(w.sync /\ ~first.sync)
                        /\ w.batch # NoBatch => size[i] <= MaxGroupSize
        fits == {n \in 1 .. Len(writers_) : \A i \in 2 .. n : Joins(i)}
    IN  CHOOSE n \in fits : \A m \in fits : m <= n

\* The writes of the group in order, numbered from last_sequence + 1.
GroupUpdates(n) ==
    LET OfWriter(w) == [i \in DOMAIN w.batch |->
                           [key |-> w.batch[i].key, type |-> w.batch[i].type,
                            val |-> IF w.batch[i].type = kTypeValue THEN w.id ELSE NULL,
                            batch |-> w.id]]
        upTo[i \in 0 .. n] ==
            IF i = 0 THEN << >> ELSE upTo[i - 1] \o OfWriter(thr[writers_[i]])
    IN  [i \in DOMAIN upTo[n] |->
            [key |-> upTo[n][i].key, seq |-> vs.last_sequence + i, type |-> upTo[n][i].type,
             val |-> upTo[n][i].val, batch |-> upTo[n][i].batch]]
Entry(u) == [key |-> u.key, seq |-> u.seq, type |-> u.type, val |-> u.val]

\* The head of the queue makes room, builds its group and, unlocked, appends
\* it to the log and syncs the log if it asked for that.  The append may fail,
\* with nothing, a part or all of the record in the file; so may the sync.
Outcomes == {"ok", "nothing", "all", "syncfail"} \cup IF TornAppends THEN {"part"} ELSE {}
WriteGroup(t, outcome) ==
    /\ MayProceed(t)
    /\ thr[t].batch # NoBatch
    /\ outcome = "syncfail" => thr[t].sync
    /\ IF outcome = "ok" THEN UNCHANGED used ELSE Fault
    /\ LET a == AfterSwitch(~HasRoom(t))
           n == GroupLength
           ups == GroupUpdates(n)
           rec == IF outcome = "part" THEN Torn ELSE {Entry(ups[i]) : i \in DOMAIN ups}
           log == a.logs[a.log]
           recs == IF outcome = "nothing" THEN log.recs ELSE Append(log.recs, rec)
       IN  /\ mem_' = a.mem /\ imm_' = a.imm /\ logfile_number_' = a.log /\ vs' = a.vs
           /\ logs' = [a.logs EXCEPT ![a.log] =
                          [recs |-> recs,
                           synced |-> IF thr[t].sync /\ outcome = "ok" THEN Len(recs)
                                      ELSE log.synced]]
           /\ pending' = [i \in DOMAIN ups |->
                             [key |-> ups[i].key, val |-> ups[i].val, seq |-> ups[i].seq,
                              sync |-> thr[t].sync, ok |-> FALSE, batch |-> ups[i].batch]]
           /\ thr' = [thr EXCEPT ![t] = [pc |-> "logged", ups |-> ups, group |-> n,
                                         outcome |-> outcome]]
           /\ MaybeScheduleCompaction(a.imm, manual_compaction_, a.vs, bg_error_)
    /\ UNCHANGED << tables, manifests, CURRENT, up, shutting_down_, pending_outputs_,
                    snapshots_, bg_error_, compact, manual_compaction_, writers_, store >>
    /\ Observe

\* The leader applies the group to the memtable, publishes its last sequence
\* number, also when the append failed, and releases the group.
WriteDone(t) ==
    /\ thr[t].pc = "logged"
    /\ LET w == thr[t]
           ok == w.outcome = "ok"
           inGroup == {writers_[i] : i \in 1 .. w.group}
       IN  /\ mem_' = IF ok THEN mem_ \cup {Entry(w.ups[i]) : i \in DOMAIN w.ups} ELSE mem_
           /\ bg_error_' = (bg_error_ \/ w.outcome = "syncfail")
           /\ vs' = [vs EXCEPT !.last_sequence = @ + Len(w.ups)]
           /\ writers_' = SubSeq(writers_, w.group + 1, Len(writers_))
           /\ thr' = [u \in Threads |->
                         IF u = t THEN Idle
                         ELSE IF u \in inGroup THEN Returned(thr[u], ok) ELSE thr[u]]
           /\ store' = store \o [i \in DOMAIN pending |-> [pending[i] EXCEPT !.ok = ok]]
    /\ pending' = << >>
    /\ UNCHANGED << disk, up, shutting_down_, imm_, logfile_number_, pending_outputs_,
                    snapshots_, bg, compact, manual_compaction_, used >>
    /\ Observe

\* A NULL batch at the head of the queue forces the memtable out.
ForceSwitch(t) ==
    /\ MayProceed(t)
    /\ thr[t].batch = NoBatch
    /\ LET a == AfterSwitch(TRUE)
       IN  /\ mem_' = a.mem /\ imm_' = a.imm /\ logfile_number_' = a.log
           /\ vs' = a.vs /\ logs' = a.logs
           /\ MaybeScheduleCompaction(a.imm, manual_compaction_, a.vs, bg_error_)
    /\ Dequeue(t, TRUE)
    /\ UNCHANGED << tables, manifests, CURRENT, up, shutting_down_, pending_outputs_,
                    snapshots_, bg_error_, compact, manual_compaction_, ghosts, used >>
    /\ Observe

-----------------------------------------------------------------------------
(* Reads and snapshots *)

\* Get and NewIterator take references under the lock.  answer is what the
\* database holds for the key at that moment.
ReadStart(t, key, seq) ==
    /\ up /\ ~shutting_down_ /\ thr[t].pc = "idle"
    /\ Spend
    /\ thr' = [thr EXCEPT ![t] = [pc |-> "read", key |-> key, seq |-> seq, mem |-> mem_,
                                  imm |-> imm_, version |-> vs.current,
                                  answer |-> ViewAt(seq)[key]]]
    /\ UNCHANGED << disk, up, shutting_down_, memory, vs, pending_outputs_, snapshots_,
                    bg_error_, bg, compact, manual_compaction_, writers_, ghosts >>
    /\ Observe

\* What the reader finds, with the memtables and the version it references,
\* and the file it charges for a search that went past the memtables.
ReadResult(r) == Value(Search(r.mem, r.imm, r.version, tables, r.key, r.seq))
ReadSeek(r) == IF SeekEntry(r.mem \cup UNION r.imm, r.key, r.seq) # {} THEN {}
               ELSE GetSeek(r.version, tables, r.key, r.seq)

\* Version::UpdateStats on the reader's version: the charged file may become
\* the file to compact, which matters when the version is still current.
UpdateStats(v, seek) ==
    LET charged == {s \in seek : s.file.number \in DOMAIN vs.seeks}
        seeks == [n \in DOMAIN vs.seeks |->
                     IF \E s \in charged : s.file.number = n
                     THEN vs.seeks[n] - 1 ELSE vs.seeks[n]]
        hot == {s \in charged : seeks[s.file.number] <= 0}
    IN  [vs EXCEPT !.seeks = seeks,
                   !.file_to_compact = IF v = vs.current /\ @ = {} THEN hot ELSE @]

\* A file that has just become the file to compact schedules a compaction.
ScheduleIfHot == IF vs'.file_to_compact # vs.file_to_compact
                 THEN MaybeScheduleCompaction(imm_, manual_compaction_, vs', bg_error_)
                 ELSE UNCHANGED bg

\* The read ends: under the lock again, the seek is charged and the
\* references are dropped.
ReadDone(t) ==
    /\ thr[t].pc = "read"
    /\ vs' = UpdateStats(thr[t].version, ReadSeek(thr[t]))
    /\ ScheduleIfHot
    /\ thr' = [thr EXCEPT ![t] = Idle]
    /\ UNCHANGED << disk, up, shutting_down_, memory, pending_outputs_, snapshots_,
                    bg_error_, compact, manual_compaction_, writers_, ghosts, used >>
    /\ Observe

\* An iterator samples a key it reads: the first of two files of the current
\* version, which may not be the iterator's, that may hold the key is charged.
RecordReadSample(t) ==
    /\ thr[t].pc = "read" /\ ~shutting_down_
    /\ SampleSeek(vs.current, thr[t].key, thr[t].seq) # {}
    /\ Spend
    /\ vs' = UpdateStats(vs.current, SampleSeek(vs.current, thr[t].key, thr[t].seq))
    /\ ScheduleIfHot
    /\ UNCHANGED << disk, up, shutting_down_, memory, pending_outputs_, snapshots_,
                    bg_error_, compact, manual_compaction_, writers_, thr, ghosts >>
    /\ Observe

GetSnapshot ==
    /\ up /\ ~shutting_down_
    /\ Spend
    /\ snapshots_' = Append(snapshots_, vs.last_sequence)
    /\ UNCHANGED << disk, up, shutting_down_, memory, vs, pending_outputs_, bg_error_,
                    bg, compact, manual_compaction_, writers_, thr, ghosts >>
    /\ Observe

ReleaseSnapshot(i) ==
    /\ up
    /\ snapshots_' = SubSeq(snapshots_, 1, i - 1)
                         \o SubSeq(snapshots_, i + 1, Len(snapshots_))
    /\ UNCHANGED << disk, up, shutting_down_, memory, vs, pending_outputs_, bg_error_,
                    bg, compact, manual_compaction_, writers_, thr, ghosts, used >>
    /\ Observe

\* GetApproximateSizes: the sizes of ranges << start, limit >>, on the version
\* that is current.
GetApproximateSizes(ranges) ==
    LET offset == [key \in UNION {{r[1], r[2]} : r \in ranges} |->
                      VersionOffsetOf(vs.current, tables, LookupKey(key, kMaxSequenceNumber))]
    IN  [r \in ranges |-> IF offset[r[2]] >= offset[r[1]] THEN offset[r[2]] - offset[r[1]] ELSE 0]

-----------------------------------------------------------------------------
(* Manual compaction *)

\* CompactRange looks for the deepest level with files in the range and then
\* queues a NULL batch (TEST_CompactMemTable).
CompactRange(t, range) ==
    /\ up /\ ~shutting_down_ /\ thr[t].pc = "idle"
    /\ Spend
    /\ LET deep == {1} \cup {l \in Levels \ {0} :
                                OverlapInLevel(vs.current, l, range[1], range[2])}
       IN  thr' = [thr EXCEPT ![t] =
                      [pc |-> "write", batch |-> NoBatch, sync |-> FALSE, delay |-> FALSE,
                       id |-> 0, range |-> range,
                       max_level |-> CHOOSE l \in deep : \A m \in deep : m <= l]]
    /\ writers_' = Append(writers_, t)
    /\ UNCHANGED << disk, up, shutting_down_, memory, vs, pending_outputs_, snapshots_,
                    bg_error_, bg, compact, manual_compaction_, ghosts >>
    /\ Observe

\* TEST_CompactMemTable's wait ends.
MemTableCompacted(t) ==
    /\ thr[t].pc = "waitimm"
    /\ imm_ = {} \/ bg_error_
    /\ thr' = [thr EXCEPT ![t] = Manual(@, 0)]
    /\ UNCHANGED << disk, up, shutting_down_, memory, vs, pending_outputs_, snapshots_,
                    bg_error_, bg, compact, manual_compaction_, writers_, ghosts, used >>
    /\ Observe

\* TEST_CompactRange finds no manual compaction under way and registers its own.
ManualStart(t) ==
    /\ thr[t].pc = "manual"
    /\ ~thr[t].done /\ ~shutting_down_ /\ ~bg_error_
    /\ manual_compaction_ = NoThread
    /\ manual_compaction_' = t
    /\ MaybeScheduleCompaction(imm_, t, vs, bg_error_)
    /\ UNCHANGED << disk, up, shutting_down_, memory, vs, pending_outputs_, snapshots_,
                    bg_error_, compact, writers_, thr, ghosts, used >>
    /\ Observe

\* Its wait ends, done or aborted: CompactRange goes to the next level.
ManualEnd(t) ==
    /\ thr[t].pc = "manual"
    /\ thr[t].done \/ shutting_down_ \/ bg_error_
    /\ manual_compaction_' = IF manual_compaction_ = t THEN NoThread ELSE manual_compaction_
    /\ thr' = [thr EXCEPT ![t] = IF @.level + 1 < @.max_level THEN Manual(@, @.level + 1)
                                 ELSE Idle]
    /\ UNCHANGED << disk, up, shutting_down_, memory, vs, pending_outputs_, snapshots_,
                    bg_error_, bg, compact, writers_, ghosts, used >>
    /\ Observe

-----------------------------------------------------------------------------
(* The background thread *)

\* The end of BackgroundCall: reschedule if there is more to do.
Finish(imm, manual, s, err) ==
    bg' = [pc |-> IF Scheduled(imm, manual, s, err) THEN "scheduled" ELSE "idle"]

\* VersionSet::LogAndApply completes an edit under the lock.
Edit(change, log_number, pointer, s) ==
    [change |-> change, log_number |-> log_number, next_file |-> s.next_file_number,
     last_sequence |-> s.last_sequence, pointer |-> pointer]

\* BackgroundCall finds the database closing or broken.
BackgroundSkipped ==
    /\ bg.pc = "scheduled"
    /\ shutting_down_ \/ bg_error_
    /\ Finish(imm_, manual_compaction_, vs, bg_error_)
    /\ UNCHANGED << disk, up, shutting_down_, memory, vs, pending_outputs_, snapshots_,
                    bg_error_, compact, manual_compaction_, writers_, thr, ghosts, used >>
    /\ Observe

\* CompactMemTable starts, from BackgroundCompaction or between two keys of
\* DoCompactionWork: WriteLevel0Table takes a file number and unlocks.
FlushStart ==
    /\ imm_ # {}
    /\ \/ bg.pc = "scheduled" /\ ~shutting_down_ /\ ~bg_error_
       \/ bg.pc = "work" /\ ~shutting_down_
              /\ \E c \in compact : c.outs # << >> \/ c.outputs = << >>
    /\ bg' = [pc |-> "flush", number |-> vs.next_file_number]
    /\ pending_outputs_' = pending_outputs_ \cup {vs.next_file_number}
    /\ vs' = [vs EXCEPT !.next_file_number = @ + 1]
    /\ UNCHANGED << disk, up, shutting_down_, memory, snapshots_, bg_error_, compact,
                    manual_compaction_, writers_, thr, ghosts, used >>
    /\ Observe

WithTable(number, entries) ==
    [n \in DOMAIN tables \cup {number} |-> IF n = number THEN entries ELSE tables[n]]

\* The table is built; under the lock its level is chosen and LogAndApply
\* begins.  An empty memtable makes no file.
FlushBuilt ==
    /\ bg.pc = "flush"
    /\ ~shutting_down_
    /\ LET entries == UNION imm_
           meta  == TableMeta(bg.number, entries)
           level == PickLevelForMemTableOutput(vs.current, meta.smallest.key, meta.largest.key)
           added == IF entries = {} THEN {} ELSE {<< level, meta >>}
       IN  /\ tables' = IF entries = {} THEN tables ELSE WithTable(bg.number, entries)
           /\ bg' = [pc |-> "log", kind |-> "flush",
                     edit |-> Edit([added |-> added, deleted |-> {}], logfile_number_, {}, vs)]
    /\ pending_outputs_' = pending_outputs_ \ {bg.number}
    /\ UNCHANGED << logs, manifests, CURRENT, up, shutting_down_, memory, vs, snapshots_,
                    bg_error_, compact, manual_compaction_, writers_, thr, ghosts, used >>
    /\ Observe

\* BuildTable fails and removes its file, or the database is closing.
FlushFails ==
    /\ bg.pc = "flush"
    /\ IF shutting_down_ THEN UNCHANGED used ELSE Fault
    /\ pending_outputs_' = pending_outputs_ \ {bg.number}
    /\ bg_error_' = TRUE
    /\ IF compact # {} THEN bg' = [pc |-> "work"]
       ELSE Finish(imm_, manual_compaction_, vs, TRUE)
    /\ UNCHANGED << disk, up, shutting_down_, memory, vs, snapshots_, compact,
                    manual_compaction_, writers_, thr, ghosts >>
    /\ Observe

\* BackgroundCompaction without an immutable memtable: the manual compaction,
\* or the one the version set picks.
Picked == IF manual_compaction_ # NoThread
          THEN LET m == thr[manual_compaction_]
               IN  CompactRangePick(vs.current, m.level, m.begin, m.range[2])
          ELSE PickCompaction(vs.current, vs.compact_pointer, vs.file_to_compact)

MayCompact == bg.pc = "scheduled" /\ ~shutting_down_ /\ ~bg_error_ /\ imm_ = {}

NothingToCompact ==
    /\ MayCompact
    /\ Picked = {}
    /\ thr' = IF manual_compaction_ = NoThread THEN thr
              ELSE [thr EXCEPT ![manual_compaction_].done = TRUE]
    /\ manual_compaction_' = NoThread
    /\ Finish(imm_, NoThread, vs, bg_error_)
    /\ UNCHANGED << disk, up, shutting_down_, memory, vs, pending_outputs_, snapshots_,
                    bg_error_, compact, writers_, ghosts, used >>
    /\ Observe

\* The entries a compaction merges.
InputEntries(c) == UNION {tables[f.number] : f \in FilesOf(c.inputs[1]) \cup FilesOf(c.inputs[2])}

\* A compaction starts: one file is moved down, or DoCompactionWork takes the
\* oldest snapshot and unlocks.  What it will write is settled by its inputs,
\* which it holds references to: outs are the files to come.
CompactionStart ==
    /\ MayCompact
    /\ \E c \in Picked :
          LET manual == manual_compaction_ # NoThread
              smallest_snapshot == IF snapshots_ = << >> THEN vs.last_sequence
                                   ELSE Head(snapshots_)
              move == ~manual /\ IsTrivialMove(c)
              s == [vs EXCEPT !.compact_pointer[c.level] = {c.pointer}]
          IN  /\ vs' = s
              /\ compact' = {[level |-> c.level, inputs |-> c.inputs, pointer |-> c.pointer,
                              input_version |-> c.input_version, manual |-> manual,
                              outs |-> IF move THEN << >>
                                       ELSE CompactionOutputs(c, InputEntries(c),
                                                              smallest_snapshot),
                              outputs |-> << >>]}
              /\ bg' = IF move
                       THEN [pc |-> "log", kind |-> "move",
                             edit |-> Edit(MoveEdit(c), vs.log_number,
                                           {<< c.level, c.pointer >>}, s)]
                       ELSE [pc |-> "work"]
    /\ UNCHANGED << disk, up, shutting_down_, memory, pending_outputs_, snapshots_,
                    bg_error_, manual_compaction_, writers_, thr, ghosts, used >>
    /\ Observe

\* OpenCompactionOutputFile .. FinishCompactionOutputFile for the next output.
CompactionOutput ==
    /\ bg.pc = "work" /\ ~shutting_down_
    /\ \E c \in compact :
          /\ c.outs # << >>
          /\ tables' = WithTable(vs.next_file_number, Head(c.outs))
          /\ compact' = {[c EXCEPT !.outs = Tail(@),
                                   !.outputs = Append(@, TableMeta(vs.next_file_number,
                                                                   Head(c.outs)))]}
    /\ pending_outputs_' = pending_outputs_ \cup {vs.next_file_number}
    /\ vs' = [vs EXCEPT !.next_file_number = @ + 1]
    /\ UNCHANGED << logs, manifests, CURRENT, up, shutting_down_, memory, snapshots_,
                    bg_error_, bg, manual_compaction_, writers_, thr, ghosts, used >>
    /\ Observe

\* InstallCompactionResults.
CompactionInstall ==
    /\ bg.pc = "work" /\ ~shutting_down_
    /\ \E c \in compact :
          /\ c.outs = << >>
          /\ bg' = [pc |-> "log", kind |-> "compact",
                    edit |-> Edit([added |-> {<< c.level + 1, f >> : f \in FilesOf(c.outputs)},
                                   deleted |-> InputDeletions(c)],
                                  vs.log_number, {<< c.level, c.pointer >>}, vs)]
    /\ UNCHANGED << disk, up, shutting_down_, memory, vs, pending_outputs_, snapshots_,
                    bg_error_, compact, manual_compaction_, writers_, thr, ghosts, used >>
    /\ Observe

\* The end of BackgroundCompaction for a compaction with this status: outputs
\* are no longer pending, inputs are released, obsolete files deleted and the
\* manual compaction told.
CompactionEnds(c, ok, err, s) ==
    LET outputs == pending_outputs_ \ {f.number : f \in FilesOf(c.outputs)}
        inputs  == c.inputs[1]
    IN  /\ pending_outputs_' = outputs
        /\ compact' = {}
        /\ DeleteObsoleteFiles(s, outputs, {}, err, tables)
        /\ UNCHANGED CURRENT
        /\ thr' = IF ~c.manual THEN thr
                  ELSE IF ok THEN [thr EXCEPT ![manual_compaction_].begin =
                                       inputs[Len(inputs)].largest.key]
                  ELSE [thr EXCEPT ![manual_compaction_].done = TRUE]
        /\ manual_compaction_' = IF c.manual THEN NoThread ELSE manual_compaction_
        /\ Finish(imm_, manual_compaction_', s, err)

\* BackgroundCompaction updates the manual compaction it ran through
\* manual_compaction_, which the thread that waited for it may have reset.
ManualGone(c) == c.manual /\ manual_compaction_ = NoThread

\* DoCompactionWork gives up: an output cannot be written, or the database is
\* closing.
CompactionFails ==
    /\ bg.pc = "work"
    /\ \E c \in compact :
          /\ ~ManualGone(c)
          /\ shutting_down_ \/ c.outs # << >>
          /\ IF shutting_down_ THEN UNCHANGED used ELSE Fault
          /\ bg_error_' = TRUE
          /\ CompactionEnds(c, FALSE, TRUE, vs)
    /\ UNCHANGED << up, shutting_down_, memory, vs, snapshots_, writers_, ghosts >>
    /\ Observe

\* LogAndApply, unlocked: the edit goes to the descriptor log and is synced.
\* On failure the record may be in the file or not.
Logged(m, edit) ==
    [files |-> ApplyEdit(m.files, edit.change), log_number |-> edit.log_number,
     next_file |-> edit.next_file, last_sequence |-> edit.last_sequence,
     compact_pointer |-> [l \in Levels |->
                             IF \E p \in edit.pointer : p[1] = l
                             THEN {p[2] : p \in edit.pointer} ELSE m.compact_pointer[l]]]
WriteManifest(ok, present) ==
    /\ bg.pc = "log"
    /\ ok => present
    /\ IF ok THEN UNCHANGED used ELSE Fault
    /\ manifests' = IF present
                    THEN [manifests EXCEPT ![vs.manifest_file_number] = Logged(@, bg.edit)]
                    ELSE manifests
    /\ bg' = [pc |-> "install", kind |-> bg.kind, edit |-> bg.edit, ok |-> ok]
    /\ UNCHANGED << tables, logs, CURRENT, up, shutting_down_, memory, vs, pending_outputs_,
                    snapshots_, bg_error_, compact, manual_compaction_, writers_, thr, ghosts >>
    /\ Observe

\* LogAndApply installs the version under the lock again (AppendVersion).
Installed(edit) ==
    LET v == ApplyEdit(vs.current, edit.change)
        new == {a[2].number : a \in edit.change.added}
    IN  [vs EXCEPT !.current = v, !.log_number = edit.log_number,
                   !.file_to_compact = {},
                   !.seeks = [n \in Numbers(v) |->
                                 IF n \in new THEN allowed_seeks ELSE vs.seeks[n]]]

InstallFlush ==
    /\ bg.pc = "install" /\ bg.kind = "flush"
    /\ vs' = IF bg.ok THEN Installed(bg.edit) ELSE vs
    /\ imm_' = IF bg.ok THEN {} ELSE imm_
    /\ bg_error_' = (bg_error_ \/ ~bg.ok)
    /\ DeleteObsoleteFiles(vs', pending_outputs_, compact, bg_error_', tables)
    /\ IF compact # {} THEN bg' = [pc |-> "work"]
       ELSE Finish(imm_', manual_compaction_, vs', bg_error_')
    /\ UNCHANGED << CURRENT, up, shutting_down_, mem_, logfile_number_, pending_outputs_,
                    snapshots_, compact, manual_compaction_, writers_, thr, ghosts, used >>
    /\ Observe

InstallMove ==
    /\ bg.pc = "install" /\ bg.kind = "move"
    /\ vs' = IF bg.ok THEN Installed(bg.edit) ELSE vs
    /\ bg_error_' = (bg_error_ \/ ~bg.ok)
    /\ compact' = {}
    /\ Finish(imm_, manual_compaction_, vs', bg_error_')
    /\ UNCHANGED << disk, up, shutting_down_, memory, pending_outputs_, snapshots_,
                    manual_compaction_, writers_, thr, ghosts, used >>
    /\ Observe

InstallCompaction ==
    /\ bg.pc = "install" /\ bg.kind = "compact"
    /\ vs' = IF bg.ok THEN Installed(bg.edit) ELSE vs
    /\ bg_error_' = (bg_error_ \/ ~bg.ok)
    /\ \E c \in compact : ~ManualGone(c) /\ CompactionEnds(c, bg.ok, bg_error_', vs')
    /\ UNCHANGED << up, shutting_down_, memory, snapshots_, writers_, ghosts, used >>
    /\ Observe

-----------------------------------------------------------------------------
(* The end of a process, and Open *)

\* The writes that an Open after the end of the process still finds: those in
\* a readable record of a live log, and those acknowledged ones that are in no
\* live log any more because their memtable was flushed.
Survivors(newlogs) ==
    LET live == IF CURRENT = 0 THEN {} ELSE LiveLogs(manifests[CURRENT].log_number)
        Seqs(recs) == {e.seq : e \in Records(recs)}
        logged   == UNION {Seqs(logs[n].recs) : n \in live}
        readable == UNION {Seqs(Readable(newlogs[n])) : n \in live}
        all == store \o pending
        kept == SelectSeq(all, LAMBDA w : \/ w.seq \in readable
                                          \/ w.ok /\ w.seq \notin logged)
    IN  [i \in DOMAIN kept |-> [kept[i] EXCEPT !.ok = TRUE]]

\* The process is gone, with everything it held in memory.
Down(newlogs) ==
    /\ store' = Survivors(newlogs)
    /\ pending' = << >>
    /\ logs' = newlogs
    /\ up' = FALSE /\ shutting_down_' = FALSE
    /\ mem_' = {} /\ imm_' = {} /\ logfile_number_' = 0
    /\ vs' = NoVersionSet
    /\ pending_outputs_' = {} /\ snapshots_' = << >>
    /\ bg_error_' = FALSE /\ bg' = [pc |-> "idle"] /\ compact' = {}
    /\ manual_compaction_' = NoThread
    /\ writers_' = << >> /\ thr' = [t \in Threads |-> Idle]
    /\ UNCHANGED << tables, manifests, CURRENT >>
    /\ Observe

\* The process dies; the operating system keeps what was written.
Kill == up /\ Spend /\ Down(logs)

\* The machine stops: each log keeps its synced records and perhaps more.
\* Tables and descriptors are synced before they are used.
Crash ==
    /\ up
    /\ Spend
    /\ \E cut \in [DOMAIN logs -> 0 .. used.writes] :
          /\ \A n \in DOMAIN logs : logs[n].synced <= cut[n] /\ cut[n] <= Len(logs[n].recs)
          /\ Down([n \in DOMAIN logs |->
                      [recs |-> SubSeq(logs[n].recs, 1, cut[n]), synced |-> cut[n]]])

\* The background thread follows the pointer its manual compaction lost: the
\* process dies.
NullManual ==
    /\ \E c \in compact : ManualGone(c)
    /\ \/ bg.pc = "work" /\ shutting_down_
       \/ bg.pc = "install" /\ bg.kind = "compact"
    /\ UNCHANGED used
    /\ Down(logs)

\* ~DBImpl, called when no operation is in progress, waits for the background
\* thread.
Close ==
    /\ up /\ ~shutting_down_ /\ snapshots_ = << >>
    /\ \A t \in Threads : thr[t].pc = "idle"
    /\ Spend
    /\ shutting_down_' = TRUE
    /\ UNCHANGED << disk, up, memory, vs, pending_outputs_, snapshots_, bg_error_, bg,
                    compact, manual_compaction_, writers_, thr, ghosts >>
    /\ Observe
Closed == /\ up /\ shutting_down_ /\ bg.pc = "idle"
          /\ UNCHANGED used
          /\ Down(logs)

\* NewDB: the first descriptor and CURRENT.
NewManifest == [files |-> EmptyVersion, log_number |-> 0, next_file |-> 2,
                last_sequence |-> 0, compact_pointer |-> [l \in Levels |-> {}]]
NewDB ==
    /\ ~up /\ CURRENT = 0
    /\ manifests' = [n \in {1} |-> NewManifest]
    /\ CURRENT' = 1
    /\ UNCHANGED << tables, logs, up, shutting_down_, memory, vs, pending_outputs_,
                    snapshots_, bg_error_, bg, compact, manual_compaction_, writers_, thr,
                    ghosts, used >>
    /\ Observe

\* The numbers in increasing order.
Ascending(S) == [i \in 1 .. Cardinality(S) |->
                    CHOOSE n \in S : Cardinality({m \in S : m < n}) = i - 1]

\* RecoverLogFile: a log's records go to memtables, each flushed to level 0
\* when it is full and at the end.
ReplayedTables(log) ==
    LET recs == Readable(log)
        after[i \in 0 .. Len(recs)] ==
            IF i = 0 THEN [done |-> << >>, mem |-> {}]
            ELSE LET mem == after[i - 1].mem \cup recs[i]
                 IN  IF Cardinality(mem) > WriteBuffer
                     THEN [done |-> Append(after[i - 1].done, mem), mem |-> {}]
                     ELSE [done |-> after[i - 1].done, mem |-> mem]
        end == after[Len(recs)]
    IN  IF end.mem = {} THEN end.done ELSE Append(end.done, end.mem)

\* DBImpl::Recover replays the live logs in order: the tables written, and the
\* next file number, past every log seen (MarkFileNumberUsed).
Replay(m) ==
    LET order == Ascending(LiveLogs(m.log_number))
        Next2(a, b) == IF a > b THEN a ELSE b
        after[i \in 0 .. Len(order)] ==
            IF i = 0 THEN [tabs |-> << >>, next |-> m.next_file + 1]
            ELSE LET new == ReplayedTables(logs[order[i]])
                     at  == after[i - 1].next
                 IN  [tabs |-> after[i - 1].tabs
                                   \o [j \in DOMAIN new |-> << at + j - 1, new[j] >>],
                      next |-> Next2(at + Len(new), order[i] + 1)]
    IN  after[Len(order)]

\* Recover finds every table of the version, by number, among the files.
NoMissingFiles(m) ==
    Numbers(m.files) \subseteq DOMAIN tables \cup DOMAIN logs \cup DOMAIN manifests

\* The edit of DB::Open and the descriptor it leads to: the replayed tables in
\* level 0, a new log, and the largest sequence number seen.
RecoveryEdit(m, r) ==
    LET seqs == {m.last_sequence} \cup UNION {{e.seq : e \in x[2]} : x \in FilesOf(r.tabs)}
    IN  [change |-> [added   |-> {<< 0, TableMeta(x[1], x[2]) >> : x \in FilesOf(r.tabs)},
                     deleted |-> {}],
         log_number |-> r.next, next_file |-> r.next + 1,
         last_sequence |-> CHOOSE q \in seqs : \A p \in seqs : p <= q,
         pointer |-> {}]

\* f with the pairs of g added or replaced.
Over(f, g) == [n \in DOMAIN f \cup DOMAIN g |-> IF n \in DOMAIN g THEN g[n] ELSE f[n]]
Single(n, x) == [k \in {n} |-> x]
ReplayedFiles(r) == [n \in {x[1] : x \in FilesOf(r.tabs)} |->
                        (CHOOSE x \in FilesOf(r.tabs) : x[1] = n)[2]]

\* DB::Open: recovery writes the tables and the new log, then a new descriptor
\* with CURRENT pointing to it, then removes obsolete files.  number and new
\* are the new descriptor, r the replayed logs.
OpenDies(number, new, r) ==
    /\ Spend
    /\ tables' = Over(tables, ReplayedFiles(r))
    /\ logs' = Over(logs, Single(r.next, EmptyLog))
    /\ \/ UNCHANGED << manifests, CURRENT >>
       \/ manifests' = Over(manifests, Single(number, new)) /\ CURRENT' = number
    /\ UNCHANGED << up, memory, vs, bg >>

OpenDone(number, new, r) ==
    /\ up' = TRUE
    /\ vs' = [NoVersionSet EXCEPT
                 !.current = new.files, !.next_file_number = new.next_file,
                 !.last_sequence = new.last_sequence, !.log_number = new.log_number,
                 !.manifest_file_number = number, !.compact_pointer = new.compact_pointer,
                 !.seeks = [n \in Numbers(new.files) |-> allowed_seeks]]
    /\ mem_' = {} /\ imm_' = {} /\ logfile_number_' = new.log_number
    /\ CURRENT' = number
    /\ LET tabs == Over(tables, ReplayedFiles(r))
       IN  tables' = [n \in Numbers(new.files) |-> tabs[n]]
    /\ logs' = Single(new.log_number, EmptyLog)
    /\ manifests' = [n \in {k \in DOMAIN manifests : k > number} \cup {number} |->
                        IF n = number THEN new ELSE manifests[n]]
    /\ MaybeScheduleCompaction({}, NoThread, vs', FALSE)
    /\ UNCHANGED used

Open ==
    /\ ~up /\ CURRENT # 0
    /\ \E m \in {manifests[CURRENT]} :
          /\ NoMissingFiles(m)
          /\ \E r \in {Replay(m)} : \E new \in {Logged(m, RecoveryEdit(m, r))} :
                OpenDies(m.next_file, new, r) \/ OpenDone(m.next_file, new, r)
    /\ UNCHANGED << shutting_down_, pending_outputs_, snapshots_, bg_error_, compact,
                    manual_compaction_, writers_, thr, ghosts >>
    /\ Observe

\* Nothing more happens: every bound is used up and nobody waits.
Quiet == /\ up /\ bg.pc = "idle" /\ ~shutting_down_
         /\ \A t \in Threads : thr[t].pc = "idle"
         /\ UNCHANGED << disk, up, shutting_down_, memory, vs, pending_outputs_, snapshots_,
                         bg_error_, bg, compact, manual_compaction_, writers_, thr, ghosts,
                         used >>
         /\ Observe

-----------------------------------------------------------------------------
Init ==
    /\ tables = << >> /\ logs = << >> /\ manifests = << >> /\ CURRENT = 0
    /\ up = FALSE /\ shutting_down_ = FALSE
    /\ mem_ = {} /\ imm_ = {} /\ logfile_number_ = 0
    /\ vs = NoVersionSet
    /\ pending_outputs_ = {} /\ snapshots_ = << >>
    /\ bg_error_ = FALSE /\ bg = [pc |-> "idle"] /\ compact = {}
    /\ manual_compaction_ = NoThread
    /\ writers_ = << >> /\ thr = [t \in Threads |-> Idle]
    /\ store = << >> /\ pending = << >>
    /\ view = [k \in Keys |-> NULL] /\ snaps = << >>
    /\ used = [writes |-> 0, events |-> 0]

Client(t) ==
    \/ \E r \in Requests : Write(t, r.batch, r.sync)
    \/ WriteRefused(t) \/ WriteDelayed(t) \/ SwitchFails(t)
    \/ \E o \in Outcomes : WriteGroup(t, o)
    \/ WriteDone(t) \/ ForceSwitch(t)
    \/ \E k \in ReadKeys, i \in 0 .. Len(snapshots_) :
           ReadStart(t, k, IF i = 0 THEN vs.last_sequence ELSE snapshots_[i])
    \/ ReadDone(t) \/ RecordReadSample(t)
    \/ \E r \in Ranges : CompactRange(t, r)
    \/ MemTableCompacted(t) \/ ManualStart(t) \/ ManualEnd(t)

Background ==
    \/ BackgroundSkipped \/ FlushStart \/ FlushBuilt \/ FlushFails
    \/ NothingToCompact \/ CompactionStart \/ CompactionOutput \/ CompactionInstall
    \/ CompactionFails
    \/ \E ok, present \in BOOLEAN : WriteManifest(ok, present)
    \/ InstallFlush \/ InstallMove \/ InstallCompaction \/ NullManual

Environment ==
    \/ GetSnapshot \/ (\E i \in DOMAIN snapshots_ : ReleaseSnapshot(i))
    \/ Kill \/ Crash \/ Close \/ Closed \/ NewDB \/ Open

Next == (\E t \in Threads : Client(t)) \/ Background \/ Environment \/ Quiet

Spec == Init /\ [][Next]_vars

-----------------------------------------------------------------------------
(* Properties *)

\* The types of the variables; CURRENT names a descriptor that exists, and a
\* process that runs logs to a file that exists, under a number it has used up.
TypeOK ==
    /\ \A n \in DOMAIN tables : tables[n] # {}
    /\ \A n \in DOMAIN logs : logs[n].synced \in 0 .. Len(logs[n].recs)
    /\ CURRENT = 0 \/ CURRENT \in DOMAIN manifests
    /\ up => /\ logfile_number_ \in DOMAIN logs
             /\ CURRENT = vs.manifest_file_number
             /\ vs.next_file_number > logfile_number_
    /\ Cardinality(imm_) <= 1 /\ Cardinality(compact) <= 1
    /\ bg.pc \in {"idle", "scheduled", "flush", "work", "log", "install"}
    /\ \A t \in Threads : thr[t].pc \in {"idle", "write", "logged", "read", "waitimm", "manual"}

\* The table files that Recover will look for are there at every moment a
\* process may die, whatever was flushed, compacted, deleted or failed half way.
RecoverableFiles ==
    CURRENT # 0 => LET m == manifests[CURRENT]
                   IN  \A f \in AllFiles(m.files) :
                           /\ f.number \in DOMAIN tables
                           /\ TableMeta(f.number, tables[f.number]) = f

\* What SaveTo asserts of every level but the first: its files are sorted and
\* do not overlap.
Disjoint(v) ==
    \A l \in Levels \ {0} : \A i \in 1 .. Len(v[l]) - 1 :
        ILess(v[l][i].largest, v[l][i + 1].smallest)
LevelsDisjoint == up => Disjoint(vs.current)

\* "Entries never hop across levels" (version_set.cc): for each user key, what
\* is in the memtable is newer than what is in the immutable one, that newer
\* than level 0, a level-0 file newer than those with smaller numbers, and each
\* level newer than the next, so that the first entry a lookup meets is right.
NewerEverywhere(S, T) == \A a \in S, b \in T : a.key = b.key => a.seq > b.seq
InLevel(l) == UNION {tables[f.number] : f \in FilesOf(vs.current[l])}
NewestOnTop ==
    up =>
    /\ NewerEverywhere(mem_, UNION imm_)
    /\ \A l \in Levels : NewerEverywhere(mem_, InLevel(l)) /\ NewerEverywhere(UNION imm_, InLevel(l))
    /\ \A f, g \in FilesOf(vs.current[0]) :
           f.number > g.number => NewerEverywhere(tables[f.number], tables[g.number])
    /\ \A l, m \in Levels : l < m => NewerEverywhere(InLevel(l), InLevel(m))

\* A read in progress finds what the database held when it began, although
\* memtables are switched, files compacted away and versions replaced under it.
ReadsStable ==
    \A t \in Threads : thr[t].pc = "read" =>
        /\ Numbers(thr[t].version) \subseteq DOMAIN tables
        /\ ReadResult(thr[t]) = thr[t].answer

\* The sizes of the ranges between keys are those of the entries the table files
\* hold for them, files that overlap in level 0, a file that spans a bound and
\* older versions of a key in deeper levels included; a size never wraps below 0.
SizesExact ==
    up /\ AllFiles(vs.current) # {} =>
        \E sizes \in {GetApproximateSizes((Keys \cup {NULL}) \X (Keys \cup {Cardinality(Keys) + 1}))},
           held \in {UNION {{<< n, e >> : e \in tables[n]} : n \in Numbers(vs.current)}} :
        \A r \in DOMAIN sizes :
            sizes[r] = Cardinality({h \in held : r[1] <= h[2].key /\ h[2].key < r[2]})

\* The database implements the map with snapshots that its interface promises.
Promise == INSTANCE KVStore
ImplementsKVStore == Promise!Spec

\* The files of the current version are what lookups, compactions and sizes take
\* them for, whichever flushes, compactions, crashes and errors led to it.
VersionsSound == TypeOK /\ LevelsDisjoint /\ NewestOnTop /\ SizesExact
=============================================================================
