------------------------------ MODULE EnvPosix ------------------------------
(***************************************************************************)
(* Two services of leveldb's posix environment (util/env_posix.cc): the    *)
(* background thread with its queue, and the lock on a database directory. *)
(*                                                                         *)
(* The queue is under mu_; a step is what a thread does while it holds the *)
(* mutex.  The lock file is guarded twice, by the lock table within a      *)
(* process and by a record lock of the kernel between processes; a record  *)
(* lock belongs to the process and is lost when the process closes any     *)
(* descriptor of the file.                                                 *)
(***************************************************************************)
EXTENDS Naturals, Sequences, FiniteSets

CONSTANTS
    Openers,         \* threads that open and close the database
    ProcessOf,       \* ProcessOf[t], the process of a thread
    NoProcess,
    Items,           \* bound on the items given to Schedule
    MaxOpens         \* bound on LockFile calls

VARIABLES
    queue_, started_bgthread_, bgthread, scheduled, ran,   \* the queue
    locked_files_,   \* processes whose lock table holds the file
    record_lock,     \* the process that the kernel gave the record lock
    opener, opens    \* the threads, and how often they called LockFile

queueVars == << queue_, started_bgthread_, bgthread, scheduled, ran >>
lockVars == << locked_files_, record_lock, opener, opens >>
envVars == << queueVars, lockVars >>

Processes == {ProcessOf[t] : t \in Openers}

-----------------------------------------------------------------------------
(* The background thread: "none", "lock" when it wants the mutex, "waiting" on   *)
(* the condition variable, or running item n.                                    *)

\* Mutant of Schedule: a waiting thread is not signalled.
ScheduleQuietly ==
    /\ scheduled < Items
    /\ started_bgthread_' = TRUE
    /\ bgthread' = IF started_bgthread_ THEN bgthread ELSE "lock"
    /\ queue_' = Append(queue_, scheduled + 1)
    /\ scheduled' = scheduled + 1
    /\ UNCHANGED << ran, lockVars >>

\* Schedule starts the thread, signals it if the queue is empty, and appends.
Schedule ==
    /\ scheduled < Items
    /\ started_bgthread_' = TRUE
    /\ bgthread' = IF ~started_bgthread_ \/ (queue_ = << >> /\ bgthread = "waiting")
                   THEN "lock" ELSE bgthread
    /\ queue_' = Append(queue_, scheduled + 1)
    /\ scheduled' = scheduled + 1
    /\ UNCHANGED << ran, lockVars >>

BGThreadWaits ==
    /\ bgthread = "lock" /\ queue_ = << >>
    /\ bgthread' = "waiting"
    /\ UNCHANGED << queue_, started_bgthread_, scheduled, ran, lockVars >>

BGThreadTakes ==
    /\ bgthread = "lock" /\ queue_ # << >>
    /\ bgthread' = "running"
    /\ ran' = Append(ran, Head(queue_))
    /\ queue_' = Tail(queue_)
    /\ UNCHANGED << started_bgthread_, scheduled, lockVars >>

BGThreadReturns ==
    /\ bgthread = "running"
    /\ bgthread' = "lock"
    /\ UNCHANGED << queue_, started_bgthread_, scheduled, ran, lockVars >>

-----------------------------------------------------------------------------
(* LockFile and UnlockFile, call by call *)

Goto(t, pc) == opener' = [opener EXCEPT ![t] = pc]

\* close(): the kernel forgets the record lock of the process.
CloseFd(p) == record_lock' = IF record_lock = p THEN NoProcess ELSE record_lock

LockFile(t) ==
    /\ opener[t] = "closed" /\ opens < MaxOpens
    /\ opens' = opens + 1
    /\ Goto(t, "opened")
    /\ UNCHANGED << locked_files_, record_lock, queueVars >>

\* locks_.Insert(fname)
LockTableInsert(t) ==
    /\ opener[t] = "opened"
    /\ IF ProcessOf[t] \in locked_files_
       THEN /\ CloseFd(ProcessOf[t]) /\ Goto(t, "closed") /\ UNCHANGED locked_files_
       ELSE /\ locked_files_' = locked_files_ \cup {ProcessOf[t]}
            /\ Goto(t, "inserted") /\ UNCHANGED record_lock
    /\ UNCHANGED << opens, queueVars >>

\* fcntl(F_SETLK): granted unless another process has it.
RecordLock(t) ==
    /\ opener[t] = "inserted"
    /\ IF record_lock \in {NoProcess, ProcessOf[t]}
       THEN /\ record_lock' = ProcessOf[t] /\ Goto(t, "locked")
       ELSE /\ Goto(t, "refused") /\ UNCHANGED record_lock
    /\ UNCHANGED << locked_files_, opens, queueVars >>

\* close(fd), then locks_.Remove(fname).
LockRefused(t) ==
    /\ opener[t] = "refused"
    /\ CloseFd(ProcessOf[t])
    /\ Goto(t, "removing")
    /\ UNCHANGED << locked_files_, opens, queueVars >>
LockRefusedRemove(t) ==
    /\ opener[t] = "removing"
    /\ locked_files_' = locked_files_ \ {ProcessOf[t]}
    /\ Goto(t, "closed")
    /\ UNCHANGED << record_lock, opens, queueVars >>

\* UnlockFile: fcntl(F_UNLCK), locks_.Remove(fname), close(fd).
UnlockFile(t) ==
    /\ opener[t] = "locked"
    /\ CloseFd(ProcessOf[t])
    /\ Goto(t, "unlocked")
    /\ UNCHANGED << locked_files_, opens, queueVars >>
UnlockRemove(t) ==
    /\ opener[t] = "unlocked"
    /\ locked_files_' = locked_files_ \ {ProcessOf[t]}
    /\ Goto(t, "closing")
    /\ UNCHANGED << record_lock, opens, queueVars >>
UnlockClose(t) ==
    /\ opener[t] = "closing"
    /\ CloseFd(ProcessOf[t])
    /\ Goto(t, "closed")
    /\ UNCHANGED << locked_files_, opens, queueVars >>

-----------------------------------------------------------------------------
EnvInit ==
    /\ queue_ = << >> /\ started_bgthread_ = FALSE /\ bgthread = "none"
    /\ scheduled = 0 /\ ran = << >>
    /\ locked_files_ = {} /\ record_lock = NoProcess
    /\ opener = [t \in Openers |-> "closed"] /\ opens = 0

BGThread == BGThreadWaits \/ BGThreadTakes \/ BGThreadReturns

EnvNext ==
    \/ Schedule \/ BGThread
    \/ \E t \in Openers :
          \/ LockFile(t) \/ LockTableInsert(t) \/ RecordLock(t) \/ LockRefused(t)
          \/ LockRefusedRemove(t) \/ UnlockFile(t) \/ UnlockRemove(t) \/ UnlockClose(t)

EnvSpec == EnvInit /\ [][EnvNext]_envVars

-----------------------------------------------------------------------------
(* Properties *)

\* Every item given to Schedule runs, in order and once: the signal that is
\* only sent when the queue was empty is never missed.
RunInOrder == ran \o queue_ = [i \in 1 .. scheduled |-> i]
EverythingRuns == \A i \in 1 .. Items : (scheduled >= i) ~> (Len(ran) >= i)

\* Within a process the lock table lets one thread at a time hold the lock.
OneHolderPerProcess ==
    \A t, u \in Openers :
        t # u /\ ProcessOf[t] = ProcessOf[u] => ~(opener[t] = "locked" /\ opener[u] = "locked")

\* What the database expects of its environment: background work runs, all of it
\* and in order, and one thread of a process holds the lock file.
EnvPromises == [](RunInOrder /\ OneHolderPerProcess) /\ EverythingRuns
=============================================================================
