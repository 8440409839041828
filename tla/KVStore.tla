------------------------------ MODULE KVStore ------------------------------
(***************************************************************************)
(* What leveldb promises its clients (include/leveldb/db.h, options.h),    *)
(* without files, memtables or threads: an atomic map with snapshots that  *)
(* survives a crash with every synchronous write in it.                    *)
(*                                                                         *)
(* store is the history of the writes, in the order of their sequence      *)
(* numbers.  A write that was reported as failed stays in the history with *)
(* ok = FALSE: readers do not see it, but "the log record we just added    *)
(* may or may not show up when the DB is re-opened" (db_impl.cc:1238).     *)
(***************************************************************************)
EXTENDS Integers, Sequences

CONSTANTS Keys, NULL

VARIABLES
    up,       \* the database is open
    store,    \* the writes: [key, val, seq, sync, ok, batch]
    pending,  \* the writes of the group being logged, not yet acknowledged
    view,     \* the contents a read without a snapshot returns; while the
              \* database is not open, what it will hold
    snaps     \* the contents each live snapshot returns

vars == << up, store, pending, view, snaps >>

\* The value of each key after the acknowledged writes of a history.
Contents(history) ==
    [k \in Keys |->
        LET ws == {i \in DOMAIN history : history[i].key = k /\ history[i].ok}
        IN  IF ws = {} THEN NULL
            ELSE history[CHOOSE i \in ws : \A j \in ws : j <= i].val]

Init == /\ up = FALSE
        /\ store = << >>
        /\ pending = << >>
        /\ view = [k \in Keys |-> NULL]
        /\ snaps = << >>

\* Opening the database loses nothing of what the last process left.
Open == /\ ~up /\ up'
        /\ UNCHANGED << store, pending, view, snaps >>

\* A group of writes is handed to the log.
Begin == /\ pending = << >>
         /\ pending' # << >>
         /\ UNCHANGED << up, store, view, snaps >>

\* The whole group becomes visible at once, or fails as a whole.
Commit == /\ pending # << >>
          /\ pending' = << >>
          /\ UNCHANGED up
          /\ \E ok \in BOOLEAN :
                 store' = store \o [i \in DOMAIN pending |-> [pending[i] EXCEPT !.ok = ok]]
          /\ view' = Contents(store')
          /\ UNCHANGED snaps

TakeSnapshot == /\ UNCHANGED << up, store, pending >>
                /\ Len(snaps') = Len(snaps) + 1
                /\ snaps' = Append(snaps, view)
                /\ UNCHANGED view

ReleaseSnapshot ==
    /\ UNCHANGED << up, store, pending >>
    /\ \E i \in DOMAIN snaps :
           snaps' = SubSeq(snaps, 1, i - 1) \o SubSeq(snaps, i + 1, Len(snaps))
    /\ UNCHANGED view

\* The process ends.  Snapshots go; of the history, and of the group in
\* flight, some batches may be gone and some failed ones may be back, but an
\* acknowledged synchronous write stays and no batch is torn apart.
Crash ==
    /\ up /\ ~up'
    /\ pending' = << >> /\ snaps' = << >>
    /\ \E keep \in SUBSET (DOMAIN (store \o pending)) :
          LET all == store \o pending
              kept[i \in 0 .. Len(all)] ==
                  IF i = 0 THEN << >>
                  ELSE IF i \in keep THEN Append(kept[i - 1], [all[i] EXCEPT !.ok = TRUE])
                       ELSE kept[i - 1]
          IN  /\ \A i \in DOMAIN store : store[i].sync /\ store[i].ok => i \in keep
              /\ \A i, j \in DOMAIN all :
                     all[i].batch = all[j].batch => (i \in keep <=> j \in keep)
              /\ store' = kept[Len(all)]
    /\ view' = Contents(store')

Next == Open \/ Begin \/ Commit \/ TakeSnapshot \/ ReleaseSnapshot \/ Crash

Spec == Init /\ [][Next]_vars
=============================================================================
