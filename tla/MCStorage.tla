------------------------------ MODULE MCStorage -----------------------------
(***************************************************************************)
(* Small instances of the parts that the database of DBImpl stands on.     *)
(* They share no state here, so one run checks them side by side: part     *)
(* says which of them a behaviour is of.                                   *)
(***************************************************************************)
EXTENDS TableCache, MemTable, Iterators, PosixFiles, EnvPosix,
        Repair

CONSTANTS t1, t2, t3, P, Q   \* threads that lock the database, and their processes

VARIABLE part

-----------------------------------------------------------------------------
\* Files 1 and 2 share a bucket of the cache's table until it grows.
TableHash == [f \in Files |-> IF f = 1 THEN 0 ELSE IF f = 2 THEN 2 ELSE 1]

\* Two threads of one process, and one of another.
ProcessOfThread == (t1 :> P @@ t2 :> P @@ t3 :> Q)

\* Directories to repair.
RpE(k, s) == [key |-> k, seq |-> s]
RpLog(records) == [i \in DOMAIN records |-> [entry |-> records[i][1], damage |-> records[i][2]]]
RpTable(good, lost) == [good |-> good, lost |-> lost]
RpDirectories == {
    \* a damaged table and a damaged log beside good ones
    [tables |-> (3 :> RpTable({RpE(1, 1), RpE(2, 2)}, {})) @@ (5 :> RpTable({RpE(1, 4)}, {RpE(2, 3)})),
     logs   |-> (4 :> RpLog(<< <<RpE(1, 6), "none">>, <<RpE(2, 7), "unframed">>, <<RpE(2, 8), "none">> >>))
                @@ (6 :> RpLog(<< <<RpE(1, 9), "none">> >>)),
     descs  |-> (2 :> << >>)],
    \* a table and a log of which nothing is left, and a record that changed
    [tables |-> (2 :> RpTable({}, {RpE(1, 1)})) @@ (7 :> RpTable({RpE(1, 2), RpE(2, 5)}, {RpE(2, 3)})),
     logs   |-> (8 :> RpLog(<< <<RpE(1, 6), "unframed">>, <<RpE(1, 7), "changed">> >>)),
     descs  |-> (1 :> << >>) @@ (3 :> << >>)],
    \* one log and nothing else
    [tables |-> << >>, logs |-> (3 :> RpLog(<< <<RpE(1, 1), "none">> >>)), descs |-> << >>] }

-----------------------------------------------------------------------------
storageVars == << part, tableVars, listVars, arenaVars, iterVars, fileVars, envVars, repairVars >>

StorageInit ==
    /\ part \in {"cache", "list", "arena", "iterator", "files", "env", "repair"}
    /\ TableCacheInit /\ ListInit /\ ArenaInit /\ IterInit
    /\ FilesInit /\ EnvInit /\ RepairInit

StorageNext ==
    \/ part = "cache" /\ TableCacheNext /\ UNCHANGED part
       /\ UNCHANGED << listVars, arenaVars, iterVars, fileVars, envVars, repairVars >>
    \/ part = "list" /\ ListNext /\ UNCHANGED part
       /\ UNCHANGED << tableVars, arenaVars, iterVars, fileVars, envVars, repairVars >>
    \/ part = "arena" /\ ArenaNext /\ UNCHANGED part
       /\ UNCHANGED << tableVars, listVars, iterVars, fileVars, envVars, repairVars >>
    \/ part = "iterator" /\ IterNextState /\ UNCHANGED part
       /\ UNCHANGED << tableVars, listVars, arenaVars, fileVars, envVars, repairVars >>
    \/ part = "files" /\ FilesNext /\ UNCHANGED part
       /\ UNCHANGED << tableVars, listVars, arenaVars, iterVars, envVars, repairVars >>
    \/ part = "env" /\ EnvNext /\ UNCHANGED part
       /\ UNCHANGED << tableVars, listVars, arenaVars, iterVars, fileVars, repairVars >>
    \/ part = "repair" /\ RepairNext /\ UNCHANGED part
       /\ UNCHANGED << tableVars, listVars, arenaVars, iterVars, fileVars, envVars >>

\* The background thread is a thread of its own and runs whenever it can.
StorageSpec == StorageInit /\ [][StorageNext]_storageVars /\ WF_envVars(BGThread)
=============================================================================
