----------------------------- MODULE UserWrites -----------------------------
(***************************************************************************)
(* The writes of set: and update: from FRepo to the server, kept in a      *)
(* LevelDB (FLevelDBStorageEngine) until they are answered: sent again     *)
(* when the connection was lost, restored when the process was.            *)
(*                                                                         *)
(* FRepo works on one serial queue, so a handler is one step.  A crash     *)
(* inside set: leaves the store with or without the write, as a crash      *)
(* before or after the step does.  Writes are numbered in the order the    *)
(* application makes them; writeId is FRepo's number, which starts again   *)
(* when a session finds no writes.  One location with some children: set:  *)
(* covers all of them, update: one.                                        *)
(*                                                                         *)
(* External: the server, which applies or rejects what it receives in      *)
(* order, and rejects a write that is sent again if it did before.         *)
(***************************************************************************)
EXTENDS Integers, Sequences, FiniteSets, SequencesExt

CONSTANTS
    Children,
    FirstWriteId,  \* writeIdCounter of the session the behaviour starts in
    MaxWrites,     \* writes of the application
    MaxFailures    \* lost connections, crashes and purges

ASSUME WritesAssumption == FirstWriteId \in Nat

VARIABLES
    alive,          \* the process runs and its repo is initialised
    writeIdCounter,
    pendingWriteTree,      \* the write tree: records of writeId and write, oldest first
    outstandingPuts, \* of the connection, likewise
    writesDB,       \* the store: a set of such records
    connected,
    toServer, toClient, \* the writes, and the answers, on their way
    serverValue,    \* child -> the write whose value the server has
    issued,         \* the writes made: what they cover, what the server says
    answered,       \* history: writes whose answer was processed
    purgedWrites,   \* history
    failures,
    outOfOrder      \* restoreWrites raised

userWritesVars == << alive, writeIdCounter, pendingWriteTree, outstandingPuts, writesDB, connected,
                     toServer, toClient, serverValue, issued, answered, purgedWrites, failures,
                     outOfOrder >>

Numbers(records) == {record.write : record \in records}
Fails == failures < MaxFailures /\ failures' = failures + 1

-----------------------------------------------------------------------------
(* FRepo *)

\* set: and update:: saved, applied to the tree, put.
MakeWrite(covers, allowed) ==
    LET record == [writeId |-> writeIdCounter, write |-> Len(issued) + 1]
    IN  /\ alive /\ Len(issued) < MaxWrites
        /\ issued' = Append(issued, [covers |-> covers, allowed |-> allowed])
        /\ writeIdCounter' = writeIdCounter + 1
        /\ writesDB' = {other \in writesDB : other.writeId # writeIdCounter} \cup {record}
        /\ pendingWriteTree' = Append(pendingWriteTree, record)
        /\ outstandingPuts' = Append(outstandingPuts, record)
        /\ toServer' = IF connected THEN Append(toServer, record.write) ELSE toServer
        /\ UNCHANGED << alive, connected, toClient, serverValue, answered, purgedWrites,
                        failures, outOfOrder >>
SetValue(allowed) == MakeWrite(Children, allowed)
Update(child, allowed) == MakeWrite({child}, allowed)

\* removeUserWrite
Removed(writeId, write) == {r \in writesDB : r.writeId # writeId}

\* The answer to a put that is still outstanding: ackWrite.
AckWrite ==
    /\ toClient # << >>
    /\ toClient' = Tail(toClient)
    /\ IF \E r \in ToSet(outstandingPuts) : r.write = Head(toClient)
       THEN LET put == CHOOSE i \in DOMAIN outstandingPuts : outstandingPuts[i].write = Head(toClient)
                record == outstandingPuts[put]
                index == CHOOSE i \in DOMAIN pendingWriteTree :
                             pendingWriteTree[i].writeId = record.writeId
            IN  /\ outstandingPuts' = RemoveAt(outstandingPuts, put)
                /\ pendingWriteTree' = RemoveAt(pendingWriteTree, index)
                /\ writesDB' = Removed(record.writeId, record.write)
                /\ answered' = answered \cup {record.write}
       ELSE UNCHANGED << outstandingPuts, pendingWriteTree, writesDB, answered >>
    /\ UNCHANGED << alive, writeIdCounter, connected, toServer, serverValue, issued,
                    purgedWrites, failures, outOfOrder >>

\* purgeOutstandingWrites: the callbacks get write_canceled, which ackWrite ignores.
PurgeWrites ==
    /\ alive /\ Fails
    /\ writesDB' = {} /\ pendingWriteTree' = << >> /\ outstandingPuts' = << >>
    /\ purgedWrites' = purgedWrites \cup Numbers(writesDB)
    /\ UNCHANGED << alive, writeIdCounter, connected, toServer, toClient, serverValue, issued,
                    answered, outOfOrder >>

\* userWrites: sorted by writeId.
StoredWrites ==
    CHOOSE writes \in [1 .. Cardinality(writesDB) -> writesDB] :
        \A i, j \in DOMAIN writes :
            i < j => writes[i] # writes[j] /\ writes[i].writeId <= writes[j].writeId

\* Mutant of CounterAfter: the counter is left at 0.
CounterFromZero(writes) == 0

CounterAfter(writes) == IF writes = << >> THEN 0 ELSE Last(writes).writeId + 1

\* Mutant of RestoredPuts: the writes are only put into the tree.
NothingPut(writes) == << >>

RestoredPuts(writes) == writes

\* A new process: restoreWrites.
RestoreWrites ==
    LET writes == StoredWrites
        sorted == \A i \in 2 .. Len(writes) : writes[i - 1].writeId < writes[i].writeId
    IN  /\ ~alive /\ ~outOfOrder
        /\ IF sorted
           THEN /\ alive' = TRUE
                /\ writeIdCounter' = CounterAfter(writes)
                /\ pendingWriteTree' = writes
                /\ outstandingPuts' = RestoredPuts(writes)
                /\ UNCHANGED outOfOrder
           ELSE /\ outOfOrder' = TRUE
                /\ UNCHANGED << alive, writeIdCounter, pendingWriteTree, outstandingPuts >>
        /\ UNCHANGED << writesDB, connected, toServer, toClient, serverValue, issued, answered,
                        purgedWrites, failures >>

-----------------------------------------------------------------------------
(* The connection, the server and the process *)

\* restoreState: the outstanding puts in the order of their indices.
PutsToRestore == [i \in DOMAIN outstandingPuts |-> outstandingPuts[i].write]
Connect ==
    /\ alive /\ ~connected
    /\ connected' = TRUE
    /\ toServer' = PutsToRestore
    /\ UNCHANGED << alive, writeIdCounter, pendingWriteTree, outstandingPuts, writesDB, toClient,
                    serverValue, issued, answered, purgedWrites, failures, outOfOrder >>

ServerTakes ==
    /\ toServer # << >>
    /\ LET n == Head(toServer)
       IN  /\ serverValue' = [c \in Children |->
                                IF issued[n].allowed /\ c \in issued[n].covers THEN n
                                ELSE serverValue[c]]
           /\ toClient' = Append(toClient, n)
    /\ toServer' = Tail(toServer)
    /\ UNCHANGED << alive, writeIdCounter, pendingWriteTree, outstandingPuts, writesDB, connected,
                    issued, answered, purgedWrites, failures, outOfOrder >>

\* What is on its way, either way, is lost with the connection.
Disconnect ==
    /\ connected /\ Fails
    /\ connected' = FALSE /\ toServer' = << >> /\ toClient' = << >>
    /\ UNCHANGED << alive, writeIdCounter, pendingWriteTree, outstandingPuts, writesDB, serverValue,
                    issued, answered, purgedWrites, outOfOrder >>

\* The process ends; only the store is left.
Killed ==
    /\ alive /\ Fails
    /\ alive' = FALSE /\ connected' = FALSE /\ toServer' = << >> /\ toClient' = << >>
    /\ writeIdCounter' = 0 /\ pendingWriteTree' = << >> /\ outstandingPuts' = << >>
    /\ UNCHANGED << writesDB, serverValue, issued, answered, purgedWrites, outOfOrder >>

\* A session that is connected and has no writes pending.
UserWritesInit ==
    /\ alive = TRUE /\ writeIdCounter = FirstWriteId /\ pendingWriteTree = << >>
    /\ outstandingPuts = << >> /\ writesDB = {} /\ connected = TRUE
    /\ toServer = << >> /\ toClient = << >> /\ serverValue = [c \in Children |-> 0]
    /\ issued = << >> /\ answered = {} /\ purgedWrites = {} /\ failures = 0
    /\ outOfOrder = FALSE

UserWritesNext ==
    \/ \E allowed \in BOOLEAN : \/ SetValue(allowed)
                                \/ \E child \in Children : Update(child, allowed)
    \/ AckWrite
    \/ PurgeWrites
    \/ RestoreWrites
    \/ Connect
    \/ ServerTakes
    \/ Disconnect
    \/ Killed

UserWritesSpec == UserWritesInit /\ [][UserWritesNext]_userWritesVars

\* The connection retries, the server answers, the queue runs, and the
\* application is started again.
WritesProceed == WF_userWritesVars(AckWrite \/ RestoreWrites \/ Connect \/ ServerTakes)

-----------------------------------------------------------------------------
(* Properties *)

\* Whatever fails and when, a write that was neither answered nor purged is in
\* the store, under an id of its own; while the process runs the store, the
\* write tree and the connection agree on what is pending and in which order.
PendingIsStored ==
    /\ Numbers(writesDB) = 1 .. Len(issued) \ (answered \cup purgedWrites)
    /\ alive => /\ pendingWriteTree = StoredWrites
                /\ outstandingPuts = StoredWrites

\* When nothing is pending the server has no value older than the last write of
\* the child that it allows and that was not purged, although every lost
\* connection and every restart sends older writes again.
LastWriteWins ==
    writesDB = {} =>
        \A child \in Children, n \in 1 .. Len(issued) :
            /\ child \in issued[n].covers /\ issued[n].allowed /\ n \notin purgedWrites
            => serverValue[child] >= n

\* restoreWrites never raises "Restored writes were not in order!": ids of
\* several sessions meet in the store, as decimal keys.
RestorableInOrder == ~outOfOrder

\* Once the application makes no more writes all that are pending are answered
\* or purged in the end: by a later session if need be.
WritesSettle == writesDB # {} ~> writesDB = {}

\* A pending write is in the store, in the tree and with the connection together,
\* can be restored in its order, and is never overtaken by an older one, across
\* lost connections, crashes, rejections and purges.
WritesKept == PendingIsStored /\ LastWriteWins /\ RestorableInOrder
=============================================================================
