----------------------------- MODULE Databases -----------------------------
(***************************************************************************)
(* FIRDatabase and FRepoManager: threads take the database of an app, make *)
(* its repo at the first use, and delete the app, under two locks and the  *)
(* serial queue of the database.                                           *)
(*                                                                         *)
(* One app and one URL.  A database object and a repo are numbers, in the  *)
(* order of their creation; Nil is 0.  A repo that is initialised on the   *)
(* queue opens the LevelDB of its session (FLevelDBStorageEngine), which   *)
(* one open repo at a time can hold; one that finds it held deletes the    *)
(* files and tries again, and then raises, which on the queue ends the     *)
(* process.  Persistence is enabled.                                       *)
(*                                                                         *)
(* configs[session] is a dictionary of its own, which disposeRepos takes   *)
(* out of configs without the lock that createRepo holds.  The read and    *)
(* the write of createRepo are steps of their own; the torn state of a     *)
(* dictionary that two threads change at once is left out.                 *)
(***************************************************************************)
EXTENDS Integers, Sequences, FiniteSets

CONSTANTS
    Callers,    \* threads of the application
    NoCaller,
    MaxRequests \* calls of the application

ASSUME DatabasesAssumption == NoCaller \notin Callers /\ MaxRequests \in Nat

VARIABLES
    instances,  \* instances[app]: the database object
    instancesLock, configsLock, \* the threads inside @synchronized
    databases,  \* database object -> its repo property
    configs,    \* configs[session]: a dictionary, by number
    dictionaries, \* dictionary -> the repo in it
    repos,      \* repo -> "created", "open", "disposed" or "failed"
    sharedQueue, \* blocks: << "init", repo >>, << "dispose", thread >>
    at,         \* thread -> what it is doing
    raised,     \* exceptions: names
    purged,     \* the store was deleted while another repo had it open
    requests    \* calls made

databasesVars == << instances, instancesLock, configsLock, databases, configs, dictionaries,
                    repos, sharedQueue, at, raised, purged, requests >>

Nil == 0
Resting == [pc |-> "idle"]
Request == requests < MaxRequests /\ requests' = requests + 1
Goes(t, state) == at' = [at EXCEPT ![t] = state]

-----------------------------------------------------------------------------
\* databaseForApp:URL: finds or makes the database object.
DatabaseForApp(t) ==
    /\ at[t].pc = "idle" /\ instancesLock = NoCaller
    /\ Request
    /\ IF instances # Nil THEN UNCHANGED << instances, databases >>
       ELSE /\ databases' = Append(databases, Nil)
            /\ instances' = Len(databases) + 1
    /\ Goes(t, [pc |-> "has", db |-> instances'])
    /\ UNCHANGED << instancesLock, configsLock, configs, dictionaries, repos, sharedQueue,
                    raised, purged >>

\* reference, goOnline and the like call ensureRepo, which tests without a lock.
EnsureRepo(t) ==
    /\ at[t].pc = "has"
    /\ Goes(t, IF databases[at[t].db] # Nil THEN Resting ELSE [pc |-> "create", db |-> at[t].db])
    /\ UNCHANGED << instances, instancesLock, configsLock, databases, configs, dictionaries,
                    repos, sharedQueue, raised, purged, requests >>

\* createRepo, inside its lock: the dictionary of the session is looked up.
CreateRepoEnters(t) ==
    /\ at[t].pc = "create" /\ configsLock = NoCaller
    /\ configsLock' = t
    /\ IF configs # Nil THEN UNCHANGED << configs, dictionaries >>
       ELSE /\ dictionaries' = Append(dictionaries, Nil)
            /\ configs' = Len(dictionaries) + 1
    /\ Goes(t, [pc |-> "enter", db |-> at[t].db, dictionary |-> configs'])
    /\ UNCHANGED << instances, instancesLock, databases, repos, sharedQueue, raised, purged, requests >>

\* Mutant of RepoExists: an existing repo is not looked for.
RepoExistsNever(dictionary) == FALSE

RepoExists(dictionary) == dictionaries[dictionary] # Nil

\* Mutant of LeaveRaising: the exception leaves the lock behind.
LeaveRaisingLocked == UNCHANGED configsLock

\* The exception leaves @synchronized(configs).
LeaveRaising == configsLock' = NoCaller

\* The FRepo is made and posts its deferredInit, or RepoExists is raised.
CreateRepoAllocates(t) ==
    /\ at[t].pc = "enter"
    /\ IF RepoExists(at[t].dictionary)
       THEN /\ raised' = raised \cup {"RepoExists"}
            /\ LeaveRaising
            /\ Goes(t, Resting)
            /\ UNCHANGED << repos, sharedQueue >>
       ELSE /\ repos' = Append(repos, "created")
            /\ sharedQueue' = Append(sharedQueue, << "init", Len(repos) + 1 >>)
            /\ Goes(t, [pc |-> "insert", db |-> at[t].db, dictionary |-> at[t].dictionary,
                        repo |-> Len(repos) + 1])
            /\ UNCHANGED << raised, configsLock >>
    /\ UNCHANGED << instances, instancesLock, databases, configs, dictionaries, purged, requests >>

\* repos[repoInfo] = repo, and self.repo = repo after the lock is left.
CreateRepoReturns(t) ==
    /\ at[t].pc = "insert"
    /\ dictionaries' = [dictionaries EXCEPT ![at[t].dictionary] = at[t].repo]
    /\ configsLock' = NoCaller
    /\ Goes(t, [pc |-> "assign", db |-> at[t].db, repo |-> at[t].repo])
    /\ UNCHANGED << instances, instancesLock, databases, configs, repos, sharedQueue, raised,
                    purged, requests >>
AssignRepo(t) ==
    /\ at[t].pc = "assign"
    /\ databases' = [databases EXCEPT ![at[t].db] = at[t].repo]
    /\ Goes(t, Resting)
    /\ UNCHANGED << instances, instancesLock, configsLock, configs, dictionaries, repos,
                    sharedQueue, raised, purged, requests >>

-----------------------------------------------------------------------------
\* The observer of kFIRAppDeleteNotification waits for the queue in its lock.
AppDeleted(t) ==
    /\ at[t].pc = "idle" /\ instancesLock = NoCaller
    /\ Request
    /\ IF instances = Nil THEN UNCHANGED << instancesLock, sharedQueue, at >>
       ELSE /\ instancesLock' = t
            /\ sharedQueue' = Append(sharedQueue, << "dispose", t >>)
            /\ Goes(t, [pc |-> "disposing"])
    /\ UNCHANGED << instances, configsLock, databases, configs, dictionaries, repos, raised,
                    purged >>

\* FRepo dispose, for the repos of the session.
Disposed(dictionary) ==
    IF dictionary = Nil \/ dictionaries[dictionary] = Nil THEN repos
    ELSE [repos EXCEPT ![dictionaries[dictionary]] = "disposed"]
\* disposeRepos: the block, without the lock of configs.
DisposeRepos ==
    /\ sharedQueue # << >> /\ Head(sharedQueue)[1] = "dispose"
    /\ repos' = Disposed(configs)
    /\ configs' = Nil
    /\ Goes(Head(sharedQueue)[2], [pc |-> "disposed"])
    /\ sharedQueue' = Tail(sharedQueue)
    /\ UNCHANGED << instances, instancesLock, configsLock, databases, dictionaries, raised,
                    purged, requests >>
\* dispatch_sync returns; the database objects are forgotten.
AppDeletedReturns(t) ==
    /\ at[t].pc = "disposed"
    /\ instances' = Nil /\ instancesLock' = NoCaller
    /\ Goes(t, Resting)
    /\ UNCHANGED << configsLock, databases, configs, dictionaries, repos, sharedQueue, raised,
                    purged, requests >>

\* deferredInit opens the store: createDB.
StoreHeld == \E r \in DOMAIN repos : repos[r] = "open"
DeferredInit ==
    /\ sharedQueue # << >> /\ Head(sharedQueue)[1] = "init"
    /\ repos' = [repos EXCEPT ![Head(sharedQueue)[2]] = IF StoreHeld THEN "failed" ELSE "open"]
    /\ purged' = (purged \/ StoreHeld)
    /\ raised' = IF StoreHeld THEN raised \cup {"FirebaseDatabasePersistenceFailure"} ELSE raised
    /\ sharedQueue' = Tail(sharedQueue)
    /\ UNCHANGED << instances, instancesLock, configsLock, databases, configs, dictionaries,
                    at, requests >>

-----------------------------------------------------------------------------
DatabasesInit ==
    /\ instances = Nil /\ instancesLock = NoCaller /\ configsLock = NoCaller
    /\ databases = << >> /\ configs = Nil /\ dictionaries = << >> /\ repos = << >>
    /\ sharedQueue = << >> /\ at = [t \in Callers |-> Resting]
    /\ raised = {} /\ purged = FALSE /\ requests = 0

\* No exception has left a block of the queue.
ProcessRuns == "FirebaseDatabasePersistenceFailure" \notin raised
Step(t) ==
    /\ ProcessRuns
    /\ \/ EnsureRepo(t) \/ CreateRepoEnters(t) \/ CreateRepoAllocates(t)
       \/ CreateRepoReturns(t) \/ AssignRepo(t) \/ AppDeletedReturns(t)
QueueRuns == ProcessRuns /\ (DisposeRepos \/ DeferredInit)
DatabasesNext ==
    \/ \E t \in Callers : ProcessRuns /\ (DatabaseForApp(t) \/ AppDeleted(t))
    \/ \E t \in Callers : Step(t)
    \/ QueueRuns

\* Threads go on when the locks let them, and the queue runs its blocks.
ThreadsRun ==
    /\ \A t \in Callers : SF_databasesVars(Step(t))
    /\ WF_databasesVars(QueueRuns)
DatabasesSpec == DatabasesInit /\ [][DatabasesNext]_databasesVars

-----------------------------------------------------------------------------
(* Properties *)

\* Every call comes to its end, unless the process does: no order of uses and
\* deletions leaves a thread waiting for a lock whose holder waits for the queue.
CallsReturn == \A t \in Callers : at[t].pc # "idle" ~> (at[t].pc = "idle" \/ ~ProcessRuns)

\* The repo of a dictionary that disposeRepos has removed.
RemovedRepo(r) == \E k \in DOMAIN dictionaries : k # configs /\ dictionaries[k] = r

\* A repo that its session knows is usable: no deletion of the app has disposed
\* of it or removed it, and the object that made it, or a thread about to tell it,
\* refers to it.  The one exception is a thread that made a repo before a deletion
\* and assigns it after: it writes over the repo that another thread has made
\* since for the same object.
KnownIsUsable ==
    configs # Nil /\ dictionaries[configs] # Nil =>
        LET r == dictionaries[configs]
        IN  /\ repos[r] # "disposed" /\ ~RemovedRepo(r)
            /\ \/ \E d \in DOMAIN databases : databases[d] = r
               \/ \E t \in Callers : at[t].pc = "assign" /\ at[t].repo = r
               \/ \E d \in DOMAIN databases : databases[d] # Nil /\ RemovedRepo(databases[d])
=============================================================================
