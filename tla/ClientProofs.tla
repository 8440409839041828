---------------------------- MODULE ClientProofs ----------------------------
(***************************************************************************)
(* The application and its registry of databases, for any number of        *)
(* launches, of threads and of deletions of the Firebase app.              *)
(***************************************************************************)
EXTENDS App, Databases, TLAPS

-----------------------------------------------------------------------------
(* The application *)

\* A process that has not finished launching has no default app yet, so the
\* configure of its launch is the first one.
NoAppBefore == process \in {"notRunning", "launched"} => defaultApp = "nil"

AppInv == AppTypeOK /\ FirebaseReady /\ NoAppBefore

\* The state of a process that is not running is an initial one.
LEMMA EndsSound ==
  ASSUME NEW cause \in Failures, AppInv, Ends(cause), UNCHANGED <<options, store, launches>>
  PROVE  AppInv'
  BY DEF AppInv, AppTypeOK, FirebaseReady, NoAppBefore, Ends, Processes, Fields, Failures

\* Whatever options the bundle holds, a launch finishes with a default app or
\* ends the process.
LEMMA DidFinishLaunchingSound == AppInv /\ DidFinishLaunching => AppInv'
<1> SUFFICES ASSUME AppInv, DidFinishLaunching PROVE AppInv'
  OBVIOUS
<1>1. CASE ConfigureRaises
  BY <1>1, EndsSound DEF DidFinishLaunching, ConfigureDefaultApp, Failures
<1>2. CASE ~ConfigureRaises
  BY <1>2 DEF DidFinishLaunching, ConfigureDefaultApp, AppInv, AppTypeOK, FirebaseReady, NoAppBefore,
              Processes, Fields
<1> QED BY <1>1, <1>2

\* The save at termination keeps the default app or ends the process.
LEMMA WillTerminateSound == AppInv /\ WillTerminate => AppInv'
<1> SUFFICES ASSUME AppInv, WillTerminate PROVE AppInv'
  OBVIOUS
<1>1. CASE StoreOpens
  BY <1>1 DEF WillTerminate, SaveContext, AppInv, AppTypeOK, FirebaseReady, NoAppBefore,
              Processes, Fields
<1>2. CASE ~StoreOpens
  BY <1>2, EndsSound DEF WillTerminate, SaveContext, Failures
<1> QED BY <1>1, <1>2

\* Every callback of UIKit, in any order UIKit can make it, preserves the invariant.
LEMMA NextSound == AppInv /\ [AppNext]_appVars => AppInv'
<1> SUFFICES ASSUME AppInv, [AppNext]_appVars PROVE AppInv'
  OBVIOUS
<1> USE DEF AppInv, AppTypeOK, FirebaseReady, NoAppBefore, Processes, Fields, Failures, memory
<1>1. CASE Launch
  BY <1>1, LaunchesAssumption DEF Launch
<1>2. CASE DidFinishLaunching
  BY <1>2, DidFinishLaunchingSound
<1>3. CASE ViewDidLoad
  BY <1>3 DEF ViewDidLoad
<1>4. ASSUME NEW from \in Processes \ {"notRunning", "launched"},
             NEW to \in Processes \ {"notRunning", "launched"}, Callback(from, to)
      PROVE  AppInv'
  BY <1>4 DEF Callback
<1>5. CASE DidBecomeActive \/ WillResignActive \/ DidEnterBackground \/ WillEnterForeground
             \/ Suspended
  BY <1>4, <1>5 DEF DidBecomeActive, WillResignActive, DidEnterBackground,
                    WillEnterForeground, Suspended
<1>6. CASE Exit
  BY <1>6, EndsSound DEF Exit, Failures
<1>7. CASE WillTerminate
  BY <1>7, WillTerminateSound
<1>8. CASE StoreChanges
  BY <1>8 DEF StoreChanges
<1>9. ASSUME NEW field \in Fields, TapField(field) PROVE AppInv'
  BY <1>9 DEF TapField
<1>10. CASE TouchesBegan \/ TextFieldShouldReturn
  BY <1>10 DEF TouchesBegan, TextFieldShouldReturn, ResignFirstResponder
<1>11. CASE UNCHANGED appVars
  BY <1>11 DEF appVars
<1> QED
  BY <1>1, <1>2, <1>3, <1>5, <1>6, <1>7, <1>8, <1>9, <1>10, <1>11 DEF AppNext

\* A step that ends the process with a failure is a configure with invalid
\* options or a save without a store: at configure no default app exists.
LEMMA StepHasCause == AppInv /\ [AppNext]_appVars => CauseOfCrash
<1> SUFFICES ASSUME AppInv, [AppNext]_appVars, failure' # "none", failure' # failure
             PROVE  CauseOfCrash
  BY DEF CauseOfCrash
<1>1. CASE DidFinishLaunching
  BY <1>1 DEF DidFinishLaunching, ConfigureDefaultApp, ConfigureRaises, Ends, AppInv, NoAppBefore,
              CauseOfCrash
<1>2. CASE WillTerminate
  BY <1>2 DEF WillTerminate, SaveContext, StoreOpens, Ends, AppInv, AppTypeOK, CauseOfCrash
<1>3. ~(Launch \/ Exit)
  BY DEF Launch, Exit, Ends
<1>4. DidFinishLaunching \/ WillTerminate
  BY <1>3 DEF AppNext, appVars, ViewDidLoad, Callback, DidBecomeActive, WillResignActive,
              DidEnterBackground, WillEnterForeground, Suspended, StoreChanges, TapField,
              TouchesBegan, TextFieldShouldReturn, ResignFirstResponder
<1> QED BY <1>1, <1>2, <1>4

\* LaunchesWell, for any number of launches: no code of a view runs before the
\* default Firebase app is configured, and the process ends by itself only for
\* invalid options at launch or a store that cannot be opened at termination.
THEOREM LaunchesTheorem == AppSpec => LaunchesWell
<1>1. AppInit => AppInv
  <2> SUFFICES ASSUME AppInit PROVE AppInv
    OBVIOUS
  <2>1. launches \in 0 .. MaxLaunches
    BY LaunchesAssumption DEF AppInit
  <2> QED
    BY <2>1 DEF AppInit, AppInv, AppTypeOK, FirebaseReady, NoAppBefore, Processes, Fields, Failures
<1>2. AppInv /\ [AppNext]_appVars => AppInv'
  BY NextSound
<1>3. AppInv /\ [AppNext]_appVars => [CauseOfCrash]_appVars
  BY StepHasCause
<1>4. AppInv => AppTypeOK /\ FirebaseReady
  BY DEF AppInv
<1> QED
  BY <1>1, <1>2, <1>3, <1>4, PTL DEF AppSpec, LaunchesWell, CrashHasCause

-----------------------------------------------------------------------------
(***************************************************************************)
(* The registry of databases and repos, for any number of threads and of   *)
(* deletions of the app: the repo that a session knows has not been        *)
(* disposed of.                                                            *)
(*                                                                         *)
(* The read and the write of createRepo are two steps inside one lock, and *)
(* disposeRepos takes the dictionary between them out of configs without   *)
(* it.  A dictionary that has left configs never comes back, a repo is     *)
(* inserted once and in one dictionary, and what is disposed of is in a    *)
(* dictionary that has left.                                               *)
(***************************************************************************)

ThreadStates ==
    [pc : {"idle", "disposing", "disposed"}]
      \cup [pc : {"has", "create"}, db : Nat]
      \cup [pc : {"enter"}, db : Nat, dictionary : Nat]
      \cup [pc : {"insert"}, db : Nat, dictionary : Nat, repo : Nat]
      \cup [pc : {"assign"}, db : Nat, repo : Nat]

\* The types, and the numbers in the range of what they number.
DatabasesTypeOK ==
    /\ databases \in Seq(Nat)
    /\ instances \in 0 .. Len(databases)
    /\ dictionaries \in Seq(Nat)
    /\ repos \in Seq({"created", "open", "disposed", "failed"})
    /\ at \in [Callers -> ThreadStates]
    /\ configs \in 0 .. Len(dictionaries)
    /\ \A k \in 1 .. Len(dictionaries) : dictionaries[k] \in 0 .. Len(repos)

\* The threads' database objects exist.
ObjectsExist ==
    \A t \in Callers : at[t].pc \in {"has", "create", "enter", "insert", "assign"} =>
        at[t].db \in 1 .. Len(databases)

\* A thread that has looked up the dictionary holds the lock of createRepo; the
\* repo that it has made is new, and its place in the dictionary is free.
CreatorsHoldLock ==
    \A t \in Callers :
        /\ at[t].pc \in {"enter", "insert"} =>
             configsLock = t /\ at[t].dictionary \in 1 .. Len(dictionaries)
        /\ at[t].pc = "insert" =>
             /\ at[t].repo \in 1 .. Len(repos)
             /\ dictionaries[at[t].dictionary] = Nil
             /\ \A k \in 1 .. Len(dictionaries) : dictionaries[k] # at[t].repo
        /\ at[t].pc = "assign" =>
             /\ at[t].repo # Nil
             /\ \E k \in 1 .. Len(dictionaries) : dictionaries[k] = at[t].repo

\* A repo is in one dictionary, and a disposed one in a dictionary that has left configs.
RepoInOneDictionary ==
    \A k, l \in 1 .. Len(dictionaries) :
        dictionaries[k] = dictionaries[l] => k = l \/ dictionaries[k] = Nil
DisposedHasLeft ==
    \A r \in 1 .. Len(repos) : repos[r] = "disposed" =>
        \E k \in 1 .. Len(dictionaries) : k # configs /\ dictionaries[k] = r

\* The repo of the session is referred to, or was written over.
KnownIsReferred ==
    configs # Nil /\ dictionaries[configs] # Nil =>
        \/ \E d \in DOMAIN databases : databases[d] = dictionaries[configs]
        \/ \E t \in Callers : at[t].pc = "assign" /\ at[t].repo = dictionaries[configs]
        \/ \E d \in DOMAIN databases : databases[d] # Nil /\ RemovedRepo(databases[d])

RegistryInv ==
    /\ DatabasesTypeOK /\ ObjectsExist /\ CreatorsHoldLock
    /\ RepoInOneDictionary /\ DisposedHasLeft /\ KnownIsReferred

-----------------------------------------------------------------------------
LEMMA RegistryStarts == DatabasesInit => RegistryInv
BY DEF DatabasesInit, RegistryInv, DatabasesTypeOK, CreatorsHoldLock, RepoInOneDictionary,
       DisposedHasLeft, KnownIsReferred, ObjectsExist, ThreadStates, Resting, Nil

\* A step of a thread that leaves the dictionaries and the repos as they are and
\* makes no thread a creator keeps the invariant.
LEMMA PlainStep ==
    ASSUME RegistryInv,
           UNCHANGED << configs, dictionaries, repos, configsLock >>,
           NEW t \in Callers, NEW s \in ThreadStates,
           at' = [at EXCEPT ![t] = s],
           s.pc \notin {"enter", "insert", "assign"}, at[t].pc # "assign",
           instances' \in 0 .. Len(databases'),
           s.pc \in {"has", "create"} => s.db \in 1 .. Len(databases'),
           databases' \in Seq(Nat), Len(databases) <= Len(databases'),
           \A d \in 1 .. Len(databases) : databases'[d] = databases[d]
    PROVE  RegistryInv'
<1>. USE DEF RegistryInv
<1>1. DatabasesTypeOK'
  BY DEF DatabasesTypeOK
<1>2. \A u \in Callers : at'[u] = at[u] \/ at'[u].pc \notin {"enter", "insert", "assign"}
  BY DEF DatabasesTypeOK
<1>9. ObjectsExist'
  <2>1. \A u \in Callers : at'[u] = at[u] \/ at'[u] = s
    BY DEF DatabasesTypeOK
  <2>2. \A d \in 1 .. Len(databases) : d \in 1 .. Len(databases')
    BY DEF DatabasesTypeOK
  <2>. QED BY <2>1, <2>2 DEF ObjectsExist
<1>3. CreatorsHoldLock'
  BY <1>2 DEF CreatorsHoldLock
<1>4. RepoInOneDictionary' /\ DisposedHasLeft'
  BY DEF RepoInOneDictionary, DisposedHasLeft
<1>5. \A d \in DOMAIN databases : d \in DOMAIN databases' /\ databases'[d] = databases[d]
  <2>1. DOMAIN databases = 1 .. Len(databases) /\ Len(databases) \in Nat
    BY DEF DatabasesTypeOK
  <2>2. DOMAIN databases' = 1 .. Len(databases') /\ Len(databases') \in Nat
    OBVIOUS
  <2>. QED BY <2>1, <2>2
<1>7. \A u \in Callers : at[u].pc = "assign" => at'[u] = at[u]
  BY DEF DatabasesTypeOK
<1>8. KnownIsReferred'
  <2>. SUFFICES ASSUME configs # Nil, dictionaries[configs] # Nil
                PROVE  KnownIsReferred'
    BY DEF KnownIsReferred
  <2>1. CASE \E d \in DOMAIN databases : databases[d] = dictionaries[configs]
    BY <1>5, <2>1 DEF KnownIsReferred
  <2>2. CASE \E u \in Callers : at[u].pc = "assign" /\ at[u].repo = dictionaries[configs]
    BY <1>7, <2>2 DEF KnownIsReferred
  <2>3. CASE \E d \in DOMAIN databases : databases[d] # Nil /\ RemovedRepo(databases[d])
    <3>1. PICK d \in DOMAIN databases : databases[d] # Nil /\ RemovedRepo(databases[d])
      BY <2>3
    <3>2. d \in DOMAIN databases' /\ databases'[d] = databases[d]
      BY <1>5, <3>1
    <3>. QED BY <3>1, <3>2 DEF KnownIsReferred, RemovedRepo
  <2>. QED BY <2>1, <2>2, <2>3 DEF KnownIsReferred
<1>. QED BY <1>1, <1>3, <1>4, <1>8, <1>9

LEMMA ThreadStateForms ==
    /\ Resting \in ThreadStates /\ Resting.pc = "idle"
    /\ \A d \in Nat : /\ [pc |-> "has", db |-> d] \in ThreadStates
                      /\ [pc |-> "create", db |-> d] \in ThreadStates
    /\ [pc |-> "disposing"] \in ThreadStates
    /\ [pc |-> "disposed"] \in ThreadStates
    /\ \A d, k \in Nat : [pc |-> "enter", db |-> d, dictionary |-> k] \in ThreadStates
    /\ \A d, k, r \in Nat :
         [pc |-> "insert", db |-> d, dictionary |-> k, repo |-> r] \in ThreadStates
    /\ \A d, r \in Nat : [pc |-> "assign", db |-> d, repo |-> r] \in ThreadStates
BY DEF ThreadStates, Resting

LEMMA ThreadStateFields ==
    ASSUME NEW s \in ThreadStates
    PROVE  /\ s.pc \in {"has", "create", "enter", "insert", "assign"} => s.db \in Nat
           /\ s.pc \in {"enter", "insert"} => s.dictionary \in Nat
           /\ s.pc \in {"insert", "assign"} => s.repo \in Nat
BY DEF ThreadStates

-----------------------------------------------------------------------------
LEMMA DatabaseForAppKeeps ==
    ASSUME RegistryInv, NEW t \in Callers, DatabaseForApp(t)
    PROVE  RegistryInv'
<1>1. /\ databases \in Seq(Nat) /\ Len(databases) \in Nat /\ instances \in 0 .. Len(databases)
      /\ at[t].pc = "idle"
  BY DEF RegistryInv, DatabasesTypeOK, DatabaseForApp
<1>2. /\ instances' \in 1 .. Len(databases') /\ databases' \in Seq(Nat)
      /\ Len(databases) <= Len(databases') /\ Len(databases') \in Nat
      /\ \A d \in 1 .. Len(databases) : databases'[d] = databases[d]
  <2>1. CASE instances # Nil
    BY <1>1, <2>1 DEF DatabaseForApp, Nil
  <2>2. CASE instances = Nil
    <3>1. databases' = Append(databases, Nil) /\ instances' = Len(databases) + 1 /\ Nil \in Nat
      BY <2>2 DEF DatabaseForApp, Nil
    <3>. QED BY <1>1, <3>1
  <2>. QED BY <2>1, <2>2
<1>6. instances' \in Nat
  BY <1>2
<1>3. PICK s \in ThreadStates : s = [pc |-> "has", db |-> instances']
  BY <1>6, ThreadStateForms
<1>4. /\ at' = [at EXCEPT ![t] = s] /\ s.pc = "has" /\ s.db = instances'
      /\ UNCHANGED << configs, dictionaries, repos, configsLock >>
  BY <1>3 DEF DatabaseForApp, Goes
<1>5. instances' \in 0 .. Len(databases')
  BY <1>2
<1>. QED BY <1>1, <1>2, <1>4, <1>5, PlainStep

LEMMA EnsureRepoKeeps ==
    ASSUME RegistryInv, NEW t \in Callers, EnsureRepo(t)
    PROVE  RegistryInv'
<1>1. /\ databases \in Seq(Nat) /\ Len(databases) \in Nat /\ instances \in 0 .. Len(databases)
      /\ at[t] \in ThreadStates /\ at[t].pc = "has"
  BY DEF RegistryInv, DatabasesTypeOK, EnsureRepo
<1>2. PICK s \in ThreadStates :
        s = IF databases[at[t].db] # Nil THEN Resting ELSE [pc |-> "create", db |-> at[t].db]
  BY <1>1, ThreadStateForms, ThreadStateFields
<1>3. s.pc \in {"idle", "create"} /\ (s.pc = "create" => s.db \in 1 .. Len(databases))
  BY <1>1, <1>2, ThreadStateForms DEF RegistryInv, ObjectsExist
<1>4. /\ at' = [at EXCEPT ![t] = s]
      /\ UNCHANGED << instances, databases, configs, dictionaries, repos, configsLock >>
  BY <1>2 DEF EnsureRepo, Goes
<1>5. /\ databases' \in Seq(Nat) /\ Len(databases) <= Len(databases')
      /\ \A d \in 1 .. Len(databases) : databases'[d] = databases[d]
      /\ instances' \in 0 .. Len(databases') /\ s.pc \notin {"enter", "insert", "assign"}
      /\ at[t].pc # "assign" /\ (s.pc \in {"has", "create"} => s.db \in 1 .. Len(databases'))
  BY <1>1, <1>3, <1>4
<1>. QED BY <1>3, <1>4, <1>5, PlainStep

LEMMA AppDeletedKeeps ==
    ASSUME RegistryInv, NEW t \in Callers, AppDeleted(t) \/ AppDeletedReturns(t)
    PROVE  RegistryInv'
<1>1. /\ databases \in Seq(Nat) /\ Len(databases) \in Nat /\ instances \in 0 .. Len(databases)
      /\ at[t] \in ThreadStates /\ at[t].pc \in {"idle", "disposed"}
      /\ instances' \in 0 .. Len(databases) /\ at \in [Callers -> ThreadStates]
  BY DEF RegistryInv, DatabasesTypeOK, AppDeleted, AppDeletedReturns, Nil
<1>2. PICK s \in ThreadStates : s.pc \in {"idle", "disposing"} /\ at' = [at EXCEPT ![t] = s]
  <2>1. CASE AppDeleted(t) /\ instances = Nil
    <3>1. at[t].pc = "idle" /\ at' = [at EXCEPT ![t] = at[t]]
      BY <1>1, <2>1 DEF AppDeleted
    <3>. QED BY <1>1, <3>1
  <2>2. CASE AppDeleted(t) /\ instances # Nil
    BY <2>2, ThreadStateForms DEF AppDeleted, Goes
  <2>3. CASE AppDeletedReturns(t)
    BY <2>3, ThreadStateForms DEF AppDeletedReturns, Goes
  <2>. QED BY <2>1, <2>2, <2>3
<1>3. UNCHANGED << databases, configs, dictionaries, repos, configsLock >>
  BY DEF AppDeleted, AppDeletedReturns
<1>5. /\ databases' \in Seq(Nat) /\ Len(databases) <= Len(databases')
      /\ \A d \in 1 .. Len(databases) : databases'[d] = databases[d]
      /\ instances' \in 0 .. Len(databases') /\ s.pc \notin {"enter", "insert", "assign"}
      /\ at[t].pc # "assign" /\ (s.pc \in {"has", "create"} => s.db \in 1 .. Len(databases'))
  BY <1>1, <1>2, <1>3
<1>. QED BY <1>2, <1>3, <1>5, PlainStep

\* deferredInit opens a repo or fails: it disposes of none.
LEMMA DeferredInitKeeps ==
    ASSUME RegistryInv, DeferredInit
    PROVE  RegistryInv'
<1>1. UNCHANGED << instances, databases, dictionaries, configs, configsLock, at >>
  BY DEF DeferredInit
<1>2. /\ repos' \in Seq({"created", "open", "disposed", "failed"}) /\ Len(repos') = Len(repos)
      /\ \A r \in 1 .. Len(repos) : repos'[r] = "disposed" => repos[r] = "disposed"
  <2>1. PICK v \in {"open", "failed"} : repos' = [repos EXCEPT ![Head(sharedQueue)[2]] = v]
    <3>1. PICK v : v = IF StoreHeld THEN "failed" ELSE "open"
      OBVIOUS
    <3>2. repos' = [repos EXCEPT ![Head(sharedQueue)[2]] = v]
      BY <3>1 DEF DeferredInit
    <3>. QED BY <3>1, <3>2
  <2>2. repos \in Seq({"created", "open", "disposed", "failed"})
    BY DEF RegistryInv, DatabasesTypeOK
  <2>3. PICK i : i = Head(sharedQueue)[2]
    OBVIOUS
  <2>4. repos' = [repos EXCEPT ![i] = v]
    BY <2>1, <2>3
  <2>5. \A r \in 1 .. Len(repos) : repos'[r] = repos[r] \/ repos'[r] = v
    BY <2>2, <2>4
  <2>6. /\ repos' \in Seq({"created", "open", "disposed", "failed"}) /\ Len(repos') = Len(repos)
    <3>1. Len(repos) \in Nat /\ repos \in [1 .. Len(repos) -> {"created", "open", "disposed", "failed"}]
      BY <2>2
    <3>2. repos' \in [1 .. Len(repos) -> {"created", "open", "disposed", "failed"}]
      BY <2>1, <2>4, <3>1
    <3>. QED BY <3>1, <3>2
  <2>. QED BY <2>1, <2>5, <2>6
<1>3. DatabasesTypeOK' /\ CreatorsHoldLock'
  BY <1>1, <1>2 DEF RegistryInv, DatabasesTypeOK, CreatorsHoldLock
<1>4. RepoInOneDictionary' /\ DisposedHasLeft'
  BY <1>1, <1>2 DEF RegistryInv, RepoInOneDictionary, DisposedHasLeft
<1>5. KnownIsReferred' /\ ObjectsExist'
  BY <1>1 DEF RegistryInv, KnownIsReferred, RemovedRepo, ObjectsExist
<1>. QED BY <1>3, <1>4, <1>5 DEF RegistryInv

-----------------------------------------------------------------------------
\* createRepo enters with the dictionary of the session, or with a new empty one.
LEMMA EntersKeeps ==
    ASSUME RegistryInv, NEW t \in Callers, CreateRepoEnters(t)
    PROVE  RegistryInv'
<1>. USE DEF RegistryInv
<1>1. /\ dictionaries \in Seq(Nat) /\ Len(dictionaries) \in Nat /\ at \in [Callers -> ThreadStates]
      /\ at[t] \in ThreadStates /\ at[t].pc = "create" /\ at[t].db \in Nat
      /\ configs \in 0 .. Len(dictionaries) /\ configsLock = NoCaller /\ configsLock' = t
      /\ UNCHANGED << instances, databases, repos >>
  BY ThreadStateFields DEF DatabasesTypeOK, CreateRepoEnters
<1>2. /\ dictionaries' \in Seq(Nat) /\ Len(dictionaries') \in Nat
      /\ Len(dictionaries) <= Len(dictionaries')
      /\ \A k \in 1 .. Len(dictionaries) : dictionaries'[k] = dictionaries[k]
      /\ \A k \in 1 .. Len(dictionaries') : k > Len(dictionaries) => dictionaries'[k] = Nil
      /\ configs' \in 1 .. Len(dictionaries')
      /\ configs' = configs \/ (configs = Nil /\ configs' > Len(dictionaries))
  <2>1. CASE configs # Nil
    BY <1>1, <2>1 DEF CreateRepoEnters, Nil
  <2>2. CASE configs = Nil
    <3>1. dictionaries' = Append(dictionaries, 0) /\ configs' = Len(dictionaries) + 1
      BY <2>2 DEF CreateRepoEnters, Nil
    <3>. QED BY <1>1, <2>2, <3>1 DEF Nil
  <2>. QED BY <2>1, <2>2
<1>3. PICK s \in ThreadStates :
        /\ s = [pc |-> "enter", db |-> at[t].db, dictionary |-> configs']
        /\ at' = [at EXCEPT ![t] = s]
  <2>1. PICK s : s = [pc |-> "enter", db |-> at[t].db, dictionary |-> configs']
    OBVIOUS
  <2>2. configs' \in Nat
    BY <1>2
  <2>3. s \in ThreadStates
    BY <1>1, <2>1, <2>2, ThreadStateForms
  <2>4. at' = [at EXCEPT ![t] = s]
    BY <2>1 DEF CreateRepoEnters, Goes
  <2>. QED BY <2>1, <2>3, <2>4
<1>4. /\ s.pc = "enter" /\ s.dictionary = configs'
      /\ at'[t] = s /\ \A u \in Callers \ {t} : at'[u] = at[u]
  BY <1>1, <1>3
<1>20. \A k \in 1 .. Len(dictionaries') :
         \/ k \in 1 .. Len(dictionaries) /\ dictionaries'[k] = dictionaries[k]
         \/ dictionaries'[k] = Nil
  BY <1>1, <1>2
<1>21. \A k \in 1 .. Len(dictionaries) :
         k \in 1 .. Len(dictionaries') /\ dictionaries'[k] = dictionaries[k]
  BY <1>1, <1>2
<1>5. DatabasesTypeOK'
  <2>1. \A k \in 1 .. Len(dictionaries') : dictionaries'[k] \in 0 .. Len(repos)
    <3>1. 0 \in 0 .. Len(repos)
      BY DEF DatabasesTypeOK
    <3>. QED BY <1>20, <3>1 DEF DatabasesTypeOK, Nil
  <2>2. at' \in [Callers -> ThreadStates] /\ configs' \in 0 .. Len(dictionaries')
    BY <1>1, <1>2, <1>3
  <2>. QED BY <1>1, <1>2, <2>1, <2>2 DEF DatabasesTypeOK
<1>6. \A u \in Callers : at[u].pc \notin {"enter", "insert"}
  BY <1>1, DatabasesAssumption DEF CreatorsHoldLock
<1>7. CreatorsHoldLock'
  <2>. SUFFICES ASSUME NEW u \in Callers
                PROVE  /\ at'[u].pc \in {"enter", "insert"} =>
                            configsLock' = u /\ at'[u].dictionary \in 1 .. Len(dictionaries')
                       /\ at'[u].pc # "insert"
                       /\ at'[u].pc = "assign" =>
                            /\ at'[u].repo # Nil
                            /\ \E k \in 1 .. Len(dictionaries') : dictionaries'[k] = at'[u].repo
    BY DEF CreatorsHoldLock
  <2>1. CASE u = t
    BY <1>1, <1>2, <1>4, <2>1
  <2>2. CASE u # t
    <3>1. at'[u] = at[u]
      BY <1>4, <2>2
    <3>2. at[u].pc = "assign" =>
            at[u].repo # Nil /\ \E k \in 1 .. Len(dictionaries) : dictionaries[k] = at[u].repo
      BY DEF CreatorsHoldLock
    <3>. QED BY <1>6, <1>21, <3>1, <3>2
  <2>. QED BY <2>1, <2>2
<1>8. RepoInOneDictionary'
  BY <1>20 DEF RepoInOneDictionary
<1>9. DisposedHasLeft'
  <2>. SUFFICES ASSUME NEW r \in 1 .. Len(repos), repos[r] = "disposed"
                PROVE  \E k \in 1 .. Len(dictionaries') : k # configs' /\ dictionaries'[k] = r
    BY <1>1 DEF DisposedHasLeft
  <2>1. PICK k \in 1 .. Len(dictionaries) : k # configs /\ dictionaries[k] = r
    BY DEF DisposedHasLeft
  <2>2. k # configs'
    BY <1>1, <1>2, <2>1
  <2>. QED BY <1>21, <2>1, <2>2
<1>10. KnownIsReferred'
  <2>. SUFFICES ASSUME dictionaries'[configs'] # Nil
                PROVE  KnownIsReferred'
    BY DEF KnownIsReferred
  <2>1. configs' = configs /\ dictionaries' = dictionaries /\ configs # Nil
    BY <1>1, <1>2 DEF CreateRepoEnters, Nil
  <2>2. \A u \in Callers : at[u].pc = "assign" => at'[u] = at[u]
    BY <1>1, <1>4
  <2>. QED BY <1>1, <2>1, <2>2 DEF KnownIsReferred, RemovedRepo
<1>11. ObjectsExist'
  BY <1>1, <1>3, <1>4 DEF ObjectsExist
<1>. QED BY <1>5, <1>7, <1>8, <1>9, <1>10, <1>11

\* The new repo is in no dictionary; the place it goes to is free.
LEMMA AllocatesKeeps ==
    ASSUME RegistryInv, NEW t \in Callers, CreateRepoAllocates(t)
    PROVE  RegistryInv'
<1>. USE DEF RegistryInv
<1>1. /\ at \in [Callers -> ThreadStates] /\ at[t] \in ThreadStates /\ at[t].pc = "enter"
      /\ at[t].db \in Nat /\ at[t].dictionary \in Nat /\ Len(repos) \in Nat
      /\ configsLock = t /\ at[t].dictionary \in 1 .. Len(dictionaries)
      /\ repos \in Seq({"created", "open", "disposed", "failed"}) /\ Len(dictionaries) \in Nat
      /\ UNCHANGED << instances, databases, configs, dictionaries >>
  BY ThreadStateFields DEF DatabasesTypeOK, CreateRepoAllocates, CreatorsHoldLock
<1>2. \A u \in Callers \ {t} : at[u].pc \notin {"enter", "insert"}
  BY <1>1 DEF CreatorsHoldLock
<1>3. PICK s \in ThreadStates :
        /\ at' = [at EXCEPT ![t] = s] /\ s.pc \in {"idle", "insert"}
        /\ s.pc = "insert" => s.db = at[t].db
        /\ s.pc = "idle" => repos' = repos
        /\ s.pc = "insert" =>
             /\ repos' = Append(repos, "created") /\ configsLock' = configsLock
             /\ s.dictionary = at[t].dictionary /\ s.repo = Len(repos) + 1
             /\ dictionaries[at[t].dictionary] = Nil
  <2>1. CASE RepoExists(at[t].dictionary)
    <3>1. at' = [at EXCEPT ![t] = Resting] /\ repos' = repos
      BY <2>1 DEF CreateRepoAllocates, Goes
    <3>. QED BY <3>1, ThreadStateForms
  <2>2. CASE ~RepoExists(at[t].dictionary)
    <3>1. PICK s \in ThreadStates :
            s = [pc |-> "insert", db |-> at[t].db, dictionary |-> at[t].dictionary,
                 repo |-> Len(repos) + 1]
      <4>1. Len(repos) + 1 \in Nat
        BY <1>1
      <4>. QED BY <1>1, <4>1, ThreadStateForms
    <3>2. /\ s.pc = "insert" /\ s.db = at[t].db /\ s.dictionary = at[t].dictionary
          /\ s.repo = Len(repos) + 1
      BY <3>1
    <3>3. /\ at' = [at EXCEPT ![t] = s] /\ repos' = Append(repos, "created")
          /\ configsLock' = configsLock /\ dictionaries[at[t].dictionary] = Nil
      BY <2>2, <3>1 DEF CreateRepoAllocates, Goes, RepoExists
    <3>. QED BY <3>2, <3>3
  <2>. QED BY <2>1, <2>2
<1>4. /\ repos' \in Seq({"created", "open", "disposed", "failed"}) /\ Len(repos') \in Nat
      /\ Len(repos) <= Len(repos')
      /\ \A r \in 1 .. Len(repos) : repos'[r] = repos[r]
      /\ \A r \in 1 .. Len(repos') : r > Len(repos) => repos'[r] # "disposed"
  <2>1. CASE repos' = repos
    BY <1>1, <2>1
  <2>2. CASE repos' = Append(repos, "created")
    BY <1>1, <2>2
  <2>. QED BY <1>3, <2>1, <2>2
<1>5. at'[t] = s /\ \A u \in Callers \ {t} : at'[u] = at[u]
  BY <1>1, <1>3
<1>6. DatabasesTypeOK'
  BY <1>1, <1>3, <1>4 DEF DatabasesTypeOK
<1>7. CreatorsHoldLock'
  <2>. SUFFICES ASSUME NEW u \in Callers
                PROVE  /\ at'[u].pc # "enter"
                       /\ at'[u].pc = "insert" =>
                            /\ configsLock' = u /\ at'[u].dictionary \in 1 .. Len(dictionaries)
                            /\ at'[u].repo \in 1 .. Len(repos')
                            /\ dictionaries[at'[u].dictionary] = Nil
                            /\ \A k \in 1 .. Len(dictionaries) : dictionaries[k] # at'[u].repo
                       /\ at'[u].pc = "assign" =>
                            /\ at'[u].repo # Nil
                            /\ \E k \in 1 .. Len(dictionaries) : dictionaries[k] = at'[u].repo
    BY <1>1 DEF CreatorsHoldLock
  <2>1. CASE u = t /\ s.pc = "idle"
    BY <1>5, <2>1
  <2>2. CASE u = t /\ s.pc = "insert"
    <3>1. \A k \in 1 .. Len(dictionaries) : dictionaries[k] \in 0 .. Len(repos)
      BY DEF DatabasesTypeOK
    <3>2. Len(repos') = Len(repos) + 1
      BY <1>1, <1>3, <2>2
    <3>. QED BY <1>1, <1>3, <1>5, <2>2, <3>1, <3>2
  <2>3. CASE u # t
    BY <1>2, <1>5, <2>3 DEF CreatorsHoldLock
  <2>. QED BY <1>3, <2>1, <2>2, <2>3
<1>8. RepoInOneDictionary' /\ DisposedHasLeft'
  BY <1>1, <1>4 DEF RepoInOneDictionary, DisposedHasLeft
<1>9. KnownIsReferred'
  <2>1. \A u \in Callers : at[u].pc = "assign" => at'[u] = at[u]
    BY <1>1, <1>5
  <2>. QED BY <1>1, <2>1 DEF KnownIsReferred, RemovedRepo
<1>10. ObjectsExist'
  BY <1>1, <1>3, <1>5 DEF ObjectsExist
<1>. QED BY <1>6, <1>7, <1>8, <1>9, <1>10

\* The repo goes into a place that is still free, whether or not the dictionary
\* has left configs since.
LEMMA ReturnsKeeps ==
    ASSUME RegistryInv, NEW t \in Callers, CreateRepoReturns(t)
    PROVE  RegistryInv'
<1>. USE DEF RegistryInv
<1>1. PICK k, r : k = at[t].dictionary /\ r = at[t].repo
  OBVIOUS
<1>2. /\ at \in [Callers -> ThreadStates] /\ at[t] \in ThreadStates /\ at[t].pc = "insert"
      /\ at[t].db \in Nat /\ r \in Nat
  BY <1>1, ThreadStateFields DEF DatabasesTypeOK, CreateRepoReturns
<1>3. /\ k \in 1 .. Len(dictionaries) /\ r \in 1 .. Len(repos) /\ dictionaries[k] = Nil
      /\ \A l \in 1 .. Len(dictionaries) : dictionaries[l] # r
      /\ configsLock = t /\ Len(repos) \in Nat /\ Len(dictionaries) \in Nat
  BY <1>1, <1>2 DEF DatabasesTypeOK, CreatorsHoldLock
<1>4. /\ dictionaries' = [dictionaries EXCEPT ![k] = r] /\ configsLock' = NoCaller
      /\ UNCHANGED << instances, databases, configs, repos >>
  BY <1>1 DEF CreateRepoReturns
<1>5. PICK s \in ThreadStates : /\ s.pc = "assign" /\ s.repo = r /\ s.db = at[t].db
                                /\ at' = [at EXCEPT ![t] = s]
  <2>1. PICK s : s = [pc |-> "assign", db |-> at[t].db, repo |-> at[t].repo]
    OBVIOUS
  <2>2. s \in ThreadStates /\ s.pc = "assign" /\ s.repo = r /\ s.db = at[t].db
    BY <1>1, <1>2, <2>1, ThreadStateForms
  <2>. QED BY <2>1, <2>2 DEF CreateRepoReturns, Goes
<1>6. /\ dictionaries' \in Seq(Nat) /\ Len(dictionaries') = Len(dictionaries)
      /\ dictionaries'[k] = r
      /\ \A l \in 1 .. Len(dictionaries) : l # k => dictionaries'[l] = dictionaries[l]
  BY <1>2, <1>3, <1>4 DEF DatabasesTypeOK
<1>7. at'[t] = s /\ \A u \in Callers \ {t} : at'[u] = at[u]
  BY <1>2, <1>5
<1>8. DatabasesTypeOK'
  <2>1. ASSUME NEW l \in 1 .. Len(dictionaries)
        PROVE  dictionaries'[l] \in 0 .. Len(repos)
    <3>1. dictionaries[l] \in 0 .. Len(repos) /\ r \in 0 .. Len(repos)
      BY <1>3 DEF DatabasesTypeOK
    <3>. QED BY <1>6, <3>1
  <2>2. at' \in [Callers -> ThreadStates]
    BY <1>2, <1>5
  <2>. QED BY <1>4, <1>6, <2>1, <2>2 DEF DatabasesTypeOK
<1>9. CreatorsHoldLock'
  <2>. SUFFICES ASSUME NEW u \in Callers
                PROVE  /\ at'[u].pc \notin {"enter", "insert"}
                       /\ at'[u].pc = "assign" =>
                            /\ at'[u].repo # Nil
                            /\ \E l \in 1 .. Len(dictionaries') : dictionaries'[l] = at'[u].repo
    BY DEF CreatorsHoldLock
  <2>1. CASE u = t
    BY <1>3, <1>5, <1>6, <1>7, <2>1 DEF Nil
  <2>2. CASE u # t
    <3>1. at'[u] = at[u] /\ at[u].pc \notin {"enter", "insert"}
      BY <1>3, <1>7, <2>2 DEF CreatorsHoldLock
    <3>2. ASSUME at[u].pc = "assign"
          PROVE  at[u].repo # Nil /\ \E l \in 1 .. Len(dictionaries') : dictionaries'[l] = at[u].repo
      BY <1>3, <1>6, <3>2 DEF CreatorsHoldLock
    <3>. QED BY <3>1, <3>2
  <2>. QED BY <2>1, <2>2
<1>10. RepoInOneDictionary'
  BY <1>3, <1>6 DEF RepoInOneDictionary
<1>11. DisposedHasLeft'
  BY <1>3, <1>4, <1>6 DEF DisposedHasLeft, Nil
<1>12. KnownIsReferred'
  <2>. SUFFICES ASSUME configs # Nil, dictionaries'[configs] # Nil
                PROVE  KnownIsReferred'
    BY <1>4 DEF KnownIsReferred
  <2>1. CASE configs = k
    BY <1>4, <1>5, <1>6, <1>7, <2>1 DEF KnownIsReferred
  <2>2. CASE configs # k
    <3>1. dictionaries'[configs] = dictionaries[configs]
      BY <1>6, <2>2 DEF DatabasesTypeOK, Nil
    <3>2. \A u \in Callers : at[u].pc = "assign" => at'[u] = at[u]
      BY <1>2, <1>7
    <3>3. CASE \E d \in DOMAIN databases : databases[d] # Nil /\ RemovedRepo(databases[d])
      <4>1. PICK d \in DOMAIN databases : databases[d] # Nil /\ RemovedRepo(databases[d])
        BY <3>3
      <4>2. PICK l \in DOMAIN dictionaries : l # configs /\ dictionaries[l] = databases[d]
        BY <4>1 DEF RemovedRepo
      <4>3. l \in DOMAIN dictionaries' /\ dictionaries'[l] = databases[d]
        <5>1. DOMAIN dictionaries = 1 .. Len(dictionaries) /\ l # k
          BY <1>3, <4>1, <4>2 DEF DatabasesTypeOK
        <5>. QED BY <1>4, <1>6, <4>2, <5>1
      <4>. QED BY <1>4, <4>1, <4>2, <4>3 DEF KnownIsReferred, RemovedRepo
    <3>. QED BY <1>4, <3>1, <3>2, <3>3 DEF KnownIsReferred
  <2>. QED BY <2>1, <2>2
<1>13. ObjectsExist'
  BY <1>2, <1>4, <1>5, <1>7 DEF ObjectsExist
<1>. QED BY <1>8, <1>9, <1>10, <1>11, <1>12, <1>13

\* The repo that is assigned is in a dictionary: that of the session, or one that
\* has left configs.
LEMMA AssignKeeps ==
    ASSUME RegistryInv, NEW t \in Callers, AssignRepo(t)
    PROVE  RegistryInv'
<1>. USE DEF RegistryInv
<1>1. PICK d, r : d = at[t].db /\ r = at[t].repo
  OBVIOUS
<1>2. /\ at \in [Callers -> ThreadStates] /\ at[t] \in ThreadStates /\ at[t].pc = "assign"
      /\ d \in Nat /\ r \in Nat /\ r # Nil
      /\ databases' = [databases EXCEPT ![d] = r] /\ at' = [at EXCEPT ![t] = Resting]
      /\ UNCHANGED << instances, configs, dictionaries, repos, configsLock >>
  BY <1>1, ThreadStateFields DEF DatabasesTypeOK, CreatorsHoldLock, AssignRepo, Goes
<1>3. PICK k \in 1 .. Len(dictionaries) : dictionaries[k] = r
  BY <1>1, <1>2 DEF CreatorsHoldLock
<1>4. /\ databases \in Seq(Nat) /\ databases' \in Seq(Nat) /\ DOMAIN databases' = DOMAIN databases
      /\ \A e \in DOMAIN databases : databases'[e] = IF e = d THEN r ELSE databases[e]
  <2>1. databases \in Seq(Nat) /\ d \in 1 .. Len(databases)
    BY <1>1, <1>2 DEF DatabasesTypeOK, ObjectsExist
  <2>. QED BY <1>2, <2>1
<1>5. /\ at' \in [Callers -> ThreadStates] /\ at'[t] = Resting
      /\ \A u \in Callers \ {t} : at'[u] = at[u]
  BY <1>2, ThreadStateForms
<1>6. DatabasesTypeOK' /\ RepoInOneDictionary' /\ DisposedHasLeft'
  BY <1>2, <1>4, <1>5 DEF DatabasesTypeOK, RepoInOneDictionary, DisposedHasLeft
<1>7. CreatorsHoldLock'
  BY <1>2, <1>5, ThreadStateForms DEF CreatorsHoldLock
<1>8. ObjectsExist'
  <2>1. Len(databases') = Len(databases)
    BY <1>4
  <2>. QED BY <1>2, <1>5, <2>1, ThreadStateForms DEF ObjectsExist
<1>9. KnownIsReferred'
  <2>. SUFFICES ASSUME configs # Nil, dictionaries[configs] # Nil
                PROVE  KnownIsReferred'
    BY <1>2 DEF KnownIsReferred
  <2>1. d \in DOMAIN databases /\ databases'[d] = r
    BY <1>1, <1>2, <1>4 DEF ObjectsExist
  <2>2. CASE k = configs
    BY <1>2, <1>3, <1>4, <2>1, <2>2 DEF KnownIsReferred
  <2>3. CASE k # configs
    <3>1. k \in DOMAIN dictionaries
      BY <1>3 DEF DatabasesTypeOK
    <3>2. RemovedRepo(r)'
      BY <1>2, <1>3, <2>3, <3>1 DEF RemovedRepo
    <3>. QED BY <1>2, <1>4, <2>1, <3>2 DEF KnownIsReferred
  <2>. QED BY <2>2, <2>3
<1>. QED BY <1>6, <1>7, <1>8, <1>9

\* What disposeRepos disposes of leaves configs in the same step.
LEMMA DisposeKeeps ==
    ASSUME RegistryInv, DisposeRepos
    PROVE  RegistryInv'
<1>. USE DEF RegistryInv
<1>1. /\ repos' = Disposed(configs) /\ configs' = Nil
      /\ UNCHANGED << instances, databases, dictionaries, configsLock >>
  BY DEF DisposeRepos
<1>2. PICK u : at' = [at EXCEPT ![u] = [pc |-> "disposed"]]
  BY DEF DisposeRepos, Goes
<1>3. /\ at' \in [Callers -> ThreadStates]
      /\ \A t \in Callers : at'[t] = at[t] \/ at'[t].pc = "disposed"
  BY <1>2, ThreadStateForms DEF DatabasesTypeOK
<1>4. /\ repos \in Seq({"created", "open", "disposed", "failed"}) /\ Len(repos) \in Nat
      /\ dictionaries \in Seq(Nat) /\ Len(dictionaries) \in Nat
      /\ configs \in 0 .. Len(dictionaries)
  BY DEF DatabasesTypeOK
<1>5. /\ repos' \in Seq({"created", "open", "disposed", "failed"}) /\ Len(repos') = Len(repos)
      /\ \A r \in 1 .. Len(repos) :
            repos'[r] = "disposed" => \/ repos[r] = "disposed"
                                      \/ configs # Nil /\ r = dictionaries[configs]
  <2>1. CASE repos' = repos
    BY <1>4, <2>1
  <2>2. CASE /\ configs # Nil /\ dictionaries[configs] # Nil
             /\ repos' = [repos EXCEPT ![dictionaries[configs]] = "disposed"]
    <3>1. dictionaries[configs] \in 1 .. Len(repos)
      BY <1>4, <2>2 DEF DatabasesTypeOK, Nil
    <3>2. PICK i \in 1 .. Len(repos) : i = dictionaries[configs]
      BY <3>1
    <3>3. repos' = [repos EXCEPT ![i] = "disposed"]
      BY <2>2, <3>2
    <3>4. \A r \in 1 .. Len(repos) : repos'[r] = IF r = i THEN "disposed" ELSE repos[r]
      BY <1>4, <3>3
    <3>5. repos' \in Seq({"created", "open", "disposed", "failed"}) /\ Len(repos') = Len(repos)
      BY <1>4, <3>3
    <3>. QED BY <2>2, <3>2, <3>4, <3>5
  <2>. QED BY <1>1, <2>1, <2>2 DEF Disposed
<1>6. DatabasesTypeOK'
  <2>1. configs' \in 0 .. Len(dictionaries')
    BY <1>1, <1>4 DEF Nil
  <2>. QED BY <1>1, <1>3, <1>5, <2>1 DEF DatabasesTypeOK
<1>7. ObjectsExist' /\ CreatorsHoldLock'
  <2>1. ObjectsExist'
    BY <1>1, <1>3 DEF ObjectsExist
  <2>2. CreatorsHoldLock'
    BY <1>1, <1>3, <1>5 DEF CreatorsHoldLock
  <2>. QED BY <2>1, <2>2
<1>8. RepoInOneDictionary' /\ KnownIsReferred'
  BY <1>1 DEF RepoInOneDictionary, KnownIsReferred
<1>9. DisposedHasLeft'
  <2>. SUFFICES ASSUME NEW r \in 1 .. Len(repos), repos'[r] = "disposed"
                PROVE  \E k \in 1 .. Len(dictionaries) : k # Nil /\ dictionaries[k] = r
    BY <1>1, <1>5 DEF DisposedHasLeft
  <2>1. CASE repos[r] = "disposed"
    BY <1>4, <2>1 DEF DisposedHasLeft, Nil
  <2>2. CASE configs # Nil /\ r = dictionaries[configs]
    BY <1>4, <2>2 DEF Nil
  <2>. QED BY <1>5, <2>1, <2>2
<1>. QED BY <1>6, <1>7, <1>8, <1>9

-----------------------------------------------------------------------------
LEMMA RegistryKept == RegistryInv /\ [DatabasesNext]_databasesVars => RegistryInv'
<1>. SUFFICES ASSUME RegistryInv, [DatabasesNext]_databasesVars
              PROVE  RegistryInv'
  OBVIOUS
<1>1. ASSUME NEW t \in Callers, DatabaseForApp(t) \/ AppDeleted(t)
      PROVE  RegistryInv'
  BY <1>1, DatabaseForAppKeeps, AppDeletedKeeps
<1>2. ASSUME NEW t \in Callers, Step(t)
      PROVE  RegistryInv'
  BY <1>2, EnsureRepoKeeps, EntersKeeps, AllocatesKeeps, ReturnsKeeps, AssignKeeps,
     AppDeletedKeeps DEF Step
<1>3. ASSUME QueueRuns
      PROVE  RegistryInv'
  BY <1>3, DisposeKeeps, DeferredInitKeeps DEF QueueRuns
<1>4. CASE UNCHANGED databasesVars
  BY <1>4 DEF databasesVars, RegistryInv, DatabasesTypeOK, ObjectsExist, CreatorsHoldLock,
              RepoInOneDictionary, DisposedHasLeft, KnownIsReferred, RemovedRepo
<1>. QED BY <1>1, <1>2, <1>3, <1>4 DEF DatabasesNext

LEMMA RegistryUsable == RegistryInv => KnownIsUsable
<1>. SUFFICES ASSUME RegistryInv, configs # Nil, dictionaries[configs] # Nil
              PROVE  /\ repos[dictionaries[configs]] # "disposed"
                     /\ ~RemovedRepo(dictionaries[configs])
                     /\ KnownIsReferred
  BY DEF KnownIsUsable, KnownIsReferred, RegistryInv
<1>1. /\ configs \in 1 .. Len(dictionaries) /\ DOMAIN dictionaries = 1 .. Len(dictionaries)
      /\ dictionaries[configs] \in 1 .. Len(repos)
  BY DEF RegistryInv, DatabasesTypeOK, Nil
<1>2. ~RemovedRepo(dictionaries[configs])
  BY <1>1 DEF RegistryInv, RepoInOneDictionary, RemovedRepo
<1>3. repos[dictionaries[configs]] # "disposed"
  BY <1>1, <1>2 DEF RegistryInv, DisposedHasLeft, RemovedRepo
<1>. QED BY <1>2, <1>3 DEF RegistryInv

\* The repo that a session knows has been neither disposed of nor removed, and is
\* referred to unless a late assignment wrote over it: for any number of threads
\* that use the database and delete the app, in any order, although ensureRepo
\* tests without a lock and disposeRepos changes the table without the lock of
\* createRepo.
THEOREM KnownRepoUsable == DatabasesSpec => []KnownIsUsable
BY RegistryStarts, RegistryKept, RegistryUsable, PTL DEF DatabasesSpec
=============================================================================
