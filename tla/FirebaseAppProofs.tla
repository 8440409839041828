------------------------- MODULE FirebaseAppProofs -------------------------
(***************************************************************************)
(* Proofs about the registry of Firebase apps, for any set of threads and  *)
(* names and any number of calls.                                          *)
(*                                                                         *)
(* RegistryAgrees and AnnouncedOnce are not inductive: what the registry   *)
(* looks like when the lock is free depends on what the thread inside it   *)
(* has already done.  RegistryInv adds that, thread by thread:             *)
(* LockProtects says which thread is inside, Registering what its new      *)
(* object looks like, and Announced how the flags and the announcements    *)
(* agree for the names that it does not work on.                           *)
(***************************************************************************)
EXTENDS FirebaseApp, TLAPS

Inside(t) == call[t].at \in {"created", "added"}

(* The lock is held by the thread that has created an object and by nobody *)
(* else.                                                                   *)
LockProtects == \A t \in Threads : Inside(t) <=> lock = t

(* The object of the thread inside the lock: before it is added, its flag  *)
(* says whether one is registered; after, it is the registered one.        *)
Registering ==
  \A t \in Threads : Inside(t) =>
    /\ call[t].app \in 1..Len(apps)
    /\ apps[call[t].app].name = call[t].name
    /\ call[t].name = Default => sDefaultApp # nil
    /\ call[t].at = "created" => (Unsent(call[t].app) <=> sAllApps[call[t].name] = nil)
    /\ call[t].at = "added" => sAllApps[call[t].name] = call[t].app

(* A name is announced exactly while the flag of its object is on. *)
AnnouncedFor(name) ==
  /\ sAllApps[name] = nil => announced[name] = 0
  /\ sAllApps[name] # nil =>
       \/ announced[name] = 1 /\ ~Unsent(sAllApps[name])
       \/ /\ announced[name] = 0 /\ Unsent(sAllApps[name])
          /\ \E t \in Threads : call[t].at = "added" /\ call[t].name = name

Announced == \A name \in Names : AnnouncedFor(name)

RegistryInv ==
  /\ TypeOK
  /\ RegistryAgrees
  /\ LockProtects
  /\ Registering
  /\ Announced

-----------------------------------------------------------------------------
(* Every field of a call record, and of an app object, has its type. *)
LEMMA CallTypes ==
  ASSUME TypeOK, NEW t \in Threads
  PROVE  /\ call[t] \in Call
         /\ call[t].name \in Names
         /\ call[t].valid \in BOOLEAN
         /\ call[t].app \in Nat
  BY DEF TypeOK, Call

LEMMA AppTypes ==
  ASSUME TypeOK, NEW a \in 1..Len(apps)
  PROVE  /\ apps[a] \in App
         /\ apps[a].name \in Names
         /\ apps[a].alreadySentConfigureNotification \in BOOLEAN
         /\ apps[a].alreadySentDeleteNotification \in BOOLEAN
  <1>1. apps[a] \in App
    BY DEF TypeOK
  <1> QED
    BY <1>1 DEF App

LEMMA RegisteredIsObject ==
  ASSUME TypeOK, NEW name \in Names, sAllApps[name] # nil
  PROVE  sAllApps[name] \in 1..Len(apps)
  BY DEF TypeOK, nil

(* The object that initInstanceWithName:options: creates. *)
LEMMA NewAppType ==
  ASSUME TypeOK, NEW name \in Names
  PROVE  /\ NewApp(name) \in App
         /\ NewApp(name).name = name
         /\ NewApp(name).alreadySentConfigureNotification
              = IF sAllApps[name] # nil
                THEN apps[sAllApps[name]].alreadySentConfigureNotification
                ELSE FALSE
  <1>1. CASE sAllApps[name] # nil
    BY <1>1, RegisteredIsObject, AppTypes DEF NewApp, App
  <1>2. CASE sAllApps[name] = nil
    BY <1>2 DEF NewApp, App
  <1> QED
    BY <1>1, <1>2

-----------------------------------------------------------------------------
LEMMA RegistryInit == Init => RegistryInv
  <1> SUFFICES ASSUME Init PROVE RegistryInv
    OBVIOUS
  <1> USE FirebaseAppAssumption DEF Init
  <1>1. Default \in Names /\ Idle \in Call /\ Idle.at = "idle"
    BY DEF Names, Idle, Call, nil
  <1>2. TypeOK
    BY <1>1 DEF TypeOK, nil
  <1>3. RegistryAgrees
    BY <1>1 DEF RegistryAgrees
  <1>4. \A t \in Threads : ~Inside(t) /\ t # NoThread
    BY <1>1 DEF Inside
  <1>5. LockProtects /\ Registering
    BY <1>4 DEF LockProtects, Registering
  <1>6. Announced
    BY DEF Announced, AnnouncedFor
  <1> QED
    BY <1>2, <1>3, <1>5, <1>6 DEF RegistryInv

(* A call that passes the test is not inside the lock yet. *)
LEMMA ConfigureStep ==
  ASSUME RegistryInv, NEW t \in Threads, NEW name \in Names, NEW valid \in BOOLEAN,
         Configure(t, name, valid)
  PROVE  RegistryInv'
  <1> DEFINE c == [at |-> "checked", name |-> name, valid |-> valid, app |-> nil]
  <1> USE DEF RegistryInv, Configure
  <1>1. c \in Call /\ c.at = "checked"
    BY DEF Call, nil
  <1>2. call' \in [Threads -> Call] /\ calls' \in 0..MaxCalls
    BY <1>1, FirebaseAppAssumption DEF TypeOK
  <1>3. TypeOK'
    BY <1>2 DEF TypeOK
  <1>4. RegistryAgrees'
    BY DEF RegistryAgrees
  <1>5. \A u \in Threads : IF u = t THEN call[u].at = "idle" /\ call'[u].at = "checked"
                                     ELSE call'[u] = call[u]
    BY <1>1 DEF TypeOK
  <1>6. \A u \in Threads : Inside(u)' <=> Inside(u)
    BY <1>5 DEF Inside
  <1>7. LockProtects'
    BY <1>6 DEF LockProtects
  <1>8. \A u \in Threads : Inside(u) => call'[u] = call[u]
    BY <1>5 DEF Inside
  <1>9. Registering'
    BY <1>6, <1>8 DEF Registering, Unsent
  <1>10. Announced'
    <2> SUFFICES ASSUME NEW n \in Names,
                        sAllApps[n] # nil,
                        NEW u \in Threads, call[u].at = "added", call[u].name = n
                 PROVE  call'[u].at = "added" /\ call'[u].name = n
      BY DEF Announced, AnnouncedFor, Unsent
    <2> QED
      BY <1>5
  <1> QED
    BY <1>3, <1>4, <1>7, <1>9, <1>10

(* Entering the lock: an object registered under the name has been         *)
(* announced, because nobody is inside, and its flag passes to the new one. *)
LEMMA CreateStep ==
  ASSUME RegistryInv, NEW t \in Threads, Create(t)
  PROVE  RegistryInv'
  <1> DEFINE name == call[t].name
             new  == Len(apps) + 1
  <1> USE DEF RegistryInv, Create
  <1>1. name \in Names /\ NewApp(name) \in App /\ NewApp(name).name = name
    BY CallTypes, NewAppType
  <1>2. Len(apps) \in Nat /\ apps \in Seq(App)
    BY DEF TypeOK
  <1>3. apps' \in Seq(App) /\ Len(apps') = new /\ apps'[new] = NewApp(name)
    BY <1>1, <1>2
  <1>4. \A a \in 1..Len(apps) : apps'[a] = apps[a]
    BY <1>1, <1>2
  <1>5. new \in Nat /\ new # nil
    BY <1>2 DEF nil
  <1>6. [call[t] EXCEPT !.at = "created", !.app = new] \in Call
    BY <1>5, CallTypes DEF Call
  <1>7. call' = [call EXCEPT ![t] = [call[t] EXCEPT !.at = "created", !.app = new]]
    BY DEF TypeOK
  <1>8. call' \in [Threads -> Call]
    BY <1>6, <1>7 DEF TypeOK
  <1>9. TypeOK'
    BY <1>2, <1>3, <1>8 DEF TypeOK
  <1>10. /\ call'[t].at = "created" /\ call'[t].app = new /\ call'[t].name = name
         /\ \A u \in Threads : u # t => call'[u] = call[u]
    BY <1>7, CallTypes DEF TypeOK, Call
  <1>11. \A u \in Threads : ~Inside(u)
    BY FirebaseAppAssumption DEF LockProtects
  <1>12. \A u \in Threads : Inside(u)' <=> u = t
    BY <1>10, <1>11 DEF Inside
  <1>13. LockProtects'
    BY <1>12 DEF LockProtects
  <1>14. \A n \in Names : sAllApps[n] # nil => apps'[sAllApps[n]] = apps[sAllApps[n]]
    BY <1>4, RegisteredIsObject
  <1>15. RegistryAgrees'
    <2>1. sDefaultApp # nil => sDefaultApp \in 1..Len(apps)
      BY DEF TypeOK, nil
    <2>2. sDefaultApp' # nil => apps'[sDefaultApp'].name = Default
      BY <1>1, <1>3, <1>4, <2>1 DEF RegistryAgrees
    <2>3. sDefaultApp # nil => sDefaultApp' # nil
      BY <1>5
    <2> QED
      BY <1>14, <2>2, <2>3 DEF RegistryAgrees
  <1>16. \A n \in Names : sAllApps[n] # nil => announced[n] = 1 /\ ~Unsent(sAllApps[n])
    BY <1>11 DEF Announced, AnnouncedFor, Inside
  <1>17. Announced'
    BY <1>14, <1>16 DEF Announced, AnnouncedFor, Unsent
  <1>18. ~apps'[new].alreadySentConfigureNotification <=> sAllApps[name] = nil
    <2>1. NewApp(name).alreadySentConfigureNotification
            = IF sAllApps[name] # nil
              THEN apps[sAllApps[name]].alreadySentConfigureNotification
              ELSE FALSE
      BY <1>1, NewAppType
    <2>2. CASE sAllApps[name] = nil
      BY <1>3, <2>1, <2>2
    <2>3. CASE sAllApps[name] # nil
      BY <1>1, <1>3, <1>16, <2>1, <2>3 DEF Unsent
    <2> QED
      BY <2>2, <2>3
  <1>19. Registering'
    <2> SUFFICES /\ new \in 1..Len(apps')
                 /\ apps'[new].name = name
                 /\ name = Default => sDefaultApp' # nil
                 /\ ~apps'[new].alreadySentConfigureNotification <=> sAllApps'[name] = nil
      BY <1>10, <1>12 DEF Registering, Unsent
    <2> QED
      BY <1>1, <1>2, <1>3, <1>5, <1>18
  <1> QED
    BY <1>9, <1>13, <1>15, <1>17, <1>19

(* The thread that works on its object, inside the lock, is the only one. *)
LEMMA OnlyOneInside ==
  ASSUME RegistryInv, NEW t \in Threads, Inside(t)
  PROVE  \A u \in Threads : Inside(u) => u = t
  BY DEF RegistryInv, LockProtects

LEMMA AddStep ==
  ASSUME RegistryInv, NEW t \in Threads, AddAppToAppDictionary(t)
  PROVE  RegistryInv'
  <1> DEFINE name == call[t].name
             app  == call[t].app
  <1> USE DEF RegistryInv, AddAppToAppDictionary
  <1>1. Inside(t) /\ name \in Names /\ app \in 1..Len(apps) /\ app # nil
    BY CallTypes DEF Inside, Registering, nil
  <1>2. /\ apps[app].name = name
        /\ name = Default => sDefaultApp # nil
        /\ Unsent(app) <=> sAllApps[name] = nil
    BY <1>1 DEF Registering
  <1>3. \A u \in Threads : u # t => ~Inside(u)
    BY <1>1, OnlyOneInside
  <1>4. CASE call[t].valid
    <2> USE <1>4
    <2>1. sAllApps' = [sAllApps EXCEPT ![name] = app] /\ lock' = lock
      OBVIOUS
    <2>2. call' = [call EXCEPT ![t] = [call[t] EXCEPT !.at = "added"]]
      BY DEF TypeOK
    <2>3. [call[t] EXCEPT !.at = "added"] \in Call
      BY CallTypes DEF Call
    <2>4. TypeOK'
      BY <1>1, <2>1, <2>2, <2>3 DEF TypeOK
    <2>5. /\ call'[t].at = "added" /\ call'[t].app = app /\ call'[t].name = name
          /\ \A u \in Threads : u # t => call'[u] = call[u]
      BY <2>2, CallTypes DEF TypeOK, Call
    <2>6. \A u \in Threads : Inside(u)' <=> Inside(u)
      BY <1>1, <2>5 DEF Inside
    <2>7. LockProtects'
      BY <2>1, <2>6 DEF LockProtects
    <2>8. sAllApps'[name] = app /\ \A n \in Names : n # name => sAllApps'[n] = sAllApps[n]
      BY <1>1, <2>1 DEF TypeOK
    <2>9. RegistryAgrees'
      BY <1>1, <1>2, <2>8 DEF RegistryAgrees, Names
    <2>10. Registering'
      BY <1>1, <1>2, <1>3, <2>5, <2>6, <2>8 DEF Registering
    <2>11. Announced'
      <3> SUFFICES ASSUME NEW n \in Names PROVE AnnouncedFor(n)'
        BY DEF Announced
      <3>1. CASE n = name
        <4>1. sAllApps[name] # nil => announced[name] = 1
          <5> SUFFICES ASSUME sAllApps[name] # nil,
                              NEW u \in Threads, call[u].at = "added", call[u].name = name
                       PROVE  FALSE
            BY <1>1 DEF Announced, AnnouncedFor
          <5> QED
            BY <1>3 DEF Inside
        <4>2. sAllApps[name] = nil => announced[name] = 0
          BY <1>1 DEF Announced, AnnouncedFor
        <4> QED
          BY <1>1, <1>2, <2>5, <2>8, <3>1, <4>1, <4>2 DEF AnnouncedFor, Unsent
      <3>2. CASE n # name
        <4>1. ASSUME NEW u \in Threads, call[u].at = "added" PROVE FALSE
          BY <1>3, <4>1 DEF Inside
        <4> QED
          BY <2>8, <3>2, <4>1 DEF Announced, AnnouncedFor, Unsent
      <3> QED
        BY <3>1, <3>2
    <2> QED
      BY <2>4, <2>7, <2>9, <2>10, <2>11
  <1>5. CASE ~call[t].valid
    <2> USE <1>5
    <2>1. /\ call' = [call EXCEPT ![t] = Idle] /\ lock' = NoThread
          /\ UNCHANGED <<sAllApps, sDefaultApp, apps, announced, calls>>
      OBVIOUS
    <2>2. Idle \in Call /\ Idle.at = "idle"
      BY DEF Idle, Call, Names, nil
    <2>3. TypeOK'
      BY <2>1, <2>2 DEF TypeOK
    <2>4. call'[t].at = "idle" /\ \A u \in Threads : u # t => call'[u] = call[u]
      BY <2>1, <2>2 DEF TypeOK
    <2>5. \A u \in Threads : ~Inside(u)'
      BY <1>3, <2>4 DEF Inside
    <2>6. LockProtects' /\ Registering'
      BY <2>1, <2>5, FirebaseAppAssumption DEF LockProtects, Registering
    <2>7. RegistryAgrees'
      BY <2>1 DEF RegistryAgrees
    <2>8. \A u \in Threads : call[u].at # "added"
      BY <1>3 DEF Inside
    <2>9. Announced'
      BY <2>1, <2>8 DEF Announced, AnnouncedFor, Unsent
    <2> QED
      BY <2>3, <2>6, <2>7, <2>9
  <1> QED
    BY <1>4, <1>5

LEMMA SendStep ==
  ASSUME RegistryInv, NEW t \in Threads, SendNotifications(t)
  PROVE  RegistryInv'
  <1> DEFINE name == call[t].name
             app  == call[t].app
  <1> USE DEF RegistryInv, SendNotifications
  <1>1. Inside(t) /\ name \in Names /\ app \in 1..Len(apps) /\ sAllApps[name] = app
    BY CallTypes DEF Inside, Registering
  <1>2. \A u \in Threads : u # t => ~Inside(u)
    BY <1>1, OnlyOneInside
  <1>3. /\ call' = [call EXCEPT ![t] = Idle] /\ lock' = NoThread
        /\ UNCHANGED <<sAllApps, sDefaultApp, calls>>
    OBVIOUS
  <1>4. Idle \in Call /\ Idle.at = "idle"
    BY DEF Idle, Call, Names, nil
  <1>5. call'[t].at = "idle" /\ \A u \in Threads : u # t => call'[u] = call[u]
    BY <1>3, <1>4 DEF TypeOK
  <1>6. \A u \in Threads : ~Inside(u)'
    BY <1>2, <1>5 DEF Inside
  <1>7. LockProtects' /\ Registering'
    BY <1>3, <1>6, FirebaseAppAssumption DEF LockProtects, Registering
  <1>8. /\ apps' \in Seq(App) /\ Len(apps') = Len(apps)
        /\ announced' \in [Names -> Nat]
        /\ \A a \in 1..Len(apps) : apps'[a].name = apps[a].name
        /\ \A a \in 1..Len(apps) : a # app => apps'[a] = apps[a]
        /\ apps'[app].alreadySentConfigureNotification
        /\ announced'[name] = IF Unsent(app) THEN announced[name] + 1 ELSE announced[name]
        /\ \A n \in Names : n # name => announced'[n] = announced[n]
    <2>1. CASE Unsent(app)
      <3>1. [apps[app] EXCEPT !.alreadySentConfigureNotification = TRUE] \in App
        BY <1>1, AppTypes DEF App
      <3>2. apps' = [apps EXCEPT ![app]
                       = [apps[app] EXCEPT !.alreadySentConfigureNotification = TRUE]]
        BY <2>1
      <3>3. apps \in Seq(App) /\ announced \in [Names -> Nat]
        BY DEF TypeOK
      <3>4. apps' \in Seq(App) /\ Len(apps') = Len(apps)
        BY <1>1, <3>1, <3>2, <3>3
      <3>5. /\ \A a \in 1..Len(apps) : a # app => apps'[a] = apps[a]
            /\ apps'[app] = [apps[app] EXCEPT !.alreadySentConfigureNotification = TRUE]
        <4>1. app \in DOMAIN apps /\ DOMAIN apps = 1..Len(apps)
          BY <1>1, <3>3
        <4> QED
          BY <3>2, <4>1, Zenon
      <3>6. /\ apps'[app].name = apps[app].name
            /\ apps'[app].alreadySentConfigureNotification
        BY <1>1, <3>5, AppTypes DEF App
      <3>7. announced' = [announced EXCEPT ![name] = announced[name] + 1]
        BY <2>1
      <3>8. /\ announced' \in [Names -> Nat]
            /\ announced'[name] = announced[name] + 1
            /\ \A n \in Names : n # name => announced'[n] = announced[n]
        BY <1>1, <3>3, <3>7
      <3> QED
        BY <2>1, <3>4, <3>5, <3>6, <3>8
    <2>2. CASE ~Unsent(app)
      BY <1>1, <2>2 DEF TypeOK, Unsent
    <2> QED
      BY <2>1, <2>2
  <1>9. TypeOK'
    BY <1>3, <1>4, <1>8 DEF TypeOK
  <1>10. RegistryAgrees'
    <2>1. \A n \in Names : sAllApps[n] # nil => apps'[sAllApps[n]].name = apps[sAllApps[n]].name
      BY <1>8, RegisteredIsObject
    <2>2. sDefaultApp # nil => apps'[sDefaultApp].name = apps[sDefaultApp].name
      BY <1>8 DEF TypeOK, nil
    <2> QED
      BY <1>3, <2>1, <2>2 DEF RegistryAgrees
  <1>11. Announced'
    <2> SUFFICES ASSUME NEW n \in Names PROVE AnnouncedFor(n)'
      BY DEF Announced
    <2>1. CASE n = name
      <3>1. app # nil
        BY <1>1 DEF nil
      <3>2. announced'[name] = 1
        BY <1>1, <1>8, <3>1 DEF Announced, AnnouncedFor, TypeOK
      <3> QED
        BY <1>1, <1>3, <1>8, <2>1, <3>1, <3>2 DEF AnnouncedFor, Unsent
    <2>2. CASE n # name
      <3>1. \A u \in Threads : ~(call[u].at = "added" /\ call[u].name = n)
        BY <1>2, <2>2 DEF Inside
      <3>2. sAllApps[n] # nil => sAllApps[n] \in 1..Len(apps) /\ sAllApps[n] # app
        BY <1>1, <2>2, RegisteredIsObject DEF RegistryAgrees, nil
      <3> QED
        BY <1>3, <1>8, <2>2, <3>1, <3>2 DEF Announced, AnnouncedFor, Unsent
    <2> QED
      BY <2>1, <2>2
  <1> QED
    BY <1>7, <1>9, <1>10, <1>11

(* deleteApp: frees a name that nobody is configuring inside the lock. *)
LEMMA DeleteStep ==
  ASSUME RegistryInv, NEW app \in DOMAIN apps, DeleteApp(app)
  PROVE  RegistryInv'
  <1> DEFINE name == apps[app].name
  <1> USE DEF RegistryInv, DeleteApp
  <1>1. app \in 1..Len(apps) /\ apps \in Seq(App)
    BY DEF TypeOK
  <1>2. name \in Names
    BY <1>1, AppTypes
  <1>3. [apps[app] EXCEPT !.alreadySentDeleteNotification = TRUE] \in App
    BY <1>1, AppTypes DEF App
  <1>4. apps' = [apps EXCEPT ![app] = [apps[app] EXCEPT !.alreadySentDeleteNotification = TRUE]]
    OBVIOUS
  <1>5. apps' \in Seq(App) /\ Len(apps') = Len(apps)
    BY <1>1, <1>3, <1>4
  <1>6. \A a \in 1..Len(apps) :
          /\ apps'[a].name = apps[a].name
          /\ apps'[a].alreadySentConfigureNotification = apps[a].alreadySentConfigureNotification
    BY <1>1, <1>4, AppTypes DEF App
  <1>7. sAllApps'[name] = nil /\ \A n \in Names : n # name => sAllApps'[n] = sAllApps[n]
    BY <1>2 DEF TypeOK
  <1>8. announced'[name] = 0 /\ \A n \in Names : n # name => announced'[n] = announced[n]
    BY <1>2 DEF TypeOK
  <1>9. TypeOK'
    <2>1. sAllApps' \in [Names -> 0..Len(apps)] /\ announced' \in [Names -> Nat]
      <3>1. nil \in 0..Len(apps)
        BY <1>1 DEF nil
      <3> QED
        BY <3>1 DEF TypeOK
    <2>2. sDefaultApp' \in 0..Len(apps)
      BY DEF TypeOK, DefaultAppWithout, nil
    <2> QED
      BY <1>5, <2>1, <2>2 DEF TypeOK
  <1>10. \A u \in Threads : ~Inside(u) /\ ~Inside(u)'
    BY FirebaseAppAssumption DEF LockProtects, Inside
  <1>11. LockProtects' /\ Registering'
    BY <1>10 DEF LockProtects, Registering, Inside
  <1>12. RegistryAgrees'
    <2>1. sDefaultApp' # nil => sDefaultApp' = sDefaultApp /\ sDefaultApp \in 1..Len(apps)
      BY DEF DefaultAppWithout, TypeOK, nil
    <2>2. sAllApps'[Default] # nil => sDefaultApp' # nil
      BY <1>7 DEF DefaultAppWithout, RegistryAgrees, Names
    <2>3. \A n \in Names : sAllApps'[n] # nil
             => sAllApps'[n] = sAllApps[n] /\ sAllApps[n] \in 1..Len(apps)
      BY <1>7, RegisteredIsObject
    <2> QED
      BY <1>6, <2>1, <2>2, <2>3 DEF RegistryAgrees
  <1>13. Announced'
    <2> SUFFICES ASSUME NEW n \in Names PROVE AnnouncedFor(n)'
      BY DEF Announced
    <2>1. \A u \in Threads : call[u].at # "added"
      BY <1>10 DEF Inside
    <2>2. CASE n = name
      BY <1>7, <1>8, <2>2 DEF AnnouncedFor
    <2>3. CASE n # name
      BY <1>6, <1>7, <1>8, <2>1, <2>3, RegisteredIsObject DEF Announced, AnnouncedFor, Unsent
    <2> QED
      BY <2>2, <2>3
  <1> QED
    BY <1>9, <1>11, <1>12, <1>13

-----------------------------------------------------------------------------
LEMMA RegistryStep == RegistryInv /\ [Next]_vars => RegistryInv'
  <1> SUFFICES ASSUME RegistryInv, [Next]_vars PROVE RegistryInv'
    OBVIOUS
  <1>1. ASSUME NEW t \in Threads, NEW name \in Names, NEW valid \in BOOLEAN,
               Configure(t, name, valid)
        PROVE  RegistryInv'
    BY <1>1, ConfigureStep
  <1>2. ASSUME NEW t \in Threads, Create(t) PROVE RegistryInv'
    BY <1>2, CreateStep
  <1>3. ASSUME NEW t \in Threads, AddAppToAppDictionary(t) PROVE RegistryInv'
    BY <1>3, AddStep
  <1>4. ASSUME NEW t \in Threads, SendNotifications(t) PROVE RegistryInv'
    BY <1>4, SendStep
  <1>5. ASSUME NEW app \in DOMAIN apps, DeleteApp(app) PROVE RegistryInv'
    BY <1>5, DeleteStep
  <1>6. CASE UNCHANGED vars
    BY <1>6 DEF vars, RegistryInv, TypeOK, RegistryAgrees, LockProtects, Registering,
                Announced, AnnouncedFor, Inside, Unsent
  <1> QED
    BY <1>1, <1>2, <1>3, <1>4, <1>5, <1>6 DEF Next

LEMMA RegistryInvariant == Spec => []RegistryInv
  BY RegistryInit, RegistryStep, PTL DEF Spec

(* The registry of apps, its default app and the objects agree, for any    *)
(* number of threads that configure and delete apps (FIRApp.m:123-281).    *)
THEOREM RegistryConsistent == Spec => []RegistryAgrees
  <1>1. RegistryInv => RegistryAgrees
    BY DEF RegistryInv
  <1> QED
    BY <1>1, RegistryInvariant, PTL

(* The SDKs are told exactly once of every app that can be looked up,      *)
(* however the threads race past the unprotected test (FIRApp.m:125-141).  *)
THEOREM ToldOnce == Spec => []AnnouncedOnce
  <1>1. RegistryInv => AnnouncedOnce
    <2> SUFFICES ASSUME RegistryInv, NEW name \in Names
                 PROVE  /\ announced[name] \leq 1
                        /\ lock = NoThread /\ sAllApps[name] # nil
                             => announced[name] = 1 /\ ~Unsent(sAllApps[name])
      BY DEF AnnouncedOnce
    <2>1. AnnouncedFor(name)
      BY DEF RegistryInv, Announced
    <2>2. announced[name] \leq 1
      BY <2>1 DEF AnnouncedFor
    <2>3. lock = NoThread => \A t \in Threads : call[t].at # "added"
      BY FirebaseAppAssumption DEF RegistryInv, LockProtects, Inside
    <2> QED
      BY <2>1, <2>2, <2>3 DEF AnnouncedFor
  <1> QED
    BY <1>1, RegistryInvariant, PTL
=============================================================================
