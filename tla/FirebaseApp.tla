---------------------------- MODULE FirebaseApp ----------------------------
(***************************************************************************)
(* The registry of Firebase apps (FIRApp.m): the static variables sAllApps *)
(* and sDefaultApp, the flags of the app objects, and threads that         *)
(* configure and delete apps.  A configuration tests whether the app       *)
(* exists BEFORE it takes the class's lock, and works in three visible     *)
(* steps inside it; sDefaultApp is read without the lock.  The exceptions  *)
(* these calls raise end the call and release the lock: an Objective-C     *)
(* caller may catch one and go on.                                         *)
(*                                                                         *)
(* App objects are numbered in the order of their creation; 0 is nil.      *)
(***************************************************************************)
EXTENDS Naturals, Sequences

CONSTANTS
  Threads,        \* threads that call the class
  OtherNames,     \* names of apps other than the default one
  MaxCalls        \* bound: configurations begun in a behaviour

Default == "__FIRAPP_DEFAULT"
Names   == {Default} \cup OtherNames
nil     == 0
NoThread == "none"

ASSUME FirebaseAppAssumption ==
  /\ MaxCalls \in Nat
  /\ Default \notin OtherNames
  /\ NoThread \notin Threads

VARIABLES
  sDefaultApp,    \* the default app object, or nil
  sAllApps,       \* for each name the app object registered under it, or nil
  apps,           \* the app objects: name and the two notification flags
  lock,           \* the thread inside @synchronized(FIRApp), or NoThread
  call,           \* what each thread is doing
  announced,      \* for each name, how often the SDKs were told to configure the app
                  \* since the name was last free (history)
  calls           \* configurations begun

vars == <<sDefaultApp, sAllApps, apps, lock, call, announced, calls>>

App     == [name : Names, alreadySentConfigureNotification : BOOLEAN,
            alreadySentDeleteNotification : BOOLEAN]
Idle    == [at |-> "idle", name |-> Default, valid |-> FALSE, app |-> nil]
Call    == [at : {"idle", "checked", "created", "added"}, name : Names,
            valid : BOOLEAN, app : Nat]

TypeOK ==
  /\ sDefaultApp \in 0..Len(apps)
  /\ sAllApps \in [Names -> 0..Len(apps)]
  /\ apps \in Seq(App)
  /\ lock \in Threads \cup {NoThread}
  /\ call \in [Threads -> Call]
  /\ announced \in [Names -> Nat]
  /\ calls \in 0..MaxCalls

Init ==
  /\ sDefaultApp = nil
  /\ sAllApps = [n \in Names |-> nil]
  /\ apps = <<>>
  /\ lock = NoThread
  /\ call = [t \in Threads |-> Idle]
  /\ announced = [n \in Names |-> 0]
  /\ calls = 0

-----------------------------------------------------------------------------
(* The test that raises "... has already been configured", made without    *)
(* the lock.  A default app that has not been announced may be configured  *)
(* again; an app of another name may not.                                  *)
AlreadyConfigured(name) ==
  IF name = Default
  THEN sDefaultApp # nil /\ apps[sDefaultApp].alreadySentConfigureNotification
  ELSE sAllApps[name] # nil

(* A thread calls configureWithOptions: or configureWithName:options: with *)
(* options whose app ID is valid or not, and passes the test.  A call that *)
(* fails it raises and changes nothing.                                    *)
Configure(t, name, valid) ==
  /\ call[t].at = "idle" /\ calls < MaxCalls
  /\ ~AlreadyConfigured(name)
  /\ call' = [call EXCEPT ![t] = [at |-> "checked", name |-> name, valid |-> valid, app |-> nil]]
  /\ calls' = calls + 1
  /\ UNCHANGED <<sDefaultApp, sAllApps, apps, lock, announced>>

(* Mutant: a new object starts with its flags off. *)
NewUnsentApp(name) ==
  [name |-> name, alreadySentConfigureNotification |-> FALSE,
   alreadySentDeleteNotification |-> FALSE]

(* initInstanceWithName:options: takes over the flags of the object that is *)
(* registered under the name, if there is one.                              *)
NewApp(name) ==
  IF sAllApps[name] # nil
  THEN [name |-> name,
        alreadySentConfigureNotification |-> apps[sAllApps[name]].alreadySentConfigureNotification,
        alreadySentDeleteNotification |-> apps[sAllApps[name]].alreadySentDeleteNotification]
  ELSE [name |-> name, alreadySentConfigureNotification |-> FALSE,
        alreadySentDeleteNotification |-> FALSE]

(* The thread enters the lock and creates the object; a default app is     *)
(* visible in sDefaultApp from here on.                                    *)
Create(t) ==
  /\ call[t].at = "checked" /\ lock = NoThread
  /\ lock' = t
  /\ apps' = Append(apps, NewApp(call[t].name))
  /\ call' = [call EXCEPT ![t].at = "created", ![t].app = Len(apps) + 1]
  /\ sDefaultApp' = IF call[t].name = Default THEN Len(apps) + 1 ELSE sDefaultApp
  /\ UNCHANGED <<sAllApps, announced, calls>>

(* addAppToAppDictionary: registers the object when configureCore accepts  *)
(* its app ID, and raises otherwise.                                       *)
AddAppToAppDictionary(t) ==
  /\ call[t].at = "created"
  /\ IF call[t].valid
     THEN /\ sAllApps' = [sAllApps EXCEPT ![call[t].name] = call[t].app]
          /\ call' = [call EXCEPT ![t].at = "added"]
          /\ UNCHANGED lock
     ELSE /\ call' = [call EXCEPT ![t] = Idle]
          /\ lock' = NoThread
          /\ UNCHANGED sAllApps
  /\ UNCHANGED <<sDefaultApp, apps, announced, calls>>

Unsent(app) == ~apps[app].alreadySentConfigureNotification

(* The notification, if the flag is off, then the end of the call. *)
SendNotifications(t) ==
  LET app == call[t].app IN
  /\ call[t].at = "added"
  /\ IF Unsent(app)
     THEN /\ announced' = [announced EXCEPT ![call[t].name] = @ + 1]
          /\ apps' = [apps EXCEPT ![app].alreadySentConfigureNotification = TRUE]
     ELSE UNCHANGED <<announced, apps>>
  /\ call' = [call EXCEPT ![t] = Idle]
  /\ lock' = NoThread
  /\ UNCHANGED <<sDefaultApp, sAllApps, calls>>

(* Mutant: deleting an app of any name clears the default app. *)
AlwaysCleared(name) == nil

DefaultAppWithout(name) == IF name = Default THEN nil ELSE sDefaultApp

(* deleteApp: on any object a caller still holds.  It unregisters the name *)
(* of the object, whichever object is registered under it.                 *)
DeleteApp(app) ==
  LET name == apps[app].name IN
  /\ lock = NoThread
  /\ sAllApps[name] # nil
  /\ sAllApps' = [sAllApps EXCEPT ![name] = nil]
  /\ sDefaultApp' = DefaultAppWithout(name)
  /\ apps' = [apps EXCEPT ![app].alreadySentDeleteNotification = TRUE]
  /\ announced' = [announced EXCEPT ![name] = 0]
  /\ UNCHANGED <<lock, call, calls>>

Next ==
  \/ \E t \in Threads :
       \/ \E name \in Names, valid \in BOOLEAN : Configure(t, name, valid)
       \/ Create(t)
       \/ AddAppToAppDictionary(t)
       \/ SendNotifications(t)
  \/ \E app \in DOMAIN apps : DeleteApp(app)

Spec == Init /\ [][Next]_vars

-----------------------------------------------------------------------------
(* The SDKs are told of a configured app once, and before anybody else can *)
(* enter the lock (sendNotificationsToSDKs:): also when several threads    *)
(* configured it at once, when one of them failed, or when it was deleted  *)
(* in between.  A second configuration that raced past the test takes over *)
(* the flag in initInstanceWithName:options:.                              *)
AnnouncedOnce ==
  \A name \in Names :
    /\ announced[name] \leq 1
    /\ lock = NoThread /\ sAllApps[name] # nil
         => announced[name] = 1 /\ ~Unsent(sAllApps[name])

(* An app object is registered under its own name, and while the default   *)
(* app is registered +defaultApp returns an app: deleteApp: and a failed   *)
(* configuration never leave a registered default app that is invisible to *)
(* isDefaultAppConfigured.                                                 *)
RegistryAgrees ==
  /\ \A name \in Names : sAllApps[name] # nil => apps[sAllApps[name]].name = name
  /\ sAllApps[Default] # nil => sDefaultApp # nil
  /\ sDefaultApp # nil => apps[sDefaultApp].name = Default
=============================================================================
