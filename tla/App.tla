-------------------------------- MODULE App --------------------------------
(***************************************************************************)
(* The application itself: AppDelegate, ViewController and LoginController *)
(* between the callbacks of UIKit.  UIKit, the bundled Firebase options,   *)
(* the Core Data store and the user are the environment; everything runs   *)
(* on the main thread, one callback at a time.                             *)
(*                                                                         *)
(* A launch configures the default Firebase app from the options file of   *)
(* the bundle, and an uncaught failure ends the process.  The Core Data    *)
(* container is lazy: the only use of it is the save when the application  *)
(* is about to terminate, so the store is opened for the first time then.  *)
(* The data model has no entity, so the context never has changes and the  *)
(* branch of saveContext that saves (lines 83-92) is never entered.        *)
(***************************************************************************)
EXTENDS Naturals

CONSTANT MaxLaunches                  \* bound: processes started in a behaviour
ASSUME LaunchesAssumption == MaxLaunches \in Nat

Processes == {"notRunning", "launched", "inactive", "active", "background",
              "suspended", "terminating"}
Fields    == {"email", "password"}
Failures  == {"none", "configure", "store"}

VARIABLES
  options,              \* GoogleService-Info.plist of the bundle: "valid", "missing", "invalidAppID"
  store,                \* whether the file of the persistent store can be opened now
  process,              \* state of the process, as UIKit sees it
  failure,              \* what ended the last process, if it was a crash of its own
  defaultApp,           \* sDefaultApp, the default Firebase app: "nil" or "configured"
  persistentContainer,  \* the lazy property: "unset" or "loaded"
  emailFieldDelegate,   \* whether the view controller is the delegate of emailField
  navigationBarHidden,
  firstResponder,       \* the text field being edited, or "none"
  launches

memory == <<defaultApp, persistentContainer, emailFieldDelegate,
            navigationBarHidden, firstResponder>>
appVars == <<options, store, process, failure, memory, launches>>

AppTypeOK ==
  /\ options \in {"valid", "missing", "invalidAppID"}
  /\ store \in {"accessible", "inaccessible"}
  /\ process \in Processes
  /\ failure \in Failures
  /\ defaultApp \in {"nil", "configured"}
  /\ persistentContainer \in {"unset", "loaded"}
  /\ emailFieldDelegate \in BOOLEAN
  /\ navigationBarHidden \in BOOLEAN
  /\ firstResponder \in Fields \cup {"none"}
  /\ launches \in 0..MaxLaunches

-----------------------------------------------------------------------------
AppInit ==
  /\ options \in {"valid", "missing", "invalidAppID"}
  /\ store \in {"accessible", "inaccessible"}
  /\ process = "notRunning"
  /\ failure = "none"
  /\ defaultApp = "nil"
  /\ persistentContainer = "unset"
  /\ emailFieldDelegate = FALSE
  /\ navigationBarHidden = FALSE
  /\ firstResponder = "none"
  /\ launches = 0

(* The process ends, by itself or with a failure; its memory is gone. *)
Ends(cause) ==
  /\ process' = "notRunning"
  /\ failure' = cause
  /\ defaultApp' = "nil"
  /\ persistentContainer' = "unset"
  /\ emailFieldDelegate' = FALSE
  /\ navigationBarHidden' = FALSE
  /\ firstResponder' = "none"

-----------------------------------------------------------------------------
(* FirebaseApp.configure(): raises without options, and when a default app *)
(* was announced before, and when the app ID is invalid; otherwise creates, *)
(* registers and announces the app.  Swift cannot catch the exception: it   *)
(* ends the process.                                                        *)
ConfigureRaises == options # "valid" \/ defaultApp = "configured"

(* Mutant: a failure leaves the app half created and is ignored. *)
ConfigureQuietly(next) ==
  /\ defaultApp' = IF ConfigureRaises THEN "created" ELSE "configured"
  /\ process' = next
  /\ UNCHANGED <<failure, persistentContainer, emailFieldDelegate,
                 navigationBarHidden, firstResponder>>

ConfigureDefaultApp(next) ==
  IF ConfigureRaises
  THEN Ends("configure")
  ELSE /\ defaultApp' = "configured"
       /\ process' = next
       /\ UNCHANGED <<failure, persistentContainer, emailFieldDelegate,
                      navigationBarHidden, firstResponder>>

(* UIKit starts a process (external). *)
Launch ==
  /\ process = "notRunning" /\ launches < MaxLaunches
  /\ process' = "launched" /\ failure' = "none"
  /\ launches' = launches + 1
  /\ UNCHANGED <<options, store, memory>>

(* application(_:didFinishLaunchingWithOptions:) *)
DidFinishLaunching ==
  /\ process = "launched"
  /\ ConfigureDefaultApp("inactive")
  /\ UNCHANGED <<options, store, launches>>

(* The view of the initial controller is loaded once, when the window      *)
(* first appears.  The controller is the root of a navigation controller.  *)
ViewDidLoad ==
  /\ process = "inactive" /\ ~emailFieldDelegate
  /\ emailFieldDelegate' = TRUE
  /\ navigationBarHidden' = TRUE
  /\ UNCHANGED <<options, store, process, failure, defaultApp,
                 persistentContainer, firstResponder, launches>>

(* The four callbacks without a body: only UIKit's own state changes. *)
Callback(from, to) ==
  /\ process = from /\ process' = to
  /\ UNCHANGED <<options, store, failure, memory, launches>>

DidBecomeActive  == emailFieldDelegate /\ Callback("inactive", "active")
WillResignActive == Callback("active", "inactive")
DidEnterBackground  == emailFieldDelegate /\ Callback("inactive", "background")
WillEnterForeground ==
  \/ Callback("background", "inactive")
  \/ Callback("suspended", "inactive")
Suspended == Callback("background", "suspended")

-----------------------------------------------------------------------------
(* saveContext() reads persistentContainer, whose initializer opens the    *)
(* store and calls fatalError when that fails.                             *)
StoreOpens == persistentContainer = "loaded" \/ store = "accessible"

SaveContext ==
  IF StoreOpens
  THEN /\ persistentContainer' = "loaded"
       /\ process' = "terminating"
       /\ UNCHANGED <<failure, defaultApp, emailFieldDelegate,
                      navigationBarHidden, firstResponder>>
  ELSE Ends("store")

(* applicationWillTerminate(_:), which UIKit does not call for a suspended *)
(* process.                                                                *)
WillTerminate ==
  /\ process \in {"inactive", "active", "background"}
  /\ SaveContext
  /\ UNCHANGED <<options, store, launches>>

(* The system ends a process that has handled applicationWillTerminate, or *)
(* discards a suspended one without a callback (external).                 *)
Exit ==
  /\ process \in {"terminating", "suspended"}
  /\ Ends("none")
  /\ UNCHANGED <<options, store, launches>>

(* The store becomes accessible or inaccessible: the device is locked, the *)
(* disk fills up (external).                                               *)
StoreChanges ==
  /\ store' \in {"accessible", "inaccessible"} \ {store}
  /\ UNCHANGED <<options, process, failure, memory, launches>>

-----------------------------------------------------------------------------
(* The user taps a text field, which becomes first responder (external). *)
TapField(field) ==
  /\ process = "active" /\ firstResponder # field
  /\ firstResponder' = field
  /\ UNCHANGED <<options, store, process, failure, defaultApp,
                 persistentContainer, emailFieldDelegate, navigationBarHidden, launches>>

ResignFirstResponder ==
  /\ firstResponder' = "none"
  /\ UNCHANGED <<options, store, process, failure, defaultApp,
                 persistentContainer, emailFieldDelegate, navigationBarHidden, launches>>

(* touchesBegan(_:with:): endEditing(true) on the whole view. *)
TouchesBegan ==
  /\ process = "active" /\ firstResponder # "none"
  /\ ResignFirstResponder

(* textFieldShouldReturn(_:), which only emailField's delegate receives: *)
(* the password field has none, and its return key changes nothing.      *)
TextFieldShouldReturn ==
  /\ process = "active" /\ firstResponder = "email" /\ emailFieldDelegate
  /\ ResignFirstResponder

AppNext ==
  \/ Launch \/ DidFinishLaunching \/ ViewDidLoad
  \/ DidBecomeActive \/ WillResignActive \/ DidEnterBackground \/ WillEnterForeground
  \/ Suspended \/ Exit \/ WillTerminate \/ StoreChanges
  \/ \E field \in Fields : TapField(field)
  \/ TouchesBegan \/ TextFieldShouldReturn

AppSpec == AppInit /\ [][AppNext]_appVars

-----------------------------------------------------------------------------
(* No code of a view runs before the default Firebase app is configured,   *)
(* whatever the options file holds: application(_:didFinishLaunching...)   *)
(* either configures it or ends the process.                               *)
FirebaseReady ==
  process \notin {"notRunning", "launched"}
    => defaultApp = "configured"

(* The process ends by itself for two reasons only: the options of the     *)
(* bundle are not valid, or the store cannot be opened at termination.  In *)
(* particular going to the background and back never configures twice, and *)
(* a launch never depends on the store.                                    *)
CauseOfCrash ==
  failure' # "none" /\ failure' # failure
    => \/ failure' = "configure" /\ options # "valid" /\ process = "launched"
       \/ failure' = "store" /\ store = "inaccessible"
             /\ process \in {"inactive", "active", "background"}
CrashHasCause == [][CauseOfCrash]_appVars

\* A launch of the application: its variables keep their types, no code of a view
\* runs before the default Firebase app is configured, and the process ends by
\* itself only for invalid options at launch or a store that cannot be opened at
\* termination.
LaunchesWell == [](AppTypeOK /\ FirebaseReady) /\ CrashHasCause
=============================================================================
