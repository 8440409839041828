------------------------------ MODULE MCClient ------------------------------
(***************************************************************************)
(* Small instances of the parts of the client beside the connection: the   *)
(* registry of Firebase apps, the application that configures its default  *)
(* app, the registry of databases and repos, the stored writes of a repo,  *)
(* the websocket, and the write tree.  part says which of them a behaviour *)
(* is of.                                                                  *)
(*                                                                         *)
(* App takes configure as one step of the main thread, which no other      *)
(* thread of this application calls; FirebaseApp takes it apart for any    *)
(* number of threads.                                                      *)
(***************************************************************************)
EXTENDS FirebaseApp, App, Databases, UserWrites, WebSocket, WriteTree

VARIABLE part

MCVars == << part, vars, appVars, databasesVars, userWritesVars, webSocketVars,
             writeTreeVars >>

MCInit ==
    /\ part \in {"apps", "application", "databases", "writes", "websocket", "writetree"}
    /\ Init /\ AppInit /\ (part # "application" => options = "valid" /\ store = "accessible")
    /\ DatabasesInit /\ UserWritesInit /\ WebSocketInit /\ WriteTreeInit

\* The data of the write tree: a grandchild and a child of the root.
TwoLeaves == {<< "a", "b" >>, << "d" >>}

MCNext ==
    /\ UNCHANGED part
    /\ \/ /\ part = "apps" /\ Next
          /\ UNCHANGED << appVars, databasesVars, userWritesVars, webSocketVars, writeTreeVars >>
       \/ /\ part = "application" /\ AppNext
          /\ UNCHANGED << vars, databasesVars, userWritesVars, webSocketVars, writeTreeVars >>
       \/ /\ part = "databases" /\ DatabasesNext
          /\ UNCHANGED << vars, appVars, userWritesVars, webSocketVars, writeTreeVars >>
       \/ /\ part = "writes" /\ UserWritesNext
          /\ UNCHANGED << vars, appVars, databasesVars, webSocketVars, writeTreeVars >>
       \/ /\ part = "websocket" /\ WebSocketNext
          /\ UNCHANGED << vars, appVars, databasesVars, userWritesVars, writeTreeVars >>
       \/ /\ part = "writetree" /\ WriteTreeNext
          /\ UNCHANGED << vars, appVars, databasesVars, userWritesVars, webSocketVars >>

\* The fair actions of a part are disabled in its initial state, so the fairness
\* of one part asks nothing of the behaviours of another.
MCSpec == MCInit /\ [][MCNext]_MCVars /\ ThreadsRun /\ WritesProceed /\ MainThreadRuns
=============================================================================
