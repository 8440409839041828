------------------------ MODULE PersistentConnection ------------------------
(***************************************************************************)
(* FPersistentConnection, the client side of the Realtime Database wire    *)
(* protocol, together with the objects it owns: the FConnection /          *)
(* FWebSocketConnection pair it opens for each attempt and the             *)
(* FIRRetryHelper that spaces the attempts.                                *)
(*                                                                         *)
(* Every handler of these classes runs on one serial dispatch queue, so a  *)
(* handler is one atomic step.  What interleaves is what is posted to that *)
(* queue: calls of the application, websocket callbacks, timers, token     *)
(* fetches, and the connection's own dispatch_async.  A closed FConnection *)
(* is released and its delegates are weak, so nothing that was still under *)
(* way on it reaches the client: a connection that goes away takes the     *)
(* messages of both directions with it.                                    *)
(*                                                                         *)
(* External, and modelled from how the code uses them: the server (it may  *)
(* answer the requests of a connection in any order, except that it        *)
(* answers the auth requests in order), the network, the token provider.   *)
(* Data, priorities, hashes and paths of writes are left out: a write is   *)
(* its index, a listen is the identity of its FOutstandingQuery.           *)
(***************************************************************************)
EXTENDS Naturals, Sequences, FiniteSets, RetryHelper

CONSTANTS
  Queries,            \* pairs <<path, params>> the application listens to
  MaxPuts,            \* writes the application (and rerun transactions) issue
  MaxListens,         \* calls of listen:
  MaxOnDisconnects,   \* on-disconnect operations issued
  MaxDisruptions,     \* resets, losses, failures, interrupts and wake-ups
  NSUIntegerMax       \* the value an unsigned counter wraps to below zero

ASSUME ConnectionAssumption ==
  /\ MaxPuts \in Nat /\ MaxListens \in Nat
  /\ MaxOnDisconnects \in Nat /\ MaxDisruptions \in Nat
  /\ NSUIntegerMax \in Nat /\ NSUIntegerMax > MaxListens
  /\ IsFiniteSet(Queries)
  /\ \A query \in Queries : query = <<query[1], query[2]>>

VARIABLES
  connectionState,            \* FPersistentConnection's ConnectionState
  realtime,                   \* state of the FConnection, or "none" when nil
  everConnected,              \* FWebSocketConnection: the websocket did open
  interruptReasons,
  retryHelper,
  currentFetchTokenAttempt,
  tokenFetches,               \* external: fetches the provider has not answered
  tokenStale,                 \* external: the provider caches a rejected token
  authToken,
  forceAuthTokenRefresh,
  firstConnection,
  onConnectPending,           \* the block onReady posts has not run yet
  infoConnected,              \* FRepo's .info/connected
  listens,                    \* query -> its FOutstandingQuery, 0 when absent
  listenCounter,
  serverListens,              \* external: listens the server holds for us
  outstandingPuts,            \* index -> FOutstandingPut
  putCounter,
  putsToAck,
  completions,                \* history: runs of a write's onCompleteBlock
  sentPuts,                   \* external: puts on the wire, in sending order
  onDisconnectQueue,
  onDisconnectCounter,
  onDisconnectDone,           \* history: runs of an operation's callback
  requestNumber,
  requestCBHash,              \* request number -> callback
  unackedListensCount,
  disruptions                 \* bound on what the environment does to us

connVars == <<connectionState, realtime, everConnected, interruptReasons, retryHelper>>
tokenVars == <<currentFetchTokenAttempt, tokenFetches, tokenStale, authToken,
               forceAuthTokenRefresh>>
infoVars == <<firstConnection, onConnectPending, infoConnected>>
listenVars == <<listens, listenCounter, serverListens>>
putVars == <<outstandingPuts, putCounter, putsToAck, completions, sentPuts>>
onDisconnectVars == <<onDisconnectQueue, onDisconnectCounter, onDisconnectDone>>
requestVars == <<requestNumber, requestCBHash, unackedListensCount>>

vars == <<connVars, tokenVars, infoVars, listenVars, putVars, onDisconnectVars,
          requestVars, disruptions>>

-----------------------------------------------------------------------------
ConnectionStates == {"Disconnected", "GettingToken", "Connecting",
                     "Authenticating", "Connected"}

InterruptReasons == {"waiting_for_open", "repo_interrupt", "server_kill"}

PutIndices == 1..MaxPuts

\* A callback of requestCBHash.  "authRestore" is the auth request whose
\* callback restores the state; id is the write, listen or operation it is for.
Callback(kind, id) == [kind |-> kind, id |-> id]

CallbackKinds == {"auth", "authRestore", "listen", "put", "onDisconnect", "stats"}

Init ==
  /\ connectionState = "Disconnected" /\ realtime = "none" /\ everConnected = FALSE
  /\ interruptReasons = {"waiting_for_open"} /\ retryHelper = InitRetryHelper
  /\ currentFetchTokenAttempt = 0 /\ tokenFetches = {} /\ tokenStale = FALSE
  /\ authToken = "nil" /\ forceAuthTokenRefresh = FALSE
  /\ firstConnection = TRUE /\ onConnectPending = FALSE /\ infoConnected = FALSE
  /\ listens = [query \in Queries |-> 0] /\ listenCounter = 0 /\ serverListens = {}
  /\ outstandingPuts = [index \in {} |-> [hash |-> FALSE, sent |-> FALSE]]
  /\ putCounter = 0 /\ putsToAck = <<>> /\ sentPuts = <<>>
  /\ completions = [index \in PutIndices |-> 0]
  /\ onDisconnectQueue = <<>> /\ onDisconnectCounter = 0
  /\ onDisconnectDone = [op \in 1..MaxOnDisconnects |-> 0]
  /\ requestNumber = 0 /\ requestCBHash = [rn \in {} |-> Callback("stats", 0)]
  /\ unackedListensCount = 0
  /\ disruptions = 0

\* The environment spends one of its MaxDisruptions disruptions.
Disrupt == disruptions < MaxDisruptions /\ disruptions' = disruptions + 1

\* Mutant of connected: counts the connection attempt as connected.
connectedOrConnecting ==
  connectionState \in {"Connecting", "Authenticating", "Connected"}

connected == connectionState \in {"Authenticating", "Connected"}

canSendWrites == connectionState = "Connected"

\* The FOutstandingQuery objects in self.listens.
CurrentListens == {listens[query] : query \in Queries} \ {0}

\* The orders in which a dictionary may be enumerated, and in which a sorted
\* array of put indices is.
Enumerations(S) == {s \in [1..Cardinality(S) -> S] :
                      \A i, j \in 1..Cardinality(S) : i # j => s[i] # s[j]}

Ascending(S) == {s \in [1..Cardinality(S) -> S] :
                   \A i, j \in 1..Cardinality(S) : i < j => s[i] < s[j]}

\* Mutant of PutsToRestore: puts that were sent before the disconnect are not
\* sent again.
UnsentPuts == {index \in DOMAIN outstandingPuts : ~outstandingPuts[index].sent}

\* The puts restoreState sends, and what it leaves in the on-disconnect queue.
PutsToRestore == DOMAIN outstandingPuts

\* Mutant of OnDisconnectsLeft: the queue is not emptied.
OnDisconnectsKept == onDisconnectQueue

OnDisconnectsLeft == <<>>

Callbacks(kind, ids) == [i \in 1..Len(ids) |-> Callback(kind, ids[i])]

-----------------------------------------------------------------------------
(* Requests. *)

\* sendAction, once per callback of the sequence: each request takes the next
\* number; hash is requestCBHash as the running handler left it.
SendActions(hash, callbacks) ==
  /\ requestNumber' = requestNumber + Len(callbacks)
  /\ requestCBHash' =
       [rn \in DOMAIN hash \cup (requestNumber + 1)..(requestNumber + Len(callbacks)) |->
          IF rn \in DOMAIN hash THEN hash[rn] ELSE callbacks[rn - requestNumber]]

\* sendAction with a nil callback: the number is used up, nothing is kept.
SendWithoutCallback ==
  requestNumber' = requestNumber + 1 /\ UNCHANGED requestCBHash

\* Mutant of Answered: the callback stays in the hash.
AnsweredKept(rn) == requestCBHash

\* onDataMessage: the callback leaves the hash before it runs.
Answered(rn) == [other \in DOMAIN requestCBHash \ {rn} |-> requestCBHash[other]]

\* unackedListensCount-- on an NSUInteger.
Decremented(count) == IF count = 0 THEN NSUIntegerMax ELSE count - 1

-----------------------------------------------------------------------------
(* Writes. *)

Remove(puts, gone) == [index \in DOMAIN puts \ gone |-> puts[index]]

Complete(gone) == [index \in PutIndices |->
                     IF index \in gone THEN completions[index] + 1 ELSE completions[index]]

\* cancelSentTransactions.  The callback of a cancelled transaction puts reruns
\* what waited for it, which may issue a new transaction put; the connection is
\* already down at that point, so that put is only queued.
CancelSentTransactions ==
  LET cancelled == {index \in DOMAIN outstandingPuts :
                      outstandingPuts[index].hash /\ outstandingPuts[index].sent}
      kept == Remove(outstandingPuts, cancelled)
  IN  /\ completions' = Complete(cancelled)
      /\ \/ outstandingPuts' = kept /\ UNCHANGED putCounter
         \/ /\ cancelled # {} /\ putCounter < MaxPuts
            /\ putCounter' = putCounter + 1
            /\ outstandingPuts' = [index \in DOMAIN kept \cup {putCounter'} |->
                                     IF index \in DOMAIN kept THEN kept[index]
                                     ELSE [hash |-> TRUE, sent |-> FALSE]]

-----------------------------------------------------------------------------
(* Losing a connection and scheduling the next one. *)

\* shouldReconnect
ShouldReconnect(reasons) == reasons = {}

\* tryScheduleReconnect on the helper and on forceAuthTokenRefresh, whose value
\* the scheduled block captures.
TryScheduleReconnect(helper, force) ==
  IF ShouldReconnect(interruptReasons')
    THEN retryHelper' = Retry(helper, force) /\ forceAuthTokenRefresh' = FALSE
    ELSE retryHelper' = helper /\ forceAuthTokenRefresh' = force

\* Mutant of ScheduleIfDisconnected: no retry is scheduled while an old token
\* fetch is still under way.
ScheduleIfIdle(helper) ==
  IF connectionState = "Disconnected" /\ tokenFetches = {}
    THEN TryScheduleReconnect(helper, forceAuthTokenRefresh)
    ELSE retryHelper' = helper /\ UNCHANGED forceAuthTokenRefresh

ScheduleIfDisconnected(helper) ==
  IF connectionState = "Disconnected"
    THEN TryScheduleReconnect(helper, forceAuthTokenRefresh)
    ELSE retryHelper' = helper /\ UNCHANGED forceAuthTokenRefresh

\* FConnection closeWithReason and FPersistentConnection onDisconnect, up to the
\* decision to reconnect; the delegate's .info/connected update included.
TearDown ==
  /\ connectionState' = "Disconnected" /\ realtime' = "none" /\ everConnected' = FALSE
  /\ CancelSentTransactions
  /\ requestCBHash' = [rn \in {} |-> Callback("stats", 0)] /\ UNCHANGED requestNumber
  /\ unackedListensCount' = 0
  /\ infoConnected' = FALSE
  /\ sentPuts' = <<>> /\ serverListens' = {}
  /\ UNCHANGED <<putsToAck, listens, listenCounter, onDisconnectVars,
                 firstConnection, onConnectPending>>

\* The rest of onDisconnect: the back-off is reset after a server reset, or when
\* the connection had been ready for more than the success delay.
Reconnect(serverReset, force) ==
  \E lastedLong \in {FALSE} \cup (IF realtime = "CONNECTED" THEN {TRUE} ELSE {}) :
    TryScheduleReconnect(IF serverReset \/ lastedLong THEN SignalSuccess(retryHelper)
                                                      ELSE retryHelper, force)

\* interruptForReason
InterruptForReason(reason) ==
  /\ interruptReasons' = interruptReasons \cup {reason}
  /\ IF realtime # "none"
       THEN TearDown /\ retryHelper' = SignalSuccess(retryHelper)
       ELSE /\ connectionState' = "Disconnected"
            /\ retryHelper' = SignalSuccess(Cancel(retryHelper))
            /\ UNCHANGED <<realtime, everConnected, infoVars, listenVars, putVars,
                           onDisconnectVars, requestVars>>
  /\ UNCHANGED tokenVars

\* Mutant of ReasonsWithout: resuming forgets every reason.
NoReasons(reason) == {}

ReasonsWithout(reason) == interruptReasons \ {reason}

\* resumeForReason
ResumeForReason(reason) ==
  /\ interruptReasons' = ReasonsWithout(reason)
  /\ ScheduleIfDisconnected(retryHelper)
  /\ UNCHANGED <<connectionState, realtime, everConnected, currentFetchTokenAttempt,
                 tokenFetches, tokenStale, authToken, infoVars, listenVars, putVars,
                 onDisconnectVars, requestVars>>

-----------------------------------------------------------------------------
(* Calls from FRepo. *)

\* open, called once by FRepo's deferredInit.
Open ==
  /\ "waiting_for_open" \in interruptReasons
  /\ ResumeForReason("waiting_for_open")
  /\ UNCHANGED disruptions

\* goOffline
Interrupt ==
  /\ "waiting_for_open" \notin interruptReasons
  /\ Disrupt
  /\ InterruptForReason("repo_interrupt")

\* goOnline
Resume ==
  /\ "repo_interrupt" \in interruptReasons
  /\ ResumeForReason("repo_interrupt")
  /\ UNCHANGED disruptions

\* listen: - FSyncTree never listens twice to a query.
Listen(query) ==
  /\ listens[query] = 0 /\ listenCounter < MaxListens
  /\ listenCounter' = listenCounter + 1
  /\ listens' = [listens EXCEPT ![query] = listenCounter']
  /\ IF connected
       THEN /\ SendActions(requestCBHash, <<Callback("listen", listenCounter')>>)
            /\ unackedListensCount' = unackedListensCount + 1
            /\ serverListens' = serverListens \cup {listenCounter'}
       ELSE UNCHANGED <<requestVars, serverListens>>
  /\ UNCHANGED <<connVars, tokenVars, infoVars, putVars, onDisconnectVars, disruptions>>

\* unlisten:
Unlisten(query) ==
  /\ listens[query] # 0
  /\ listens' = [listens EXCEPT ![query] = 0]
  /\ IF connected
       THEN SendWithoutCallback /\ serverListens' = serverListens \ {listens[query]}
       ELSE UNCHANGED <<requestNumber, requestCBHash, serverListens>>
  /\ UNCHANGED <<connVars, tokenVars, infoVars, listenCounter, putVars,
                 onDisconnectVars, unackedListensCount, disruptions>>

\* putData / mergeData, by way of putInternal and sendPut; hash: a transaction.
PutInternal(hash) ==
  /\ putCounter < MaxPuts
  /\ putCounter' = putCounter + 1
  /\ outstandingPuts' = [index \in DOMAIN outstandingPuts \cup {putCounter'} |->
                           IF index \in DOMAIN outstandingPuts THEN outstandingPuts[index]
                           ELSE [hash |-> hash, sent |-> canSendWrites]]
  /\ IF canSendWrites
       THEN /\ SendActions(requestCBHash, <<Callback("put", putCounter')>>)
            /\ sentPuts' = Append(sentPuts, putCounter')
       ELSE UNCHANGED <<requestNumber, requestCBHash, sentPuts>>
  /\ UNCHANGED <<connVars, tokenVars, infoVars, listenVars, putsToAck, completions,
                 onDisconnectVars, unackedListensCount, disruptions>>

\* onDisconnectPutData, onDisconnectMergeData, onDisconnectCancelPath.
OnDisconnectOperation ==
  /\ onDisconnectCounter < MaxOnDisconnects
  /\ onDisconnectCounter' = onDisconnectCounter + 1
  /\ IF canSendWrites
       THEN /\ SendActions(requestCBHash, <<Callback("onDisconnect", onDisconnectCounter')>>)
            /\ UNCHANGED onDisconnectQueue
       ELSE /\ onDisconnectQueue' = Append(onDisconnectQueue, onDisconnectCounter')
            /\ UNCHANGED <<requestNumber, requestCBHash>>
  /\ UNCHANGED <<connVars, tokenVars, infoVars, listenVars, putVars, onDisconnectDone,
                 unackedListensCount, disruptions>>

\* Writes in S: what ackPuts and the callbacks of a purge complete.
PendingAcks == {putsToAck[i] : i \in DOMAIN putsToAck}

\* purgeOutstandingWrites.  FRepo has aborted its unsent transactions before it
\* calls this, so the callbacks do not issue new writes.
PurgeOutstandingWrites ==
  /\ Disrupt
  /\ completions' = Complete(PendingAcks \cup DOMAIN outstandingPuts)
  /\ onDisconnectDone' = [op \in 1..MaxOnDisconnects |->
                            IF \E i \in DOMAIN onDisconnectQueue : onDisconnectQueue[i] = op
                              THEN onDisconnectDone[op] + 1 ELSE onDisconnectDone[op]]
  /\ putsToAck' = <<>>
  /\ outstandingPuts' = Remove(outstandingPuts, DOMAIN outstandingPuts)
  /\ onDisconnectQueue' = <<>>
  /\ UNCHANGED <<connVars, tokenVars, infoVars, listenVars, putCounter, sentPuts,
                 onDisconnectCounter, requestVars>>

\* refreshAuthToken, from the provider's token listener: a new token, or nil
\* when the user signed out.
RefreshAuthToken(token) ==
  /\ Disrupt
  /\ authToken' = token
  /\ tokenStale' = FALSE
  /\ IF connected
       THEN IF token # "nil" THEN SendActions(requestCBHash, <<Callback("auth", 0)>>)
                             ELSE SendWithoutCallback
       ELSE UNCHANGED <<requestNumber, requestCBHash>>
  /\ UNCHANGED <<connVars, currentFetchTokenAttempt, tokenFetches, forceAuthTokenRefresh,
                 infoVars, listenVars, putVars, onDisconnectVars, unackedListensCount>>

-----------------------------------------------------------------------------
(* The connection attempt: timer, token, websocket, handshake. *)

\* The block given to the retry helper.  The timer is posted after onReady's
\* block, so it cannot overtake it.
RetryTaskRuns ==
  /\ retryHelper.scheduledRetry.pending /\ ~onConnectPending
  /\ retryHelper' = TaskRuns(retryHelper)
  /\ connectionState' = "GettingToken"
  /\ currentFetchTokenAttempt' = currentFetchTokenAttempt + 1
  /\ tokenFetches' = tokenFetches \cup {[attempt |-> currentFetchTokenAttempt',
                                         force |-> retryHelper.scheduledRetry.force]}
  /\ UNCHANGED <<realtime, everConnected, interruptReasons, tokenStale, authToken,
                 forceAuthTokenRefresh, infoVars, listenVars, putVars, onDisconnectVars,
                 requestVars, disruptions>>

\* External: what the provider can answer.  Without forcing it returns the
\* token it caches; nil when nobody is signed in.
FetchedTokens(fetch) ==
  {"nil", IF tokenStale /\ ~fetch.force THEN "rejected" ELSE "good"}

\* Mutant of IsLatest: the attempt is not compared.
IsAnyFetch(fetch) == TRUE

IsLatest(fetch) == fetch.attempt = currentFetchTokenAttempt

\* The fetch's callback with a token; openNetworkConnectionWithToken included.
TokenFetched(fetch, token) ==
  /\ tokenFetches' = tokenFetches \ {fetch}
  /\ tokenStale' = (tokenStale /\ ~fetch.force)
  /\ IF IsLatest(fetch) /\ connectionState = "GettingToken"
       THEN /\ authToken' = token
            /\ connectionState' = "Connecting"
            /\ realtime' = "CONNECTING" /\ everConnected' = FALSE
       ELSE UNCHANGED <<authToken, connectionState, realtime, everConnected>>
  /\ UNCHANGED <<interruptReasons, retryHelper, currentFetchTokenAttempt,
                 forceAuthTokenRefresh, infoVars, listenVars, putVars,
                 onDisconnectVars, requestVars, disruptions>>

\* The fetch's callback with an error.
TokenFetchFailed(fetch) ==
  /\ Disrupt
  /\ tokenFetches' = tokenFetches \ {fetch}
  /\ UNCHANGED interruptReasons
  /\ IF IsLatest(fetch)
       THEN /\ connectionState' = "Disconnected"
            /\ TryScheduleReconnect(retryHelper, forceAuthTokenRefresh)
       ELSE UNCHANGED <<connectionState, retryHelper, forceAuthTokenRefresh>>
  /\ UNCHANGED <<realtime, everConnected, currentFetchTokenAttempt, tokenStale, authToken,
                 infoVars, listenVars, putVars, onDisconnectVars, requestVars>>

WebSocketDidOpen ==
  /\ realtime = "CONNECTING" /\ ~everConnected
  /\ everConnected' = TRUE
  /\ UNCHANGED <<connectionState, realtime, interruptReasons, retryHelper, tokenVars,
                 infoVars, listenVars, putVars, onDisconnectVars, requestVars, disruptions>>

\* restoreState, after the callbacks already sent by the same handler.
RestoreState(hash, sent) ==
  \E ls \in Enumerations(CurrentListens), ps \in Ascending(PutsToRestore) :
    /\ SendActions(hash, sent \o Callbacks("listen", ls) \o Callbacks("put", ps)
                              \o Callbacks("onDisconnect", onDisconnectQueue))
    /\ unackedListensCount' = unackedListensCount + Len(ls)
    /\ serverListens' = serverListens \cup CurrentListens
    /\ outstandingPuts' = [index \in DOMAIN outstandingPuts |->
                             [outstandingPuts[index] EXCEPT !.sent = TRUE]]
    /\ sentPuts' = sentPuts \o ps
    /\ onDisconnectQueue' = OnDisconnectsLeft
    /\ UNCHANGED <<listens, listenCounter, putCounter, putsToAck, completions,
                   onDisconnectCounter, onDisconnectDone>>

\* onHandshake, onReady and restoreAuth; the first connection reports stats.
ServerHello ==
  /\ realtime = "CONNECTING" /\ everConnected
  /\ realtime' = "CONNECTED"
  /\ LET stats == IF firstConnection THEN <<Callback("stats", 0)>> ELSE <<>>
     IN  IF authToken = "nil"
           THEN connectionState' = "Connected" /\ RestoreState(requestCBHash, stats)
           ELSE /\ connectionState' = "Authenticating"
                /\ SendActions(requestCBHash, Append(stats, Callback("authRestore", 0)))
                /\ UNCHANGED <<listenVars, putVars, onDisconnectVars, unackedListensCount>>
  /\ firstConnection' = FALSE /\ onConnectPending' = TRUE /\ UNCHANGED infoConnected
  /\ UNCHANGED <<everConnected, interruptReasons, retryHelper, tokenVars, disruptions>>

\* The block posted by onReady: FRepo's onConnect.
OnConnect ==
  /\ onConnectPending
  /\ onConnectPending' = FALSE /\ infoConnected' = TRUE
  /\ UNCHANGED <<connVars, tokenVars, firstConnection, listenVars, putVars,
                 onDisconnectVars, requestVars, disruptions>>

-----------------------------------------------------------------------------
(* The connection goes away. *)

\* The websocket failed or was closed by the other side.
ConnectionLost ==
  /\ realtime # "none" /\ Disrupt
  /\ UNCHANGED interruptReasons
  /\ TearDown /\ Reconnect(FALSE, forceAuthTokenRefresh)
  /\ UNCHANGED <<currentFetchTokenAttempt, tokenFetches, tokenStale, authToken>>

\* closeIfNeverConnected: the connect timeout of a websocket that did not open.
CloseIfNeverConnected ==
  /\ realtime = "CONNECTING" /\ ~everConnected /\ Disrupt
  /\ UNCHANGED interruptReasons
  /\ TearDown /\ Reconnect(FALSE, forceAuthTokenRefresh)
  /\ UNCHANGED <<currentFetchTokenAttempt, tokenFetches, tokenStale, authToken>>

\* onReset: the server asks the client to connect to another host.
ServerReset ==
  /\ realtime # "none" /\ everConnected /\ Disrupt
  /\ UNCHANGED interruptReasons
  /\ TearDown /\ Reconnect(TRUE, forceAuthTokenRefresh)
  /\ UNCHANGED <<currentFetchTokenAttempt, tokenFetches, tokenStale, authToken>>

\* onConnectionShutdownWithReason and onKill; the second close does nothing.
ServerShutdown ==
  /\ realtime # "none" /\ everConnected /\ Disrupt
  /\ InterruptForReason("server_kill")

\* The server rejects the client's token: on revocation, or as an answer to auth.
TokenRejected ==
  /\ UNCHANGED interruptReasons
  /\ authToken' = "nil" /\ tokenStale' = TRUE
  /\ TearDown /\ Reconnect(FALSE, TRUE)
  /\ UNCHANGED <<currentFetchTokenAttempt, tokenFetches>>

\* onAuthRevokedWithStatus
AuthRevoked == /\ realtime = "CONNECTED" /\ authToken # "nil" /\ Disrupt
               /\ TokenRejected

\* reachabilityCallback and enteringForeground do the same.
WakeUp ==
  /\ Disrupt /\ UNCHANGED interruptReasons
  /\ ScheduleIfDisconnected(SignalSuccess(retryHelper))
  /\ UNCHANGED <<connectionState, realtime, everConnected, currentFetchTokenAttempt,
                 tokenFetches, tokenStale, authToken, infoVars, listenVars, putVars,
                 onDisconnectVars, requestVars>>

ReachabilityCallback == WakeUp

EnteringForeground == WakeUp

-----------------------------------------------------------------------------
(* Answers and pushes of the server. *)

IsAuth(rn) == requestCBHash[rn].kind \in {"auth", "authRestore"}

\* External: the server answers the auth requests of a connection in order.
AuthAnswer(rn) == /\ IsAuth(rn)
                  /\ \A other \in DOMAIN requestCBHash : IsAuth(other) => rn <= other

\* The auth callback, status ok.
AuthSucceeded(rn) ==
  /\ AuthAnswer(rn) /\ authToken # "rejected"
  /\ connectionState' = "Connected"
  /\ IF requestCBHash[rn].kind = "authRestore"
       THEN RestoreState(Answered(rn), <<>>)
       ELSE /\ requestCBHash' = Answered(rn)
            /\ UNCHANGED <<listenVars, putVars, onDisconnectVars, requestNumber,
                           unackedListensCount>>
  /\ UNCHANGED <<realtime, everConnected, interruptReasons, retryHelper, tokenVars,
                 infoVars, disruptions>>

\* The auth callback, any other status.
AuthFailed(rn) ==
  /\ AuthAnswer(rn)
  /\ IF authToken = "rejected" THEN UNCHANGED disruptions ELSE Disrupt
  /\ TokenRejected

\* Mutant of StillOutstanding: the put's identity is not checked.
NotChecked(index) == TRUE

StillOutstanding(index) == index \in DOMAIN outstandingPuts

\* sendPut's callback.
PutAnswered(rn) ==
  LET index == requestCBHash[rn].id
  IN  /\ requestCBHash[rn].kind = "put"
      /\ requestCBHash' = Answered(rn)
      /\ IF StillOutstanding(index)
           THEN /\ outstandingPuts' = Remove(outstandingPuts, {index})
                /\ IF unackedListensCount = 0
                     THEN completions' = Complete({index}) /\ UNCHANGED putsToAck
                     ELSE putsToAck' = Append(putsToAck, index) /\ UNCHANGED completions
           ELSE UNCHANGED <<outstandingPuts, completions, putsToAck>>
      /\ UNCHANGED <<connVars, tokenVars, infoVars, listenVars, putCounter, sentPuts,
                     onDisconnectVars, requestNumber, unackedListensCount, disruptions>>

\* Mutant of IsCurrent: a failed listen is never removed.
NeverCurrent(query, spec) == FALSE

IsCurrent(query, spec) == listens[query] = spec

\* sendListen's callback: a failed listen is removed, unless it was removed (and
\* perhaps added again) meanwhile; the last answer acknowledges the held puts.
ListenAnswered(rn, ok) ==
  LET spec == requestCBHash[rn].id
  IN  /\ requestCBHash[rn].kind = "listen"
      /\ requestCBHash' = Answered(rn)
      /\ IF ok THEN UNCHANGED <<listens, serverListens>>
               ELSE /\ listens' = [query \in Queries |->
                                     IF IsCurrent(query, spec) THEN 0 ELSE listens[query]]
                    /\ serverListens' = serverListens \ {spec}
      /\ unackedListensCount' = Decremented(unackedListensCount)
      /\ IF unackedListensCount' = 0
           THEN completions' = Complete(PendingAcks) /\ putsToAck' = <<>>
           ELSE UNCHANGED <<completions, putsToAck>>
      /\ UNCHANGED <<connVars, tokenVars, infoVars, listenCounter, outstandingPuts,
                     putCounter, sentPuts, onDisconnectVars, requestNumber, disruptions>>

\* The callbacks of the on-disconnect operations.
OnDisconnectAnswered(rn) ==
  /\ requestCBHash[rn].kind = "onDisconnect"
  /\ requestCBHash' = Answered(rn)
  /\ onDisconnectDone' = [onDisconnectDone EXCEPT ![requestCBHash[rn].id] = @ + 1]
  /\ UNCHANGED <<connVars, tokenVars, infoVars, listenVars, putVars, onDisconnectQueue,
                 onDisconnectCounter, requestNumber, unackedListensCount, disruptions>>

StatsAnswered(rn) ==
  /\ requestCBHash[rn].kind = "stats"
  /\ requestCBHash' = Answered(rn)
  /\ UNCHANGED <<connVars, tokenVars, infoVars, listenVars, putVars, onDisconnectVars,
                 requestNumber, unackedListensCount, disruptions>>

\* onListenRevoked
ListenRevoked(path) ==
  LET revoked == {query \in Queries : query[1] = path}
  IN  /\ realtime = "CONNECTED" /\ Disrupt
      /\ listens' = [query \in Queries |-> IF query \in revoked THEN 0 ELSE listens[query]]
      /\ serverListens' = serverListens \ {listens[query] : query \in revoked}
      /\ UNCHANGED <<connVars, tokenVars, infoVars, listenCounter, putVars,
                     onDisconnectVars, requestVars>>

-----------------------------------------------------------------------------
Answer == \E rn \in DOMAIN requestCBHash :
            \/ AuthSucceeded(rn)
            \/ AuthFailed(rn)
            \/ PutAnswered(rn)
            \/ \E ok \in BOOLEAN : ListenAnswered(rn, ok)
            \/ OnDisconnectAnswered(rn)
            \/ StatsAnswered(rn)

TokenAnswered == \E fetch \in tokenFetches :
                   \E token \in FetchedTokens(fetch) : TokenFetched(fetch, token)

ApplicationCall ==
  \/ Open \/ Interrupt \/ Resume
  \/ \E query \in Queries : Listen(query) \/ Unlisten(query)
  \/ \E hash \in BOOLEAN : PutInternal(hash)
  \/ OnDisconnectOperation
  \/ PurgeOutstandingWrites
  \/ \E token \in {"nil", "good"} : RefreshAuthToken(token)

Disruption ==
  \/ \E fetch \in tokenFetches : TokenFetchFailed(fetch)
  \/ ConnectionLost \/ CloseIfNeverConnected \/ ServerReset \/ ServerShutdown
  \/ AuthRevoked \/ ReachabilityCallback \/ EnteringForeground
  \/ \E query \in Queries : ListenRevoked(query[1])

Progress == RetryTaskRuns \/ TokenAnswered \/ WebSocketDidOpen \/ ServerHello
              \/ OnConnect \/ Answer

Next == ApplicationCall \/ Disruption \/ Progress

Spec == Init /\ [][Next]_vars

\* Fairness: the serial queue runs the blocks posted to it, the retry timer
\* fires, and - what the client cannot enforce - the provider answers a fetch,
\* an open network path lets the websocket open, and the server says hello and
\* answers requests.  Application calls and disruptions are not fair.
FairSpec == /\ Spec
            /\ WF_vars(Open)
            /\ WF_vars(RetryTaskRuns) /\ WF_vars(TokenAnswered)
            /\ WF_vars(WebSocketDidOpen) /\ WF_vars(ServerHello)
            /\ WF_vars(OnConnect) /\ WF_vars(Answer)

-----------------------------------------------------------------------------
(* Properties. *)

\* The request numbers whose callback is of the given kind.
Pending(kind) == {rn \in DOMAIN requestCBHash : requestCBHash[rn].kind = kind}

ConnTypeOK ==
  /\ connectionState \in ConnectionStates
  /\ realtime \in {"none", "CONNECTING", "CONNECTED"}
  /\ everConnected \in BOOLEAN
  /\ interruptReasons \in SUBSET InterruptReasons
  /\ retryHelper \in RetryHelpers

TokenTypeOK ==
  /\ currentFetchTokenAttempt \in Nat
  /\ tokenFetches \in SUBSET [attempt : Nat, force : BOOLEAN]
  /\ tokenStale \in BOOLEAN
  /\ authToken \in {"nil", "good", "rejected"}
  /\ forceAuthTokenRefresh \in BOOLEAN

InfoTypeOK ==
  /\ firstConnection \in BOOLEAN
  /\ onConnectPending \in BOOLEAN
  /\ infoConnected \in BOOLEAN

ListenTypeOK ==
  /\ listens \in [Queries -> 0..MaxListens]
  /\ listenCounter \in 0..MaxListens
  /\ serverListens \in SUBSET (1..MaxListens)

PutTypeOK ==
  /\ DOMAIN outstandingPuts \in SUBSET PutIndices
  /\ outstandingPuts \in [DOMAIN outstandingPuts -> [hash : BOOLEAN, sent : BOOLEAN]]
  /\ putCounter \in 0..MaxPuts
  /\ putsToAck \in Seq(PutIndices)
  /\ completions \in [PutIndices -> Nat]
  /\ sentPuts \in Seq(PutIndices)

OnDisconnectTypeOK ==
  /\ onDisconnectQueue \in Seq(1..MaxOnDisconnects)
  /\ onDisconnectCounter \in 0..MaxOnDisconnects
  /\ onDisconnectDone \in [1..MaxOnDisconnects -> Nat]

\* A request number is in the hash only after it was given out, and what a
\* callback is for exists.
RequestTypeOK ==
  /\ requestNumber \in Nat
  /\ DOMAIN requestCBHash \in SUBSET (1..requestNumber)
  /\ requestCBHash \in [DOMAIN requestCBHash -> [kind : CallbackKinds, id : Nat]]
  /\ unackedListensCount \in Nat
  /\ \A rn \in DOMAIN requestCBHash :
       /\ requestCBHash[rn].kind = "put" => requestCBHash[rn].id \in PutIndices
       /\ requestCBHash[rn].kind = "onDisconnect" => requestCBHash[rn].id \in 1..MaxOnDisconnects
       /\ requestCBHash[rn].kind = "listen" => requestCBHash[rn].id \in 1..MaxListens

\* The variables of FPersistentConnection, FConnection and FIRRetryHelper, and
\* the external state around them, have their types; the keys of requestCBHash
\* are request numbers given out, and its callbacks are for what was issued.
TypeOK ==
  /\ ConnTypeOK /\ TokenTypeOK /\ InfoTypeOK /\ ListenTypeOK /\ PutTypeOK
  /\ OnDisconnectTypeOK /\ RequestTypeOK
  /\ disruptions \in 0..MaxDisruptions

\* A connection object exists exactly in the states that use one, and its own
\* state agrees with the client's.  (FPersistentConnection and FConnection keep
\* their states apart; closing touches both, in nested callbacks.)
ConnectionStatesAgree ==
  /\ realtime = "none" <=> connectionState \in {"Disconnected", "GettingToken"}
  /\ realtime = "CONNECTING" <=> connectionState = "Connecting"

\* The NSAsserts of tryScheduleReconnect and of its blocks, in release builds
\* compiled out: a retry task, and every point that schedules one, finds the
\* client disconnected; the answer to the latest token fetch finds it getting
\* the token or disconnected.
ReconnectAssertions ==
  /\ retryHelper.scheduledRetry.pending => connectionState = "Disconnected"
  /\ \A fetch \in tokenFetches :
       fetch.attempt = currentFetchTokenAttempt
         => connectionState \in {"GettingToken", "Disconnected"}

\* While the client is interrupted (before open, after goOffline, after the
\* server killed it) it holds no connection and will not start one.
InterruptedStaysDown ==
  interruptReasons # {} =>
    /\ connectionState = "Disconnected" /\ realtime = "none"
    /\ ~retryHelper.scheduledRetry.pending

\* A client that is not interrupted and has no connection is on its way to one:
\* a retry is scheduled, or the answer to the latest token fetch will be used.
NeverStranded ==
  interruptReasons = {} =>
    \/ realtime # "none"
    \/ retryHelper.scheduledRetry.pending
    \/ /\ connectionState = "GettingToken"
       /\ \E fetch \in tokenFetches : fetch.attempt = currentFetchTokenAttempt

\* unackedListensCount is the number of listen requests awaiting their answer:
\* it never drops below zero (it is unsigned, so its NSAssert cannot fail), and
\* held acknowledgements are released exactly by the last answer.
UnackedListensCounted ==
  unackedListensCount = Cardinality(Pending("listen"))

\* Every write issued is in exactly one place: outstanding, answered but held
\* behind a listen, or completed; so its block runs at most once, and a write is
\* never dropped - across answers, disconnects, cancelled transactions, purges.
WritesAccounted ==
  \A index \in PutIndices :
    /\ completions[index] <= 1
    /\ (index \in DOMAIN outstandingPuts => index \notin PendingAcks)
    /\ (completions[index] = 0 /\ index <= putCounter)
         <=> (index \in DOMAIN outstandingPuts \cup PendingAcks)
    /\ \A i, j \in DOMAIN putsToAck : putsToAck[i] = putsToAck[j] => i = j

\* Whenever writes can be sent, every outstanding write is on the wire of this
\* connection and its answer has a callback waiting.
OutstandingWritesInFlight ==
  connectionState = "Connected" =>
    \A index \in DOMAIN outstandingPuts :
      \E rn \in Pending("put") : requestCBHash[rn].id = index

\* On one connection, writes go out in the order they were issued, each once,
\* also when earlier ones are re-sent after a reconnect.
WritesSentInOrder ==
  \A i, j \in DOMAIN sentPuts : i < j => sentPuts[i] < sentPuts[j]

\* Once the state is restored, the server holds exactly the client's listens:
\* none is forgotten on reconnect, none survives its unlisten.  Before that it
\* holds no listen the client has dropped.
ListensMirrored ==
  /\ serverListens \subseteq CurrentListens
  /\ connectionState = "Connected" => serverListens = CurrentListens

\* The callback of an on-disconnect operation runs at most once.
OnDisconnectAtMostOnce == \A op \in 1..MaxOnDisconnects : onDisconnectDone[op] <= 1

\* FConnection throws when asked to send while not connected: every step that
\* sends a request does it on a ready connection.
SendsOnlyWhenReady == [][requestNumber' # requestNumber => realtime' = "CONNECTED"]_vars

\* "Will not attempt reconnect": after the server killed the client nothing
\* takes it out of the disconnected state again.
KillIsFinal ==
  [][("server_kill" \in interruptReasons =>
        "server_kill" \in interruptReasons' /\ connectionState' = "Disconnected")]_vars

\* A client that is not interrupted becomes connected (or is interrupted).
EventuallyConnected ==
  interruptReasons = {} ~> (connectionState = "Connected" \/ interruptReasons # {})

\* A client that stays connected gets every outstanding write answered.
WritesAnswered ==
  <>[](connectionState = "Connected") =>
     \A index \in PutIndices : index \in DOMAIN outstandingPuts
                                 ~> index \notin DOMAIN outstandingPuts

\* The block of a write "gets triggered after the write operation has been
\* committed": on a client that stays connected, the block of a write the server
\* has answered eventually runs.
AnsweredWritesComplete ==
  <>[](connectionState = "Connected") =>
     \A index \in PutIndices : index \in PendingAcks ~> completions[index] > 0

\* What the reconnect code relies on in every order of timers, token answers,
\* interrupts and disconnects: the two state machines agree, the asserted states
\* hold, and an interrupted client stays down.
ConnectionSound == ConnectionStatesAgree /\ ReconnectAssertions /\ InterruptedStaysDown

\* No write is lost, completed twice or left unsent on a connection that is ready,
\* however answers, disconnects, purges and cancelled transactions interleave.
PutsSound == WritesAccounted /\ OutstandingWritesInFlight

\* When disruptions stop, a client that is not interrupted connects, and while it
\* stays connected its writes are answered.
EventuallyServed == EventuallyConnected /\ WritesAnswered
=============================================================================
