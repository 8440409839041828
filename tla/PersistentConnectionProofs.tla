--------------------- MODULE PersistentConnectionProofs ---------------------
(***************************************************************************)
(* Machine-checked proofs about PersistentConnection, for every number of  *)
(* writes, listens, operations, disruptions and back-off levels.           *)
(***************************************************************************)
EXTENDS PersistentConnection, FiniteSetTheorems, TLAPS

-----------------------------------------------------------------------------
(* Lemmas about the operators. *)

\* Whatever a handler does with the retry helper leaves a retry helper.
LEMMA RetryHelperType ==
  ASSUME NEW helper \in RetryHelpers, NEW force \in BOOLEAN
  PROVE  /\ Retry(helper, force) \in RetryHelpers
         /\ SignalSuccess(helper) \in RetryHelpers
         /\ Cancel(helper) \in RetryHelpers
         /\ TaskRuns(helper) \in RetryHelpers
         /\ SignalSuccess(Cancel(helper)) \in RetryHelpers
<1> USE RetryLevelAssumption DEF RetryHelpers, Tasks, NoRetry
<1>1. \A level \in 0..MaxRetryLevel : NextRetryDelay(level) \in 0..MaxRetryLevel
  BY DEF NextRetryDelay
<1>2. Retry(helper, force) \in RetryHelpers
  BY <1>1 DEF Retry
<1>3. \A h \in RetryHelpers : SignalSuccess(h) \in RetryHelpers
  BY DEF SignalSuccess
<1>4. Cancel(helper) \in RetryHelpers /\ TaskRuns(helper) \in RetryHelpers
  BY DEF Cancel, TaskRuns
<1> QED
  BY <1>2, <1>3, <1>4

\* Which task is scheduled after each call on the retry helper.
LEMMA RetryHelperTask ==
  ASSUME NEW helper \in RetryHelpers, NEW force \in BOOLEAN
  PROVE  /\ Retry(helper, force).scheduledRetry.pending
         /\ SignalSuccess(helper).scheduledRetry = helper.scheduledRetry
         /\ ~SignalSuccess(Cancel(helper)).scheduledRetry.pending
         /\ ~TaskRuns(helper).scheduledRetry.pending
  BY DEF RetryHelpers, Tasks, Retry, SignalSuccess, Cancel, TaskRuns, NoRetry

\* An enumeration of a finite set, sorted or not, is a sequence over it.
LEMMA EnumerationType ==
  ASSUME NEW S, IsFiniteSet(S)
  PROVE  /\ \A s \in Enumerations(S) : s \in Seq(S) /\ Len(s) \in Nat /\ DOMAIN s = 1..Len(s)
         /\ \A s \in Ascending(S) : s \in Seq(S) /\ Len(s) \in Nat /\ DOMAIN s = 1..Len(s)
<1>1. Cardinality(S) \in Nat
  BY FS_CardinalityType
<1>2. \A s \in [1..Cardinality(S) -> S] : s \in Seq(S)
  BY <1>1
<1> QED
  BY <1>2 DEF Enumerations, Ascending

\* Appending an element of a set to a sequence over it.
LEMMA AppendType == \A S : \A s \in Seq(S), x \in S : Append(s, x) \in Seq(S)
  OBVIOUS

\* The current listens and the outstanding writes are finite in number.
LEMMA Finiteness ==
  ASSUME ListenTypeOK, PutTypeOK
  PROVE  /\ CurrentListens \subseteq 1..MaxListens /\ IsFiniteSet(CurrentListens)
         /\ IsFiniteSet(DOMAIN outstandingPuts)
<1>1. CurrentListens \subseteq 1..MaxListens
  <2>1. \A query \in Queries : listens[query] \in 0..MaxListens
    BY DEF ListenTypeOK
  <2>2. MaxListens \in Nat
    BY ConnectionAssumption
  <2> QED
    BY <2>1, <2>2 DEF CurrentListens
<1>2. IsFiniteSet(1..MaxListens) /\ IsFiniteSet(PutIndices)
  <2>1. 1 \in Int /\ MaxListens \in Int /\ MaxPuts \in Int
    BY ConnectionAssumption
  <2> QED
    BY <2>1, FS_Interval DEF PutIndices
<1> QED
  BY <1>1, <1>2, FS_Subset DEF PutTypeOK

CallbackType == [kind : CallbackKinds, id : Nat]

\* What a callback is for exists.
CallbackOK(cb) ==
  /\ cb \in CallbackType
  /\ cb.kind = "put" => cb.id \in PutIndices
  /\ cb.kind = "onDisconnect" => cb.id \in 1..MaxOnDisconnects
  /\ cb.kind = "listen" => cb.id \in 1..MaxListens

HashOK(hash) ==
  /\ DOMAIN hash \in SUBSET (1..requestNumber)
  /\ hash \in [DOMAIN hash -> CallbackType]
  /\ \A rn \in DOMAIN hash : CallbackOK(hash[rn])

CallbacksOK(cbs) == cbs \in Seq(CallbackType) /\ \A i \in 1..Len(cbs) : CallbackOK(cbs[i])

\* The callbacks of a batch of requests are well formed.
LEMMA CallbacksType ==
  /\ \A ids \in Seq(1..MaxListens) : CallbacksOK(Callbacks("listen", ids))
  /\ \A ids \in Seq(PutIndices) : CallbacksOK(Callbacks("put", ids))
  /\ \A ids \in Seq(1..MaxOnDisconnects) : CallbacksOK(Callbacks("onDisconnect", ids))
<1>1. ASSUME NEW kind \in {"listen", "put", "onDisconnect"}, NEW N \in Nat,
             NEW ids \in Seq(1..N),
             \A id \in 1..N : CallbackOK(Callback(kind, id))
      PROVE  CallbacksOK(Callbacks(kind, ids))
  <2>1. Len(ids) \in Nat /\ \A i \in 1..Len(ids) : ids[i] \in 1..N
    OBVIOUS
  <2>2. \A i \in 1..Len(ids) : CallbackOK(Callback(kind, ids[i]))
    BY <1>1, <2>1
  <2>3. \A i \in 1..Len(ids) : Callback(kind, ids[i]) \in CallbackType
    BY <2>2 DEF CallbackOK
  <2>4. Callbacks(kind, ids) \in Seq(CallbackType) /\ Len(Callbacks(kind, ids)) = Len(ids)
    BY <2>1, <2>3 DEF Callbacks
  <2> QED
    BY <2>2, <2>4 DEF CallbacksOK, Callbacks
<1>2. /\ \A id \in 1..MaxListens : CallbackOK(Callback("listen", id))
      /\ \A id \in 1..MaxPuts : CallbackOK(Callback("put", id))
      /\ \A id \in 1..MaxOnDisconnects : CallbackOK(Callback("onDisconnect", id))
  BY ConnectionAssumption DEF CallbackOK, CallbackType, CallbackKinds, Callback, PutIndices
<1>3. MaxListens \in Nat /\ MaxPuts \in Nat /\ MaxOnDisconnects \in Nat
  BY ConnectionAssumption
<1> QED
  BY <1>1, <1>2, <1>3 DEF PutIndices

\* Sending requests keeps the request table well formed.
LEMMA SendActionsType ==
  ASSUME NEW hash, NEW cbs, RequestTypeOK, HashOK(hash), CallbacksOK(cbs),
         SendActions(hash, cbs), unackedListensCount' \in Nat
  PROVE  RequestTypeOK'
<1> DEFINE fresh == (requestNumber + 1)..(requestNumber + Len(cbs))
<1>1. requestNumber \in Nat /\ Len(cbs) \in Nat
  BY DEF RequestTypeOK, CallbacksOK
<1>2. requestNumber' = requestNumber + Len(cbs) /\ requestNumber' \in Nat
  BY <1>1 DEF SendActions
<1>3. DOMAIN requestCBHash' = DOMAIN hash \cup fresh
  BY DEF SendActions
<1>4. DOMAIN requestCBHash' \in SUBSET (1..requestNumber')
  BY <1>1, <1>2, <1>3 DEF HashOK
<1>5. \A rn \in DOMAIN requestCBHash' : CallbackOK(requestCBHash'[rn])
  <2> SUFFICES ASSUME NEW rn \in DOMAIN hash \cup fresh PROVE CallbackOK(requestCBHash'[rn])
    BY <1>3
  <2>1. CASE rn \in DOMAIN hash
    BY <2>1 DEF SendActions, HashOK
  <2>2. CASE rn \notin DOMAIN hash
    <3>1. rn - requestNumber \in 1..Len(cbs)
      BY <1>1, <2>2
    <3>2. requestCBHash'[rn] = cbs[rn - requestNumber]
      BY <2>2 DEF SendActions
    <3> QED
      BY <3>1, <3>2 DEF CallbacksOK
  <2> QED
    BY <2>1, <2>2
<1>6. requestCBHash' \in [DOMAIN requestCBHash' -> CallbackType]
  <2>1. requestCBHash' = [rn \in DOMAIN requestCBHash' |-> requestCBHash'[rn]]
    BY DEF SendActions
  <2> QED
    BY <1>5, <2>1 DEF CallbackOK
<1> QED
  BY <1>2, <1>4, <1>5, <1>6 DEF RequestTypeOK, CallbackOK, CallbackType

\* The request tables a handler can start from.
LEMMA HashTypes ==
  ASSUME RequestTypeOK
  PROVE  /\ HashOK(requestCBHash)
         /\ \A rn \in DOMAIN requestCBHash : HashOK(Answered(rn))
  BY DEF RequestTypeOK, HashOK, CallbackOK, CallbackType, Answered

\* Removing an answered callback keeps the table well formed.
LEMMA AnsweredType ==
  ASSUME RequestTypeOK, NEW rn \in DOMAIN requestCBHash,
         requestCBHash' = Answered(rn), UNCHANGED requestNumber,
         unackedListensCount' \in Nat
  PROVE  RequestTypeOK'
  BY DEF RequestTypeOK, Answered

\* Removing writes and counting completions keep their types.
LEMMA WriteOperators ==
  ASSUME PutTypeOK, NEW gone
  PROVE  /\ Complete(gone) \in [PutIndices -> Nat]
         /\ DOMAIN Remove(outstandingPuts, gone) = DOMAIN outstandingPuts \ gone
         /\ Remove(outstandingPuts, gone) \in
              [DOMAIN outstandingPuts \ gone -> [hash : BOOLEAN, sent : BOOLEAN]]
  BY DEF PutTypeOK, Complete, Remove

\* Losing the connection preserves the types of everything it touches.
LEMMA TearDownType ==
  ASSUME TypeOK, TearDown
  PROVE  /\ connectionState' \in ConnectionStates /\ realtime' \in {"none"}
         /\ everConnected' \in BOOLEAN
         /\ InfoTypeOK' /\ ListenTypeOK' /\ PutTypeOK'
         /\ OnDisconnectTypeOK' /\ RequestTypeOK'
<1> USE DEF TypeOK, TearDown
<1>1. connectionState' \in ConnectionStates /\ realtime' \in {"none"} /\ everConnected' \in BOOLEAN
  BY DEF ConnectionStates
<1>2. InfoTypeOK' /\ ListenTypeOK'
  BY DEF InfoTypeOK, ListenTypeOK
<1>3. PutTypeOK'
  <2> DEFINE cancelled == {index \in DOMAIN outstandingPuts :
                             outstandingPuts[index].hash /\ outstandingPuts[index].sent}
             kept == Remove(outstandingPuts, cancelled)
  <2>1. /\ Complete(cancelled) \in [PutIndices -> Nat]
        /\ DOMAIN kept = DOMAIN outstandingPuts \ cancelled
        /\ kept \in [DOMAIN kept -> [hash : BOOLEAN, sent : BOOLEAN]]
    BY WriteOperators
  <2>2. completions' \in [PutIndices -> Nat]
    BY <2>1 DEF CancelSentTransactions
  <2>3. /\ putCounter' \in 0..MaxPuts
        /\ DOMAIN outstandingPuts' \in SUBSET PutIndices
        /\ outstandingPuts' \in [DOMAIN outstandingPuts' -> [hash : BOOLEAN, sent : BOOLEAN]]
    <3> HIDE DEF kept
    <3>1. CASE outstandingPuts' = kept /\ UNCHANGED putCounter
      BY <3>1, <2>1 DEF PutTypeOK
    <3>2. CASE /\ putCounter < MaxPuts /\ putCounter' = putCounter + 1
               /\ outstandingPuts' = [index \in DOMAIN kept \cup {putCounter'} |->
                                        IF index \in DOMAIN kept THEN kept[index]
                                        ELSE [hash |-> TRUE, sent |-> FALSE]]
      <4>1. putCounter' \in PutIndices
        BY <3>2, ConnectionAssumption DEF PutTypeOK, PutIndices
      <4>2. putCounter' \in 0..MaxPuts
        BY <4>1, ConnectionAssumption DEF PutIndices
      <4> QED
        BY <3>2, <2>1, <4>1, <4>2 DEF PutTypeOK
    <3> QED
      BY <3>1, <3>2 DEF CancelSentTransactions, kept
  <2> QED
    BY <2>2, <2>3 DEF PutTypeOK
<1>4. OnDisconnectTypeOK'
  BY DEF OnDisconnectTypeOK, onDisconnectVars
<1>5. RequestTypeOK'
  BY DEF RequestTypeOK, Callback
<1> QED
  BY <1>1, <1>2, <1>3, <1>4, <1>5

\* Deciding to reconnect preserves the types of the helper and of the flag.
LEMMA ReconnectType ==
  ASSUME TypeOK,
         \/ \E helper \in RetryHelpers, force \in BOOLEAN : TryScheduleReconnect(helper, force)
         \/ \E reset \in BOOLEAN, force \in BOOLEAN : Reconnect(reset, force)
         \/ \E helper \in RetryHelpers : ScheduleIfDisconnected(helper)
  PROVE  retryHelper' \in RetryHelpers /\ forceAuthTokenRefresh' \in BOOLEAN
<1>1. \A helper \in RetryHelpers, force \in BOOLEAN :
        TryScheduleReconnect(helper, force)
          => retryHelper' \in RetryHelpers /\ forceAuthTokenRefresh' \in BOOLEAN
  BY RetryHelperType DEF TryScheduleReconnect
<1>2. retryHelper \in RetryHelpers /\ forceAuthTokenRefresh \in BOOLEAN
  BY DEF TypeOK, ConnTypeOK, TokenTypeOK
<1>3. SignalSuccess(retryHelper) \in RetryHelpers
  BY <1>2, RetryHelperType
<1> QED
  BY <1>1, <1>2, <1>3 DEF Reconnect, ScheduleIfDisconnected

\* Every step that closes the connection on the client's side, for one of its
\* reasons, preserves the type invariant.
LEMMA ClosingType ==
  ASSUME TypeOK, disruptions' \in 0..MaxDisruptions, TearDown,
         UNCHANGED <<interruptReasons, currentFetchTokenAttempt, tokenFetches>>,
         tokenStale' \in BOOLEAN, authToken' \in {"nil", "good", "rejected"},
         \E reset \in BOOLEAN, force \in BOOLEAN : Reconnect(reset, force)
  PROVE  TypeOK'
<1>1. retryHelper' \in RetryHelpers /\ forceAuthTokenRefresh' \in BOOLEAN
  BY ReconnectType
<1>2. ConnTypeOK' /\ TokenTypeOK'
  BY <1>1, TearDownType DEF TypeOK, ConnTypeOK, TokenTypeOK
<1> QED
  BY <1>2, TearDownType DEF TypeOK

\* interruptForReason preserves the type invariant.
LEMMA InterruptType ==
  ASSUME TypeOK, disruptions' \in 0..MaxDisruptions,
         NEW reason \in InterruptReasons, InterruptForReason(reason)
  PROVE  TypeOK'
<1>1. retryHelper \in RetryHelpers
  BY DEF TypeOK, ConnTypeOK
<1>2. /\ SignalSuccess(retryHelper) \in RetryHelpers
      /\ SignalSuccess(Cancel(retryHelper)) \in RetryHelpers
  BY <1>1, RetryHelperType
<1>3. TokenTypeOK' /\ interruptReasons' \in SUBSET InterruptReasons
  BY DEF TypeOK, ConnTypeOK, TokenTypeOK, InterruptForReason, tokenVars
<1>4. CASE realtime # "none"
  <2>1. TearDown /\ retryHelper' \in RetryHelpers
    BY <1>2, <1>4 DEF InterruptForReason
  <2> QED
    BY <1>3, <2>1, TearDownType DEF TypeOK, ConnTypeOK
<1>5. CASE realtime = "none"
  <2>1. /\ connectionState' = "Disconnected" /\ retryHelper' \in RetryHelpers
        /\ UNCHANGED <<realtime, everConnected, infoVars, listenVars, putVars,
                       onDisconnectVars, requestVars>>
    BY <1>2, <1>5 DEF InterruptForReason
  <2>2. ConnTypeOK'
    BY <1>3, <2>1 DEF TypeOK, ConnTypeOK, ConnectionStates
  <2>3. InfoTypeOK' /\ ListenTypeOK' /\ OnDisconnectTypeOK'
    BY <2>1 DEF TypeOK, InfoTypeOK, ListenTypeOK, OnDisconnectTypeOK, infoVars,
                listenVars, onDisconnectVars
  <2>4. PutTypeOK' /\ RequestTypeOK'
    BY <2>1 DEF TypeOK, PutTypeOK, RequestTypeOK, putVars, requestVars
  <2> QED
    BY <1>3, <2>2, <2>3, <2>4 DEF TypeOK
<1> QED
  BY <1>4, <1>5

\* A step that touches none of the tables keeps their types.
LEMMA TablesUnchanged ==
  ASSUME TypeOK, UNCHANGED <<infoVars, listenVars, putVars, onDisconnectVars, requestVars>>
  PROVE  InfoTypeOK' /\ ListenTypeOK' /\ PutTypeOK' /\ OnDisconnectTypeOK' /\ RequestTypeOK'
<1>1. InfoTypeOK' /\ ListenTypeOK' /\ OnDisconnectTypeOK'
  BY DEF TypeOK, InfoTypeOK, ListenTypeOK, OnDisconnectTypeOK, infoVars, listenVars,
         onDisconnectVars
<1>2. PutTypeOK' /\ RequestTypeOK'
  BY DEF TypeOK, PutTypeOK, RequestTypeOK, putVars, requestVars
<1> QED
  BY <1>1, <1>2

\* resumeForReason preserves the type invariant.
LEMMA ResumeType ==
  ASSUME TypeOK, UNCHANGED disruptions, NEW reason \in InterruptReasons,
         ResumeForReason(reason)
  PROVE  TypeOK'
<1>1. retryHelper' \in RetryHelpers /\ forceAuthTokenRefresh' \in BOOLEAN
  BY ReconnectType DEF ResumeForReason, TypeOK, ConnTypeOK
<1>2. ConnTypeOK' /\ TokenTypeOK'
  BY <1>1 DEF ResumeForReason, ReasonsWithout, TypeOK, ConnTypeOK, TokenTypeOK
<1> QED
  BY <1>2, TablesUnchanged DEF ResumeForReason, TypeOK

\* restoreState preserves the types of the tables it rebuilds.
LEMMA RestoreStateType ==
  ASSUME TypeOK, NEW hash, NEW sent, HashOK(hash), CallbacksOK(sent),
         RestoreState(hash, sent)
  PROVE  ListenTypeOK' /\ PutTypeOK' /\ OnDisconnectTypeOK' /\ RequestTypeOK'
<1> USE DEF TypeOK
<1>1. PICK ls \in Enumerations(CurrentListens), ps \in Ascending(PutsToRestore) :
        /\ SendActions(hash, sent \o Callbacks("listen", ls) \o Callbacks("put", ps)
                                  \o Callbacks("onDisconnect", onDisconnectQueue))
        /\ unackedListensCount' = unackedListensCount + Len(ls)
        /\ serverListens' = serverListens \cup CurrentListens
        /\ outstandingPuts' = [index \in DOMAIN outstandingPuts |->
                                 [outstandingPuts[index] EXCEPT !.sent = TRUE]]
        /\ sentPuts' = sentPuts \o ps
        /\ onDisconnectQueue' = <<>>
        /\ UNCHANGED <<listens, listenCounter, putCounter, putsToAck, completions,
                       onDisconnectCounter, onDisconnectDone>>
  BY DEF RestoreState, OnDisconnectsLeft
<1>2. /\ ls \in Seq(1..MaxListens) /\ Len(ls) \in Nat
      /\ ps \in Seq(PutIndices) /\ Len(ps) \in Nat
      /\ CurrentListens \subseteq 1..MaxListens
  <2>1. ls \in Seq(CurrentListens) /\ ps \in Seq(DOMAIN outstandingPuts)
    BY Finiteness, EnumerationType DEF PutsToRestore
  <2>2. CurrentListens \subseteq 1..MaxListens /\ DOMAIN outstandingPuts \subseteq PutIndices
    BY Finiteness DEF PutTypeOK
  <2>3. \A S, T : S \subseteq T => Seq(S) \subseteq Seq(T)
    OBVIOUS
  <2>4. Len(ls) \in Nat /\ Len(ps) \in Nat
    BY <2>1
  <2> QED
    BY <2>1, <2>2, <2>3, <2>4
<1>3. ListenTypeOK'
  BY <1>1, <1>2 DEF ListenTypeOK
<1>4. PutTypeOK'
  <2>1. sentPuts' \in Seq(PutIndices)
    BY <1>1, <1>2 DEF PutTypeOK
  <2>2. \A index \in DOMAIN outstandingPuts :
          [outstandingPuts[index] EXCEPT !.sent = TRUE] \in [hash : BOOLEAN, sent : BOOLEAN]
    BY DEF PutTypeOK
  <2> QED
    BY <1>1, <2>1, <2>2 DEF PutTypeOK
<1>5. OnDisconnectTypeOK'
  BY <1>1 DEF OnDisconnectTypeOK
<1>6. /\ CallbacksOK(Callbacks("listen", ls)) /\ CallbacksOK(Callbacks("put", ps))
      /\ CallbacksOK(Callbacks("onDisconnect", onDisconnectQueue))
  BY <1>2, CallbacksType DEF OnDisconnectTypeOK
<1>7. \A a, b : CallbacksOK(a) /\ CallbacksOK(b) => CallbacksOK(a \o b)
  BY DEF CallbacksOK
<1>8. CallbacksOK(sent \o Callbacks("listen", ls) \o Callbacks("put", ps)
                       \o Callbacks("onDisconnect", onDisconnectQueue))
  BY <1>6, <1>7
<1>9. unackedListensCount' \in Nat
  BY <1>1, <1>2 DEF RequestTypeOK
<1>10. RequestTypeOK'
  BY <1>1, <1>8, <1>9, SendActionsType
<1> QED
  BY <1>3, <1>4, <1>5, <1>10

-----------------------------------------------------------------------------
(* Type correctness. *)

\* The bound on disruptions is kept.
LEMMA DisruptType == TypeOK /\ (Disrupt \/ UNCHANGED disruptions) => disruptions' \in 0..MaxDisruptions
  BY ConnectionAssumption DEF TypeOK, Disrupt

\* Calls of the application keep the types.
LEMMA ApplicationCallType == TypeOK /\ ApplicationCall => TypeOK'
<1> SUFFICES ASSUME TypeOK, ApplicationCall PROVE TypeOK'
  OBVIOUS
<1>1. CASE Open
  BY <1>1, ResumeType DEF Open, InterruptReasons
<1>2. CASE Interrupt
  BY <1>2, InterruptType, DisruptType DEF Interrupt, InterruptReasons
<1>3. CASE Resume
  BY <1>3, ResumeType DEF Resume, InterruptReasons
<1>4. ASSUME NEW query \in Queries, Listen(query)
      PROVE  TypeOK'
  <2>1. listenCounter' \in 1..MaxListens
    BY <1>4, ConnectionAssumption DEF Listen, TypeOK, ListenTypeOK
  <2>2. ListenTypeOK'
    BY <1>4, <2>1, ConnectionAssumption DEF Listen, TypeOK, ListenTypeOK
  <2>3. RequestTypeOK'
    <3>1. CASE connected
      <4>1. /\ SendActions(requestCBHash, <<Callback("listen", listenCounter')>>)
            /\ unackedListensCount' = unackedListensCount + 1
        BY <1>4, <3>1 DEF Listen
      <4>2. CallbacksOK(<<Callback("listen", listenCounter')>>)
        BY <2>1 DEF CallbacksOK, CallbackOK, CallbackType, Callback, CallbackKinds
      <4>3. unackedListensCount' \in Nat
        BY <4>1 DEF TypeOK, RequestTypeOK
      <4> QED
        BY <4>1, <4>2, <4>3, HashTypes, SendActionsType DEF TypeOK
    <3>2. CASE ~connected
      BY <1>4, <3>2 DEF Listen, TypeOK, RequestTypeOK, requestVars
    <3> QED
      BY <3>1, <3>2
  <2>4. ConnTypeOK' /\ TokenTypeOK' /\ InfoTypeOK' /\ OnDisconnectTypeOK'
    BY <1>4 DEF Listen, TypeOK, ConnTypeOK, TokenTypeOK, InfoTypeOK, OnDisconnectTypeOK,
                connVars, tokenVars, infoVars, onDisconnectVars
  <2>5. PutTypeOK' /\ disruptions' \in 0..MaxDisruptions
    BY <1>4 DEF Listen, TypeOK, PutTypeOK, putVars
  <2> QED
    BY <2>2, <2>3, <2>4, <2>5 DEF TypeOK
<1>5. ASSUME NEW query \in Queries, Unlisten(query)
      PROVE  TypeOK'
  <2>1. ListenTypeOK'
    BY <1>5, ConnectionAssumption DEF Unlisten, TypeOK, ListenTypeOK
  <2>2. RequestTypeOK'
    BY <1>5 DEF Unlisten, SendWithoutCallback, TypeOK, RequestTypeOK
  <2>3. ConnTypeOK' /\ TokenTypeOK' /\ InfoTypeOK' /\ OnDisconnectTypeOK'
    BY <1>5 DEF Unlisten, TypeOK, ConnTypeOK, TokenTypeOK, InfoTypeOK, OnDisconnectTypeOK,
                connVars, tokenVars, infoVars, onDisconnectVars
  <2>4. PutTypeOK' /\ disruptions' \in 0..MaxDisruptions
    BY <1>5 DEF Unlisten, TypeOK, PutTypeOK, putVars
  <2> QED
    BY <2>1, <2>2, <2>3, <2>4 DEF TypeOK
<1>6. ASSUME NEW hash \in BOOLEAN, PutInternal(hash)
      PROVE  TypeOK'
  <2>1. putCounter' \in PutIndices /\ putCounter' \in 0..MaxPuts
    BY <1>6, ConnectionAssumption DEF PutInternal, TypeOK, PutTypeOK, PutIndices
  <2>2. PutTypeOK'
    <3>1. canSendWrites \in BOOLEAN
      BY DEF canSendWrites
    <3>2. /\ DOMAIN outstandingPuts' \in SUBSET PutIndices
          /\ outstandingPuts' \in [DOMAIN outstandingPuts' -> [hash : BOOLEAN, sent : BOOLEAN]]
      BY <1>6, <2>1, <3>1 DEF PutInternal, TypeOK, PutTypeOK
    <3>3. sentPuts' \in Seq(PutIndices)
      <4>1. sentPuts \in Seq(PutIndices)
        BY DEF TypeOK, PutTypeOK
      <4>2. sentPuts' = Append(sentPuts, putCounter') \/ sentPuts' = sentPuts
        BY <1>6 DEF PutInternal
      <4> QED
        BY <2>1, <4>1, <4>2, AppendType
    <3> QED
      BY <1>6, <2>1, <3>2, <3>3 DEF PutInternal, TypeOK, PutTypeOK
  <2>3. RequestTypeOK'
    <3>1. unackedListensCount' \in Nat
      BY <1>6 DEF PutInternal, TypeOK, RequestTypeOK
    <3>2. CASE canSendWrites
      <4>1. CallbacksOK(<<Callback("put", putCounter')>>)
        BY <2>1 DEF CallbacksOK, CallbackOK, CallbackType, Callback, CallbackKinds, PutIndices
      <4> QED
        BY <1>6, <3>1, <3>2, <4>1, HashTypes, SendActionsType DEF PutInternal, TypeOK
    <3>3. CASE ~canSendWrites
      BY <1>6, <3>1, <3>3 DEF PutInternal, TypeOK, RequestTypeOK
    <3> QED
      BY <3>2, <3>3
  <2>4. ConnTypeOK' /\ TokenTypeOK' /\ InfoTypeOK' /\ ListenTypeOK' /\ OnDisconnectTypeOK'
    BY <1>6 DEF PutInternal, TypeOK, ConnTypeOK, TokenTypeOK, InfoTypeOK, ListenTypeOK,
                OnDisconnectTypeOK, connVars, tokenVars, infoVars, listenVars, onDisconnectVars
  <2> QED
    BY <1>6, <2>2, <2>3, <2>4 DEF PutInternal, TypeOK
<1>7. CASE OnDisconnectOperation
  <2>1. onDisconnectCounter' \in 1..MaxOnDisconnects /\ onDisconnectCounter' \in 0..MaxOnDisconnects
    BY <1>7, ConnectionAssumption DEF OnDisconnectOperation, TypeOK, OnDisconnectTypeOK
  <2>2. OnDisconnectTypeOK'
    <3>1. onDisconnectQueue \in Seq(1..MaxOnDisconnects)
      BY DEF TypeOK, OnDisconnectTypeOK
    <3>2. \/ onDisconnectQueue' = Append(onDisconnectQueue, onDisconnectCounter')
          \/ onDisconnectQueue' = onDisconnectQueue
      BY <1>7 DEF OnDisconnectOperation
    <3>3. onDisconnectQueue' \in Seq(1..MaxOnDisconnects)
      BY <2>1, <3>1, <3>2, AppendType
    <3> QED
      BY <1>7, <2>1, <3>3 DEF OnDisconnectOperation, TypeOK, OnDisconnectTypeOK
  <2>3. RequestTypeOK'
    <3>1. unackedListensCount' \in Nat
      BY <1>7 DEF OnDisconnectOperation, TypeOK, RequestTypeOK
    <3>2. CASE canSendWrites
      <4>1. CallbacksOK(<<Callback("onDisconnect", onDisconnectCounter')>>)
        BY <2>1 DEF CallbacksOK, CallbackOK, CallbackType, Callback, CallbackKinds
      <4> QED
        BY <1>7, <3>1, <3>2, <4>1, HashTypes, SendActionsType DEF OnDisconnectOperation, TypeOK
    <3>3. CASE ~canSendWrites
      BY <1>7, <3>1, <3>3 DEF OnDisconnectOperation, TypeOK, RequestTypeOK
    <3> QED
      BY <3>2, <3>3
  <2>4. ConnTypeOK' /\ TokenTypeOK' /\ InfoTypeOK' /\ ListenTypeOK'
    BY <1>7 DEF OnDisconnectOperation, TypeOK, ConnTypeOK, TokenTypeOK, InfoTypeOK,
                ListenTypeOK, connVars, tokenVars, infoVars, listenVars
  <2>5. PutTypeOK' /\ disruptions' \in 0..MaxDisruptions
    BY <1>7 DEF OnDisconnectOperation, TypeOK, PutTypeOK, putVars
  <2> QED
    BY <2>2, <2>3, <2>4, <2>5 DEF TypeOK
<1>8. CASE PurgeOutstandingWrites
  <2>1. PutTypeOK'
    <3>1. completions' \in [PutIndices -> Nat]
      BY <1>8, WriteOperators DEF PurgeOutstandingWrites, TypeOK
    <3>2. outstandingPuts' = Remove(outstandingPuts, DOMAIN outstandingPuts)
      BY <1>8 DEF PurgeOutstandingWrites
    <3>3. /\ DOMAIN outstandingPuts' \in SUBSET PutIndices
          /\ outstandingPuts' \in [DOMAIN outstandingPuts' -> [hash : BOOLEAN, sent : BOOLEAN]]
      <4>1. /\ DOMAIN outstandingPuts' = DOMAIN outstandingPuts \ DOMAIN outstandingPuts
            /\ outstandingPuts' \in [DOMAIN outstandingPuts \ DOMAIN outstandingPuts
                                       -> [hash : BOOLEAN, sent : BOOLEAN]]
        BY <3>2, WriteOperators DEF TypeOK
      <4>2. DOMAIN outstandingPuts' = {}
        BY <4>1
      <4> QED
        BY <4>1, <4>2
    <3>4. putsToAck' \in Seq(PutIndices) /\ UNCHANGED <<putCounter, sentPuts>>
      BY <1>8 DEF PurgeOutstandingWrites
    <3> QED
      BY <3>1, <3>3, <3>4 DEF TypeOK, PutTypeOK
  <2>2. OnDisconnectTypeOK'
    BY <1>8 DEF PurgeOutstandingWrites, TypeOK, OnDisconnectTypeOK
  <2>3. ConnTypeOK' /\ TokenTypeOK' /\ InfoTypeOK' /\ ListenTypeOK' /\ RequestTypeOK'
    BY <1>8 DEF PurgeOutstandingWrites, TypeOK, ConnTypeOK, TokenTypeOK, InfoTypeOK,
                ListenTypeOK, RequestTypeOK, connVars, tokenVars, infoVars, listenVars,
                requestVars
  <2> QED
    BY <1>8, <2>1, <2>2, <2>3, DisruptType DEF PurgeOutstandingWrites, TypeOK
<1>9. ASSUME NEW token \in {"nil", "good"}, RefreshAuthToken(token)
      PROVE  TypeOK'
  <2>1. RequestTypeOK'
    <3>1. unackedListensCount' \in Nat
      BY <1>9 DEF RefreshAuthToken, TypeOK, RequestTypeOK
    <3>2. CASE connected /\ token # "nil"
      <4>1. CallbacksOK(<<Callback("auth", 0)>>)
        BY DEF CallbacksOK, CallbackOK, CallbackType, Callback, CallbackKinds
      <4> QED
        BY <1>9, <3>1, <3>2, <4>1, HashTypes, SendActionsType DEF RefreshAuthToken, TypeOK
    <3>3. CASE ~(connected /\ token # "nil")
      BY <1>9, <3>1, <3>3 DEF RefreshAuthToken, SendWithoutCallback, TypeOK, RequestTypeOK
    <3> QED
      BY <3>2, <3>3
  <2>2. TokenTypeOK'
    BY <1>9 DEF RefreshAuthToken, TypeOK, TokenTypeOK
  <2>3. ConnTypeOK' /\ InfoTypeOK' /\ ListenTypeOK' /\ PutTypeOK' /\ OnDisconnectTypeOK'
    BY <1>9 DEF RefreshAuthToken, TypeOK, ConnTypeOK, InfoTypeOK, ListenTypeOK, PutTypeOK,
                OnDisconnectTypeOK, connVars, infoVars, listenVars, putVars, onDisconnectVars
  <2> QED
    BY <1>9, <2>1, <2>2, <2>3, DisruptType DEF RefreshAuthToken, TypeOK
<1> QED
  BY <1>1, <1>2, <1>3, <1>4, <1>5, <1>6, <1>7, <1>8, <1>9 DEF ApplicationCall
\* Losses, failures and wake-ups keep the types.
LEMMA DisruptionType == TypeOK /\ Disruption => TypeOK'
<1> SUFFICES ASSUME TypeOK, Disruption PROVE TypeOK'
  OBVIOUS
<1>0. forceAuthTokenRefresh \in BOOLEAN /\ retryHelper \in RetryHelpers
  BY DEF TypeOK, TokenTypeOK, ConnTypeOK
<1>1. ASSUME NEW fetch \in tokenFetches, TokenFetchFailed(fetch)
      PROVE  TypeOK'
  <2>1. /\ retryHelper' \in RetryHelpers /\ forceAuthTokenRefresh' \in BOOLEAN
        /\ connectionState' \in ConnectionStates
    <3>1. CASE IsLatest(fetch)
      BY <1>0, <1>1, <3>1, ReconnectType DEF TokenFetchFailed, ConnectionStates
    <3>2. CASE ~IsLatest(fetch)
      BY <1>0, <1>1, <3>2 DEF TokenFetchFailed, TypeOK, ConnTypeOK
    <3> QED
      BY <3>1, <3>2
  <2>2. ConnTypeOK' /\ TokenTypeOK'
    BY <1>1, <2>1 DEF TokenFetchFailed, TypeOK, ConnTypeOK, TokenTypeOK
  <2> QED
    BY <1>1, <2>2, TablesUnchanged, DisruptType DEF TokenFetchFailed, TypeOK
<1>2. CASE ConnectionLost
  BY <1>0, <1>2, ClosingType, DisruptType DEF ConnectionLost, TypeOK, TokenTypeOK
<1>3. CASE CloseIfNeverConnected
  BY <1>0, <1>3, ClosingType, DisruptType DEF CloseIfNeverConnected, TypeOK, TokenTypeOK
<1>4. CASE ServerReset
  BY <1>0, <1>4, ClosingType, DisruptType DEF ServerReset, TypeOK, TokenTypeOK
<1>5. CASE ServerShutdown
  BY <1>5, InterruptType, DisruptType DEF ServerShutdown, InterruptReasons
<1>6. CASE AuthRevoked
  BY <1>6, ClosingType, DisruptType DEF AuthRevoked, TokenRejected
<1>7. CASE WakeUp
  <2>1. SignalSuccess(retryHelper) \in RetryHelpers
    BY <1>0, RetryHelperType
  <2>2. retryHelper' \in RetryHelpers /\ forceAuthTokenRefresh' \in BOOLEAN
    BY <1>7, <2>1, ReconnectType DEF WakeUp
  <2>3. ConnTypeOK' /\ TokenTypeOK'
    BY <1>7, <2>2 DEF WakeUp, TypeOK, ConnTypeOK, TokenTypeOK
  <2> QED
    BY <1>7, <2>3, TablesUnchanged, DisruptType DEF WakeUp, TypeOK
<1>8. ASSUME NEW path, ListenRevoked(path)
      PROVE  TypeOK'
  <2>1. ListenTypeOK'
    BY <1>8, ConnectionAssumption DEF ListenRevoked, TypeOK, ListenTypeOK
  <2>2. ConnTypeOK' /\ TokenTypeOK' /\ InfoTypeOK' /\ OnDisconnectTypeOK'
    BY <1>8 DEF ListenRevoked, TypeOK, ConnTypeOK, TokenTypeOK, InfoTypeOK,
                OnDisconnectTypeOK, connVars, tokenVars, infoVars, onDisconnectVars
  <2>3. PutTypeOK' /\ RequestTypeOK'
    BY <1>8 DEF ListenRevoked, TypeOK, PutTypeOK, RequestTypeOK, putVars, requestVars
  <2> QED
    BY <1>8, <2>1, <2>2, <2>3, DisruptType DEF ListenRevoked, TypeOK
<1> QED
  BY <1>1, <1>2, <1>3, <1>4, <1>5, <1>6, <1>7, <1>8
  DEF Disruption, ReachabilityCallback, EnteringForeground

\* A step of the connection attempt, or an answer, that leaves the connection,
\* the tokens and .info alone keeps their types.
LEMMA ConnUnchanged ==
  ASSUME TypeOK, UNCHANGED <<connVars, tokenVars, infoVars>>
  PROVE  ConnTypeOK' /\ TokenTypeOK' /\ InfoTypeOK'
  BY DEF TypeOK, ConnTypeOK, TokenTypeOK, InfoTypeOK, connVars, tokenVars, infoVars

\* The connection attempt keeps the types.
LEMMA AttemptType ==
  TypeOK /\ (RetryTaskRuns \/ TokenAnswered \/ WebSocketDidOpen \/ ServerHello \/ OnConnect)
    => TypeOK'
<1> SUFFICES ASSUME TypeOK,
               RetryTaskRuns \/ TokenAnswered \/ WebSocketDidOpen \/ ServerHello \/ OnConnect
             PROVE TypeOK'
  OBVIOUS
<1>1. CASE RetryTaskRuns
  <2>1. retryHelper' \in RetryHelpers /\ retryHelper.scheduledRetry.force \in BOOLEAN
    <3>1. retryHelper \in RetryHelpers
      BY DEF TypeOK, ConnTypeOK
    <3>2. TaskRuns(retryHelper) \in RetryHelpers
      BY <3>1, RetryHelperType
    <3> QED
      BY <1>1, <3>1, <3>2 DEF RetryTaskRuns, RetryHelpers, Tasks
  <2>2. currentFetchTokenAttempt' \in Nat
    BY <1>1 DEF RetryTaskRuns, TypeOK, TokenTypeOK
  <2>3. ConnTypeOK'
    BY <1>1, <2>1 DEF RetryTaskRuns, TypeOK, ConnTypeOK, ConnectionStates
  <2>4. TokenTypeOK'
    BY <1>1, <2>1, <2>2 DEF RetryTaskRuns, TypeOK, TokenTypeOK
  <2> QED
    BY <1>1, <2>3, <2>4, TablesUnchanged DEF RetryTaskRuns, TypeOK
<1>2. ASSUME NEW fetch \in tokenFetches, NEW token \in FetchedTokens(fetch),
             TokenFetched(fetch, token)
      PROVE  TypeOK'
  <2>1. token \in {"nil", "good", "rejected"}
    BY DEF FetchedTokens
  <2>2. fetch.force \in BOOLEAN
    BY DEF TypeOK, TokenTypeOK
  <2>3. ConnTypeOK'
    BY <1>2 DEF TokenFetched, TypeOK, ConnTypeOK, ConnectionStates
  <2>4. TokenTypeOK'
    <3>1. tokenStale' \in BOOLEAN
      BY <1>2 DEF TokenFetched
    <3> QED
      BY <1>2, <2>1, <3>1 DEF TokenFetched, TypeOK, TokenTypeOK
  <2> QED
    BY <1>2, <2>3, <2>4, TablesUnchanged DEF TokenFetched, TypeOK
<1>3. CASE WebSocketDidOpen
  <2>1. ConnTypeOK' /\ TokenTypeOK'
    BY <1>3 DEF WebSocketDidOpen, TypeOK, ConnTypeOK, TokenTypeOK, tokenVars
  <2> QED
    BY <1>3, <2>1, TablesUnchanged DEF WebSocketDidOpen, TypeOK
<1>4. CASE ServerHello
  <2> DEFINE stats == IF firstConnection THEN <<Callback("stats", 0)>> ELSE <<>>
  <2>1. CallbacksOK(<<Callback("stats", 0)>>) /\ CallbacksOK(<<>>)
    BY DEF CallbacksOK, CallbackOK, CallbackType, Callback, CallbackKinds
  <2>2. CallbacksOK(stats)
    BY <2>1
  <2>3. CallbacksOK(Append(stats, Callback("authRestore", 0)))
    <3> HIDE DEF stats
    <3>1. CallbackOK(Callback("authRestore", 0))
      BY DEF CallbackOK, CallbackType, Callback, CallbackKinds
    <3> QED
      BY <2>2, <3>1 DEF CallbacksOK, CallbackOK
  <2>4. ConnTypeOK'
    BY <1>4 DEF ServerHello, TypeOK, ConnTypeOK, ConnectionStates
  <2>5. TokenTypeOK' /\ InfoTypeOK'
    BY <1>4 DEF ServerHello, TypeOK, TokenTypeOK, InfoTypeOK, tokenVars
  <2>6. ListenTypeOK' /\ PutTypeOK' /\ OnDisconnectTypeOK' /\ RequestTypeOK'
    <3>1. CASE authToken = "nil"
      <4>1. RestoreState(requestCBHash, stats)
        BY <1>4, <3>1 DEF ServerHello
      <4>2. HashOK(requestCBHash)
        BY HashTypes DEF TypeOK
      <4> HIDE DEF stats
      <4> QED
        BY <2>2, <4>1, <4>2, RestoreStateType
    <3>2. CASE authToken # "nil"
      <4>1. /\ SendActions(requestCBHash, Append(stats, Callback("authRestore", 0)))
            /\ UNCHANGED <<listenVars, putVars, onDisconnectVars, unackedListensCount>>
        BY <1>4, <3>2 DEF ServerHello
      <4>2. HashOK(requestCBHash) /\ RequestTypeOK /\ unackedListensCount' \in Nat
        BY <4>1, HashTypes DEF TypeOK, RequestTypeOK
      <4>3. RequestTypeOK'
        <5> HIDE DEF stats
        <5> QED
          BY <2>3, <4>1, <4>2, SendActionsType
      <4>4. ListenTypeOK' /\ OnDisconnectTypeOK'
        BY <4>1 DEF TypeOK, ListenTypeOK, OnDisconnectTypeOK, listenVars, onDisconnectVars
      <4>5. PutTypeOK'
        BY <4>1 DEF TypeOK, PutTypeOK, putVars
      <4> QED
        BY <4>3, <4>4, <4>5
    <3> QED
      BY <3>1, <3>2
  <2> QED
    BY <1>4, <2>4, <2>5, <2>6 DEF ServerHello, TypeOK
<1>5. CASE OnConnect
  <2>1. ConnTypeOK' /\ TokenTypeOK' /\ InfoTypeOK'
    BY <1>5 DEF OnConnect, TypeOK, ConnTypeOK, TokenTypeOK, InfoTypeOK, connVars, tokenVars
  <2>2. ListenTypeOK' /\ OnDisconnectTypeOK'
    BY <1>5 DEF OnConnect, TypeOK, ListenTypeOK, OnDisconnectTypeOK, listenVars,
                onDisconnectVars
  <2>3. PutTypeOK' /\ RequestTypeOK'
    BY <1>5 DEF OnConnect, TypeOK, PutTypeOK, RequestTypeOK, putVars, requestVars
  <2> QED
    BY <1>5, <2>1, <2>2, <2>3 DEF OnConnect, TypeOK
<1> QED
  BY <1>1, <1>2, <1>3, <1>4, <1>5 DEF TokenAnswered

\* Answers of the server keep the types.
LEMMA AnswerType == TypeOK /\ Answer => TypeOK'
<1> SUFFICES ASSUME TypeOK, NEW rn \in DOMAIN requestCBHash,
               \/ AuthSucceeded(rn) \/ AuthFailed(rn) \/ PutAnswered(rn)
               \/ \E ok \in BOOLEAN : ListenAnswered(rn, ok)
               \/ OnDisconnectAnswered(rn) \/ StatsAnswered(rn)
             PROVE TypeOK'
  BY DEF Answer
<1>0. /\ RequestTypeOK /\ unackedListensCount \in Nat
      /\ requestCBHash[rn].kind = "put" => requestCBHash[rn].id \in PutIndices
      /\ requestCBHash[rn].kind = "onDisconnect" => requestCBHash[rn].id \in 1..MaxOnDisconnects
  BY DEF TypeOK, RequestTypeOK
<1>1. CASE AuthSucceeded(rn)
  <2>1. ConnTypeOK'
    BY <1>1 DEF AuthSucceeded, TypeOK, ConnTypeOK, ConnectionStates
  <2>2. TokenTypeOK' /\ InfoTypeOK'
    BY <1>1 DEF AuthSucceeded, TypeOK, TokenTypeOK, InfoTypeOK, tokenVars, infoVars
  <2>3. ListenTypeOK' /\ PutTypeOK' /\ OnDisconnectTypeOK' /\ RequestTypeOK'
    <3>1. CASE requestCBHash[rn].kind = "authRestore"
      <4>1. RestoreState(Answered(rn), <<>>)
        BY <1>1, <3>1 DEF AuthSucceeded
      <4>2. HashOK(Answered(rn)) /\ CallbacksOK(<<>>)
        BY <1>0, HashTypes DEF CallbacksOK
      <4> QED
        BY <4>1, <4>2, RestoreStateType
    <3>2. CASE requestCBHash[rn].kind # "authRestore"
      <4>1. /\ requestCBHash' = Answered(rn)
            /\ UNCHANGED <<listenVars, putVars, onDisconnectVars, requestNumber,
                           unackedListensCount>>
        BY <1>1, <3>2 DEF AuthSucceeded
      <4>2. RequestTypeOK'
        BY <1>0, <4>1, AnsweredType
      <4>3. ListenTypeOK' /\ OnDisconnectTypeOK'
        BY <4>1 DEF TypeOK, ListenTypeOK, OnDisconnectTypeOK, listenVars, onDisconnectVars
      <4>4. PutTypeOK'
        BY <4>1 DEF TypeOK, PutTypeOK, putVars
      <4> QED
        BY <4>2, <4>3, <4>4
    <3> QED
      BY <3>1, <3>2
  <2> QED
    BY <1>1, <2>1, <2>2, <2>3 DEF AuthSucceeded, TypeOK
<1>2. CASE AuthFailed(rn)
  BY <1>2, ClosingType, DisruptType DEF AuthFailed, TokenRejected
<1>3. CASE PutAnswered(rn)
  <2> DEFINE index == requestCBHash[rn].id
  <2>1. index \in PutIndices
    BY <1>0, <1>3 DEF PutAnswered
  <2>2. RequestTypeOK'
    BY <1>0, <1>3, AnsweredType DEF PutAnswered
  <2>3. PutTypeOK'
    <3>1. completions' \in [PutIndices -> Nat]
      <4>1. completions' = completions \/ completions' = Complete({index})
        BY <1>3 DEF PutAnswered
      <4>2. completions \in [PutIndices -> Nat]
        BY DEF TypeOK, PutTypeOK
      <4>3. Complete({index}) \in [PutIndices -> Nat]
        BY WriteOperators DEF TypeOK
      <4> QED
        BY <4>1, <4>2, <4>3
    <3>2. putsToAck' \in Seq(PutIndices)
      <4>1. putsToAck' = putsToAck \/ putsToAck' = Append(putsToAck, index)
        BY <1>3 DEF PutAnswered
      <4>2. putsToAck \in Seq(PutIndices)
        BY DEF TypeOK, PutTypeOK
      <4> HIDE DEF index
      <4> QED
        BY <2>1, <4>1, <4>2, AppendType
    <3>3. /\ DOMAIN outstandingPuts' \in SUBSET PutIndices
          /\ outstandingPuts' \in [DOMAIN outstandingPuts' -> [hash : BOOLEAN, sent : BOOLEAN]]
      <4>1. outstandingPuts' = outstandingPuts \/ outstandingPuts' = Remove(outstandingPuts, {index})
        BY <1>3 DEF PutAnswered
      <4>2. /\ DOMAIN Remove(outstandingPuts, {index}) = DOMAIN outstandingPuts \ {index}
            /\ Remove(outstandingPuts, {index}) \in
                 [DOMAIN outstandingPuts \ {index} -> [hash : BOOLEAN, sent : BOOLEAN]]
        BY WriteOperators DEF TypeOK
      <4>3. DOMAIN outstandingPuts \in SUBSET PutIndices
        BY DEF TypeOK, PutTypeOK
      <4>4. CASE outstandingPuts' = outstandingPuts
        BY <4>4 DEF TypeOK, PutTypeOK
      <4>5. CASE outstandingPuts' = Remove(outstandingPuts, {index})
        <5> HIDE DEF index
        <5> QED
          BY <4>2, <4>3, <4>5
      <4> QED
        BY <4>1, <4>4, <4>5
    <3> QED
      BY <1>3, <3>1, <3>2, <3>3 DEF PutAnswered, TypeOK, PutTypeOK
  <2>4. ListenTypeOK' /\ OnDisconnectTypeOK'
    BY <1>3 DEF PutAnswered, TypeOK, ListenTypeOK, OnDisconnectTypeOK, listenVars,
                onDisconnectVars
  <2> QED
    BY <1>3, <2>2, <2>3, <2>4, ConnUnchanged DEF PutAnswered, TypeOK
<1>4. ASSUME NEW ok \in BOOLEAN, ListenAnswered(rn, ok)
      PROVE  TypeOK'
  <2>1. unackedListensCount' \in Nat
    BY <1>0, <1>4, ConnectionAssumption DEF ListenAnswered, Decremented
  <2>2. RequestTypeOK'
    BY <1>0, <1>4, <2>1, AnsweredType DEF ListenAnswered
  <2>3. ListenTypeOK'
    <3>1. listens' \in [Queries -> 0..MaxListens]
      BY <1>4, ConnectionAssumption DEF ListenAnswered, TypeOK, ListenTypeOK
    <3> QED
      BY <1>4, <3>1 DEF ListenAnswered, TypeOK, ListenTypeOK
  <2>4. PutTypeOK'
    <3>1. completions' \in [PutIndices -> Nat]
      <4>1. completions' = completions \/ completions' = Complete(PendingAcks)
        BY <1>4 DEF ListenAnswered
      <4>2. completions \in [PutIndices -> Nat]
        BY DEF TypeOK, PutTypeOK
      <4>3. Complete(PendingAcks) \in [PutIndices -> Nat]
        BY WriteOperators DEF TypeOK
      <4> QED
        BY <4>1, <4>2, <4>3
    <3>2. putsToAck' \in Seq(PutIndices)
      <4>1. putsToAck' = putsToAck \/ putsToAck' = <<>>
        BY <1>4 DEF ListenAnswered
      <4>2. putsToAck \in Seq(PutIndices) /\ <<>> \in Seq(PutIndices)
        BY DEF TypeOK, PutTypeOK
      <4> QED
        BY <4>1, <4>2
    <3> QED
      BY <1>4, <3>1, <3>2 DEF ListenAnswered, TypeOK, PutTypeOK
  <2>5. OnDisconnectTypeOK'
    BY <1>4 DEF ListenAnswered, TypeOK, OnDisconnectTypeOK, onDisconnectVars
  <2> QED
    BY <1>4, <2>2, <2>3, <2>4, <2>5, ConnUnchanged DEF ListenAnswered, TypeOK
<1>5. CASE OnDisconnectAnswered(rn)
  <2>1. RequestTypeOK'
    BY <1>0, <1>5, AnsweredType DEF OnDisconnectAnswered
  <2>2. OnDisconnectTypeOK'
    BY <1>0, <1>5 DEF OnDisconnectAnswered, TypeOK, OnDisconnectTypeOK
  <2>3. ListenTypeOK' /\ PutTypeOK'
    BY <1>5 DEF OnDisconnectAnswered, TypeOK, ListenTypeOK, PutTypeOK, listenVars, putVars
  <2> QED
    BY <1>5, <2>1, <2>2, <2>3, ConnUnchanged DEF OnDisconnectAnswered, TypeOK
<1>6. CASE StatsAnswered(rn)
  <2>1. RequestTypeOK'
    BY <1>0, <1>6, AnsweredType DEF StatsAnswered
  <2>2. ListenTypeOK' /\ PutTypeOK' /\ OnDisconnectTypeOK'
    BY <1>6 DEF StatsAnswered, TypeOK, ListenTypeOK, PutTypeOK, OnDisconnectTypeOK,
                listenVars, putVars, onDisconnectVars
  <2> QED
    BY <1>6, <2>1, <2>2, ConnUnchanged DEF StatsAnswered, TypeOK
<1> QED
  BY <1>1, <1>2, <1>3, <1>4, <1>5, <1>6

\* The initial state has the types.
LEMMA InitType == Init => TypeOK
<1> SUFFICES ASSUME Init PROVE TypeOK
  OBVIOUS
<1>1. ConnTypeOK
  <2>1. NoRetry \in Tasks /\ 0 \in 0..MaxRetryLevel
    BY RetryLevelAssumption DEF NoRetry, Tasks
  <2>2. InitRetryHelper \in RetryHelpers
    BY <2>1 DEF InitRetryHelper, RetryHelpers
  <2> QED
    BY <2>2 DEF Init, ConnTypeOK, ConnectionStates, InterruptReasons
<1>2. TokenTypeOK /\ InfoTypeOK
  BY DEF Init, TokenTypeOK, InfoTypeOK
<1>3. ListenTypeOK
  BY ConnectionAssumption DEF Init, ListenTypeOK
<1>4. PutTypeOK /\ OnDisconnectTypeOK
  <2>1. \A S : <<>> \in Seq(S)
    OBVIOUS
  <2>2. completions \in [PutIndices -> Nat] /\ onDisconnectDone \in [1..MaxOnDisconnects -> Nat]
    BY DEF Init
  <2>3. /\ DOMAIN outstandingPuts = {}
        /\ outstandingPuts \in [{} -> [hash : BOOLEAN, sent : BOOLEAN]]
    BY DEF Init
  <2> QED
    BY <2>1, <2>2, <2>3, ConnectionAssumption DEF Init, PutTypeOK, OnDisconnectTypeOK
<1>5. RequestTypeOK
  BY DEF Init, RequestTypeOK, Callback
<1> QED
  BY <1>1, <1>2, <1>3, <1>4, <1>5, ConnectionAssumption DEF Init, TypeOK

\* Every step, and stuttering, keeps the types.
LEMMA NextType == TypeOK /\ [Next]_vars => TypeOK'
<1>1. TypeOK /\ Next => TypeOK'
  BY ApplicationCallType, DisruptionType, AttemptType, AnswerType DEF Next, Progress
<1>2. TypeOK /\ UNCHANGED vars => TypeOK'
  BY ConnUnchanged, TablesUnchanged, DisruptType DEF vars, TypeOK
<1> QED
  BY <1>1, <1>2

\* The client's state, whatever the application, the network, the provider and
\* the server do, stays well typed: in particular the back-off never exceeds its
\* cap and every callback in requestCBHash is for a request that was sent.
THEOREM TypeCorrect == Spec => []TypeOK
<1>1. Init => TypeOK
  BY InitType
<1>2. TypeOK /\ [Next]_vars => TypeOK'
  BY NextType
<1> QED
  BY <1>1, <1>2, PTL DEF Spec

-----------------------------------------------------------------------------
(***************************************************************************)
(* The life cycle of the connection, proved for every value of the         *)
(* constants: the states of FPersistentConnection and FConnection agree,   *)
(* the assertions of the reconnect path hold, an interrupted client stays  *)
(* down, a client that is not interrupted is never stranded, and requests  *)
(* are only sent on a ready connection.                                    *)
(***************************************************************************)

\* Every fetch under way is one of the attempts made so far, and no two belong
\* to the same attempt: answering the latest leaves no other latest.
FetchesNumbered ==
  /\ \A fetch \in tokenFetches : fetch.attempt <= currentFetchTokenAttempt
  /\ \A f, g \in tokenFetches : f.attempt = g.attempt => f = g

\* The strengthening of NeverStranded: each state in which the client has no
\* connection has its own reason to leave it.
OnItsWay ==
  /\ connectionState = "Disconnected" /\ interruptReasons = {}
       => retryHelper.scheduledRetry.pending
  /\ connectionState = "GettingToken"
       => \E fetch \in tokenFetches : fetch.attempt = currentFetchTokenAttempt

\* A request awaits its answer only on a connection that is ready.
RequestsNeedConnection == DOMAIN requestCBHash # {} => connected

\* The inductive invariant of the connection's life cycle.
ConnectionInv ==
  /\ ConnectionStatesAgree /\ ReconnectAssertions /\ InterruptedStaysDown
  /\ FetchesNumbered /\ OnItsWay /\ RequestsNeedConnection

\* The invariant holds initially: the client waits to be opened.
LEMMA InitConnection == Init => ConnectionInv
  BY DEF Init, ConnectionInv, ConnectionStatesAgree, ReconnectAssertions,
         InterruptedStaysDown, FetchesNumbered, OnItsWay, RequestsNeedConnection,
         InitRetryHelper, NoRetry

\* A step that leaves the connection and the fetches alone, and adds requests
\* only to a ready connection, preserves the invariant.
LEMMA RequestStep ==
  ASSUME ConnectionInv, UNCHANGED <<connVars, currentFetchTokenAttempt, tokenFetches>>,
         DOMAIN requestCBHash' # {} => DOMAIN requestCBHash # {} \/ connected
  PROVE  ConnectionInv'
  BY DEF ConnectionInv, ConnectionStatesAgree, ReconnectAssertions, InterruptedStaysDown,
         FetchesNumbered, OnItsWay, RequestsNeedConnection, connVars, connected

\* Removing an answered callback adds no request.
LEMMA AnsweredDomain ==
  ASSUME NEW rn PROVE DOMAIN Answered(rn) \subseteq DOMAIN requestCBHash
  BY DEF Answered

\* The application's calls other than open, goOffline and goOnline.
LEMMA CallStep ==
  ASSUME ConnectionInv, TypeOK,
         \/ \E query \in Queries : Listen(query) \/ Unlisten(query)
         \/ \E hash \in BOOLEAN : PutInternal(hash)
         \/ OnDisconnectOperation \/ PurgeOutstandingWrites
         \/ \E token \in {"nil", "good"} : RefreshAuthToken(token)
         \/ OnConnect
         \/ \E query \in Queries : ListenRevoked(query[1])
  PROVE  ConnectionInv'
<1> USE DEF tokenVars, requestVars
<1>1. ASSUME NEW query \in Queries, Listen(query) PROVE ConnectionInv'
  BY <1>1, RequestStep DEF Listen
<1>2. ASSUME NEW query \in Queries, Unlisten(query) PROVE ConnectionInv'
  BY <1>2, RequestStep DEF Unlisten, SendWithoutCallback
<1>3. ASSUME NEW hash \in BOOLEAN, PutInternal(hash) PROVE ConnectionInv'
  BY <1>3, RequestStep DEF PutInternal, canSendWrites, connected
<1>4. CASE OnDisconnectOperation
  BY <1>4, RequestStep DEF OnDisconnectOperation, canSendWrites, connected
<1>5. CASE PurgeOutstandingWrites
  BY <1>5, RequestStep DEF PurgeOutstandingWrites
<1>6. ASSUME NEW token \in {"nil", "good"}, RefreshAuthToken(token) PROVE ConnectionInv'
  BY <1>6, RequestStep DEF RefreshAuthToken, SendWithoutCallback
<1>7. CASE OnConnect
  BY <1>7, RequestStep DEF OnConnect
<1>8. ASSUME NEW path, ListenRevoked(path) PROVE ConnectionInv'
  BY <1>8, RequestStep DEF ListenRevoked
<1> QED
  BY <1>1, <1>2, <1>3, <1>4, <1>5, <1>6, <1>7, <1>8

\* Scheduling leaves the client with a retry exactly when it is not interrupted
\* or already had one.
LEMMA ScheduleStep ==
  ASSUME NEW helper \in RetryHelpers, NEW force \in BOOLEAN,
         TryScheduleReconnect(helper, force)
  PROVE  /\ interruptReasons' = {} => retryHelper'.scheduledRetry.pending
         /\ interruptReasons' # {} => retryHelper' = helper
  BY RetryHelperTask DEF TryScheduleReconnect, ShouldReconnect

\* Closing the connection, with or without a reconnect to follow.
LEMMA ClosingStep ==
  ASSUME ConnectionInv, TypeOK, TearDown,
         UNCHANGED <<interruptReasons, currentFetchTokenAttempt, tokenFetches>>,
         \E reset \in BOOLEAN, force \in BOOLEAN : Reconnect(reset, force)
  PROVE  ConnectionInv'
<1>1. retryHelper \in RetryHelpers /\ SignalSuccess(retryHelper) \in RetryHelpers
  BY RetryHelperType DEF TypeOK, ConnTypeOK
<1>2. PICK helper \in {retryHelper, SignalSuccess(retryHelper)}, force \in BOOLEAN :
        TryScheduleReconnect(helper, force)
  BY DEF Reconnect
<1>3. helper \in RetryHelpers /\ helper.scheduledRetry = retryHelper.scheduledRetry
  BY <1>1, RetryHelperTask
<1>4. /\ interruptReasons = {} => retryHelper'.scheduledRetry.pending
      /\ interruptReasons # {} => retryHelper' = helper
  BY <1>2, <1>3, ScheduleStep
<1>5. connectionState' = "Disconnected" /\ realtime' = "none" /\ DOMAIN requestCBHash' = {}
  BY DEF TearDown
<1> QED
  BY <1>3, <1>4, <1>5 DEF ConnectionInv, ConnectionStatesAgree, ReconnectAssertions,
     InterruptedStaysDown, FetchesNumbered, OnItsWay, RequestsNeedConnection

\* interruptForReason takes the client down and cancels its retry.
LEMMA InterruptStep ==
  ASSUME ConnectionInv, TypeOK, NEW reason, InterruptForReason(reason)
  PROVE  ConnectionInv'
<1>1. retryHelper \in RetryHelpers
  BY DEF TypeOK, ConnTypeOK
<1>2. /\ connectionState' = "Disconnected" /\ realtime' = "none" /\ interruptReasons' # {}
      /\ UNCHANGED <<currentFetchTokenAttempt, tokenFetches>>
  BY DEF InterruptForReason, TearDown, tokenVars
<1>3. ~retryHelper'.scheduledRetry.pending
  <2>1. CASE realtime # "none"
    <3>1. connectionState # "Disconnected"
      BY <2>1 DEF ConnectionInv, ConnectionStatesAgree
    <3>2. ~retryHelper.scheduledRetry.pending
      BY <3>1 DEF ConnectionInv, ReconnectAssertions
    <3>3. retryHelper' = SignalSuccess(retryHelper)
      BY <2>1 DEF InterruptForReason
    <3> QED
      BY <1>1, <3>2, <3>3, RetryHelperTask
  <2>2. CASE realtime = "none"
    <3>1. retryHelper' = SignalSuccess(Cancel(retryHelper))
      BY <2>2 DEF InterruptForReason
    <3> QED
      BY <1>1, <3>1, RetryHelperTask
  <2> QED
    BY <2>1, <2>2
<1>4. DOMAIN requestCBHash' = {}
  <2>1. CASE realtime # "none"
    BY <2>1 DEF InterruptForReason, TearDown
  <2>2. CASE realtime = "none"
    <3>1. DOMAIN requestCBHash = {}
      BY <2>2 DEF ConnectionInv, ConnectionStatesAgree, RequestsNeedConnection, connected
    <3> QED
      BY <2>2, <3>1 DEF InterruptForReason, requestVars
  <2> QED
    BY <2>1, <2>2
<1> QED
  BY <1>2, <1>3, <1>4 DEF ConnectionInv, ConnectionStatesAgree, ReconnectAssertions,
     InterruptedStaysDown, FetchesNumbered, OnItsWay, RequestsNeedConnection

\* resumeForReason and the wake-ups: a disconnected client schedules a retry.
LEMMA ResumeStep ==
  ASSUME ConnectionInv, TypeOK, interruptReasons' \subseteq interruptReasons,
         NEW helper \in {retryHelper, SignalSuccess(retryHelper)},
         ScheduleIfDisconnected(helper),
         UNCHANGED <<connectionState, realtime, currentFetchTokenAttempt, tokenFetches,
                     requestCBHash>>
  PROVE  ConnectionInv'
<1>1. helper \in RetryHelpers /\ helper.scheduledRetry = retryHelper.scheduledRetry
  BY RetryHelperType, RetryHelperTask DEF TypeOK, ConnTypeOK
<1>2. /\ connectionState = "Disconnected" /\ interruptReasons' = {}
           => retryHelper'.scheduledRetry.pending
      /\ connectionState # "Disconnected" \/ interruptReasons' # {}
           => retryHelper'.scheduledRetry = retryHelper.scheduledRetry
  <2>1. CASE connectionState = "Disconnected"
    <3>1. TryScheduleReconnect(helper, forceAuthTokenRefresh) /\ forceAuthTokenRefresh \in BOOLEAN
      BY <2>1 DEF ScheduleIfDisconnected, TypeOK, TokenTypeOK
    <3> QED
      BY <1>1, <2>1, <3>1, ScheduleStep
  <2>2. CASE connectionState # "Disconnected"
    BY <1>1, <2>2 DEF ScheduleIfDisconnected
  <2> QED
    BY <2>1, <2>2
<1>3. interruptReasons' # {} => interruptReasons # {}
  OBVIOUS
<1> QED
  BY <1>2, <1>3 DEF ConnectionInv, ConnectionStatesAgree, ReconnectAssertions,
     InterruptedStaysDown, FetchesNumbered, OnItsWay, RequestsNeedConnection, connected

\* The retry task starts a new attempt, which makes every older fetch stale.
LEMMA RetryStep ==
  ASSUME ConnectionInv, TypeOK, RetryTaskRuns
  PROVE  ConnectionInv'
<1> DEFINE fetch == [attempt |-> currentFetchTokenAttempt',
                     force |-> retryHelper.scheduledRetry.force]
<1>1. /\ connectionState = "Disconnected" /\ interruptReasons = {} /\ realtime = "none"
      /\ DOMAIN requestCBHash = {}
  BY DEF RetryTaskRuns, ConnectionInv, ConnectionStatesAgree, ReconnectAssertions,
         InterruptedStaysDown, RequestsNeedConnection, connected
<1>2. ~retryHelper'.scheduledRetry.pending
  BY RetryHelperTask DEF RetryTaskRuns, TypeOK, ConnTypeOK
<1>3. /\ currentFetchTokenAttempt \in Nat /\ currentFetchTokenAttempt' = currentFetchTokenAttempt + 1
      /\ tokenFetches' = tokenFetches \cup {fetch} /\ fetch.attempt = currentFetchTokenAttempt'
      /\ \A f \in tokenFetches : f.attempt \in Nat /\ f.attempt <= currentFetchTokenAttempt
  BY DEF RetryTaskRuns, TypeOK, TokenTypeOK, ConnectionInv, FetchesNumbered
<1> HIDE DEF fetch
<1>4. FetchesNumbered'
  BY <1>3 DEF ConnectionInv, FetchesNumbered
<1>5. /\ connectionState' = "GettingToken"
      /\ UNCHANGED <<realtime, interruptReasons, requestCBHash>>
  BY DEF RetryTaskRuns, requestVars
<1>6. \E f \in tokenFetches' : f.attempt = currentFetchTokenAttempt'
  BY <1>3
<1> QED
  BY <1>1, <1>2, <1>4, <1>5, <1>6 DEF ConnectionInv, ConnectionStatesAgree,
     ReconnectAssertions, InterruptedStaysDown, OnItsWay, RequestsNeedConnection

\* The answer to a token fetch: a stale one changes nothing, the latest one opens
\* the connection, and nothing is left that could open a second one.
LEMMA FetchedStep ==
  ASSUME ConnectionInv, TypeOK, NEW fetch \in tokenFetches, NEW token,
         TokenFetched(fetch, token)
  PROVE  ConnectionInv'
<1>1. /\ tokenFetches' = tokenFetches \ {fetch}
      /\ UNCHANGED <<interruptReasons, retryHelper, currentFetchTokenAttempt, requestCBHash>>
  BY DEF TokenFetched, requestVars
<1>2. FetchesNumbered'
  BY <1>1 DEF ConnectionInv, FetchesNumbered
<1>3. CASE IsLatest(fetch) /\ connectionState = "GettingToken"
  <2>1. /\ connectionState' = "Connecting" /\ realtime' = "CONNECTING"
    BY <1>3 DEF TokenFetched
  <2>2. \A f \in tokenFetches' : f.attempt # currentFetchTokenAttempt'
    BY <1>1, <1>3 DEF ConnectionInv, FetchesNumbered, IsLatest
  <2>3. ~retryHelper.scheduledRetry.pending /\ interruptReasons = {} /\ DOMAIN requestCBHash = {}
    BY <1>3 DEF ConnectionInv, ReconnectAssertions, InterruptedStaysDown,
                RequestsNeedConnection, connected
  <2> QED
    BY <1>1, <1>2, <2>1, <2>2, <2>3 DEF ConnectionInv, ConnectionStatesAgree,
       ReconnectAssertions, InterruptedStaysDown, OnItsWay, RequestsNeedConnection
<1>4. CASE ~(IsLatest(fetch) /\ connectionState = "GettingToken")
  <2>1. UNCHANGED <<connectionState, realtime>>
    BY <1>4 DEF TokenFetched
  <2>2. connectionState = "GettingToken" =>
          \E f \in tokenFetches' : f.attempt = currentFetchTokenAttempt
    BY <1>1, <1>4 DEF ConnectionInv, OnItsWay, IsLatest
  <2> QED
    BY <1>1, <1>2, <2>1, <2>2 DEF ConnectionInv, ConnectionStatesAgree,
       ReconnectAssertions, InterruptedStaysDown, OnItsWay, RequestsNeedConnection, connected
<1> QED
  BY <1>3, <1>4

\* The failure of a token fetch: the latest one schedules a retry.
LEMMA FetchFailedStep ==
  ASSUME ConnectionInv, TypeOK, NEW fetch \in tokenFetches, TokenFetchFailed(fetch)
  PROVE  ConnectionInv'
<1>1. /\ tokenFetches' = tokenFetches \ {fetch}
      /\ UNCHANGED <<interruptReasons, currentFetchTokenAttempt, realtime, requestCBHash>>
  BY DEF TokenFetchFailed, requestVars
<1>2. FetchesNumbered'
  BY <1>1 DEF ConnectionInv, FetchesNumbered
<1>3. CASE IsLatest(fetch)
  <2>1. /\ connectionState' = "Disconnected"
        /\ TryScheduleReconnect(retryHelper, forceAuthTokenRefresh)
    BY <1>3 DEF TokenFetchFailed
  <2>2. connectionState \in {"GettingToken", "Disconnected"}
    BY <1>3 DEF ConnectionInv, ReconnectAssertions, IsLatest
  <2>3. realtime = "none" /\ DOMAIN requestCBHash = {}
    BY <2>2 DEF ConnectionInv, ConnectionStatesAgree, RequestsNeedConnection, connected
  <2>4. /\ interruptReasons = {} => retryHelper'.scheduledRetry.pending
        /\ interruptReasons # {} => retryHelper' = retryHelper
    BY <1>1, <2>1, ScheduleStep DEF TypeOK, ConnTypeOK, TokenTypeOK
  <2> QED
    BY <1>1, <1>2, <2>1, <2>3, <2>4 DEF ConnectionInv, ConnectionStatesAgree,
       ReconnectAssertions, InterruptedStaysDown, OnItsWay, RequestsNeedConnection
<1>4. CASE ~IsLatest(fetch)
  <2>1. UNCHANGED <<connectionState, retryHelper>>
    BY <1>4 DEF TokenFetchFailed
  <2>2. connectionState = "GettingToken" =>
          \E f \in tokenFetches' : f.attempt = currentFetchTokenAttempt
    BY <1>1, <1>4 DEF ConnectionInv, OnItsWay, IsLatest
  <2> QED
    BY <1>1, <1>2, <2>1, <2>2 DEF ConnectionInv, ConnectionStatesAgree,
       ReconnectAssertions, InterruptedStaysDown, OnItsWay, RequestsNeedConnection, connected
<1> QED
  BY <1>3, <1>4

\* A connection that becomes ready, or authenticated, was being opened.
LEMMA ReadyStep ==
  ASSUME ConnectionInv, TypeOK,
         \/ WebSocketDidOpen
         \/ ServerHello
         \/ \E rn \in DOMAIN requestCBHash : AuthSucceeded(rn)
  PROVE  ConnectionInv'
<1>1. CASE WebSocketDidOpen
  BY <1>1 DEF WebSocketDidOpen, requestVars, tokenVars, ConnectionInv, ConnectionStatesAgree,
     ReconnectAssertions, InterruptedStaysDown, FetchesNumbered, OnItsWay,
     RequestsNeedConnection, connected
<1>2. ASSUME connectionState \in {"Connecting", "Authenticating", "Connected"},
             realtime' = "CONNECTED", connectionState' \in {"Authenticating", "Connected"},
             UNCHANGED <<interruptReasons, retryHelper, currentFetchTokenAttempt, tokenFetches>>
      PROVE  ConnectionInv'
  BY <1>2 DEF ConnectionInv, ConnectionStatesAgree, ReconnectAssertions,
     InterruptedStaysDown, FetchesNumbered, OnItsWay, RequestsNeedConnection, connected
<1>3. CASE ServerHello
  <2>1. connectionState = "Connecting"
    BY <1>3 DEF ServerHello, ConnectionInv, ConnectionStatesAgree
  <2> QED
    BY <1>2, <1>3, <2>1 DEF ServerHello, tokenVars
<1>4. ASSUME NEW rn \in DOMAIN requestCBHash, AuthSucceeded(rn) PROVE ConnectionInv'
  <2>1. connectionState \in {"Authenticating", "Connected"}
    BY DEF ConnectionInv, RequestsNeedConnection, connected
  <2>2. realtime = "CONNECTED"
    BY <2>1 DEF ConnectionInv, ConnectionStatesAgree, TypeOK, ConnTypeOK
  <2> QED
    BY <1>2, <1>4, <2>1, <2>2 DEF AuthSucceeded, tokenVars
<1> QED
  BY <1>1, <1>3, <1>4

\* Every step preserves the life cycle's invariant.
LEMMA NextConnection == ConnectionInv /\ TypeOK /\ [Next]_vars => ConnectionInv'
<1> SUFFICES ASSUME ConnectionInv, TypeOK, [Next]_vars PROVE ConnectionInv'
  OBVIOUS
<1>0. forceAuthTokenRefresh \in BOOLEAN
  BY DEF TypeOK, TokenTypeOK
<1>1. CASE ApplicationCall
  <2>1. CASE Open \/ Resume
    BY <2>1, ResumeStep DEF Open, Resume, ResumeForReason, ReasonsWithout, requestVars
  <2>2. CASE Interrupt
    BY <2>2, InterruptStep DEF Interrupt
  <2> QED
    BY <1>1, <2>1, <2>2, CallStep DEF ApplicationCall
<1>2. CASE Disruption
  <2>1. CASE ConnectionLost \/ CloseIfNeverConnected \/ ServerReset
    BY <1>0, <2>1, ClosingStep DEF ConnectionLost, CloseIfNeverConnected, ServerReset
  <2>2. CASE ServerShutdown
    BY <2>2, InterruptStep DEF ServerShutdown
  <2>3. CASE AuthRevoked
    BY <2>3, ClosingStep DEF AuthRevoked, TokenRejected
  <2>4. CASE WakeUp
    BY <2>4, ResumeStep DEF WakeUp, requestVars
  <2> QED
    BY <1>2, <2>1, <2>2, <2>3, <2>4, FetchFailedStep, CallStep
    DEF Disruption, ReachabilityCallback, EnteringForeground
<1>3. CASE RetryTaskRuns \/ TokenAnswered \/ WebSocketDidOpen \/ ServerHello \/ OnConnect
  BY <1>3, RetryStep, FetchedStep, ReadyStep, CallStep DEF TokenAnswered
<1>4. CASE Answer
  <2> USE DEF tokenVars
  <2>1. PICK rn \in DOMAIN requestCBHash :
          \/ AuthSucceeded(rn) \/ AuthFailed(rn) \/ PutAnswered(rn)
          \/ \E ok \in BOOLEAN : ListenAnswered(rn, ok)
          \/ OnDisconnectAnswered(rn) \/ StatsAnswered(rn)
    BY <1>4 DEF Answer
  <2>2. CASE AuthFailed(rn)
    BY <2>2, ClosingStep DEF AuthFailed, TokenRejected
  <2>3. CASE PutAnswered(rn)
    BY <2>3, RequestStep DEF PutAnswered
  <2>4. CASE \E ok \in BOOLEAN : ListenAnswered(rn, ok)
    BY <2>4, RequestStep DEF ListenAnswered
  <2>5. CASE OnDisconnectAnswered(rn) \/ StatsAnswered(rn)
    BY <2>5, RequestStep DEF OnDisconnectAnswered, StatsAnswered
  <2> QED
    BY <2>1, <2>2, <2>3, <2>4, <2>5, ReadyStep
<1>5. CASE UNCHANGED vars
  BY <1>5, RequestStep DEF vars, tokenVars, requestVars
<1> QED
  BY <1>1, <1>2, <1>3, <1>4, <1>5 DEF Next, Progress

\* In every reachable state the client's and the connection's states agree, the
\* assertions of tryScheduleReconnect and its blocks hold, and an interrupted
\* client holds no connection and no scheduled retry.
THEOREM ConnectionSafe == Spec => []ConnectionSound
<1>1. Init => ConnectionInv
  BY InitConnection
<1>2. ConnectionInv /\ TypeOK /\ [Next]_vars => ConnectionInv'
  BY NextConnection
<1>3. ConnectionInv => ConnectionSound
  BY DEF ConnectionInv, ConnectionSound
<1> QED
  BY <1>1, <1>2, <1>3, TypeCorrect, PTL DEF Spec

\* The inductive invariant itself, for the theorems below.
LEMMA ConnectionInvariant == Spec => []ConnectionInv
<1>1. Init => ConnectionInv
  BY InitConnection
<1>2. ConnectionInv /\ TypeOK /\ [Next]_vars => ConnectionInv'
  BY NextConnection
<1> QED
  BY <1>1, <1>2, TypeCorrect, PTL DEF Spec

\* A client that is not interrupted always has a connection, a scheduled retry or
\* a token fetch whose answer it will use: no interleaving of timers, wake-ups,
\* token callbacks and disconnects leaves it down for good.
THEOREM NotStranded == Spec => []NeverStranded
<1>1. ConnectionInv /\ TypeOK => NeverStranded
  BY DEF ConnectionInv, ConnectionStatesAgree, OnItsWay, NeverStranded, TypeOK, ConnTypeOK,
         ConnectionStates
<1> QED
  BY <1>1, ConnectionInvariant, TypeCorrect, PTL

\* No step sends a request on a connection that is not ready, where FConnection's
\* sendRequest would throw.
THEOREM SendsWhenReady == Spec => SendsOnlyWhenReady
<1> DEFINE Sends == requestNumber' # requestNumber => realtime' = "CONNECTED"
<1>1. ConnectionInv /\ TypeOK /\ TypeOK' /\ ConnectionInv' /\ [Next]_vars => [Sends]_vars
  <2> SUFFICES ASSUME ConnectionInv, TypeOK, Next, requestNumber' # requestNumber
               PROVE  realtime' = "CONNECTED"
    OBVIOUS
  <2> USE DEF requestVars, connVars
  <2>0. connected => realtime = "CONNECTED"
    BY DEF connected, ConnectionInv, ConnectionStatesAgree, TypeOK, ConnTypeOK
  <2>1. CASE ApplicationCall
    <3>1. ASSUME NEW query \in Queries, Listen(query) \/ Unlisten(query) PROVE realtime' = "CONNECTED"
      BY <2>0, <3>1 DEF Listen, Unlisten
    <3>2. ASSUME NEW hash \in BOOLEAN, PutInternal(hash) PROVE realtime' = "CONNECTED"
      BY <2>0, <3>2 DEF PutInternal, canSendWrites, connected
    <3>3. CASE OnDisconnectOperation \/ PurgeOutstandingWrites
      BY <2>0, <3>3 DEF OnDisconnectOperation, PurgeOutstandingWrites, canSendWrites, connected
    <3>4. ASSUME NEW token \in {"nil", "good"}, RefreshAuthToken(token)
          PROVE  realtime' = "CONNECTED"
      BY <2>0, <3>4 DEF RefreshAuthToken
    <3>5. CASE Open \/ Resume \/ Interrupt
      BY <3>5 DEF Open, Resume, Interrupt, ResumeForReason, InterruptForReason, TearDown
    <3> QED
      BY <2>1, <3>1, <3>2, <3>3, <3>4, <3>5 DEF ApplicationCall
  <2>2. CASE Disruption
    BY <2>2 DEF Disruption, TokenFetchFailed, ConnectionLost, CloseIfNeverConnected,
       ServerReset, ServerShutdown, InterruptForReason, TearDown, AuthRevoked, TokenRejected,
       ReachabilityCallback, EnteringForeground, WakeUp, ListenRevoked
  <2>3. CASE Progress
    <3>1. CASE RetryTaskRuns \/ TokenAnswered \/ WebSocketDidOpen \/ ServerHello \/ OnConnect
      BY <3>1 DEF RetryTaskRuns, TokenAnswered, TokenFetched, WebSocketDidOpen, ServerHello,
                  OnConnect
    <3>2. CASE Answer
      BY <2>0, <3>2 DEF Answer, AuthSucceeded, AuthFailed, TokenRejected, TearDown, PutAnswered,
         ListenAnswered, OnDisconnectAnswered, StatsAnswered, ConnectionInv,
         RequestsNeedConnection
    <3> QED
      BY <2>3, <3>1, <3>2 DEF Progress
  <2> QED
    BY <2>1, <2>2, <2>3 DEF Next
<1> QED
  BY <1>1, ConnectionInvariant, TypeCorrect, PTL DEF Spec, SendsOnlyWhenReady

\* After the server killed the client, no call of the application, timer or
\* callback brings it back.
THEOREM KillFinal == Spec => KillIsFinal
<1> DEFINE Stays == "server_kill" \in interruptReasons =>
                      "server_kill" \in interruptReasons' /\ connectionState' = "Disconnected"
<1>1. ConnectionInv' /\ [Next]_vars => [Stays]_vars
  <2> SUFFICES ASSUME ConnectionInv', Next, "server_kill" \in interruptReasons
               PROVE  "server_kill" \in interruptReasons'
    BY DEF ConnectionInv, InterruptedStaysDown
  <2> USE DEF connVars
  <2>1. CASE ApplicationCall
    BY <2>1 DEF ApplicationCall, Open, Interrupt, Resume, InterruptForReason, ResumeForReason,
       ReasonsWithout, Listen, Unlisten, PutInternal, OnDisconnectOperation,
       PurgeOutstandingWrites, RefreshAuthToken
  <2>2. CASE Disruption
    BY <2>2 DEF Disruption, TokenFetchFailed, ConnectionLost, CloseIfNeverConnected,
       ServerReset, ServerShutdown, InterruptForReason, AuthRevoked, TokenRejected,
       ReachabilityCallback, EnteringForeground, WakeUp, ListenRevoked
  <2>3. CASE Progress
    BY <2>3 DEF Progress, RetryTaskRuns, TokenAnswered, TokenFetched, WebSocketDidOpen,
       ServerHello, OnConnect, Answer, AuthSucceeded, AuthFailed, TokenRejected, PutAnswered,
       ListenAnswered, OnDisconnectAnswered, StatsAnswered
  <2> QED
    BY <2>1, <2>2, <2>3 DEF Next
<1> QED
  BY <1>1, ConnectionInvariant, PTL DEF Spec, KillIsFinal

-----------------------------------------------------------------------------
(***************************************************************************)
(* The requests of the connection, proved for every value of the           *)
(* constants: listens, writes and on-disconnect operations survive every   *)
(* interleaving of calls, answers in any order, disconnects and            *)
(* reconnects, because the state is restored exactly once per connection.  *)
(***************************************************************************)

-----------------------------------------------------------------------------
(* What a step may do to the tables of requests. *)

\* The step leaves listens, writes, operations and requests alone; if it changes
\* the state of the connection, the connection is not ready before or after.
Quiet ==
  /\ UNCHANGED <<listenVars, putVars, onDisconnectVars, requestCBHash, unackedListensCount>>
  /\ UNCHANGED connectionState \/ (~connected /\ ~connected')

\* The server said hello to a client that has a token: only auth is sent.
Greeted ==
  /\ connectionState = "Connecting" /\ connectionState' = "Authenticating"
  /\ \E stats \in {<<Callback("stats", 0)>>, <<>>} :
       SendActions(requestCBHash, Append(stats, Callback("authRestore", 0)))
  /\ UNCHANGED <<listenVars, putVars, onDisconnectVars, unackedListensCount>>

\* A new token is sent on a ready connection.
Reauthenticated ==
  /\ connected /\ UNCHANGED connectionState
  /\ SendActions(requestCBHash, <<Callback("auth", 0)>>)
  /\ UNCHANGED <<listenVars, putVars, onDisconnectVars, unackedListensCount>>

\* The answer to the auth of a new token arrived.
Authenticated(rn) ==
  /\ AuthAnswer(rn) /\ requestCBHash[rn].kind = "auth"
  /\ connectionState' = "Connected" /\ requestCBHash' = Answered(rn)
  /\ UNCHANGED <<listenVars, putVars, onDisconnectVars, unackedListensCount>>

\* The tables restoreState starts from: those of a connection that just became
\* ready without a token, or of one whose first auth was answered.
RestoreBase(hash, sent) ==
  \/ /\ connectionState = "Connecting" /\ hash = requestCBHash
     /\ sent \in {<<Callback("stats", 0)>>, <<>>}
  \/ /\ sent = <<>>
     /\ \E rn \in Pending("authRestore") : AuthAnswer(rn) /\ hash = Answered(rn)

Restored ==
  /\ connectionState' = "Connected"
  /\ \E hash, sent : RestoreBase(hash, sent) /\ RestoreState(hash, sent)

\* The call or the answer works on one of the tables, on an unchanged connection.
TableStep ==
  /\ UNCHANGED connectionState
  /\ \/ \E query \in Queries : Listen(query) \/ Unlisten(query)
     \/ \E hash \in BOOLEAN : PutInternal(hash)
     \/ OnDisconnectOperation
     \/ PurgeOutstandingWrites
     \/ \E query \in Queries : ListenRevoked(query[1])
     \/ \E rn \in DOMAIN requestCBHash :
          \/ PutAnswered(rn)
          \/ \E ok \in BOOLEAN : ListenAnswered(rn, ok)
          \/ OnDisconnectAnswered(rn)
          \/ StatsAnswered(rn)

\* Every step of the specification is of one of these kinds.
LEMMA StepKinds ==
  ASSUME TypeOK, ConnectionInv, [Next]_vars
  PROVE  \/ Quiet \/ TearDown \/ Greeted \/ Reauthenticated
         \/ \E rn \in DOMAIN requestCBHash : Authenticated(rn)
         \/ Restored \/ TableStep
<1> USE DEF connVars, requestVars
<1>1. CASE Open \/ Resume
  BY <1>1 DEF Open, Resume, ResumeForReason, Quiet
<1>2. CASE Interrupt \/ ServerShutdown
  <2>1. PICK reason : InterruptForReason(reason)
    BY <1>2 DEF Interrupt, ServerShutdown
  <2>2. CASE realtime # "none"
    BY <2>1, <2>2 DEF InterruptForReason
  <2>3. CASE realtime = "none"
    <3>1. ~connected
      BY <2>3 DEF ConnectionInv, ConnectionStatesAgree, connected
    <3> QED
      BY <2>1, <2>3, <3>1 DEF InterruptForReason, Quiet, connected
  <2> QED
    BY <2>2, <2>3
<1>3. CASE TableStep
  BY <1>3
<1>4. ASSUME NEW token \in {"nil", "good"}, RefreshAuthToken(token)
      PROVE  Quiet \/ Reauthenticated
  BY <1>4 DEF RefreshAuthToken, SendWithoutCallback, Quiet, Reauthenticated
<1>5. CASE \/ ConnectionLost \/ CloseIfNeverConnected \/ ServerReset \/ AuthRevoked
           \/ \E rn \in DOMAIN requestCBHash : AuthFailed(rn)
  BY <1>5 DEF ConnectionLost, CloseIfNeverConnected, ServerReset, AuthRevoked, AuthFailed,
              TokenRejected
<1>6. CASE WakeUp
  BY <1>6 DEF WakeUp, Quiet
<1>7. ASSUME NEW fetch \in tokenFetches, TokenFetchFailed(fetch) PROVE Quiet
  <2>1. CASE IsLatest(fetch)
    <3>1. ~connected
      BY <2>1 DEF IsLatest, ConnectionInv, ReconnectAssertions, connected
    <3> QED
      BY <1>7, <2>1, <3>1 DEF TokenFetchFailed, Quiet, connected
  <2>2. CASE ~IsLatest(fetch)
    BY <1>7, <2>2 DEF TokenFetchFailed, Quiet
  <2> QED
    BY <2>1, <2>2
<1>8. CASE RetryTaskRuns
  <2>1. connectionState = "Disconnected"
    BY <1>8 DEF RetryTaskRuns, ConnectionInv, ReconnectAssertions
  <2> QED
    BY <1>8, <2>1 DEF RetryTaskRuns, Quiet, connected
<1>9. CASE TokenAnswered
  BY <1>9 DEF TokenAnswered, TokenFetched, Quiet, connected
<1>10. CASE WebSocketDidOpen \/ OnConnect
  BY <1>10 DEF WebSocketDidOpen, OnConnect, Quiet
<1>11. CASE ServerHello
  <2>1. connectionState = "Connecting"
    BY <1>11 DEF ServerHello, ConnectionInv, ConnectionStatesAgree
  <2> DEFINE stats == IF firstConnection THEN <<Callback("stats", 0)>> ELSE <<>>
  <2>2. stats \in {<<Callback("stats", 0)>>, <<>>}
    OBVIOUS
  <2> HIDE DEF stats
  <2>3. CASE authToken = "nil"
    <3>1. connectionState' = "Connected" /\ RestoreState(requestCBHash, stats)
      BY <1>11, <2>3 DEF ServerHello, stats
    <3>2. RestoreBase(requestCBHash, stats)
      BY <2>1, <2>2 DEF RestoreBase
    <3> QED
      BY <3>1, <3>2 DEF Restored
  <2>4. CASE authToken # "nil"
    <3>1. /\ connectionState' = "Authenticating"
          /\ SendActions(requestCBHash, Append(stats, Callback("authRestore", 0)))
          /\ UNCHANGED <<listenVars, putVars, onDisconnectVars, unackedListensCount>>
      BY <1>11, <2>4 DEF ServerHello, stats
    <3> QED
      BY <2>1, <2>2, <3>1 DEF Greeted
  <2> QED
    BY <2>3, <2>4
<1>12. ASSUME NEW rn \in DOMAIN requestCBHash, AuthSucceeded(rn)
       PROVE  Authenticated(rn) \/ Restored
  <2>1. CASE requestCBHash[rn].kind = "authRestore"
    <3>1. RestoreBase(Answered(rn), <<>>)
      BY <1>12, <2>1 DEF AuthSucceeded, RestoreBase, Pending
    <3> QED
      BY <1>12, <2>1, <3>1 DEF AuthSucceeded, Restored
  <2>2. CASE requestCBHash[rn].kind # "authRestore"
    BY <1>12, <2>2 DEF AuthSucceeded, AuthAnswer, IsAuth, Authenticated
  <2> QED
    BY <2>1, <2>2
<1>13. CASE ApplicationCall
  <2>1. ASSUME \/ \E query \in Queries : Listen(query) \/ Unlisten(query)
               \/ \E hash \in BOOLEAN : PutInternal(hash)
               \/ OnDisconnectOperation \/ PurgeOutstandingWrites
        PROVE  TableStep
    BY <2>1 DEF TableStep, Listen, Unlisten, PutInternal, OnDisconnectOperation,
                PurgeOutstandingWrites
  <2> QED
    BY <1>1, <1>2, <1>4, <1>13, <2>1 DEF ApplicationCall
<1>14. CASE Disruption
  <2>1. ASSUME NEW query \in Queries, ListenRevoked(query[1]) PROVE TableStep
    BY <2>1 DEF TableStep, ListenRevoked
  <2> QED
    BY <1>2, <1>5, <1>6, <1>7, <1>14, <2>1
    DEF Disruption, ReachabilityCallback, EnteringForeground
<1>15. CASE Answer
  <2>1. ASSUME NEW rn \in DOMAIN requestCBHash,
               \/ PutAnswered(rn) \/ \E ok \in BOOLEAN : ListenAnswered(rn, ok)
               \/ OnDisconnectAnswered(rn) \/ StatsAnswered(rn)
        PROVE  TableStep
    BY <2>1 DEF TableStep, PutAnswered, ListenAnswered, OnDisconnectAnswered, StatsAnswered
  <2> QED
    BY <1>5, <1>12, <1>15, <2>1 DEF Answer
<1>16. CASE UNCHANGED vars
  BY <1>16 DEF vars, Quiet
<1> QED
  BY <1>8, <1>9, <1>10, <1>11, <1>13, <1>14, <1>15, <1>16 DEF Next, Progress

-----------------------------------------------------------------------------
(* What becomes of the callbacks. *)

\* An answered callback is gone, the others stay.
LEMMA AnsweredRequests ==
  ASSUME NEW rn \in DOMAIN requestCBHash, requestCBHash' = Answered(rn)
  PROVE  /\ DOMAIN requestCBHash' = DOMAIN requestCBHash \ {rn}
         /\ \A other \in DOMAIN requestCBHash' : requestCBHash'[other] = requestCBHash[other]
         /\ \A kind : Pending(kind)' = Pending(kind) \ {rn}
<1>1. /\ DOMAIN requestCBHash' = DOMAIN requestCBHash \ {rn}
      /\ \A other \in DOMAIN requestCBHash' : requestCBHash'[other] = requestCBHash[other]
  BY DEF Answered
<1> QED
  BY <1>1 DEF Pending

\* A single request gets a number that is not in use, above all others.
LEMMA SentRequest ==
  ASSUME RequestTypeOK, NEW cb, SendActions(requestCBHash, <<cb>>)
  PROVE  /\ requestNumber + 1 \notin DOMAIN requestCBHash
         /\ \A rn \in DOMAIN requestCBHash : rn < requestNumber + 1
         /\ DOMAIN requestCBHash' = DOMAIN requestCBHash \cup {requestNumber + 1}
         /\ \A rn \in DOMAIN requestCBHash : requestCBHash'[rn] = requestCBHash[rn]
         /\ requestCBHash'[requestNumber + 1] = cb
         /\ \A kind : Pending(kind)' =
              Pending(kind) \cup (IF cb.kind = kind THEN {requestNumber + 1} ELSE {})
<1>1. requestNumber \in Nat /\ DOMAIN requestCBHash \subseteq 1..requestNumber
  BY DEF RequestTypeOK
<1>2. Len(<<cb>>) = 1 /\ (requestNumber + 1)..(requestNumber + 1) = {requestNumber + 1}
  BY <1>1
<1>3. requestNumber + 1 \notin DOMAIN requestCBHash /\ \A rn \in DOMAIN requestCBHash : rn < requestNumber + 1
  BY <1>1
<1>4. requestCBHash' = [rn \in DOMAIN requestCBHash \cup {requestNumber + 1} |->
                          IF rn \in DOMAIN requestCBHash THEN requestCBHash[rn]
                          ELSE <<cb>>[rn - requestNumber]]
  BY <1>2 DEF SendActions
<1>5. requestCBHash'[requestNumber + 1] = cb
  BY <1>1, <1>3, <1>4
<1>6. DOMAIN requestCBHash' = DOMAIN requestCBHash \cup {requestNumber + 1}
  BY <1>4
<1>7. \A rn \in DOMAIN requestCBHash : requestCBHash'[rn] = requestCBHash[rn]
  BY <1>4
<1>8. ASSUME NEW kind
      PROVE  Pending(kind)' = Pending(kind) \cup (IF cb.kind = kind THEN {requestNumber + 1} ELSE {})
  BY <1>5, <1>6, <1>7 DEF Pending
<1> QED
  BY <1>3, <1>5, <1>6, <1>7, <1>8

\* Four batches of callbacks, one after the other.
LEMMA FourBatches ==
  ASSUME NEW S, NEW a \in Seq(S), NEW b \in Seq(S), NEW c \in Seq(S), NEW d \in Seq(S),
         NEW s, s = a \o b \o c \o d
  PROVE  /\ Len(s) = Len(a) + Len(b) + Len(c) + Len(d)
         /\ \A i \in 1..Len(a) : s[i] = a[i]
         /\ \A i \in 1..Len(b) : s[Len(a) + i] = b[i]
         /\ \A i \in 1..Len(c) : s[Len(a) + Len(b) + i] = c[i]
         /\ \A i \in 1..Len(d) : s[Len(a) + Len(b) + Len(c) + i] = d[i]
<1>1. \A x, y \in Seq(S) : /\ x \o y \in Seq(S) /\ Len(x \o y) = Len(x) + Len(y)
                           /\ \A i \in 1..Len(x) : (x \o y)[i] = x[i]
                           /\ \A i \in 1..Len(y) : (x \o y)[Len(x) + i] = y[i]
  OBVIOUS
<1>2. Len(a) \in Nat /\ Len(b) \in Nat /\ Len(c) \in Nat /\ Len(d) \in Nat
  OBVIOUS
<1> DEFINE ab == a \o b
           abc == ab \o c
<1>3. /\ ab \in Seq(S) /\ Len(ab) = Len(a) + Len(b)
      /\ \A i \in 1..Len(a) : ab[i] = a[i]
      /\ \A i \in 1..Len(b) : ab[Len(a) + i] = b[i]
  BY <1>1
<1> HIDE DEF ab
<1>4. /\ abc \in Seq(S) /\ Len(abc) = Len(ab) + Len(c)
      /\ \A i \in 1..Len(ab) : abc[i] = ab[i]
      /\ \A i \in 1..Len(c) : abc[Len(ab) + i] = c[i]
  BY <1>1, <1>3
<1> HIDE DEF abc
<1>5. /\ Len(abc \o d) = Len(abc) + Len(d)
      /\ \A i \in 1..Len(abc) : (abc \o d)[i] = abc[i]
      /\ \A i \in 1..Len(d) : (abc \o d)[Len(abc) + i] = d[i]
  BY <1>1, <1>4
<1>6. /\ \A i \in 1..Len(a) : i \in 1..Len(ab) /\ i \in 1..Len(abc)
      /\ \A i \in 1..Len(b) : Len(a) + i \in 1..Len(ab) /\ Len(a) + i \in 1..Len(abc)
      /\ \A i \in 1..Len(c) : Len(ab) + i \in 1..Len(abc)
  BY <1>2, <1>3, <1>4
<1>7. s = abc \o d
  BY DEF abc, ab
<1> QED
  BY <1>2, <1>3, <1>4, <1>5, <1>6, <1>7

\* The requests restoreState sends are the next numbers, in the order: what the
\* handler had sent, the listens, the writes, the on-disconnect operations.
RestoredWith(hash, sent, ls, ps) ==
  LET n == requestNumber + Len(sent)
      l == Len(ls)
      p == Len(ps)
      d == Len(onDisconnectQueue)
  IN  /\ DOMAIN requestCBHash' = DOMAIN hash \cup (requestNumber + 1)..(n + l + p + d)
      /\ \A rn \in DOMAIN hash : requestCBHash'[rn] = hash[rn]
      /\ \A rn \in (requestNumber + 1)..n : requestCBHash'[rn].kind = "stats"
      /\ \A i \in 1..l : requestCBHash'[n + i] = Callback("listen", ls[i])
      /\ \A i \in 1..p : requestCBHash'[n + l + i] = Callback("put", ps[i])
      /\ \A i \in 1..d : requestCBHash'[n + l + p + i] = Callback("onDisconnect", onDisconnectQueue[i])
      /\ unackedListensCount' = unackedListensCount + l
      /\ serverListens' = serverListens \cup CurrentListens
      /\ outstandingPuts' = [index \in DOMAIN outstandingPuts |->
                               [outstandingPuts[index] EXCEPT !.sent = TRUE]]
      /\ sentPuts' = sentPuts \o ps
      /\ onDisconnectQueue' = <<>>
      /\ UNCHANGED <<listens, listenCounter, putCounter, putsToAck, completions,
                     onDisconnectCounter, onDisconnectDone>>

\* The tables before a restore hold what they held, except the answered auth.
LEMMA BaseRequests ==
  ASSUME TypeOK, ConnectionInv, NEW hash, NEW sent, RestoreBase(hash, sent)
  PROVE  /\ sent \in Seq(CallbackType) /\ Len(sent) \in Nat
         /\ \A i \in 1..Len(sent) : sent[i].kind = "stats"
         /\ DOMAIN hash \subseteq DOMAIN requestCBHash
         /\ \A rn \in DOMAIN hash : hash[rn] = requestCBHash[rn]
         /\ \A rn \in DOMAIN requestCBHash \ DOMAIN hash : rn \in Pending("authRestore")
         /\ connectionState = "Connecting" => DOMAIN requestCBHash = {}
<1>1. sent \in {<<Callback("stats", 0)>>, <<>>}
  BY DEF RestoreBase
<1>2. /\ sent \in Seq(CallbackType) /\ Len(sent) \in Nat
      /\ \A i \in 1..Len(sent) : sent[i].kind = "stats"
  <2>1. Callback("stats", 0) \in CallbackType /\ Callback("stats", 0).kind = "stats"
    BY DEF Callback, CallbackType, CallbackKinds
  <2>2. \A cb \in CallbackType : /\ <<cb>> \in Seq(CallbackType) /\ Len(<<cb>>) = 1
                                 /\ \A i \in 1..1 : <<cb>>[i] = cb
    OBVIOUS
  <2>3. <<>> \in Seq(CallbackType) /\ Len(<<>>) = 0
    OBVIOUS
  <2>4. CASE sent = <<Callback("stats", 0)>>
    BY <2>1, <2>2, <2>4
  <2>5. CASE sent = <<>>
    BY <2>3, <2>5
  <2> QED
    BY <1>1, <2>4, <2>5
<1>3. connectionState = "Connecting" => DOMAIN requestCBHash = {}
  BY DEF ConnectionInv, RequestsNeedConnection, connected
<1>4. CASE connectionState = "Connecting" /\ hash = requestCBHash
  BY <1>2, <1>3, <1>4
<1>5. CASE \E rn \in Pending("authRestore") : hash = Answered(rn)
  BY <1>2, <1>3, <1>5 DEF Answered
<1> QED
  BY <1>4, <1>5 DEF RestoreBase

\* restoreState sends each listen, each write and each queued operation once.
LEMMA RestoredRequests ==
  ASSUME TypeOK, ConnectionInv, NEW hash, NEW sent, RestoreBase(hash, sent),
         RestoreState(hash, sent)
  PROVE  \E ls \in Enumerations(CurrentListens), ps \in Ascending(DOMAIN outstandingPuts) :
           RestoredWith(hash, sent, ls, ps)
<1> USE DEF TypeOK
<1>1. PICK ls \in Enumerations(CurrentListens), ps \in Ascending(DOMAIN outstandingPuts) :
        /\ SendActions(hash, sent \o Callbacks("listen", ls) \o Callbacks("put", ps)
                                  \o Callbacks("onDisconnect", onDisconnectQueue))
        /\ unackedListensCount' = unackedListensCount + Len(ls)
        /\ serverListens' = serverListens \cup CurrentListens
        /\ outstandingPuts' = [index \in DOMAIN outstandingPuts |->
                                 [outstandingPuts[index] EXCEPT !.sent = TRUE]]
        /\ sentPuts' = sentPuts \o ps
        /\ onDisconnectQueue' = <<>>
        /\ UNCHANGED <<listens, listenCounter, putCounter, putsToAck, completions,
                       onDisconnectCounter, onDisconnectDone>>
  BY DEF RestoreState, OnDisconnectsLeft, PutsToRestore
<1> DEFINE L == Callbacks("listen", ls)
           P == Callbacks("put", ps)
           D == Callbacks("onDisconnect", onDisconnectQueue)
           batch == sent \o L \o P \o D
<1>2. /\ ls \in Seq(1..MaxListens) /\ ps \in Seq(PutIndices)
      /\ onDisconnectQueue \in Seq(1..MaxOnDisconnects)
  <2>1. ls \in Seq(CurrentListens) /\ ps \in Seq(DOMAIN outstandingPuts)
    BY Finiteness, EnumerationType
  <2>2. CurrentListens \subseteq 1..MaxListens /\ DOMAIN outstandingPuts \subseteq PutIndices
    BY Finiteness DEF PutTypeOK
  <2>3. \A S, T : S \subseteq T => Seq(S) \subseteq Seq(T)
    OBVIOUS
  <2> QED
    BY <2>1, <2>2, <2>3 DEF OnDisconnectTypeOK
<1>3. L \in Seq(CallbackType) /\ P \in Seq(CallbackType) /\ D \in Seq(CallbackType)
  BY <1>2, CallbacksType DEF CallbacksOK
<1>4. Len(ls) \in Nat /\ Len(ps) \in Nat /\ Len(onDisconnectQueue) \in Nat
  BY <1>2
<1>5. /\ Len(L) = Len(ls) /\ \A i \in 1..Len(ls) : L[i] = Callback("listen", ls[i])
      /\ Len(P) = Len(ps) /\ \A i \in 1..Len(ps) : P[i] = Callback("put", ps[i])
      /\ Len(D) = Len(onDisconnectQueue)
      /\ \A i \in 1..Len(onDisconnectQueue) : D[i] = Callback("onDisconnect", onDisconnectQueue[i])
  BY <1>4 DEF Callbacks
<1>6. sent \in Seq(CallbackType) /\ Len(sent) \in Nat /\ \A i \in 1..Len(sent) : sent[i].kind = "stats"
  BY BaseRequests
<1> DEFINE n == Len(sent)
           l == Len(ls)
           p == Len(ps)
           d == Len(onDisconnectQueue)
<1> HIDE DEF L, P, D
<1>7. /\ Len(batch) = n + l + p + d
      /\ \A i \in 1..n : batch[i] = sent[i]
      /\ \A i \in 1..l : batch[n + i] = L[i]
      /\ \A i \in 1..p : batch[n + l + i] = P[i]
      /\ \A i \in 1..d : batch[n + l + p + i] = D[i]
  <2>1. /\ Len(batch) = Len(sent) + Len(L) + Len(P) + Len(D)
        /\ \A i \in 1..Len(sent) : batch[i] = sent[i]
        /\ \A i \in 1..Len(L) : batch[Len(sent) + i] = L[i]
        /\ \A i \in 1..Len(P) : batch[Len(sent) + Len(L) + i] = P[i]
        /\ \A i \in 1..Len(D) : batch[Len(sent) + Len(L) + Len(P) + i] = D[i]
    <3>1. batch = sent \o L \o P \o D
      OBVIOUS
    <3> HIDE DEF batch
    <3> QED
      BY <3>1, <1>3, <1>6, FourBatches, SMT
  <2> QED
    BY <1>5, <2>1
<1>8. SendActions(hash, batch)
  BY <1>1 DEF L, P, D
<1> HIDE DEF batch
<1>9. requestNumber \in Nat /\ \A rn \in DOMAIN hash : rn \in 1..requestNumber
  BY BaseRequests DEF RequestTypeOK
<1>10. /\ DOMAIN requestCBHash' = DOMAIN hash \cup (requestNumber + 1)..(requestNumber + (n + l + p + d))
       /\ \A rn \in DOMAIN hash : requestCBHash'[rn] = hash[rn]
       /\ \A i \in 1..(n + l + p + d) : requestCBHash'[requestNumber + i] = batch[i]
  <2>1. requestCBHash' =
          [rn \in DOMAIN hash \cup (requestNumber + 1)..(requestNumber + (n + l + p + d)) |->
             IF rn \in DOMAIN hash THEN hash[rn] ELSE batch[rn - requestNumber]]
    BY <1>7, <1>8 DEF SendActions
  <2>2. ASSUME NEW i \in 1..(n + l + p + d) PROVE requestCBHash'[requestNumber + i] = batch[i]
    <3>1. /\ requestNumber + i \in (requestNumber + 1)..(requestNumber + (n + l + p + d))
          /\ requestNumber + i \notin DOMAIN hash /\ (requestNumber + i) - requestNumber = i
      BY <1>4, <1>6, <1>9
    <3> QED
      BY <2>1, <3>1
  <2> QED
    BY <2>1, <2>2
<1> HIDE DEF n, l, p, d
<1>11. n \in Nat /\ l \in Nat /\ p \in Nat /\ d \in Nat
  BY <1>4, <1>6 DEF n, l, p, d
<1>12. /\ \A rn \in (requestNumber + 1)..(requestNumber + n) : requestCBHash'[rn].kind = "stats"
       /\ \A i \in 1..l : requestCBHash'[requestNumber + n + i] = Callback("listen", ls[i])
       /\ \A i \in 1..p : requestCBHash'[requestNumber + n + l + i] = Callback("put", ps[i])
       /\ \A i \in 1..d : requestCBHash'[requestNumber + n + l + p + i]
                              = Callback("onDisconnect", onDisconnectQueue[i])
  <2>1. ASSUME NEW rn \in (requestNumber + 1)..(requestNumber + n)
        PROVE  requestCBHash'[rn].kind = "stats"
    <3>1. /\ rn - requestNumber \in 1..n /\ rn - requestNumber \in 1..(n + l + p + d)
          /\ rn = requestNumber + (rn - requestNumber)
      BY <1>9, <1>11
    <3> QED
      BY <3>1, <1>6, <1>7, <1>10 DEF n
  <2>2. ASSUME NEW i \in 1..l
        PROVE  requestCBHash'[requestNumber + n + i] = Callback("listen", ls[i])
    <3>1. n + i \in 1..(n + l + p + d) /\ requestNumber + n + i = requestNumber + (n + i)
      BY <1>9, <1>11
    <3> QED
      BY <3>1, <1>5, <1>7, <1>10 DEF l
  <2>3. ASSUME NEW i \in 1..p
        PROVE  requestCBHash'[requestNumber + n + l + i] = Callback("put", ps[i])
    <3>1. /\ n + l + i \in 1..(n + l + p + d)
          /\ requestNumber + n + l + i = requestNumber + (n + l + i)
      BY <1>9, <1>11
    <3> QED
      BY <3>1, <1>5, <1>7, <1>10 DEF p
  <2>4. ASSUME NEW i \in 1..d
        PROVE  requestCBHash'[requestNumber + n + l + p + i]
                 = Callback("onDisconnect", onDisconnectQueue[i])
    <3>1. /\ n + l + p + i \in 1..(n + l + p + d)
          /\ requestNumber + n + l + p + i = requestNumber + (n + l + p + i)
      BY <1>9, <1>11
    <3> QED
      BY <3>1, <1>5, <1>7, <1>10 DEF d
  <2> QED
    BY <2>1, <2>2, <2>3, <2>4
<1>13. requestNumber + (n + l + p + d) = requestNumber + n + l + p + d
  BY <1>9, <1>11
<1>14. RestoredWith(hash, sent, ls, ps)
  BY <1>1, <1>10, <1>12, <1>13 DEF RestoredWith, n, l, p, d
<1> QED
  BY <1>14

\* After a restore the callbacks of each kind are those from before, except the
\* answered auth, and the new ones of that kind.
LEMMA RestoredPending ==
  ASSUME TypeOK, ConnectionInv, NEW hash, NEW sent, RestoreBase(hash, sent),
         NEW ls \in Enumerations(CurrentListens), NEW ps \in Ascending(DOMAIN outstandingPuts),
         RestoredWith(hash, sent, ls, ps),
         NEW n, n = requestNumber + Len(sent), NEW l, l = Len(ls), NEW p, p = Len(ps),
         NEW d, d = Len(onDisconnectQueue)
  PROVE  /\ n \in Nat /\ l \in Nat /\ p \in Nat /\ d \in Nat /\ n >= requestNumber
         /\ \A rn \in DOMAIN requestCBHash : rn \in 1..requestNumber
         /\ Pending("listen")' = Pending("listen") \cup (n + 1)..(n + l)
         /\ Pending("put")' = Pending("put") \cup (n + l + 1)..(n + l + p)
         /\ Pending("onDisconnect")' =
              Pending("onDisconnect") \cup (n + l + p + 1)..(n + l + p + d)
         /\ Pending("auth")' = Pending("auth")
         /\ Pending("authRestore")' = Pending("authRestore") \cap DOMAIN hash
         /\ \A rn \in DOMAIN hash : requestCBHash'[rn] = requestCBHash[rn]
         /\ \A rn \in (n + l + 1)..(n + l + p) : requestCBHash'[rn].id = ps[rn - (n + l)]
         /\ \A rn \in (n + l + p + 1)..(n + l + p + d) :
              requestCBHash'[rn].id = onDisconnectQueue[rn - (n + l + p)]
<1>1. /\ requestNumber \in Nat /\ \A rn \in DOMAIN requestCBHash : rn \in 1..requestNumber
      /\ onDisconnectQueue \in Seq(1..MaxOnDisconnects)
  BY DEF TypeOK, RequestTypeOK, OnDisconnectTypeOK
<1>2. ls \in Seq(CurrentListens) /\ ps \in Seq(DOMAIN outstandingPuts)
  BY Finiteness, EnumerationType DEF TypeOK
<1>3. Len(sent) \in Nat /\ l \in Nat /\ p \in Nat /\ d \in Nat
  BY <1>1, <1>2, BaseRequests
<1>4. n \in Nat /\ n >= requestNumber
  BY <1>1, <1>3
<1>5. /\ DOMAIN hash \subseteq DOMAIN requestCBHash
      /\ \A rn \in DOMAIN hash : requestCBHash'[rn] = requestCBHash[rn]
      /\ \A rn \in DOMAIN requestCBHash \ DOMAIN hash : requestCBHash[rn].kind = "authRestore"
  BY BaseRequests DEF RestoredWith, Pending
<1>6. DOMAIN requestCBHash' = DOMAIN hash \cup (requestNumber + 1)..(n + l + p + d)
  BY DEF RestoredWith
<1>7. \A rn \in (requestNumber + 1)..n : requestCBHash'[rn].kind = "stats"
  BY DEF RestoredWith
<1>20. /\ \A i \in 1..l : requestCBHash'[n + i] = Callback("listen", ls[i])
       /\ \A i \in 1..p : requestCBHash'[n + l + i] = Callback("put", ps[i])
       /\ \A i \in 1..d : requestCBHash'[n + l + p + i]
                              = Callback("onDisconnect", onDisconnectQueue[i])
  BY DEF RestoredWith
<1>21. \A a, b \in Nat : \A rn \in (a + 1)..(a + b) : rn - a \in 1..b /\ a + (rn - a) = rn
  OBVIOUS
<1>22. n + l \in Nat /\ n + l + p \in Nat
  BY <1>3, <1>4
<1>8. ASSUME NEW rn \in (n + 1)..(n + l) PROVE requestCBHash'[rn].kind = "listen"
  <2>1. rn - n \in 1..l /\ n + (rn - n) = rn
    BY <1>3, <1>4, <1>21
  <2>2. requestCBHash'[n + (rn - n)] = Callback("listen", ls[rn - n])
    BY <1>20, <2>1
  <2>3. requestCBHash'[rn] = requestCBHash'[n + (rn - n)]
    BY <2>1
  <2> QED
    BY <2>2, <2>3 DEF Callback
<1>9. ASSUME NEW rn \in (n + l + 1)..(n + l + p)
      PROVE  requestCBHash'[rn].kind = "put" /\ requestCBHash'[rn].id = ps[rn - (n + l)]
  <2>1. rn - (n + l) \in 1..p /\ n + l + (rn - (n + l)) = rn
    BY <1>3, <1>21, <1>22
  <2>2. requestCBHash'[n + l + (rn - (n + l))] = Callback("put", ps[rn - (n + l)])
    BY <1>20, <2>1
  <2>3. requestCBHash'[rn] = requestCBHash'[n + l + (rn - (n + l))]
    BY <2>1
  <2> QED
    BY <2>2, <2>3 DEF Callback
<1>10. ASSUME NEW rn \in (n + l + p + 1)..(n + l + p + d)
       PROVE  /\ requestCBHash'[rn].kind = "onDisconnect"
              /\ requestCBHash'[rn].id = onDisconnectQueue[rn - (n + l + p)]
  <2>1. rn - (n + l + p) \in 1..d /\ n + l + p + (rn - (n + l + p)) = rn
    <3> DEFINE m == n + l + p
    <3>1. m \in Nat /\ rn \in (m + 1)..(m + d)
      BY <1>22
    <3> HIDE DEF m
    <3>2. rn - m \in 1..d /\ m + (rn - m) = rn
      BY <1>3, <1>21, <3>1
    <3> QED
      BY <3>2 DEF m
  <2>2. requestCBHash'[n + l + p + (rn - (n + l + p))]
          = Callback("onDisconnect", onDisconnectQueue[rn - (n + l + p)])
    BY <1>20, <2>1
  <2>3. requestCBHash'[rn] = requestCBHash'[n + l + p + (rn - (n + l + p))]
    BY <2>1
  <2> QED
    BY <2>2, <2>3 DEF Callback
<1>11. (requestNumber + 1)..(n + l + p + d) =
         (requestNumber + 1)..n \cup (n + 1)..(n + l) \cup (n + l + 1)..(n + l + p)
           \cup (n + l + p + 1)..(n + l + p + d)
  BY <1>1, <1>3, <1>4
<1>12. DOMAIN requestCBHash' =
         DOMAIN hash \cup (requestNumber + 1)..n \cup (n + 1)..(n + l)
           \cup (n + l + 1)..(n + l + p) \cup (n + l + p + 1)..(n + l + p + d)
  BY <1>6, <1>11
<1>13. ASSUME NEW kind, kind # "authRestore"
       PROVE  {rn \in DOMAIN hash : requestCBHash'[rn].kind = kind} = Pending(kind)
  BY <1>5, <1>13 DEF Pending
<1>14. /\ {rn \in DOMAIN hash : requestCBHash'[rn].kind = "listen"} = Pending("listen")
       /\ {rn \in DOMAIN hash : requestCBHash'[rn].kind = "put"} = Pending("put")
       /\ {rn \in DOMAIN hash : requestCBHash'[rn].kind = "onDisconnect"} = Pending("onDisconnect")
       /\ {rn \in DOMAIN hash : requestCBHash'[rn].kind = "auth"} = Pending("auth")
  BY <1>13
<1>15. Pending("listen")' = Pending("listen") \cup (n + 1)..(n + l)
  BY <1>7, <1>8, <1>9, <1>10, <1>12, <1>14 DEF Pending
<1>16. Pending("put")' = Pending("put") \cup (n + l + 1)..(n + l + p)
  BY <1>7, <1>8, <1>9, <1>10, <1>12, <1>14 DEF Pending
<1>17. Pending("onDisconnect")' = Pending("onDisconnect") \cup (n + l + p + 1)..(n + l + p + d)
  BY <1>7, <1>8, <1>9, <1>10, <1>12, <1>14 DEF Pending
<1>18. Pending("auth")' = Pending("auth")
  BY <1>7, <1>8, <1>9, <1>10, <1>12, <1>14 DEF Pending
<1>19. Pending("authRestore")' = Pending("authRestore") \cap DOMAIN hash
  BY <1>5, <1>7, <1>8, <1>9, <1>10, <1>12 DEF Pending
<1> QED
  BY <1>1, <1>3, <1>4, <1>5, <1>9, <1>10, <1>15, <1>16, <1>17, <1>18, <1>19

-----------------------------------------------------------------------------
(* The state is restored once per connection. *)

\* While the client authenticates, the auth request that restores the state is
\* under way and comes before every other; afterwards it is not.
RestoreComesFirst ==
  /\ \A rn \in Pending("authRestore") :
       /\ connectionState = "Authenticating"
       /\ \A other \in Pending("auth") \cup Pending("authRestore") : rn <= other
  /\ connectionState = "Authenticating" => Pending("authRestore") # {}

\* Calls and answers that work on the tables leave the auth requests alone.
LEMMA TableStepAuth ==
  ASSUME TypeOK, TableStep
  PROVE  Pending("auth")' = Pending("auth") /\ Pending("authRestore")' = Pending("authRestore")
<1> USE DEF requestVars
<1>0. RequestTypeOK
  BY DEF TypeOK
<1>1. ASSUME NEW cb, SendActions(requestCBHash, <<cb>>), cb.kind \notin {"auth", "authRestore"}
      PROVE  Pending("auth")' = Pending("auth") /\ Pending("authRestore")' = Pending("authRestore")
  BY <1>0, <1>1, SentRequest DEF Pending
<1>2. ASSUME NEW rn \in DOMAIN requestCBHash, requestCBHash' = Answered(rn),
             requestCBHash[rn].kind \notin {"auth", "authRestore"}
      PROVE  Pending("auth")' = Pending("auth") /\ Pending("authRestore")' = Pending("authRestore")
  <2>1. rn \notin Pending("auth") /\ rn \notin Pending("authRestore")
    BY <1>2 DEF Pending
  <2> QED
    BY <1>2, <2>1, AnsweredRequests DEF Pending
<1>3. ASSUME UNCHANGED requestCBHash
      PROVE  Pending("auth")' = Pending("auth") /\ Pending("authRestore")' = Pending("authRestore")
  BY <1>3 DEF Pending
<1>4. \A id : /\ Callback("listen", id).kind = "listen" /\ Callback("put", id).kind = "put"
              /\ Callback("onDisconnect", id).kind = "onDisconnect"
  BY DEF Callback
<1>5. ASSUME NEW query \in Queries, Listen(query)
      PROVE  Pending("auth")' = Pending("auth") /\ Pending("authRestore")' = Pending("authRestore")
  BY <1>1, <1>3, <1>4, <1>5 DEF Listen
<1>6. ASSUME NEW query \in Queries, Unlisten(query)
      PROVE  Pending("auth")' = Pending("auth") /\ Pending("authRestore")' = Pending("authRestore")
  BY <1>3, <1>6 DEF Unlisten, SendWithoutCallback
<1>7. ASSUME NEW hash \in BOOLEAN, PutInternal(hash)
      PROVE  Pending("auth")' = Pending("auth") /\ Pending("authRestore")' = Pending("authRestore")
  BY <1>1, <1>3, <1>4, <1>7 DEF PutInternal
<1>8. CASE OnDisconnectOperation
  BY <1>1, <1>3, <1>4, <1>8 DEF OnDisconnectOperation
<1>9. CASE PurgeOutstandingWrites \/ \E query \in Queries : ListenRevoked(query[1])
  BY <1>3, <1>9 DEF PurgeOutstandingWrites, ListenRevoked
<1>10. ASSUME NEW rn \in DOMAIN requestCBHash,
              \/ PutAnswered(rn) \/ \E ok \in BOOLEAN : ListenAnswered(rn, ok)
              \/ OnDisconnectAnswered(rn) \/ StatsAnswered(rn)
       PROVE  Pending("auth")' = Pending("auth") /\ Pending("authRestore")' = Pending("authRestore")
  BY <1>2, <1>10 DEF PutAnswered, ListenAnswered, OnDisconnectAnswered, StatsAnswered
<1> QED
  BY <1>5, <1>6, <1>7, <1>8, <1>9, <1>10 DEF TableStep

\* The requests of the handshake: the restoring auth is the only one.
LEMMA GreetedRequests ==
  ASSUME TypeOK, ConnectionInv, Greeted
  PROVE  \E rn : /\ Pending("authRestore")' = {rn} /\ rn \in Nat
                 /\ \A kind \in CallbackKinds \ {"authRestore", "stats"} : Pending(kind)' = {}
<1>1. DOMAIN requestCBHash = {} /\ requestNumber \in Nat
  BY DEF Greeted, ConnectionInv, RequestsNeedConnection, connected, TypeOK, RequestTypeOK
<1>2. PICK stats \in {<<Callback("stats", 0)>>, <<>>} :
        SendActions(requestCBHash, Append(stats, Callback("authRestore", 0)))
  BY DEF Greeted
<1> DEFINE cbs == Append(stats, Callback("authRestore", 0))
           last == requestNumber + Len(cbs)
<1>3. /\ Len(cbs) \in {1, 2} /\ cbs[Len(cbs)] = Callback("authRestore", 0)
      /\ \A i \in 1..Len(cbs) : i # Len(cbs) => cbs[i] = Callback("stats", 0)
  <2>1. CASE stats = <<>>
    BY <2>1
  <2>2. CASE stats = <<Callback("stats", 0)>>
    BY <2>2
  <2> QED
    BY <2>1, <2>2
<1>4. requestCBHash' = [rn \in (requestNumber + 1)..last |-> cbs[rn - requestNumber]]
  BY <1>1, <1>2 DEF SendActions
<1> HIDE DEF cbs
<1>5. last \in (requestNumber + 1)..last /\ last - requestNumber = Len(cbs) /\ last \in Nat
  BY <1>1, <1>3
<1>6. \A rn \in (requestNumber + 1)..last :
        /\ rn - requestNumber \in 1..Len(cbs)
        /\ rn # last => rn - requestNumber # Len(cbs)
  BY <1>1, <1>3
<1> HIDE DEF last
<1>7. /\ requestCBHash'[last].kind = "authRestore"
      /\ \A rn \in DOMAIN requestCBHash' : rn # last => requestCBHash'[rn].kind = "stats"
  BY <1>3, <1>4, <1>5, <1>6 DEF Callback
<1>8. last \in DOMAIN requestCBHash'
  BY <1>4, <1>5
<1>9. Pending("authRestore")' = {last}
  BY <1>7, <1>8 DEF Pending
<1>10. \A kind \in CallbackKinds \ {"authRestore", "stats"} : Pending(kind)' = {}
  BY <1>7, <1>8 DEF Pending
<1> QED
  BY <1>5, <1>9, <1>10

\* The state is restored at most once per connection, and before every write.
LEMMA NextRestore ==
  ASSUME TypeOK, ConnectionInv, RestoreComesFirst, [Next]_vars
  PROVE  RestoreComesFirst'
<1>0. /\ Pending("auth") \subseteq Nat /\ Pending("authRestore") \subseteq Nat /\ requestNumber \in Nat
      /\ RequestTypeOK
  BY DEF TypeOK, RequestTypeOK, Pending
<1>1. ASSUME Pending("auth")' = Pending("auth"), Pending("authRestore")' = Pending("authRestore"),
             UNCHANGED connectionState
      PROVE  RestoreComesFirst'
  BY <1>1 DEF RestoreComesFirst
<1>2. CASE Quiet
  <2>1. Pending("auth")' = Pending("auth") /\ Pending("authRestore")' = Pending("authRestore")
    BY <1>2 DEF Quiet, Pending
  <2>2. CASE ~connected /\ ~connected'
    BY <2>1, <2>2 DEF RestoreComesFirst, connected
  <2> QED
    BY <1>1, <1>2, <2>1, <2>2 DEF Quiet
<1>3. CASE TearDown
  BY <1>3 DEF TearDown, RestoreComesFirst, Pending
<1>4. CASE Greeted
  <2>1. PICK rn : Pending("authRestore")' = {rn} /\ rn \in Nat /\ Pending("auth")' = {}
    BY <1>4, GreetedRequests DEF CallbackKinds
  <2>2. connectionState' = "Authenticating"
    BY <1>4 DEF Greeted
  <2> QED
    BY <2>1, <2>2 DEF RestoreComesFirst
<1>5. CASE Reauthenticated
  <2>1. Callback("auth", 0).kind = "auth"
    BY DEF Callback
  <2>2. /\ Pending("auth")' = Pending("auth") \cup {requestNumber + 1}
        /\ Pending("authRestore")' = Pending("authRestore")
        /\ \A rn \in DOMAIN requestCBHash : rn < requestNumber + 1
    BY <1>0, <1>5, <2>1, SentRequest DEF Reauthenticated, Pending
  <2>3. \A rn \in Pending("authRestore") : rn <= requestNumber + 1
    BY <1>0, <2>2 DEF Pending
  <2> QED
    BY <1>5, <2>2, <2>3 DEF Reauthenticated, RestoreComesFirst
<1>6. ASSUME NEW rn \in DOMAIN requestCBHash, Authenticated(rn)
      PROVE  RestoreComesFirst'
  <2>1. rn \in Pending("auth") /\ \A other \in Pending("authRestore") : rn <= other /\ rn # other
    BY <1>6 DEF Authenticated, AuthAnswer, IsAuth, Pending
  <2>2. Pending("authRestore") = {}
    BY <1>0, <2>1 DEF RestoreComesFirst
  <2>3. Pending("authRestore")' = Pending("authRestore") \ {rn}
    BY <1>6, AnsweredRequests DEF Authenticated
  <2> QED
    BY <1>6, <2>2, <2>3 DEF Authenticated, RestoreComesFirst
<1>7. CASE Restored
  <2>1. PICK hash, sent : RestoreBase(hash, sent) /\ RestoreState(hash, sent)
    BY <1>7 DEF Restored
  <2>2. PICK ls \in Enumerations(CurrentListens), ps \in Ascending(DOMAIN outstandingPuts) :
          RestoredWith(hash, sent, ls, ps)
    BY <2>1, RestoredRequests
  <2>3. Pending("authRestore")' = Pending("authRestore") \cap DOMAIN hash
    BY <2>1, <2>2, RestoredPending
  <2>4. Pending("authRestore") \cap DOMAIN hash = {}
    <3>1. CASE connectionState = "Connecting"
      BY <3>1 DEF RestoreComesFirst
    <3>2. CASE \E rn \in Pending("authRestore") : hash = Answered(rn)
      <4>1. PICK rn \in Pending("authRestore") : hash = Answered(rn)
        BY <3>2
      <4>2. Pending("authRestore") = {rn}
        BY <1>0, <4>1 DEF RestoreComesFirst
      <4> QED
        BY <4>1, <4>2 DEF Answered
    <3> QED
      BY <2>1, <3>1, <3>2 DEF RestoreBase
  <2> QED
    BY <1>7, <2>3, <2>4 DEF Restored, RestoreComesFirst
<1>8. CASE TableStep
  BY <1>1, <1>8, TableStepAuth DEF TableStep
<1> QED
  BY <1>2, <1>3, <1>4, <1>5, <1>6, <1>7, <1>8, StepKinds

-----------------------------------------------------------------------------
(* Listens. *)

\* The requests awaiting an answer are finite in number.
LEMMA PendingFinite ==
  ASSUME TypeOK, NEW kind
  PROVE  IsFiniteSet(Pending(kind)) /\ Cardinality(Pending(kind)) \in Nat
<1>1. requestNumber \in Int /\ 1 \in Int /\ Pending(kind) \in SUBSET (1..requestNumber)
  BY DEF TypeOK, RequestTypeOK, Pending
<1>2. IsFiniteSet(1..requestNumber)
  BY <1>1, FS_Interval
<1>3. IsFiniteSet(Pending(kind))
  BY <1>1, <1>2, FS_Subset
<1> QED
  BY <1>3, FS_CardinalityType

\* A step of one call or answer keeps the count exact.
LEMMA TableStepCount ==
  ASSUME TypeOK, UnackedListensCounted, TableStep
  PROVE  UnackedListensCounted'
<1> USE DEF requestVars
<1>0. RequestTypeOK /\ requestNumber \in Nat
  BY DEF TypeOK, RequestTypeOK
<1>1. ASSUME UNCHANGED <<requestCBHash, unackedListensCount>>
      PROVE  UnackedListensCounted'
  BY <1>1 DEF UnackedListensCounted, Pending
<1>2. ASSUME NEW cb, SendActions(requestCBHash, <<cb>>), cb.kind # "listen",
             UNCHANGED unackedListensCount
      PROVE  UnackedListensCounted'
  <2>1. Pending("listen")' = Pending("listen")
    BY <1>0, <1>2, SentRequest DEF Pending
  <2> QED
    BY <1>2, <2>1 DEF UnackedListensCounted
<1>3. ASSUME NEW rn \in DOMAIN requestCBHash, requestCBHash' = Answered(rn),
             requestCBHash[rn].kind # "listen", UNCHANGED unackedListensCount
      PROVE  UnackedListensCounted'
  <2>1. Pending("listen")' = Pending("listen")
    BY <1>3, AnsweredRequests DEF Pending
  <2> QED
    BY <1>3, <2>1 DEF UnackedListensCounted
<1>4. \A id : /\ Callback("listen", id).kind = "listen" /\ Callback("put", id).kind = "put"
              /\ Callback("onDisconnect", id).kind = "onDisconnect"
  BY DEF Callback
<1>5. ASSUME NEW query \in Queries, Listen(query) PROVE UnackedListensCounted'
  <2>1. CASE connected
    <3>1. /\ SendActions(requestCBHash, <<Callback("listen", listenCounter')>>)
          /\ unackedListensCount' = unackedListensCount + 1
      BY <1>5, <2>1 DEF Listen
    <3>2. /\ Pending("listen")' = Pending("listen") \cup {requestNumber + 1}
          /\ requestNumber + 1 \notin Pending("listen")
      BY <1>0, <1>4, <3>1, SentRequest DEF Pending
    <3>3. Cardinality(Pending("listen") \cup {requestNumber + 1}) = Cardinality(Pending("listen")) + 1
      BY <3>2, PendingFinite, FS_AddElement
    <3> QED
      BY <3>1, <3>2, <3>3 DEF UnackedListensCounted
  <2>2. CASE ~connected
    BY <1>1, <1>5, <2>2 DEF Listen
  <2> QED
    BY <2>1, <2>2
<1>6. ASSUME NEW query \in Queries, Unlisten(query) PROVE UnackedListensCounted'
  BY <1>1, <1>6 DEF Unlisten, SendWithoutCallback
<1>7. ASSUME NEW hash \in BOOLEAN, PutInternal(hash) PROVE UnackedListensCounted'
  BY <1>1, <1>2, <1>4, <1>7 DEF PutInternal
<1>8. CASE OnDisconnectOperation
  BY <1>1, <1>2, <1>4, <1>8 DEF OnDisconnectOperation
<1>9. CASE PurgeOutstandingWrites \/ \E query \in Queries : ListenRevoked(query[1])
  BY <1>1, <1>9 DEF PurgeOutstandingWrites, ListenRevoked
<1>10. ASSUME NEW rn \in DOMAIN requestCBHash,
              PutAnswered(rn) \/ OnDisconnectAnswered(rn) \/ StatsAnswered(rn)
       PROVE  UnackedListensCounted'
  BY <1>3, <1>10 DEF PutAnswered, OnDisconnectAnswered, StatsAnswered
<1>11. ASSUME NEW rn \in DOMAIN requestCBHash, NEW ok \in BOOLEAN, ListenAnswered(rn, ok)
       PROVE  UnackedListensCounted'
  <2>1. /\ requestCBHash' = Answered(rn) /\ rn \in Pending("listen")
        /\ unackedListensCount' = Decremented(unackedListensCount)
    BY <1>11 DEF ListenAnswered, Pending
  <2>2. Pending("listen")' = Pending("listen") \ {rn}
    BY <2>1, AnsweredRequests DEF Pending
  <2>3. /\ Cardinality(Pending("listen")) # 0
        /\ Cardinality(Pending("listen") \ {rn}) = Cardinality(Pending("listen")) - 1
    BY <2>1, PendingFinite, FS_EmptySet, FS_RemoveElement
  <2> QED
    BY <2>1, <2>2, <2>3 DEF UnackedListensCounted, Decremented
<1> QED
  BY <1>5, <1>6, <1>7, <1>8, <1>9, <1>10, <1>11 DEF TableStep

\* Every step keeps the count of unanswered listens exact.
LEMMA NextCount ==
  ASSUME TypeOK, ConnectionInv, UnackedListensCounted, [Next]_vars
  PROVE  UnackedListensCounted'
<1>0. RequestTypeOK /\ requestNumber \in Nat
  BY DEF TypeOK, RequestTypeOK
<1>1. ASSUME Pending("listen")' = Pending("listen"), UNCHANGED unackedListensCount
      PROVE  UnackedListensCounted'
  BY <1>1 DEF UnackedListensCounted
<1>2. CASE Quiet
  BY <1>1, <1>2 DEF Quiet, Pending
<1>3. CASE TearDown
  <2>1. Pending("listen")' = {} /\ unackedListensCount' = 0
    BY <1>3 DEF TearDown, Pending
  <2> QED
    BY <2>1, FS_EmptySet DEF UnackedListensCounted
<1>4. CASE Greeted
  <2>1. Pending("listen") = {}
    BY <1>4 DEF Greeted, ConnectionInv, RequestsNeedConnection, connected, Pending
  <2>2. Pending("listen")' = {}
    BY <1>4, GreetedRequests DEF CallbackKinds
  <2> QED
    BY <1>1, <1>4, <2>1, <2>2 DEF Greeted
<1>5. CASE Reauthenticated
  <2>1. Callback("auth", 0).kind = "auth"
    BY DEF Callback
  <2>2. Pending("listen")' = Pending("listen")
    BY <1>0, <1>5, <2>1, SentRequest DEF Reauthenticated, Pending
  <2> QED
    BY <1>1, <1>5, <2>2 DEF Reauthenticated
<1>6. ASSUME NEW rn \in DOMAIN requestCBHash, Authenticated(rn) PROVE UnackedListensCounted'
  <2>1. Pending("listen")' = Pending("listen")
    BY <1>6, AnsweredRequests DEF Authenticated, Pending
  <2> QED
    BY <1>1, <1>6, <2>1 DEF Authenticated
<1>7. CASE Restored
  <2>1. PICK hash, sent : RestoreBase(hash, sent) /\ RestoreState(hash, sent)
    BY <1>7 DEF Restored
  <2>2. PICK ls \in Enumerations(CurrentListens), ps \in Ascending(DOMAIN outstandingPuts) :
          RestoredWith(hash, sent, ls, ps)
    BY <2>1, RestoredRequests
  <2>0. PICK n, l, p, d : /\ n = requestNumber + Len(sent) /\ l = Len(ls) /\ p = Len(ps)
                          /\ d = Len(onDisconnectQueue)
    OBVIOUS
  <2>3. /\ n \in Nat /\ l \in Nat /\ n >= requestNumber
        /\ \A rn \in DOMAIN requestCBHash : rn \in 1..requestNumber
        /\ Pending("listen")' = Pending("listen") \cup (n + 1)..(n + l)
    BY <2>0, <2>1, <2>2, RestoredPending
  <2>4. unackedListensCount' = unackedListensCount + l
    BY <2>0, <2>2 DEF RestoredWith
  <2>5. Pending("listen") \cap (n + 1)..(n + l) = {}
    BY <1>0, <2>3 DEF Pending
  <2>6. IsFiniteSet((n + 1)..(n + l)) /\ Cardinality((n + 1)..(n + l)) = l
    <3>1. n + 1 \in Int /\ n + l \in Int /\ (IF n + 1 > n + l THEN 0 ELSE (n + l) - (n + 1) + 1) = l
      BY <2>3
    <3> QED
      BY <3>1, FS_Interval
  <2>7. Cardinality(Pending("listen") \cup (n + 1)..(n + l)) = Cardinality(Pending("listen")) + l
    <3>1. Cardinality(Pending("listen") \cup (n + 1)..(n + l)) =
            Cardinality(Pending("listen")) + Cardinality((n + 1)..(n + l))
              - Cardinality(Pending("listen") \cap (n + 1)..(n + l))
      BY <2>6, PendingFinite, FS_Union
    <3>2. Cardinality(Pending("listen") \cap (n + 1)..(n + l)) = 0
      BY <2>5, FS_EmptySet
    <3> QED
      BY <2>3, <2>6, <3>1, <3>2, PendingFinite
  <2> QED
    BY <2>3, <2>4, <2>7 DEF UnackedListensCounted
<1>8. CASE TableStep
  BY <1>8, TableStepCount
<1> QED
  BY <1>2, <1>3, <1>4, <1>5, <1>6, <1>7, <1>8, StepKinds

\* unackedListensCount counts the listen requests under way in every reachable
\* state: restoring, answering and losing connections never make it drift, so it
\* never wraps below zero and held acknowledgements are released on time.
THEOREM ListensCounted == Spec => []UnackedListensCounted
<1>1. Init => UnackedListensCounted
  <2>1. Init => Pending("listen") = {} /\ unackedListensCount = 0
    BY DEF Init, Pending
  <2> QED
    BY <2>1, FS_EmptySet DEF UnackedListensCounted
<1>2. TypeOK /\ ConnectionInv /\ UnackedListensCounted /\ [Next]_vars => UnackedListensCounted'
  BY NextCount
<1> QED
  BY <1>1, <1>2, TypeCorrect, ConnectionInvariant, PTL DEF Spec

\* Each listen has a number of its own, given out before, and the server holds
\* listens only for a connection that is ready.
ListensNumbered ==
  /\ \A query \in Queries : listens[query] <= listenCounter
  /\ \A q, r \in Queries : listens[q] = listens[r] /\ q # r => listens[q] = 0
  /\ serverListens # {} => connected

\* A new token is only answered after the state was restored.
LEMMA AuthenticatedConnected ==
  ASSUME TypeOK, ConnectionInv, RestoreComesFirst, NEW rn \in DOMAIN requestCBHash,
         Authenticated(rn)
  PROVE  connectionState = "Connected"
<1>1. /\ \A other \in Pending("authRestore") : rn <= other /\ rn # other
      /\ rn \in Pending("auth")
  BY DEF Authenticated, AuthAnswer, IsAuth, Pending
<1>2. rn \in Nat /\ Pending("authRestore") \subseteq Nat
  BY DEF TypeOK, RequestTypeOK, Pending
<1>3. Pending("authRestore") = {}
  BY <1>1, <1>2 DEF RestoreComesFirst
<1> QED
  BY <1>3 DEF RestoreComesFirst, ConnectionInv, RequestsNeedConnection, connected

\* Calls and answers keep the listens numbered and the server's set equal.
LEMMA TableStepListens ==
  ASSUME TypeOK, ListensMirrored, ListensNumbered, TableStep
  PROVE  ListensMirrored' /\ ListensNumbered'
<1> USE DEF listenVars
<1>0. /\ listens \in [Queries -> 0..MaxListens] /\ listenCounter \in Nat /\ MaxListens \in Nat
      /\ serverListens \subseteq 1..MaxListens
      /\ UNCHANGED connectionState
      /\ connectionState = "Connected" => connected
  BY ConnectionAssumption DEF TypeOK, ListenTypeOK, TableStep, connected
<1>1. ASSUME UNCHANGED <<listens, listenCounter, serverListens>>
      PROVE  ListensMirrored' /\ ListensNumbered'
  BY <1>0, <1>1 DEF ListensMirrored, ListensNumbered, CurrentListens, connected
<1>2. ASSUME NEW gone \in SUBSET Queries, UNCHANGED listenCounter,
             listens' = [query \in Queries |-> IF query \in gone THEN 0 ELSE listens[query]],
             \/ serverListens' = serverListens \ {listens[query] : query \in gone}
             \/ ~connected /\ UNCHANGED serverListens
      PROVE  ListensMirrored' /\ ListensNumbered'
  <2>1. CurrentListens' = CurrentListens \ {listens[query] : query \in gone}
    <3>1. \A query \in Queries : listens'[query] = IF query \in gone THEN 0 ELSE listens[query]
      BY <1>2
    <3>2. \A query \in Queries \ gone : listens[query] # 0 =>
            listens[query] \notin {listens[q] : q \in gone}
      BY DEF ListensNumbered
    <3> QED
      BY <3>1, <3>2 DEF CurrentListens
  <2>2. ListensNumbered'
    BY <1>0, <1>2 DEF ListensNumbered, connected
  <2>3. ListensMirrored'
    BY <1>0, <1>2, <2>1 DEF ListensMirrored, ListensNumbered
  <2> QED
    BY <2>2, <2>3
<1>3. ASSUME NEW query \in Queries, Listen(query)
      PROVE  ListensMirrored' /\ ListensNumbered'
  <2>1. /\ listens[query] = 0 /\ listenCounter' = listenCounter + 1
        /\ listens' = [listens EXCEPT ![query] = listenCounter']
        /\ \/ connected /\ serverListens' = serverListens \cup {listenCounter'}
           \/ ~connected /\ UNCHANGED serverListens
    BY <1>3 DEF Listen
  <2>2. \A q \in Queries : listens'[q] = IF q = query THEN listenCounter + 1 ELSE listens[q]
    BY <1>0, <2>1
  <2>3. CurrentListens' = CurrentListens \cup {listenCounter'}
    <3>1. listenCounter' # 0
      BY <1>0, <2>1
    <3> QED
      BY <2>1, <2>2, <3>1 DEF CurrentListens
  <2>4. ListensNumbered'
    <3>1. \A q \in Queries : listens[q] \in Nat /\ listens[q] <= listenCounter
      BY <1>0 DEF ListensNumbered
    <3>2. \A q \in Queries : listens'[q] <= listenCounter'
      BY <1>0, <2>1, <2>2, <3>1
    <3>3. \A q, r \in Queries : listens'[q] = listens'[r] /\ q # r => listens'[q] = 0
      BY <1>0, <2>2, <3>1 DEF ListensNumbered
    <3>4. serverListens' # {} => connected'
      BY <1>0, <2>1 DEF ListensNumbered, connected
    <3> QED
      BY <3>2, <3>3, <3>4 DEF ListensNumbered
  <2>5. ListensMirrored'
    BY <1>0, <2>1, <2>3 DEF ListensMirrored
  <2> QED
    BY <2>4, <2>5
<1>4. ASSUME NEW query \in Queries, Unlisten(query)
      PROVE  ListensMirrored' /\ ListensNumbered'
  <2>1. /\ listens' = [q \in Queries |-> IF q \in {query} THEN 0 ELSE listens[q]]
        /\ UNCHANGED listenCounter
        /\ \/ serverListens' = serverListens \ {listens[query]}
           \/ ~connected /\ UNCHANGED serverListens
    BY <1>0, <1>4 DEF Unlisten
  <2>2. {listens[q] : q \in {query}} = {listens[query]}
    OBVIOUS
  <2> QED
    BY <1>2, <2>1, <2>2
<1>5. ASSUME NEW query \in Queries, ListenRevoked(query[1])
      PROVE  ListensMirrored' /\ ListensNumbered'
  BY <1>2, <1>5 DEF ListenRevoked
<1>6. ASSUME NEW rn \in DOMAIN requestCBHash, NEW ok \in BOOLEAN, ListenAnswered(rn, ok)
      PROVE  ListensMirrored' /\ ListensNumbered'
  <2> DEFINE spec == requestCBHash[rn].id
             gone == {query \in Queries : listens[query] = spec}
  <2>1. spec \in 1..MaxListens /\ UNCHANGED listenCounter
    BY <1>6 DEF ListenAnswered, TypeOK, RequestTypeOK
  <2>2. CASE ok
    BY <1>1, <1>6, <2>2 DEF ListenAnswered
  <2>3. CASE ~ok
    <3>1. /\ listens' = [query \in Queries |-> IF query \in gone THEN 0 ELSE listens[query]]
          /\ serverListens' = serverListens \ {spec}
      BY <1>6, <2>3 DEF ListenAnswered, IsCurrent
    <3>2. serverListens \ {spec} = serverListens \ {listens[query] : query \in gone}
      BY DEF ListensMirrored, CurrentListens
    <3> QED
      BY <1>2, <2>1, <3>1, <3>2
  <2> QED
    BY <2>2, <2>3
<1>7. ASSUME \/ \E hash \in BOOLEAN : PutInternal(hash)
             \/ OnDisconnectOperation \/ PurgeOutstandingWrites
      PROVE  ListensMirrored' /\ ListensNumbered'
  BY <1>1, <1>7 DEF PutInternal, OnDisconnectOperation, PurgeOutstandingWrites
<1>8. ASSUME NEW rn \in DOMAIN requestCBHash,
             PutAnswered(rn) \/ OnDisconnectAnswered(rn) \/ StatsAnswered(rn)
      PROVE  ListensMirrored' /\ ListensNumbered'
  BY <1>1, <1>8 DEF PutAnswered, OnDisconnectAnswered, StatsAnswered
<1> QED
  BY <1>3, <1>4, <1>5, <1>6, <1>7, <1>8 DEF TableStep

\* Every step keeps the server's listens equal to the client's.
LEMMA NextListens ==
  ASSUME TypeOK, ConnectionInv, RestoreComesFirst, ListensMirrored, ListensNumbered,
         [Next]_vars
  PROVE  ListensMirrored' /\ ListensNumbered'
<1> USE DEF listenVars
<1>1. ASSUME UNCHANGED listenVars,
             UNCHANGED connectionState \/ (~connected /\ ~connected')
               \/ connectionState' = "Authenticating"
      PROVE  ListensMirrored' /\ ListensNumbered'
  BY <1>1 DEF ListensMirrored, ListensNumbered, CurrentListens, connected
<1>2. CASE Quiet
  BY <1>1, <1>2 DEF Quiet
<1>3. CASE TearDown
  BY <1>3 DEF TearDown, ListensMirrored, ListensNumbered, CurrentListens
<1>4. CASE Greeted \/ Reauthenticated
  BY <1>1, <1>4 DEF Greeted, Reauthenticated
<1>5. ASSUME NEW rn \in DOMAIN requestCBHash, Authenticated(rn)
      PROVE  ListensMirrored' /\ ListensNumbered'
  BY <1>1, <1>5, AuthenticatedConnected DEF Authenticated
<1>6. CASE Restored
  <2>1. /\ connectionState' = "Connected" /\ UNCHANGED <<listens, listenCounter>>
        /\ serverListens' = serverListens \cup CurrentListens
    BY <1>6 DEF Restored, RestoreState
  <2>2. serverListens' = CurrentListens
    BY <2>1 DEF ListensMirrored
  <2> QED
    BY <2>1, <2>2 DEF ListensMirrored, ListensNumbered, CurrentListens, connected
<1>7. CASE TableStep
  BY <1>7, TableStepListens
<1> QED
  BY <1>2, <1>3, <1>4, <1>5, <1>6, <1>7, StepKinds

\* The state is restored exactly once on each connection that becomes ready.
LEMMA RestoreInvariant == Spec => []RestoreComesFirst
<1>1. Init => RestoreComesFirst
  BY DEF Init, RestoreComesFirst, Pending
<1>2. TypeOK /\ ConnectionInv /\ RestoreComesFirst /\ [Next]_vars => RestoreComesFirst'
  BY NextRestore
<1> QED
  BY <1>1, <1>2, TypeCorrect, ConnectionInvariant, PTL DEF Spec

\* Whenever the client counts as connected, the server holds exactly the listens
\* the client has; before that, none the client has dropped: in whatever order
\* listens, unlistens, revocations, failed answers and reconnects come.
THEOREM ListensInSync == Spec => []ListensMirrored
<1>1. Init => ListensMirrored /\ ListensNumbered
  BY DEF Init, ListensMirrored, ListensNumbered, CurrentListens
<1>2. TypeOK /\ ConnectionInv /\ RestoreComesFirst /\ ListensMirrored /\ ListensNumbered
        /\ [Next]_vars => ListensMirrored' /\ ListensNumbered'
  BY NextListens
<1> QED
  BY <1>1, <1>2, TypeCorrect, ConnectionInvariant, RestoreInvariant, PTL DEF Spec

-----------------------------------------------------------------------------
(* Writes. *)

\* A write that was not issued has not completed.
UnissuedWrites == \A index \in PutIndices : index > putCounter => completions[index] = 0

\* The writes the client still owes a completion.
Owed == DOMAIN outstandingPuts \cup PendingAcks

\* The books balance: some owed writes complete, and a new one may be issued.
LEMMA BooksBalance ==
  ASSUME TypeOK, WritesAccounted, UnissuedWrites,
         NEW gone \in SUBSET Owed, NEW fresh,
         \/ fresh = {} /\ putCounter' = putCounter
         \/ fresh = {putCounter + 1} /\ putCounter' = putCounter + 1 /\ putCounter < MaxPuts,
         \A index \in PutIndices :
           completions'[index] = IF index \in gone THEN completions[index] + 1 ELSE completions[index],
         Owed' = (Owed \ gone) \cup fresh,
         DOMAIN outstandingPuts' \cap PendingAcks' = {},
         \A i, j \in DOMAIN putsToAck' : putsToAck'[i] = putsToAck'[j] => i = j
  PROVE  WritesAccounted' /\ UnissuedWrites'
<1>1. /\ putCounter \in Nat /\ MaxPuts \in Nat /\ putCounter <= MaxPuts
      /\ \A index \in PutIndices : completions[index] \in Nat /\ index \in Nat
  BY ConnectionAssumption DEF TypeOK, PutTypeOK, PutIndices
<1>2. \A index \in PutIndices :
        /\ completions[index] <= 1
        /\ completions[index] = 0 /\ index <= putCounter <=> index \in Owed
  BY DEF WritesAccounted, Owed
<1>3. \A index \in PutIndices : index \in fresh => index \notin Owed /\ index \notin gone
  BY <1>1, <1>2
<1>4. UnissuedWrites'
  BY <1>1, <1>2 DEF UnissuedWrites
<1>5. ASSUME NEW index \in PutIndices
      PROVE  /\ completions'[index] <= 1
             /\ completions'[index] = 0 /\ index <= putCounter' <=> index \in Owed'
  <2>1. CASE index \in gone
    BY <1>1, <1>2, <1>3, <2>1
  <2>2. CASE index \in fresh
    <3>1. completions'[index] = completions[index]
      BY <1>3, <2>2
    <3>2. completions[index] = 0 /\ index <= putCounter'
      BY <1>1, <2>2 DEF UnissuedWrites
    <3> QED
      BY <2>2, <3>1, <3>2
  <2>3. CASE index \notin gone /\ index \notin fresh
    <3>1. index <= putCounter' <=> index <= putCounter
      BY <1>1, <2>3
    <3> QED
      BY <1>2, <2>3, <3>1
  <2> QED
    BY <2>1, <2>2, <2>3
<1> QED
  BY <1>4, <1>5 DEF WritesAccounted, Owed

\* Closing a connection cancels the sent transactions; one may be rerun.
LEMMA CancelBooks ==
  ASSUME TypeOK, WritesAccounted, UnissuedWrites, CancelSentTransactions, UNCHANGED putsToAck
  PROVE  WritesAccounted' /\ UnissuedWrites'
<1> DEFINE cancelled == {index \in DOMAIN outstandingPuts :
                           outstandingPuts[index].hash /\ outstandingPuts[index].sent}
           kept == Remove(outstandingPuts, cancelled)
<1>1. /\ \A index \in PutIndices : completions'[index] =
            IF index \in cancelled THEN completions[index] + 1 ELSE completions[index]
      /\ DOMAIN kept = DOMAIN outstandingPuts \ cancelled
  BY DEF CancelSentTransactions, Complete, Remove
<1>2. \/ outstandingPuts' = kept /\ UNCHANGED putCounter
      \/ /\ putCounter < MaxPuts /\ putCounter' = putCounter + 1
         /\ DOMAIN outstandingPuts' = DOMAIN kept \cup {putCounter + 1}
  BY DEF CancelSentTransactions
<1>3. cancelled \subseteq Owed /\ cancelled \subseteq DOMAIN outstandingPuts
  BY DEF Owed
<1>4. putCounter \in Nat /\ MaxPuts \in Nat /\ DOMAIN outstandingPuts \subseteq PutIndices
      /\ PendingAcks \subseteq PutIndices
  BY ConnectionAssumption DEF TypeOK, PutTypeOK, PendingAcks
<1>5. PendingAcks' = PendingAcks /\ DOMAIN outstandingPuts \cap PendingAcks = {}
  BY <1>4 DEF PendingAcks, WritesAccounted
<1>6. \A i, j \in DOMAIN putsToAck : putsToAck[i] = putsToAck[j] => i = j
  <2>1. CASE PutIndices = {}
    BY <2>1 DEF TypeOK, PutTypeOK
  <2>2. CASE PutIndices # {}
    BY <2>2 DEF WritesAccounted
  <2> QED
    BY <2>1, <2>2
<1> HIDE DEF cancelled, kept
<1>7. CASE outstandingPuts' = kept /\ UNCHANGED putCounter
  <2>1. Owed' = (Owed \ cancelled) \cup {} /\ DOMAIN outstandingPuts' \cap PendingAcks' = {}
    BY <1>1, <1>3, <1>5, <1>7 DEF Owed
  <2> QED
    BY <1>1, <1>3, <1>6, <1>7, <2>1, BooksBalance
<1>8. CASE /\ putCounter < MaxPuts /\ putCounter' = putCounter + 1
           /\ DOMAIN outstandingPuts' = DOMAIN kept \cup {putCounter + 1}
  <2>1. putCounter + 1 \notin PendingAcks
    BY <1>4, <1>8 DEF WritesAccounted, PutIndices
  <2>2. /\ Owed' = (Owed \ cancelled) \cup {putCounter + 1}
        /\ DOMAIN outstandingPuts' \cap PendingAcks' = {}
    BY <1>1, <1>3, <1>5, <1>8, <2>1 DEF Owed
  <2> QED
    BY <1>1, <1>3, <1>6, <1>8, <2>2, BooksBalance
<1> QED
  BY <1>2, <1>7, <1>8

\* Every call, answer and disconnect keeps the books.
LEMMA NextBooks ==
  ASSUME TypeOK, ConnectionInv, WritesAccounted, UnissuedWrites, [Next]_vars
  PROVE  WritesAccounted' /\ UnissuedWrites'
<1> USE DEF putVars
<1>0. /\ putCounter \in Nat /\ MaxPuts \in Nat /\ DOMAIN outstandingPuts \subseteq PutIndices
      /\ PendingAcks \subseteq PutIndices
      /\ putsToAck \in Seq(PutIndices) /\ Len(putsToAck) \in Nat
      /\ DOMAIN putsToAck = 1..Len(putsToAck)
      /\ completions \in [PutIndices -> Nat]
  BY ConnectionAssumption DEF TypeOK, PutTypeOK, PendingAcks
<1>1. DOMAIN outstandingPuts \cap PendingAcks = {}
  BY <1>0 DEF WritesAccounted
<1>2. \A i, j \in DOMAIN putsToAck : putsToAck[i] = putsToAck[j] => i = j
  <2>1. CASE PutIndices = {}
    BY <1>0, <2>1
  <2>2. CASE PutIndices # {}
    BY <2>2 DEF WritesAccounted
  <2> QED
    BY <2>1, <2>2
<1>3. ASSUME DOMAIN outstandingPuts' = DOMAIN outstandingPuts,
             UNCHANGED <<putCounter, putsToAck, completions>>
      PROVE  WritesAccounted' /\ UnissuedWrites'
  BY <1>3 DEF WritesAccounted, UnissuedWrites, PendingAcks
<1>4. CASE Quiet \/ Greeted \/ Reauthenticated \/ \E rn \in DOMAIN requestCBHash : Authenticated(rn)
  BY <1>3, <1>4 DEF Quiet, Greeted, Reauthenticated, Authenticated
<1>5. CASE TearDown
  BY <1>5, CancelBooks DEF TearDown
<1>6. CASE Restored
  <2>1. /\ DOMAIN outstandingPuts' = DOMAIN outstandingPuts
        /\ UNCHANGED <<putCounter, putsToAck, completions>>
    BY <1>6 DEF Restored, RestoreState
  <2> QED
    BY <1>3, <2>1
<1>7. ASSUME NEW hash \in BOOLEAN, PutInternal(hash)
      PROVE  WritesAccounted' /\ UnissuedWrites'
  <2>1. /\ putCounter < MaxPuts /\ putCounter' = putCounter + 1
        /\ DOMAIN outstandingPuts' = DOMAIN outstandingPuts \cup {putCounter + 1}
        /\ UNCHANGED <<putsToAck, completions>>
    BY <1>7 DEF PutInternal
  <2>2. putCounter + 1 \notin PendingAcks
    BY <1>0, <2>1 DEF WritesAccounted, PutIndices
  <2>3. /\ Owed' = (Owed \ {}) \cup {putCounter + 1}
        /\ DOMAIN outstandingPuts' \cap PendingAcks' = {}
    BY <1>1, <2>1, <2>2 DEF Owed, PendingAcks
  <2>4. /\ {} \in SUBSET Owed
        /\ \A index \in PutIndices : completions'[index] =
             IF index \in {} THEN completions[index] + 1 ELSE completions[index]
    BY <2>1
  <2>5. \A i, j \in DOMAIN putsToAck' : putsToAck'[i] = putsToAck'[j] => i = j
    BY <1>2, <2>1
  <2> QED
    BY <2>1, <2>3, <2>4, <2>5, BooksBalance
<1>8. CASE PurgeOutstandingWrites
  <2>1. /\ completions' = Complete(Owed) /\ putsToAck' = <<>> /\ UNCHANGED putCounter
        /\ DOMAIN outstandingPuts' = {}
    <3>1. PendingAcks \cup DOMAIN outstandingPuts = Owed
      BY DEF Owed
    <3> QED
      BY <1>8, <3>1 DEF PurgeOutstandingWrites, Remove
  <2>2. PendingAcks' = {} /\ DOMAIN putsToAck' = {}
    BY <2>1 DEF PendingAcks
  <2>3. Owed' = (Owed \ Owed) \cup {} /\ DOMAIN outstandingPuts' \cap PendingAcks' = {}
    BY <2>1, <2>2 DEF Owed
  <2>4. \A index \in PutIndices : completions'[index] =
          IF index \in Owed THEN completions[index] + 1 ELSE completions[index]
    BY <2>1 DEF Complete
  <2> QED
    BY <2>1, <2>2, <2>3, <2>4, BooksBalance
<1>9. ASSUME NEW rn \in DOMAIN requestCBHash, PutAnswered(rn)
      PROVE  WritesAccounted' /\ UnissuedWrites'
  <2> DEFINE index == requestCBHash[rn].id
  <2>1. CASE ~StillOutstanding(index)
    BY <1>3, <1>9, <2>1 DEF PutAnswered
  <2>2. CASE StillOutstanding(index)
    <3>1. /\ index \in DOMAIN outstandingPuts /\ index \in PutIndices
          /\ DOMAIN outstandingPuts' = DOMAIN outstandingPuts \ {index}
          /\ UNCHANGED putCounter
      BY <1>0, <1>9, <2>2 DEF PutAnswered, StillOutstanding, Remove
    <3>2. CASE unackedListensCount = 0
      <4>1. completions' = Complete({index}) /\ UNCHANGED putsToAck
        BY <1>9, <2>2, <3>2 DEF PutAnswered
      <4>2. PendingAcks' = PendingAcks
        BY <4>1 DEF PendingAcks
      <4> HIDE DEF index
      <4>3. /\ Owed' = (Owed \ {index}) \cup {} /\ {index} \in SUBSET Owed
            /\ DOMAIN outstandingPuts' \cap PendingAcks' = {}
        BY <1>1, <3>1, <4>2 DEF Owed
      <4>4. \A i \in PutIndices : completions'[i] =
              IF i \in {index} THEN completions[i] + 1 ELSE completions[i]
        BY <4>1 DEF Complete
      <4> QED
        BY <1>2, <3>1, <4>1, <4>3, <4>4, BooksBalance
    <3>3. CASE unackedListensCount # 0
      <4>1. putsToAck' = Append(putsToAck, index) /\ UNCHANGED completions
        BY <1>9, <2>2, <3>3 DEF PutAnswered
      <4> HIDE DEF index
      <4>2. /\ DOMAIN putsToAck' = 1..(Len(putsToAck) + 1)
            /\ \A i \in 1..Len(putsToAck) : putsToAck'[i] = putsToAck[i]
            /\ putsToAck'[Len(putsToAck) + 1] = index
        BY <1>0, <3>1, <4>1
      <4>3. \A i \in 1..(Len(putsToAck) + 1) : i \in 1..Len(putsToAck) \/ i = Len(putsToAck) + 1
        BY <1>0
      <4>4. PendingAcks' = PendingAcks \cup {index}
        <5>1. 1..Len(putsToAck) \subseteq 1..(Len(putsToAck) + 1)
              /\ Len(putsToAck) + 1 \in 1..(Len(putsToAck) + 1)
          BY <1>0
        <5> QED
          BY <1>0, <4>2, <4>3, <5>1 DEF PendingAcks
      <4>5. \A i, j \in DOMAIN putsToAck' : putsToAck'[i] = putsToAck'[j] => i = j
        <5>1. \A i \in 1..Len(putsToAck) : putsToAck[i] # index
          BY <1>0, <1>1, <3>1 DEF PendingAcks
        <5> QED
          BY <1>0, <1>2, <4>2, <4>3, <5>1
      <4>6. /\ Owed' = (Owed \ {}) \cup {} /\ {} \in SUBSET Owed
            /\ DOMAIN outstandingPuts' \cap PendingAcks' = {}
        BY <1>1, <3>1, <4>4 DEF Owed
      <4>7. \A i \in PutIndices : completions'[i] =
              IF i \in {} THEN completions[i] + 1 ELSE completions[i]
        BY <4>1
      <4> QED
        BY <3>1, <4>5, <4>6, <4>7, BooksBalance
    <3> QED
      BY <3>2, <3>3
  <2> QED
    BY <2>1, <2>2
<1>10. ASSUME NEW rn \in DOMAIN requestCBHash, NEW ok \in BOOLEAN, ListenAnswered(rn, ok)
       PROVE  WritesAccounted' /\ UnissuedWrites'
  <2>1. UNCHANGED <<outstandingPuts, putCounter>>
    BY <1>10 DEF ListenAnswered
  <2>2. CASE unackedListensCount' = 0
    <3>1. completions' = Complete(PendingAcks) /\ putsToAck' = <<>>
      BY <1>10, <2>2 DEF ListenAnswered
    <3>2. PendingAcks' = {} /\ DOMAIN putsToAck' = {}
      BY <3>1 DEF PendingAcks
    <3>3. /\ Owed' = (Owed \ PendingAcks) \cup {} /\ PendingAcks \in SUBSET Owed
          /\ DOMAIN outstandingPuts' \cap PendingAcks' = {}
      BY <1>1, <2>1, <3>2 DEF Owed
    <3>4. \A i \in PutIndices : completions'[i] =
            IF i \in PendingAcks THEN completions[i] + 1 ELSE completions[i]
      BY <3>1 DEF Complete
    <3> QED
      BY <2>1, <3>2, <3>3, <3>4, BooksBalance
  <2>3. CASE unackedListensCount' # 0
    BY <1>3, <1>10, <2>1, <2>3 DEF ListenAnswered
  <2> QED
    BY <2>2, <2>3
<1>11. ASSUME \/ \E query \in Queries : Listen(query) \/ Unlisten(query) \/ ListenRevoked(query[1])
              \/ OnDisconnectOperation
              \/ \E rn \in DOMAIN requestCBHash : OnDisconnectAnswered(rn) \/ StatsAnswered(rn)
       PROVE  WritesAccounted' /\ UnissuedWrites'
  BY <1>3, <1>11 DEF Listen, Unlisten, ListenRevoked, OnDisconnectOperation,
                     OnDisconnectAnswered, StatsAnswered
<1>12. CASE TableStep
  BY <1>7, <1>8, <1>9, <1>10, <1>11, <1>12 DEF TableStep
<1> QED
  BY <1>4, <1>5, <1>6, <1>12, StepKinds

\* A sorted enumeration of a finite set names every element of it.
LEMMA AscendingCovers ==
  ASSUME NEW S \in SUBSET Nat, IsFiniteSet(S), NEW s \in Ascending(S)
  PROVE  \A x \in S : \E i \in 1..Len(s) : s[i] = x
<1>1. Cardinality(S) \in Nat
  BY FS_CardinalityType
<1>2. /\ s \in [1..Cardinality(S) -> S]
      /\ \A i, j \in 1..Cardinality(S) : i < j => s[i] < s[j]
  BY DEF Ascending
<1>3. Len(s) = Cardinality(S)
  BY <1>1, <1>2
<1>4. \A i, j \in 1..Cardinality(S) : s[i] = s[j] => i = j
  <2> SUFFICES ASSUME NEW i \in 1..Cardinality(S), NEW j \in 1..Cardinality(S), i # j
               PROVE  s[i] # s[j]
    OBVIOUS
  <2>0. s[i] \in S /\ s[j] \in S
    BY <1>2
  <2>4. i < j \/ j < i
    BY <1>1
  <2>1. s[i] \in Nat /\ s[j] \in Nat /\ (i < j \/ j < i)
    BY <2>0, <2>4
  <2>2. CASE i < j
    BY <1>2, <2>1, <2>2
  <2>3. CASE j < i
    BY <1>2, <2>1, <2>3
  <2> QED
    BY <2>1, <2>2, <2>3
<1>5. s \in Injection(1..Cardinality(S), S)
  BY <1>2, <1>4 DEF Injection, IsInjective
<1>6. IsFiniteSet(1..Cardinality(S)) /\ Cardinality(1..Cardinality(S)) = Cardinality(S)
  <2>1. 1 \in Int /\ Cardinality(S) \in Int
        /\ (IF 1 > Cardinality(S) THEN 0 ELSE Cardinality(S) - 1 + 1) = Cardinality(S)
    BY <1>1
  <2> QED
    BY <2>1, FS_Interval
<1>7. s \in Surjection(1..Cardinality(S), S)
  BY <1>5, <1>6, FS_Injection
<1> QED
  BY <1>3, <1>7 DEF Surjection

\* The strengthening of WritesSentInOrder: what is on the wire was issued, and
\* nothing is on the wire of a connection whose state is not restored.
WritesSent ==
  /\ WritesSentInOrder
  /\ \A i \in DOMAIN sentPuts : sentPuts[i] <= putCounter
  /\ connectionState # "Connected" => sentPuts = <<>>

\* Restoring starts on a connection that has sent no write.
LEMMA RestoreStartsClean ==
  ASSUME RestoreComesFirst, NEW hash, NEW sent, RestoreBase(hash, sent)
  PROVE  connectionState # "Connected"
  BY DEF RestoreBase, RestoreComesFirst

\* Every step sends writes in the order they were issued.
LEMMA NextSent ==
  ASSUME TypeOK, ConnectionInv, RestoreComesFirst, WritesAccounted, WritesSent, [Next]_vars
  PROVE  WritesSent'
<1> USE DEF putVars
<1>0. /\ putCounter \in Nat /\ MaxPuts \in Nat /\ DOMAIN outstandingPuts \subseteq PutIndices
      /\ sentPuts \in Seq(PutIndices) /\ Len(sentPuts) \in Nat
      /\ DOMAIN sentPuts = 1..Len(sentPuts)
  BY ConnectionAssumption DEF TypeOK, PutTypeOK
<1>1. ASSUME UNCHANGED sentPuts, putCounter' \in {putCounter, putCounter + 1},
             UNCHANGED connectionState \/ connectionState # "Connected"
      PROVE  WritesSent'
  <2>1. WritesSentInOrder'
    BY <1>1 DEF WritesSent, WritesSentInOrder
  <2>2. \A i \in DOMAIN sentPuts' : sentPuts'[i] <= putCounter'
    <3>1. \A i \in DOMAIN sentPuts : sentPuts[i] \in Nat
      BY <1>0 DEF PutIndices
    <3> QED
      BY <1>0, <1>1, <3>1 DEF WritesSent
  <2> QED
    BY <1>1, <2>1, <2>2 DEF WritesSent
<1>2. CASE Quiet
  BY <1>1, <1>2 DEF Quiet, connected
<1>3. CASE TearDown
  <2>1. sentPuts' = <<>> /\ DOMAIN sentPuts' = {}
    BY <1>3 DEF TearDown
  <2> QED
    BY <2>1 DEF WritesSent, WritesSentInOrder
<1>4. CASE Greeted \/ Reauthenticated
  BY <1>1, <1>4 DEF Greeted, Reauthenticated
<1>5. ASSUME NEW rn \in DOMAIN requestCBHash, Authenticated(rn) PROVE WritesSent'
  BY <1>1, <1>5, AuthenticatedConnected DEF Authenticated
<1>6. CASE Restored
  <2>1. PICK hash, sent : RestoreBase(hash, sent) /\ RestoreState(hash, sent)
    BY <1>6 DEF Restored
  <2>2. PICK ps \in Ascending(DOMAIN outstandingPuts) :
          sentPuts' = sentPuts \o ps /\ UNCHANGED putCounter
    BY <2>1 DEF RestoreState, PutsToRestore
  <2>3. sentPuts = <<>>
    BY <2>1, RestoreStartsClean DEF WritesSent
  <2>4. IsFiniteSet(DOMAIN outstandingPuts)
    BY Finiteness DEF TypeOK
  <2>5. /\ ps \in Seq(DOMAIN outstandingPuts) /\ DOMAIN ps = 1..Len(ps)
        /\ ps \in [1..Cardinality(DOMAIN outstandingPuts) -> DOMAIN outstandingPuts]
        /\ \A i, j \in 1..Cardinality(DOMAIN outstandingPuts) : i < j => ps[i] < ps[j]
    BY <2>4, EnumerationType DEF Ascending
  <2>6. sentPuts' = ps
    BY <2>2, <2>3, <2>5
  <2>7. \A i \in DOMAIN ps : ps[i] \in DOMAIN outstandingPuts
    BY <2>5
  <2>8. \A index \in DOMAIN outstandingPuts : index <= putCounter
    BY <1>0 DEF WritesAccounted
  <2>9. connectionState' = "Connected"
    BY <1>6 DEF Restored
  <2> QED
    BY <2>2, <2>5, <2>6, <2>7, <2>8, <2>9 DEF WritesSent, WritesSentInOrder
<1>7. ASSUME NEW hash \in BOOLEAN, PutInternal(hash) PROVE WritesSent'
  <2>1. CASE canSendWrites
    <3>1. /\ sentPuts' = Append(sentPuts, putCounter + 1) /\ putCounter' = putCounter + 1
          /\ putCounter + 1 \in PutIndices /\ UNCHANGED connectionState
      BY <1>0, <1>7, <2>1 DEF PutInternal, PutIndices, connVars
    <3>2. /\ DOMAIN sentPuts' = 1..(Len(sentPuts) + 1)
          /\ \A i \in 1..Len(sentPuts) : sentPuts'[i] = sentPuts[i]
          /\ sentPuts'[Len(sentPuts) + 1] = putCounter + 1
      BY <1>0, <3>1
    <3>3. \A i \in 1..Len(sentPuts) : sentPuts[i] \in Nat /\ sentPuts[i] <= putCounter
      BY <1>0 DEF WritesSent, PutIndices
    <3>4. \A i, j \in 1..(Len(sentPuts) + 1) : i < j => sentPuts'[i] < sentPuts'[j]
      <4> SUFFICES ASSUME NEW i \in 1..(Len(sentPuts) + 1), NEW j \in 1..(Len(sentPuts) + 1), i < j
                   PROVE  sentPuts'[i] < sentPuts'[j]
        OBVIOUS
      <4>1. i \in 1..Len(sentPuts) /\ (j \in 1..Len(sentPuts) \/ j = Len(sentPuts) + 1)
        BY <1>0
      <4>2. CASE j \in 1..Len(sentPuts)
        BY <1>0, <3>2, <4>1, <4>2 DEF WritesSent, WritesSentInOrder
      <4>3. CASE j = Len(sentPuts) + 1
        BY <1>0, <3>2, <3>3, <4>1, <4>3
      <4> QED
        BY <4>1, <4>2, <4>3
    <3>5. \A i \in 1..(Len(sentPuts) + 1) : sentPuts'[i] <= putCounter'
      <4>1. \A i \in 1..(Len(sentPuts) + 1) : i \in 1..Len(sentPuts) \/ i = Len(sentPuts) + 1
        BY <1>0
      <4> QED
        BY <1>0, <3>1, <3>2, <3>3, <4>1
    <3> QED
      BY <2>1, <3>1, <3>2, <3>4, <3>5 DEF WritesSent, WritesSentInOrder, canSendWrites
  <2>2. CASE ~canSendWrites
    BY <1>1, <1>7, <2>2 DEF PutInternal, connVars
  <2> QED
    BY <2>1, <2>2
<1>8. ASSUME UNCHANGED <<sentPuts, putCounter, connectionState>> PROVE WritesSent'
  BY <1>1, <1>8
<1>9. CASE TableStep
  BY <1>7, <1>8, <1>9 DEF TableStep, Listen, Unlisten, ListenRevoked, OnDisconnectOperation,
     PurgeOutstandingWrites, PutAnswered, ListenAnswered, OnDisconnectAnswered, StatsAnswered
<1> QED
  BY <1>2, <1>3, <1>4, <1>5, <1>6, <1>9, StepKinds

\* Every step leaves the outstanding writes of a restored connection in flight.
LEMMA NextInFlight ==
  ASSUME TypeOK, ConnectionInv, RestoreComesFirst, OutstandingWritesInFlight, [Next]_vars
  PROVE  OutstandingWritesInFlight'
<1> USE DEF putVars, requestVars
<1>0. RequestTypeOK
  BY DEF TypeOK
<1>1. ASSUME DOMAIN outstandingPuts' \subseteq DOMAIN outstandingPuts,
             connectionState' = "Connected" => connectionState = "Connected",
             \A rn \in Pending("put") :
               /\ rn \in DOMAIN requestCBHash' /\ requestCBHash'[rn] = requestCBHash[rn]
      PROVE  OutstandingWritesInFlight'
  BY <1>1 DEF OutstandingWritesInFlight, Pending
<1>2. CASE Quiet
  BY <1>1, <1>2 DEF Quiet, connected, Pending
<1>3. CASE TearDown \/ Greeted
  BY <1>3 DEF TearDown, Greeted, OutstandingWritesInFlight
<1>4. CASE Reauthenticated
  BY <1>0, <1>1, <1>4, SentRequest DEF Reauthenticated, Pending
<1>5. ASSUME NEW rn \in DOMAIN requestCBHash, Authenticated(rn) PROVE OutstandingWritesInFlight'
  <2>1. \A other \in Pending("put") : other \in DOMAIN requestCBHash \ {rn}
    BY <1>5 DEF Authenticated, Pending
  <2>2. connectionState = "Connected"
    BY <1>5, AuthenticatedConnected
  <2> QED
    BY <1>1, <1>5, <2>1, <2>2, AnsweredRequests DEF Authenticated
<1>6. CASE Restored
  <2>1. PICK hash, sent : RestoreBase(hash, sent) /\ RestoreState(hash, sent)
    BY <1>6 DEF Restored
  <2>2. PICK ls \in Enumerations(CurrentListens), ps \in Ascending(DOMAIN outstandingPuts) :
          RestoredWith(hash, sent, ls, ps)
    BY <2>1, RestoredRequests
  <2>3. PICK n, l, p, d : /\ n = requestNumber + Len(sent) /\ l = Len(ls) /\ p = Len(ps)
                          /\ d = Len(onDisconnectQueue)
    OBVIOUS
  <2>4. /\ n \in Nat /\ l \in Nat /\ p \in Nat
        /\ Pending("put")' = Pending("put") \cup (n + l + 1)..(n + l + p)
        /\ \A rn \in (n + l + 1)..(n + l + p) : requestCBHash'[rn].id = ps[rn - (n + l)]
    BY <2>1, <2>2, <2>3, RestoredPending
  <2>5. DOMAIN outstandingPuts' = DOMAIN outstandingPuts
    BY <2>2 DEF RestoredWith
  <2>6. DOMAIN outstandingPuts \in SUBSET Nat /\ IsFiniteSet(DOMAIN outstandingPuts)
    BY Finiteness DEF TypeOK, PutTypeOK, PutIndices
  <2>7. ASSUME NEW index \in DOMAIN outstandingPuts
        PROVE  \E rn \in Pending("put")' : requestCBHash'[rn].id = index
    <3>1. PICK i \in 1..p : ps[i] = index
      BY <2>3, <2>6, AscendingCovers
    <3>2. n + l + i \in (n + l + 1)..(n + l + p) /\ (n + l + i) - (n + l) = i
      BY <2>4
    <3>3. requestCBHash'[n + l + i].id = ps[(n + l + i) - (n + l)]
      BY <2>4, <3>2
    <3> QED
      BY <2>4, <3>1, <3>2, <3>3
  <2> QED
    BY <2>5, <2>7 DEF OutstandingWritesInFlight
<1>7. ASSUME NEW hash \in BOOLEAN, PutInternal(hash) PROVE OutstandingWritesInFlight'
  <2>1. CASE canSendWrites
    <3>1. /\ SendActions(requestCBHash, <<Callback("put", putCounter')>>)
          /\ DOMAIN outstandingPuts' = DOMAIN outstandingPuts \cup {putCounter'}
          /\ connectionState = "Connected"
      BY <1>7, <2>1 DEF PutInternal, canSendWrites
    <3>2. /\ DOMAIN requestCBHash' = DOMAIN requestCBHash \cup {requestNumber + 1}
          /\ \A rn \in DOMAIN requestCBHash : requestCBHash'[rn] = requestCBHash[rn]
          /\ requestCBHash'[requestNumber + 1] = Callback("put", putCounter')
      BY <1>0, <3>1, SentRequest
    <3>3. requestNumber + 1 \in Pending("put")' /\ requestCBHash'[requestNumber + 1].id = putCounter'
      BY <3>2 DEF Pending, Callback
    <3>4. \A index \in DOMAIN outstandingPuts :
            \E rn \in Pending("put")' : requestCBHash'[rn].id = index
      BY <3>1, <3>2 DEF OutstandingWritesInFlight, Pending
    <3> QED
      BY <3>1, <3>3, <3>4 DEF OutstandingWritesInFlight
  <2>2. CASE ~canSendWrites
    BY <1>7, <2>2 DEF PutInternal, canSendWrites, connVars, OutstandingWritesInFlight
  <2> QED
    BY <2>1, <2>2
<1>8. ASSUME NEW rn \in DOMAIN requestCBHash, PutAnswered(rn) PROVE OutstandingWritesInFlight'
  <2> DEFINE index == requestCBHash[rn].id
  <2>1. requestCBHash' = Answered(rn) /\ UNCHANGED connectionState
    BY <1>8 DEF PutAnswered, connVars
  <2>2. DOMAIN outstandingPuts' \subseteq DOMAIN outstandingPuts \ {index}
    BY <1>8 DEF PutAnswered, StillOutstanding, Remove
  <2>3. \A other \in Pending("put") : requestCBHash[other].id # index => other \in Pending("put")'
    BY <2>1, AnsweredRequests DEF Pending
  <2>4. \A other \in DOMAIN requestCBHash' : requestCBHash'[other] = requestCBHash[other]
    BY <2>1, AnsweredRequests
  <2> QED
    BY <2>1, <2>2, <2>3, <2>4 DEF OutstandingWritesInFlight, Pending
<1>9. ASSUME NEW rn \in DOMAIN requestCBHash,
             \/ \E ok \in BOOLEAN : ListenAnswered(rn, ok)
             \/ OnDisconnectAnswered(rn) \/ StatsAnswered(rn)
      PROVE  OutstandingWritesInFlight'
  <2>1. /\ requestCBHash' = Answered(rn) /\ requestCBHash[rn].kind # "put"
        /\ UNCHANGED <<outstandingPuts, connectionState>>
    BY <1>9 DEF ListenAnswered, OnDisconnectAnswered, StatsAnswered, connVars
  <2> QED
    BY <1>1, <2>1, AnsweredRequests DEF Pending
<1>10. ASSUME NEW query \in Queries, Listen(query) \/ Unlisten(query) \/ ListenRevoked(query[1])
       PROVE  OutstandingWritesInFlight'
  <2>1. UNCHANGED <<outstandingPuts, connectionState>>
    BY <1>10 DEF Listen, Unlisten, ListenRevoked, connVars
  <2>2. \/ UNCHANGED requestCBHash
        \/ SendActions(requestCBHash, <<Callback("listen", listenCounter')>>)
    BY <1>10 DEF Listen, Unlisten, ListenRevoked, SendWithoutCallback
  <2> QED
    BY <1>0, <1>1, <2>1, <2>2, SentRequest DEF Pending
<1>11. CASE OnDisconnectOperation
  <2>1. UNCHANGED <<outstandingPuts, connectionState>>
    BY <1>11 DEF OnDisconnectOperation, connVars
  <2>2. \/ UNCHANGED requestCBHash
        \/ SendActions(requestCBHash, <<Callback("onDisconnect", onDisconnectCounter')>>)
    BY <1>11 DEF OnDisconnectOperation
  <2> QED
    BY <1>0, <1>1, <2>1, <2>2, SentRequest DEF Pending
<1>12. CASE PurgeOutstandingWrites
  <2>1. DOMAIN outstandingPuts' = {}
    BY <1>12 DEF PurgeOutstandingWrites, Remove
  <2> QED
    BY <2>1 DEF OutstandingWritesInFlight
<1>13. CASE TableStep
  BY <1>7, <1>8, <1>9, <1>10, <1>11, <1>12, <1>13 DEF TableStep
<1> QED
  BY <1>2, <1>3, <1>4, <1>5, <1>6, <1>13, StepKinds

\* The books of the writes balance in every reachable state.
LEMMA BooksInvariant == Spec => [](WritesAccounted /\ UnissuedWrites)
<1>1. Init => WritesAccounted /\ UnissuedWrites
  <2> SUFFICES ASSUME Init PROVE WritesAccounted /\ UnissuedWrites
    OBVIOUS
  <2>1. /\ DOMAIN outstandingPuts = {} /\ PendingAcks = {} /\ DOMAIN putsToAck = {}
        /\ putCounter = 0 /\ \A index \in PutIndices : completions[index] = 0
    BY DEF Init, PendingAcks
  <2>2. \A index \in PutIndices : ~(index <= 0)
    BY DEF PutIndices
  <2> QED
    BY <2>1, <2>2 DEF WritesAccounted, UnissuedWrites
<1>2. TypeOK /\ ConnectionInv /\ WritesAccounted /\ UnissuedWrites /\ [Next]_vars
        => WritesAccounted' /\ UnissuedWrites'
  BY NextBooks
<1> QED
  BY <1>1, <1>2, TypeCorrect, ConnectionInvariant, PTL DEF Spec

\* No write is lost or completed twice, whatever order answers, disconnects,
\* purges and cancelled transactions come in, and on a connection that is ready
\* every outstanding write has a request waiting for its answer.
THEOREM WritesSound == Spec => []PutsSound
<1>1. Init => OutstandingWritesInFlight
  BY DEF Init, OutstandingWritesInFlight
<1>2. TypeOK /\ ConnectionInv /\ RestoreComesFirst /\ OutstandingWritesInFlight /\ [Next]_vars
        => OutstandingWritesInFlight'
  BY NextInFlight
<1>3. WritesAccounted /\ OutstandingWritesInFlight => PutsSound
  BY DEF PutsSound
<1> QED
  BY <1>1, <1>2, <1>3, TypeCorrect, ConnectionInvariant, RestoreInvariant, BooksInvariant, PTL
  DEF Spec

\* On each connection the writes go out in the order the application issued them,
\* each once: re-sending after a reconnect never overtakes or repeats one.
THEOREM WritesOrdered == Spec => []WritesSentInOrder
<1>1. Init => WritesSent
  BY DEF Init, WritesSent, WritesSentInOrder
<1>2. TypeOK /\ ConnectionInv /\ RestoreComesFirst /\ WritesAccounted /\ WritesSent /\ [Next]_vars
        => WritesSent'
  BY NextSent
<1>3. WritesSent => WritesSentInOrder
  BY DEF WritesSent
<1> QED
  BY <1>1, <1>2, <1>3, TypeCorrect, ConnectionInvariant, RestoreInvariant, BooksInvariant, PTL
  DEF Spec

-----------------------------------------------------------------------------
(* On-disconnect operations. *)

\* An operation waits in at most one place of the queue, and has not run.
QueuedOnce ==
  \A i \in DOMAIN onDisconnectQueue :
    /\ onDisconnectQueue[i] <= onDisconnectCounter
    /\ onDisconnectDone[onDisconnectQueue[i]] = 0
    /\ \A j \in DOMAIN onDisconnectQueue : onDisconnectQueue[i] = onDisconnectQueue[j] => i = j

\* An operation that was sent awaits one answer, has not run, and is not queued.
SentOnce ==
  \A rn \in Pending("onDisconnect") :
    /\ requestCBHash[rn].id <= onDisconnectCounter
    /\ onDisconnectDone[requestCBHash[rn].id] = 0
    /\ \A i \in DOMAIN onDisconnectQueue : onDisconnectQueue[i] # requestCBHash[rn].id
    /\ \A other \in Pending("onDisconnect") :
         requestCBHash[other].id = requestCBHash[rn].id => other = rn

OperationsAccounted ==
  /\ QueuedOnce /\ SentOnce /\ OnDisconnectAtMostOnce
  /\ \A op \in 1..MaxOnDisconnects : op > onDisconnectCounter => onDisconnectDone[op] = 0

\* Every step keeps each operation in one place.
LEMMA NextOperations ==
  ASSUME TypeOK, ConnectionInv, OperationsAccounted, [Next]_vars
  PROVE  OperationsAccounted'
<1> USE DEF onDisconnectVars, requestVars
<1>0. /\ RequestTypeOK /\ MaxOnDisconnects \in Nat
      /\ onDisconnectCounter \in Nat /\ onDisconnectCounter <= MaxOnDisconnects
      /\ onDisconnectQueue \in Seq(1..MaxOnDisconnects) /\ Len(onDisconnectQueue) \in Nat
      /\ DOMAIN onDisconnectQueue = 1..Len(onDisconnectQueue)
      /\ \A i \in DOMAIN onDisconnectQueue : onDisconnectQueue[i] \in 1..MaxOnDisconnects
      /\ onDisconnectDone \in [1..MaxOnDisconnects -> Nat]
      /\ \A rn \in Pending("onDisconnect") : requestCBHash[rn].id \in 1..MaxOnDisconnects
  BY ConnectionAssumption DEF TypeOK, RequestTypeOK, OnDisconnectTypeOK, Pending
<1>1. ASSUME Pending("onDisconnect")' \subseteq Pending("onDisconnect"),
             \A rn \in Pending("onDisconnect")' : requestCBHash'[rn] = requestCBHash[rn],
             UNCHANGED onDisconnectVars
      PROVE  OperationsAccounted'
  <2>1. QueuedOnce' /\ OnDisconnectAtMostOnce'
        /\ \A op \in 1..MaxOnDisconnects : op > onDisconnectCounter' => onDisconnectDone'[op] = 0
    BY <1>1 DEF OperationsAccounted, QueuedOnce, OnDisconnectAtMostOnce
  <2>2. SentOnce'
    BY <1>1 DEF OperationsAccounted, SentOnce
  <2> QED
    BY <2>1, <2>2 DEF OperationsAccounted
<1>2. ASSUME UNCHANGED requestCBHash, UNCHANGED onDisconnectVars PROVE OperationsAccounted'
  BY <1>1, <1>2 DEF Pending
<1>3. ASSUME NEW rn \in DOMAIN requestCBHash, requestCBHash' = Answered(rn),
             UNCHANGED onDisconnectVars
      PROVE  OperationsAccounted'
  BY <1>1, <1>3, AnsweredRequests DEF Pending
<1>4. ASSUME NEW cb, SendActions(requestCBHash, <<cb>>), cb.kind # "onDisconnect",
             UNCHANGED onDisconnectVars
      PROVE  OperationsAccounted'
  BY <1>0, <1>1, <1>4, SentRequest DEF Pending
<1>5. \A id : /\ Callback("listen", id).kind = "listen" /\ Callback("put", id).kind = "put"
              /\ Callback("auth", id).kind = "auth"
  BY DEF Callback
<1>6. CASE Quiet \/ Reauthenticated \/ \E rn \in DOMAIN requestCBHash : Authenticated(rn)
  BY <1>2, <1>3, <1>4, <1>5, <1>6 DEF Quiet, Reauthenticated, Authenticated
<1>7. CASE TearDown
  BY <1>1, <1>7 DEF TearDown, Pending
<1>8. CASE Greeted
  <2>1. Pending("onDisconnect")' = {}
    BY <1>8, GreetedRequests DEF CallbackKinds
  <2> QED
    BY <1>1, <1>8, <2>1 DEF Greeted
<1>9. CASE Restored
  <2>1. PICK hash, sent : RestoreBase(hash, sent) /\ RestoreState(hash, sent)
    BY <1>9 DEF Restored
  <2>2. PICK ls \in Enumerations(CurrentListens), ps \in Ascending(DOMAIN outstandingPuts) :
          RestoredWith(hash, sent, ls, ps)
    BY <2>1, RestoredRequests
  <2>3. PICK n, l, p, d : /\ n = requestNumber + Len(sent) /\ l = Len(ls) /\ p = Len(ps)
                          /\ d = Len(onDisconnectQueue)
    OBVIOUS
  <2>4. PICK m : m = n + l + p
    OBVIOUS
  <2>5. /\ m \in Nat /\ d \in Nat /\ requestNumber \in Nat /\ m >= requestNumber
        /\ \A rn \in DOMAIN requestCBHash : rn \in 1..requestNumber
        /\ Pending("onDisconnect")' = Pending("onDisconnect") \cup (m + 1)..(m + d)
        /\ \A rn \in DOMAIN hash : requestCBHash'[rn] = requestCBHash[rn]
        /\ \A rn \in (m + 1)..(m + d) : requestCBHash'[rn].id = onDisconnectQueue[rn - m]
    <3>1. /\ n \in Nat /\ l \in Nat /\ p \in Nat /\ d \in Nat /\ n >= requestNumber
          /\ \A rn \in DOMAIN requestCBHash : rn \in 1..requestNumber
          /\ Pending("onDisconnect")' =
               Pending("onDisconnect") \cup (n + l + p + 1)..(n + l + p + d)
          /\ \A rn \in DOMAIN hash : requestCBHash'[rn] = requestCBHash[rn]
          /\ \A rn \in (n + l + p + 1)..(n + l + p + d) :
               requestCBHash'[rn].id = onDisconnectQueue[rn - (n + l + p)]
      BY <2>1, <2>2, <2>3, RestoredPending
    <3>2. requestNumber \in Nat
      BY <1>0 DEF RequestTypeOK
    <3>3. m \in Nat /\ m >= requestNumber
      BY <2>4, <3>1, <3>2
    <3> QED
      BY <2>4, <3>1, <3>2, <3>3
  <2>6. \A rn \in Pending("onDisconnect") : rn \in DOMAIN hash /\ requestCBHash'[rn] = requestCBHash[rn]
    BY <2>1, <2>5, BaseRequests DEF Pending
  <2>7. /\ onDisconnectQueue' = <<>> /\ DOMAIN onDisconnectQueue' = {}
        /\ UNCHANGED <<onDisconnectCounter, onDisconnectDone>>
    BY <2>2 DEF RestoredWith
  <2>8. \A rn \in (m + 1)..(m + d) : rn - m \in DOMAIN onDisconnectQueue /\ rn \notin Pending("onDisconnect")
    BY <1>0, <2>3, <2>5 DEF Pending
  <2>9. \A rn, other \in (m + 1)..(m + d) : rn - m = other - m => rn = other
    BY <2>5
  <2>10. SentOnce'
    <3> SUFFICES ASSUME NEW rn \in Pending("onDisconnect") \cup (m + 1)..(m + d)
                 PROVE  /\ requestCBHash'[rn].id <= onDisconnectCounter
                        /\ onDisconnectDone[requestCBHash'[rn].id] = 0
                        /\ \A other \in Pending("onDisconnect") \cup (m + 1)..(m + d) :
                             requestCBHash'[other].id = requestCBHash'[rn].id => other = rn
      BY <2>5, <2>7 DEF SentOnce
    <3>1. CASE rn \in Pending("onDisconnect")
      BY <2>5, <2>6, <2>8, <3>1 DEF OperationsAccounted, SentOnce
    <3>2. CASE rn \in (m + 1)..(m + d)
      <4>1. /\ requestCBHash'[rn].id <= onDisconnectCounter
            /\ onDisconnectDone[requestCBHash'[rn].id] = 0
        BY <2>5, <2>8, <3>2 DEF OperationsAccounted, QueuedOnce
      <4>2. ASSUME NEW other \in (m + 1)..(m + d), requestCBHash'[other].id = requestCBHash'[rn].id
            PROVE  other = rn
        BY <2>5, <2>8, <2>9, <3>2, <4>2 DEF OperationsAccounted, QueuedOnce
      <4>3. ASSUME NEW other \in Pending("onDisconnect")
            PROVE  requestCBHash'[other].id # requestCBHash'[rn].id
        BY <2>5, <2>6, <2>8, <3>2 DEF OperationsAccounted, SentOnce
      <4> QED
        BY <4>1, <4>2, <4>3
    <3> QED
      BY <3>1, <3>2
  <2>11. QueuedOnce' /\ OnDisconnectAtMostOnce'
         /\ \A op \in 1..MaxOnDisconnects : op > onDisconnectCounter' => onDisconnectDone'[op] = 0
    BY <2>7 DEF QueuedOnce, OperationsAccounted, OnDisconnectAtMostOnce
  <2> QED
    BY <2>10, <2>11 DEF OperationsAccounted
<1>10. CASE OnDisconnectOperation
  <2>1. /\ onDisconnectCounter' = onDisconnectCounter + 1 /\ UNCHANGED onDisconnectDone
        /\ onDisconnectCounter' \in 1..MaxOnDisconnects
    BY <1>0, <1>10 DEF OnDisconnectOperation
  <2>2. /\ onDisconnectDone[onDisconnectCounter'] = 0
        /\ \A i \in DOMAIN onDisconnectQueue : onDisconnectQueue[i] # onDisconnectCounter'
        /\ \A rn \in Pending("onDisconnect") : requestCBHash[rn].id # onDisconnectCounter'
    BY <1>0, <2>1 DEF OperationsAccounted, QueuedOnce, SentOnce
  <2>3. /\ OnDisconnectAtMostOnce'
        /\ \A op \in 1..MaxOnDisconnects : op > onDisconnectCounter' => onDisconnectDone'[op] = 0
    BY <1>0, <2>1 DEF OperationsAccounted, OnDisconnectAtMostOnce
  <2>4. /\ \A i \in DOMAIN onDisconnectQueue : onDisconnectQueue[i] <= onDisconnectCounter'
        /\ \A rn \in Pending("onDisconnect") : requestCBHash[rn].id <= onDisconnectCounter'
    BY <1>0, <2>1 DEF OperationsAccounted, QueuedOnce, SentOnce
  <2>5. CASE canSendWrites
    <3>1. /\ SendActions(requestCBHash, <<Callback("onDisconnect", onDisconnectCounter')>>)
          /\ UNCHANGED onDisconnectQueue
      BY <1>10, <2>5 DEF OnDisconnectOperation
    <3>2. Callback("onDisconnect", onDisconnectCounter').kind = "onDisconnect"
          /\ Callback("onDisconnect", onDisconnectCounter').id = onDisconnectCounter'
      BY DEF Callback
    <3>3. /\ Pending("onDisconnect")' = Pending("onDisconnect") \cup {requestNumber + 1}
          /\ requestNumber + 1 \notin Pending("onDisconnect")
          /\ \A rn \in Pending("onDisconnect") : requestCBHash'[rn] = requestCBHash[rn]
          /\ requestCBHash'[requestNumber + 1].id = onDisconnectCounter'
      BY <1>0, <3>1, <3>2, SentRequest DEF Pending
    <3>4. SentOnce'
      <4> SUFFICES ASSUME NEW rn \in Pending("onDisconnect") \cup {requestNumber + 1}
                   PROVE  /\ requestCBHash'[rn].id <= onDisconnectCounter'
                          /\ onDisconnectDone[requestCBHash'[rn].id] = 0
                          /\ \A i \in DOMAIN onDisconnectQueue :
                               onDisconnectQueue[i] # requestCBHash'[rn].id
                          /\ \A other \in Pending("onDisconnect") \cup {requestNumber + 1} :
                               requestCBHash'[other].id = requestCBHash'[rn].id => other = rn
        BY <2>1, <3>1, <3>3 DEF SentOnce
      <4>1. CASE rn \in Pending("onDisconnect")
        BY <2>2, <2>4, <3>3, <4>1 DEF OperationsAccounted, SentOnce
      <4>2. CASE rn = requestNumber + 1
        <5>1. requestCBHash'[rn].id = onDisconnectCounter'
          BY <3>3, <4>2
        <5>2. \A other \in Pending("onDisconnect") : requestCBHash'[other].id # onDisconnectCounter'
          BY <2>2, <3>3
        <5>3. onDisconnectCounter' <= onDisconnectCounter'
          BY <1>0, <2>1
        <5> QED
          BY <2>2, <4>2, <5>1, <5>2, <5>3
      <4> QED
        BY <4>1, <4>2
    <3>5. QueuedOnce'
      BY <2>1, <2>4, <3>1 DEF OperationsAccounted, QueuedOnce
    <3> QED
      BY <2>3, <3>4, <3>5 DEF OperationsAccounted
  <2>6. CASE ~canSendWrites
    <3>1. /\ onDisconnectQueue' = Append(onDisconnectQueue, onDisconnectCounter')
          /\ UNCHANGED requestCBHash
      BY <1>10, <2>6 DEF OnDisconnectOperation
    <3> DEFINE k == Len(onDisconnectQueue) + 1
    <3>2. /\ DOMAIN onDisconnectQueue' = DOMAIN onDisconnectQueue \cup {k}
          /\ k \notin DOMAIN onDisconnectQueue
          /\ \A i \in DOMAIN onDisconnectQueue : onDisconnectQueue'[i] = onDisconnectQueue[i]
          /\ onDisconnectQueue'[k] = onDisconnectCounter'
      BY <1>0, <2>1, <3>1
    <3> HIDE DEF k
    <3>3. Pending("onDisconnect")' = Pending("onDisconnect")
      BY <3>1 DEF Pending
    <3>4. QueuedOnce'
      BY <1>0, <2>1, <2>2, <2>4, <3>2 DEF OperationsAccounted, QueuedOnce
    <3>5. SentOnce'
      BY <2>1, <2>2, <2>4, <3>1, <3>2, <3>3 DEF OperationsAccounted, SentOnce
    <3> QED
      BY <2>3, <3>4, <3>5 DEF OperationsAccounted
  <2> QED
    BY <2>5, <2>6
<1>11. CASE PurgeOutstandingWrites
  <2>1. /\ UNCHANGED <<onDisconnectCounter, requestCBHash>>
        /\ onDisconnectQueue' = <<>> /\ DOMAIN onDisconnectQueue' = {}
        /\ \A op \in 1..MaxOnDisconnects : onDisconnectDone'[op] =
             IF \E i \in DOMAIN onDisconnectQueue : onDisconnectQueue[i] = op
               THEN onDisconnectDone[op] + 1 ELSE onDisconnectDone[op]
    BY <1>11 DEF PurgeOutstandingWrites
  <2>2. QueuedOnce'
    BY <2>1 DEF QueuedOnce
  <2>3. SentOnce'
    BY <1>0, <2>1 DEF OperationsAccounted, SentOnce, Pending
  <2>4. OnDisconnectAtMostOnce'
    BY <1>0, <2>1 DEF OperationsAccounted, QueuedOnce, OnDisconnectAtMostOnce
  <2>5. \A op \in 1..MaxOnDisconnects : op > onDisconnectCounter' => onDisconnectDone'[op] = 0
    BY <1>0, <2>1 DEF OperationsAccounted, QueuedOnce
  <2> QED
    BY <2>2, <2>3, <2>4, <2>5 DEF OperationsAccounted
<1>12. ASSUME NEW rn \in DOMAIN requestCBHash, OnDisconnectAnswered(rn) PROVE OperationsAccounted'
  <2> DEFINE id == requestCBHash[rn].id
  <2>1. /\ rn \in Pending("onDisconnect") /\ id \in 1..MaxOnDisconnects
        /\ requestCBHash' = Answered(rn)
        /\ onDisconnectDone' = [onDisconnectDone EXCEPT ![id] = @ + 1]
        /\ UNCHANGED <<onDisconnectQueue, onDisconnectCounter>>
    BY <1>0, <1>12 DEF OnDisconnectAnswered, Pending
  <2>2. /\ Pending("onDisconnect")' = Pending("onDisconnect") \ {rn}
        /\ \A other \in Pending("onDisconnect")' : requestCBHash'[other] = requestCBHash[other]
    BY <2>1, AnsweredRequests DEF Pending
  <2>3. /\ onDisconnectDone[id] = 0 /\ id <= onDisconnectCounter
        /\ \A i \in DOMAIN onDisconnectQueue : onDisconnectQueue[i] # id
        /\ \A other \in Pending("onDisconnect") \ {rn} : requestCBHash[other].id # id
    BY <2>1 DEF OperationsAccounted, SentOnce
  <2> HIDE DEF id
  <2>4. \A op \in 1..MaxOnDisconnects :
          onDisconnectDone'[op] = IF op = id THEN 1 ELSE onDisconnectDone[op]
    BY <1>0, <2>1, <2>3
  <2>5. QueuedOnce'
    BY <1>0, <2>1, <2>3, <2>4 DEF OperationsAccounted, QueuedOnce
  <2>6. SentOnce'
    <3> SUFFICES ASSUME NEW other \in Pending("onDisconnect") \ {rn}
                 PROVE  /\ requestCBHash[other].id <= onDisconnectCounter
                        /\ onDisconnectDone'[requestCBHash[other].id] = 0
                        /\ \A i \in DOMAIN onDisconnectQueue :
                             onDisconnectQueue[i] # requestCBHash[other].id
                        /\ \A third \in Pending("onDisconnect") :
                             requestCBHash[third].id = requestCBHash[other].id => third = other
      BY <2>1, <2>2 DEF SentOnce
    <3> QED
      BY <1>0, <2>3, <2>4 DEF OperationsAccounted, SentOnce
  <2>7. /\ OnDisconnectAtMostOnce'
        /\ \A op \in 1..MaxOnDisconnects : op > onDisconnectCounter' => onDisconnectDone'[op] = 0
    BY <1>0, <2>1, <2>3, <2>4 DEF OperationsAccounted, OnDisconnectAtMostOnce
  <2> QED
    BY <2>5, <2>6, <2>7 DEF OperationsAccounted
<1>13. ASSUME \/ \E query \in Queries : Listen(query) \/ Unlisten(query) \/ ListenRevoked(query[1])
              \/ \E hash \in BOOLEAN : PutInternal(hash)
       PROVE  OperationsAccounted'
  <2>1. UNCHANGED onDisconnectVars
    BY <1>13 DEF Listen, Unlisten, ListenRevoked, PutInternal
  <2>2. \/ UNCHANGED requestCBHash
        \/ SendActions(requestCBHash, <<Callback("listen", listenCounter')>>)
        \/ SendActions(requestCBHash, <<Callback("put", putCounter')>>)
    BY <1>13 DEF Listen, Unlisten, ListenRevoked, PutInternal, SendWithoutCallback
  <2> QED
    BY <1>2, <1>4, <1>5, <2>1, <2>2
<1>14. ASSUME NEW rn \in DOMAIN requestCBHash,
              \/ PutAnswered(rn) \/ \E ok \in BOOLEAN : ListenAnswered(rn, ok) \/ StatsAnswered(rn)
       PROVE  OperationsAccounted'
  BY <1>3, <1>14 DEF PutAnswered, ListenAnswered, StatsAnswered
<1>15. CASE TableStep
  BY <1>10, <1>11, <1>12, <1>13, <1>14, <1>15 DEF TableStep
<1> QED
  BY <1>6, <1>7, <1>8, <1>9, <1>15, StepKinds

\* The callback of an on-disconnect operation runs at most once: an operation is
\* queued, sent or done, and a purge, a reconnect or a late answer finds it in
\* only one of these places.
THEOREM OperationsOnce == Spec => []OnDisconnectAtMostOnce
<1>1. Init => OperationsAccounted
  BY DEF Init, OperationsAccounted, QueuedOnce, SentOnce, OnDisconnectAtMostOnce, Pending
<1>2. TypeOK /\ ConnectionInv /\ OperationsAccounted /\ [Next]_vars => OperationsAccounted'
  BY NextOperations
<1>3. OperationsAccounted => OnDisconnectAtMostOnce
  BY DEF OperationsAccounted
<1> QED
  BY <1>1, <1>2, <1>3, TypeCorrect, ConnectionInvariant, PTL DEF Spec
=============================================================================
