---------------------------- MODULE Transactions ----------------------------
(***************************************************************************)
(* The transactions of FRepo: optimistic updates that are run locally,     *)
(* sent with a hash of the data they read, run again when that data was    *)
(* stale, and aborted by a set: or update: that touches the same place.    *)
(*                                                                         *)
(* FRepo works on one serial queue, so a handler is one step; a handler    *)
(* calls others (a put's callback prunes, sends, reruns and sends again),  *)
(* so each method is an operator from FRepo's state to FRepo's state and   *)
(* an action composes them.  The completion blocks and events of the       *)
(* application run on another queue, later, and do not re-enter.           *)
(*                                                                         *)
(* Data is left out.  A transaction is its order; its block succeeds or    *)
(* aborts, and a successful block is taken to write a new value.  A write  *)
(* id is the transaction or set: it belongs to: a rerun replaces the one   *)
(* by the next in the same step.  External: the connection, which ends     *)
(* every put with a status, at once or held until the listens are acked.   *)
(***************************************************************************)
EXTENDS Naturals, Sequences, FiniteSets
LOCAL INSTANCE SequencesExt

CONSTANTS
  Paths,              \* the tree's paths, as sequences of keys; closed under prefix
  MaxTransactions,    \* transactions the application starts
  MaxSets,            \* calls of set: and update:
  MaxPushes,          \* pushes of the server, disconnects and purges
  TransactionMaxRetries

ASSUME TransactionsAssumption ==
  /\ MaxTransactions \in Nat /\ MaxSets \in Nat /\ MaxPushes \in Nat
  /\ TransactionMaxRetries \in Nat \ {0}
  /\ <<>> \in Paths
  /\ \A path \in Paths : \A n \in 0..Len(path) : SubSeq(path, 1, n) \in Paths

VARIABLES
  repo,         \* FRepo's state, see RepoTypeOK
  started,      \* transactions started
  setCount,     \* set: and update: calls made
  pushes        \* bound on pushes, disconnects and purges

transactionsVars == <<repo, started, setCount, pushes>>

Transaction == 1..MaxTransactions
SetIds == (MaxTransactions + 1)..(MaxTransactions + MaxSets)

TransactionsInit ==
  /\ repo = [status       |-> [t \in Transaction |-> "Initializing"],
             path         |-> [t \in Transaction |-> <<>>],
             retryCount   |-> [t \in Transaction |-> 0],
             canceled     |-> {},       \* abortStatus is write_canceled
             completions  |-> [t \in Transaction |-> 0],
             tree         |-> [path \in Paths |-> <<>>],   \* transactionQueueTree
             writes       |-> {},       \* the sync tree's pending writes
             puts         |-> <<>>,     \* the connection's outstanding puts
             held         |-> <<>>,     \* answered, waiting in putsToAck
             unraised     |-> {},       \* history: data changed, no event raised
             crashed      |-> FALSE]    \* acknowledged a write that does not exist
  /\ started = 0 /\ setCount = 0 /\ pushes = 0

-----------------------------------------------------------------------------
(* The transaction queue tree. *)

\* buildTransactionQueueAtNode
BuildQueue(r, node) ==
  SetToSortSeq(UNION {ToSet(r.tree[path]) : path \in {p \in Paths : IsPrefix(node, p)}}, <)

\* getAncestorTransactionNodeForPath: the topmost node with a queue, or path.
AncestorNode(r, path) ==
  LET lengths == {n \in 0..Len(path) : n = Len(path) \/ r.tree[SubSeq(path, 1, n)] # <<>>}
  IN  SubSeq(path, 1, CHOOSE n \in lengths : \A m \in lengths : n <= m)

\* pruneCompletedTransactionsBelowNode
Prune(r, node) ==
  LET Unfinished(t) == r.status[t] # "Completed"
  IN  [r EXCEPT !.tree = [path \in Paths |->
                            IF IsPrefix(node, path) THEN SelectSeq(r.tree[path], Unfinished)
                                                    ELSE r.tree[path]]]

\* ackUserWriteWithWriteId: throws when the sync tree has no such write.
Ack(r, write) == [r EXCEPT !.writes = @ \ {write}, !.crashed = @ \/ write \notin r.writes]

AckAll(r, queue) == FoldLeft(Ack, r, queue)

\* onComplete, scheduled; the unwatcher runs with it.
CompleteAll(r, queue) ==
  [r EXCEPT !.completions = [t \in Transaction |->
                               IF t \in ToSet(queue) THEN @[t] + 1 ELSE @[t]]]

SetStatus(r, queue, status) ==
  [r EXCEPT !.status = [t \in Transaction |-> IF t \in ToSet(queue) THEN status ELSE @[t]]]

-----------------------------------------------------------------------------
(* Sending. *)

\* sendTransactionQueue
SendQueue(r, node) ==
  LET queue == BuildQueue(r, node)
      sent  == SetStatus(r, queue, "Sent")
  IN  [sent EXCEPT
         !.retryCount = [t \in Transaction |-> IF t \in ToSet(queue) THEN @[t] + 1 ELSE @[t]],
         !.puts = Append(@, [set |-> FALSE, path |-> node, queue |-> queue])]

\* Mutants of AllRun: sends a queue when any transaction of it is ready to go;
\* never sends.
SomeRun(r, queue) == \E i \in DOMAIN queue : r.status[queue[i]] = "Run"
NoneRun(r, queue) == \A i \in DOMAIN queue : r.status[queue[i]] # "Run"

AllRun(r, queue) == \A i \in DOMAIN queue : r.status[queue[i]] = "Run"

\* sendReadyTransactionsForTree visits the topmost nodes with a queue, siblings
\* in any order.
SendAllReady(r) ==
  LET pruned == Prune(r, <<>>)
      ready  == {node \in Paths : /\ pruned.tree[node] # <<>>
                                  /\ AncestorNode(pruned, node) = node
                                  /\ AllRun(pruned, BuildQueue(pruned, node))}
  IN  FoldLeft(SendQueue, pruned, SetToSeq(ready))

-----------------------------------------------------------------------------
(* Rerunning. *)

TooManyRetries(r, t) == r.retryCount[t] >= TransactionMaxRetries

\* Mutant of AbortUnrun: the write of a transaction that fails is kept.
AbortKeepingWrite(r, t) == CompleteAll(SetStatus(r, <<t>>, "Completed"), <<t>>)

\* A transaction that ends in a rerun: its write is reverted.
AbortUnrun(r, t) ==
  CompleteAll(SetStatus(Ack(r, t), <<t>>, "Completed"), <<t>>)

\* One pass of rerunTransactionQueue's loop.  aborting are the transactions
\* whose block, if it runs now, aborts.
RerunOne(r, t, aborting) ==
  CASE r.status[t] = "NeedsAbort" /\ t \in r.canceled ->
         CompleteAll(SetStatus(r, <<t>>, "Completed"), <<t>>)
    [] \/ r.status[t] = "NeedsAbort" /\ t \notin r.canceled
       \/ r.status[t] = "Run" /\ (TooManyRetries(r, t) \/ t \in aborting) ->
         AbortUnrun(r, t)
    [] r.status[t] = "Run" /\ ~TooManyRetries(r, t) /\ t \notin aborting ->
         [Ack(r, t) EXCEPT !.writes = @ \cup {t}]
    [] OTHER -> r

\* Which data changes of the loop raise no event: events is nil after the first
\* pass.
Unraised(r, queue) ==
  {queue[i] : i \in {j \in DOMAIN queue : j > 1 /\ \/ r.status[queue[j]] = "Run"
                                                    \/ /\ r.status[queue[j]] = "NeedsAbort"
                                                       /\ queue[j] \notin r.canceled}}

\* rerunTransactionsForPath and rerunTransactionQueue
Rerun(r, path, aborting) ==
  LET queue == BuildQueue(r, AncestorNode(r, path))
      loop  == FoldLeft(LAMBDA s, t : RerunOne(s, t, aborting), r, queue)
  IN  IF queue = <<>> THEN r
      ELSE SendAllReady(Prune([loop EXCEPT !.unraised = @ \cup Unraised(r, queue)], <<>>))

-----------------------------------------------------------------------------
(* Aborting. *)

\* What stays in the queue: nothing when lastSent is -1, else as many as there
\* are Sent transactions.
Dropped(queue, sent) == SubSeq(queue, 1, Cardinality(sent))

\* abortTransactionsAtNode
AbortAtNode(r, node, error) ==
  LET queue  == r.tree[node]
      sent   == {t \in ToSet(queue) : r.status[t] = "Sent"}
      unsent == SelectSeq(queue, LAMBDA t : r.status[t] \notin {"Sent", "SentNeedsAbort"})
      marked == [r EXCEPT
                   !.status = [t \in Transaction |-> IF t \in sent THEN "SentNeedsAbort" ELSE @[t]],
                   !.canceled = IF error = "canceled" THEN @ \cup sent ELSE @ \ sent,
                   !.tree[node] = Dropped(queue, sent)]
  IN  CompleteAll(IF error = "set" THEN AckAll(marked, unsent) ELSE marked, unsent)

\* abortTransactionsAtPath: the ancestors, the path itself and its descendants.
AbortAtPath(r, path, error) ==
  FoldLeft(LAMBDA s, node : AbortAtNode(s, node, error), r,
           SetToSeq({node \in Paths : IsPrefix(node, path) \/ IsPrefix(path, node)}))

\* A set at the path: what set:, update: and runOnDisconnectEvents have in common.
AbortAndRerun(r, path, aborting) ==
  Rerun(AbortAtPath(r, path, "set"), AncestorNode(r, path), aborting)

-----------------------------------------------------------------------------
(* The callback of a put. *)

\* sendTransactionQueue's callback
TransactionCallback(r, put, status, aborting) ==
  LET acked == CompleteAll(SetStatus(AckAll(r, put.queue), put.queue, "Completed"), put.queue)
      stale == [r EXCEPT !.status = [t \in Transaction |->
                  IF t \notin ToSet(put.queue) THEN @[t]
                  ELSE IF @[t] = "SentNeedsAbort" THEN "NeedsAbort" ELSE "Run"]]
      failed == [SetStatus(r, put.queue, "NeedsAbort") EXCEPT
                   !.canceled = IF status = "canceled" THEN @ \cup ToSet(put.queue)
                                                       ELSE @ \ ToSet(put.queue)]
      answered == CASE status = "ok" -> SendAllReady(Prune(acked, put.path))
                    [] status = "datastale" -> stale
                    [] OTHER -> failed
  IN  Rerun(answered, put.path, aborting)

\* ackWrite of a set: or update:; whether acking raises events depends on the data.
SetCallback(r, put, status, changed, aborting) ==
  IF status = "canceled" THEN r
  ELSE LET acked == AckAll(r, put.queue)
       IN  IF changed THEN Rerun(acked, put.path, aborting) ELSE acked

PutCallback(r, put, status, changed, aborting) ==
  IF put.set THEN SetCallback(r, put, status, changed, aborting)
             ELSE TransactionCallback(r, put, status, aborting)

\* The uncaught exception ends the process.
Running == ~repo.crashed

-----------------------------------------------------------------------------
(* Calls of the application. *)

Enqueue(queue, t) == Append(queue, t)

\* startTransactionOnPath; the block is run once, at the start.
StartTransaction(path, succeeds) ==
  LET t == started + 1
      run == [repo EXCEPT !.status[t] = "Run", !.path[t] = path, !.tree[path] = Enqueue(@, t),
                          !.writes = @ \cup {t}]
  IN  /\ Running /\ started < MaxTransactions
      /\ started' = t
      /\ repo' = IF succeeds THEN SendAllReady(run)
                 ELSE CompleteAll([SetStatus(repo, <<t>>, "Completed") EXCEPT !.path[t] = path], <<t>>)
      /\ UNCHANGED <<setCount, pushes>>

\* A user write at path, which touches the given paths below it in some order.
UserWrite(path, touched, aborting) ==
  LET id == MaxTransactions + setCount + 1
      written == [repo EXCEPT !.writes = @ \cup {id},
                              !.puts = Append(@, [set |-> TRUE, path |-> path, queue |-> <<id>>])]
  IN  /\ Running /\ setCount < MaxSets
      /\ setCount' = setCount + 1
      /\ repo' = FoldLeft(LAMBDA r, p : AbortAndRerun(r, p, aborting), written, touched)
      /\ UNCHANGED <<started, pushes>>

\* set:
Set(path, aborting) == UserWrite(path, <<path>>, aborting)

\* update: with several children.
Update(path, aborting) ==
  \E one, two \in {p \in Paths : IsStrictPrefix(path, p) /\ Len(p) = Len(path) + 1} :
    one # two /\ UserWrite(path, <<one, two>>, aborting)

Push == /\ Running /\ pushes < MaxPushes /\ pushes' = pushes + 1
        /\ UNCHANGED <<started, setCount>>

\* purgeOutstandingWrites: the connection first releases the held answers with
\* the statuses the server gave, then cancels the outstanding puts in order.
Purge(changed, aborting) ==
  LET purged == AbortAtPath([repo EXCEPT !.writes = {}], <<>>, "canceled")
      acked  == FoldLeft(LAMBDA r, answer : PutCallback(r, answer.put, answer.status, changed, aborting),
                         purged, purged.held)
      cancelled == FoldLeft(LAMBDA r, put : PutCallback(r, put, "canceled", changed, aborting),
                            [acked EXCEPT !.held = <<>>], acked.puts)
  IN  Push /\ repo' = [cancelled EXCEPT !.puts = <<>>]

-----------------------------------------------------------------------------
(* The connection and the server. *)

Statuses(put) == IF put.set THEN {"ok", "error"} ELSE {"ok", "datastale", "error"}

\* External: the connection answers a put whose answer is not held; "error" is
\* also what a sent transaction gets on disconnect.
AnswerPut(i, status, changed, aborting) ==
  LET put == repo.puts[i]
  IN  /\ Running /\ status \in Statuses(put)
      /\ repo' = PutCallback([repo EXCEPT !.puts = RemoveAt(@, i)], put, status, changed, aborting)
      /\ UNCHANGED <<started, setCount, pushes>>

\* External: an answer that arrives while listens are unacknowledged is held ...
HoldAnswer(i, status) ==
  /\ Push /\ status \in Statuses(repo.puts[i])
  /\ repo' = [repo EXCEPT !.puts = RemoveAt(@, i),
                          !.held = Append(@, [put |-> repo.puts[i], status |-> status])]

\* ... until the last of them is acknowledged: ackPuts.
AckPuts(changed, aborting) ==
  /\ Running /\ repo.held # <<>>
  /\ repo' = FoldLeft(LAMBDA r, answer : PutCallback(r, answer.put, answer.status, changed, aborting),
                      [repo EXCEPT !.held = <<>>], repo.held)
  /\ UNCHANGED <<started, setCount, pushes>>

\* onDataUpdate and onRangeMerge, when they raise events.
OnDataUpdate(path, aborting) == Push /\ repo' = Rerun(repo, path, aborting)

\* runOnDisconnectEvents, for one remembered path.
RunOnDisconnectEvents(path, aborting) == Push /\ repo' = AbortAndRerun(repo, path, aborting)

-----------------------------------------------------------------------------
\* The transactions in the queue tree.
Queued == UNION {ToSet(repo.tree[path]) : path \in Paths}

\* One handler; each block that runs in it succeeds or aborts.  Only
\* queued transactions are ever rerun.
Handler(aborting) ==
  \/ \E path \in Paths : \/ Set(path, aborting)
                         \/ Update(path, aborting)
                         \/ OnDataUpdate(path, aborting)
                         \/ RunOnDisconnectEvents(path, aborting)
  \/ \E changed \in BOOLEAN : \/ Purge(changed, aborting)
                              \/ AckPuts(changed, aborting)

AnswerOne(aborting) ==
  \E i \in DOMAIN repo.puts, status \in {"ok", "datastale", "error"}, changed \in BOOLEAN :
    AnswerPut(i, status, changed, aborting)

TransactionsNext ==
  \/ \E path \in Paths, succeeds \in BOOLEAN : StartTransaction(path, succeeds)
  \/ \E aborting \in SUBSET Queued : Handler(aborting) \/ AnswerOne(aborting)
  \/ \E i \in DOMAIN repo.puts, status \in {"ok", "datastale", "error"} : HoldAnswer(i, status)

TransactionsSpec == TransactionsInit /\ [][TransactionsNext]_transactionsVars

-----------------------------------------------------------------------------
(* Properties. *)

InFlight(t) == repo.status[t] \in {"Sent", "SentNeedsAbort"}

\* The puts of which the connection still owes the callback.
OpenPuts == ToSet(repo.puts) \cup {answer.put : answer \in ToSet(repo.held)}

Puts(t) == {put \in OpenPuts : ~put.set /\ t \in ToSet(put.queue)}

\* FRepo's transaction state has its types.
RepoTypeOK ==
  /\ repo.status \in [Transaction -> {"Initializing", "Run", "Sent", "SentNeedsAbort",
                                      "NeedsAbort", "Completed"}]
  /\ repo.path \in [Transaction -> Paths]
  /\ repo.retryCount \in [Transaction -> 0..TransactionMaxRetries]
  /\ repo.canceled \subseteq Transaction
  /\ repo.completions \in [Transaction -> Nat]
  /\ DOMAIN repo.tree = Paths /\ Queued \subseteq Transaction
  /\ repo.writes \subseteq Transaction \cup SetIds
  /\ repo.unraised \subseteq Transaction /\ repo.crashed \in BOOLEAN
  /\ started \in 0..MaxTransactions /\ setCount \in 0..MaxSets /\ pushes \in 0..MaxPushes

\* A transaction's completion block runs at most once, whichever of its put's
\* answer, a set, a rerun, too many retries and a purge come first.
CompletesOnce == \A t \in Transaction : repo.completions[t] <= 1

\* A transaction whose completion block was called has left nothing behind: not
\* its local write, not its place in the queue tree, not a put.
FinishedIsGone ==
  \A t \in Transaction : repo.completions[t] > 0 /\ ~repo.crashed =>
    t \notin repo.writes /\ t \notin Queued /\ Puts(t) = {}

\* "all of the sent transactions will be at the front of the queue": what
\* abortTransactionsAtNode relies on to remove the others by range.
SentAtFront ==
  \A path \in Paths :
    LET queue == repo.tree[path]
    IN  \A i, j \in DOMAIN queue : i < j /\ InFlight(queue[j]) => InFlight(queue[i])

\* A sent transaction has exactly one put whose callback will be called, and no
\* other has one.
OnePutEach ==
  \A t \in Transaction : ~repo.crashed =>
    Cardinality(Puts(t)) = (IF InFlight(t) THEN 1 ELSE 0)

\* No queue waits for nothing: between handlers every topmost queue has a
\* transaction in flight, whose answer will rerun or send the rest; none is left
\* marked for abort.
SomeoneInFlight ==
  ~repo.crashed =>
    \A node \in Paths : repo.tree[node] # <<>> =>
      LET queue == BuildQueue(repo, AncestorNode(repo, node))
      IN  /\ \E i \in DOMAIN queue : InFlight(queue[i])
          /\ \A i \in DOMAIN queue : repo.status[queue[i]] # "NeedsAbort"

\* Two transactions on overlapping paths are in flight in different puts only
\* when one of them is already marked for abort.
Serialized ==
  \A t, u \in Transaction :
    repo.status[t] = "Sent" /\ repo.status[u] = "Sent"
      /\ (IsPrefix(repo.path[t], repo.path[u]) \/ IsPrefix(repo.path[u], repo.path[t]))
    => Puts(t) = Puts(u)

\* "This block will be triggered once the transaction is complete, whether it
\* was successful or not": a started transaction whose block has not been called
\* is queued or has a put that will be answered.
NoneForgotten ==
  \A t \in 1..started : repo.completions[t] = 0 => t \in Queued \/ Puts(t) # {}

\* "again whenever the data changes": every local change a rerun makes raises its
\* events.
EventsRaised == repo.unraised = {}

\* The queues are what sending, rerunning and aborting rely on after any sequence
\* of starts, answers, sets, pushes and purges: of their types (no transaction is
\* run more often than TransactionMaxRetries allows), the sent ones first, one put
\* for each, and never two puts for data that depends on each other.
QueuesSafe == RepoTypeOK /\ SentAtFront /\ OnePutEach /\ Serialized

\* Each transaction ends once, on whichever path, and leaves nothing behind.
EndsOnce == CompletesOnce /\ FinishedIsGone
=============================================================================
