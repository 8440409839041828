---------------------------- MODULE RetryHelper ----------------------------
(***************************************************************************)
(* FIRRetryHelper: the exponential back-off that decides when the next     *)
(* connection attempt runs.  Its whole state is one record, so that a      *)
(* handler of the persistent connection that calls it twice (reset, then   *)
(* schedule) composes two operators in one step.                           *)
(*                                                                         *)
(* Time is abstract.  A delay is a LEVEL: 0 is "run now"; level k >= 1     *)
(* stands for minRetryDelayAfterFailure * retryExponent^(k-1), and the     *)
(* level MaxRetryLevel is the one capped at maxRetryDelay.  The jitter only *)
(* scales a delay within its level and is left out.                        *)
(***************************************************************************)
EXTENDS Naturals

CONSTANT MaxRetryLevel

ASSUME RetryLevelAssumption == MaxRetryLevel \in Nat \ {0}

\* scheduledRetry == nil.
NoRetry == [pending |-> FALSE, force |-> FALSE, delay |-> 0]

\* A task: the only thing its block captures is whether the token fetch is forced.
Tasks == [pending : BOOLEAN, force : BOOLEAN, delay : 0..MaxRetryLevel]

RetryHelpers == [scheduledRetry : Tasks,
                 lastWasSuccess : BOOLEAN,
                 currentRetryDelay : 0..MaxRetryLevel]

InitRetryHelper == [scheduledRetry |-> NoRetry,
                    lastWasSuccess |-> TRUE,
                    currentRetryDelay |-> 0]

\* Mutant of NextRetryDelay: the cap at maxRetryDelay is missing.
UncappedRetryDelay(level) == level + 1

NextRetryDelay(level) == IF level < MaxRetryLevel THEN level + 1 ELSE MaxRetryLevel

\* retry: - an older task is cancelled by being replaced.
Retry(helper, force) ==
  LET delay == IF helper.lastWasSuccess THEN helper.currentRetryDelay
                                        ELSE NextRetryDelay(helper.currentRetryDelay)
  IN  [scheduledRetry |-> [pending |-> TRUE, force |-> force,
                           delay |-> IF helper.lastWasSuccess THEN 0 ELSE delay],
       lastWasSuccess |-> FALSE,
       currentRetryDelay |-> delay]

\* The dispatch_after block of a task that was not cancelled.
TaskRuns(helper) == [scheduledRetry |-> NoRetry,
                     lastWasSuccess |-> helper.lastWasSuccess,
                     currentRetryDelay |-> helper.currentRetryDelay]

SignalSuccess(helper) == [scheduledRetry |-> helper.scheduledRetry,
                          lastWasSuccess |-> TRUE,
                          currentRetryDelay |-> 0]

Cancel(helper) == [scheduledRetry |-> NoRetry,
                   lastWasSuccess |-> helper.lastWasSuccess,
                   currentRetryDelay |-> 0]
=============================================================================
