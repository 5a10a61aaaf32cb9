---------------------------- MODULE NodeStartup ----------------------------
(***************************************************************************)
(* How app.js comes to know its node: verifyRpcConnection runs at once and *)
(* then every 30 seconds until an attempt succeeds; the successful attempt *)
(* starts the periodic work and finds out whether the node has a           *)
(* transaction index, asking again after an error.                         *)
(*                                                                         *)
(* Time is counted in ticks.  Only the 30 seconds and the timeout of the   *)
(* RPC client are timed; a retry of the index check (after 10 seconds, then *)
(* twice as long each time, at most 15 minutes) fires at some later time.  *)
(* Bounds: the attempts are the set Attempts; MaxErrors failed index checks.*)
(***************************************************************************)
EXTENDS Naturals, FiniteSets

CONSTANTS
    Attempts,       \* the runs of verifyRpcConnection that ask the node
    Interval,       \* ticks between two of them
    Timeout,        \* ticks after which the RPC client gives up a call
    MaxErrors,
    OnMain          \* whether the chain is "main"

VARIABLES
    sinceFired,             \* ticks since the interval fired
    intervalRuns,           \* verifyRpcConnectionIntervalId is not cleared
    attempts,               \* the attempts: unused, waiting for the node, over
    waited,                 \* the ticks each has waited
    activeBlockchain,       \* whether it is known
    rpcUp,                  \* global.rpcConnected
    timersSet,              \* how often each periodic timer was set
    indexCheck,             \* where the index check of a verified attempt is
    indexErrors,            \* txindexCheckCount
    txindexAvailable,
    oldNode                 \* the node: one without getindexinfo

vars == <<sinceFired, intervalRuns, attempts, waited, activeBlockchain, rpcUp,
          timersSet, indexCheck, indexErrors, txindexAvailable, oldNode>>
verification == <<sinceFired, intervalRuns, attempts, waited, activeBlockchain, rpcUp>>
index == <<indexCheck, indexErrors, txindexAvailable, oldNode>>

Timers == {"difficulty", "exchangeRates", "volumes", "utxo"}
Waiting == {a \in Attempts : attempts[a] = "waiting"}
Unused == {a \in Attempts : attempts[a] = "unused"}

\* continueStartup: the first attempt starts and the interval is set.
Init ==
    /\ sinceFired = 0
    /\ intervalRuns = TRUE
    /\ LET first == CHOOSE a \in Attempts : TRUE
       IN  attempts = [a \in Attempts |-> IF a = first THEN "waiting" ELSE "unused"]
    /\ waited = [a \in Attempts |-> 0]
    /\ activeBlockchain = FALSE
    /\ rpcUp = FALSE
    /\ timersSet = [t \in Timers |-> 0]
    /\ indexCheck = [a \in Attempts |-> "none"]
    /\ indexErrors = 0
    /\ txindexAvailable = FALSE
    /\ oldNode \in BOOLEAN

-----------------------------------------------------------------------------
(* Verification *)

\* Mutant: the probes use the client without a timeout.
TickWithoutTimeout ==
    /\ intervalRuns /\ sinceFired < Interval
    /\ sinceFired' = sinceFired + 1
    /\ UNCHANGED <<intervalRuns, attempts, waited, activeBlockchain, rpcUp, timersSet, index>>

\* A call of the client does not outlive its timeout, the interval fires on time.
Tick ==
    /\ \A a \in Waiting : waited[a] < Timeout
    /\ intervalRuns /\ sinceFired < Interval
    /\ sinceFired' = sinceFired + 1
    /\ waited' = [a \in Attempts |-> IF a \in Waiting THEN waited[a] + 1 ELSE waited[a]]
    /\ UNCHANGED <<intervalRuns, attempts, activeBlockchain, rpcUp, timersSet, index>>

\* verifyRpcConnection called by the interval.
VerifyRpcConnection(a) ==
    /\ intervalRuns /\ sinceFired = Interval
    /\ sinceFired' = 0
    /\ attempts[a] = "unused"
    /\ attempts' = [attempts EXCEPT ![a] = IF activeBlockchain THEN @ ELSE "waiting"]
    /\ UNCHANGED <<intervalRuns, waited, activeBlockchain, rpcUp, timersSet, index>>

\* One of the two calls was rejected.
VerificationFails(a) ==
    /\ a \in Waiting
    /\ attempts' = [attempts EXCEPT ![a] = "over"]
    /\ UNCHANGED <<sinceFired, intervalRuns, waited, activeBlockchain, rpcUp, timersSet, index>>

\* The timers onRpcConnectionVerified sets before it waits for the index check.
FirstTimers == {"volumes"} \cup IF OnMain THEN {"difficulty", "exchangeRates"} ELSE {}

Started(timers) == timersSet' = [t \in Timers |-> IF t \in timers THEN timersSet[t] + 1 ELSE timersSet[t]]

\* Mutant: the interval is not cleared.
VerificationSucceedsKeepingInterval(a) ==
    /\ a \in Waiting
    /\ attempts' = [attempts EXCEPT ![a] = "over"]
    /\ activeBlockchain' = TRUE
    /\ rpcUp' = TRUE
    /\ Started(FirstTimers)
    /\ indexCheck' = [indexCheck EXCEPT ![a] = IF oldNode THEN "askingTx" ELSE "asking"]
    /\ UNCHANGED <<sinceFired, intervalRuns, waited, indexErrors, txindexAvailable, oldNode>>

\* Both calls were answered: no more attempts, and onRpcConnectionVerified runs
\* up to its await.
VerificationSucceeds(a) ==
    /\ a \in Waiting
    /\ attempts' = [attempts EXCEPT ![a] = "over"]
    /\ activeBlockchain' = TRUE
    /\ intervalRuns' = FALSE
    /\ rpcUp' = TRUE
    /\ Started(FirstTimers)
    /\ indexCheck' = [indexCheck EXCEPT ![a] = IF oldNode THEN "askingTx" ELSE "asking"]
    /\ UNCHANGED <<sinceFired, waited, indexErrors, txindexAvailable, oldNode>>

-----------------------------------------------------------------------------
(* assessTxindexAvailability *)

\* The first run of a check is awaited by onRpcConnectionVerified, which then
\* starts the refreshes of the UTXO summary, whatever was learned.  A later run
\* is called by a timeout and nobody waits for it.
FirstRunEnds(a) == Started(IF indexCheck[a] \in {"asking", "askingTx"} THEN {"utxo"} ELSE {})

Learn(a, available) ==
    /\ txindexAvailable' = available
    /\ indexCheck' = [indexCheck EXCEPT ![a] = "known"]
    /\ FirstRunEnds(a)
    /\ UNCHANGED <<verification, indexErrors, oldNode>>

\* getindexinfo was answered, with or without a txindex.
IndexInfo(a) == indexCheck[a] \in {"asking", "askingAgain"} /\ \E available \in BOOLEAN : Learn(a, available)

\* An old node is asked for a known transaction: found, or not, for whatever reason.
KnownTransaction(a) == indexCheck[a] = "askingTx" /\ \E available \in BOOLEAN : Learn(a, available)

\* Mutant: the failed check is not repeated.
IndexInfoFailsForGood(a) ==
    /\ indexCheck[a] \in {"asking", "askingAgain"}
    /\ indexErrors < MaxErrors
    /\ indexErrors' = indexErrors + 1
    /\ indexCheck' = [indexCheck EXCEPT ![a] = "none"]
    /\ FirstRunEnds(a)
    /\ UNCHANGED <<verification, txindexAvailable, oldNode>>

\* getindexinfo failed: the check is repeated later.
IndexInfoFails(a) ==
    /\ indexCheck[a] \in {"asking", "askingAgain"}
    /\ indexErrors < MaxErrors
    /\ indexErrors' = indexErrors + 1
    /\ indexCheck' = [indexCheck EXCEPT ![a] = "retryLater"]
    /\ FirstRunEnds(a)
    /\ UNCHANGED <<verification, txindexAvailable, oldNode>>

RetryFires(a) ==
    /\ indexCheck[a] = "retryLater"
    /\ indexCheck' = [indexCheck EXCEPT ![a] = "askingAgain"]
    /\ UNCHANGED <<verification, timersSet, indexErrors, txindexAvailable, oldNode>>

CheckStep(a) == IndexInfo(a) \/ KnownTransaction(a) \/ IndexInfoFails(a) \/ RetryFires(a)

Next ==
    \/ Tick
    \/ \E a \in Attempts : VerifyRpcConnection(a) \/ VerificationFails(a) \/ VerificationSucceeds(a) \/ CheckStep(a)

\* Calls end (rpcApi's timeout) and timeouts fire.
CheckEnds == \E a \in Attempts : CheckStep(a)
FairSpec == Init /\ [][Next]_vars /\ WF_vars(CheckEnds)

-----------------------------------------------------------------------------
\* The startup's state keeps its shape.
TypeOK ==
    /\ sinceFired \in 0 .. Interval
    /\ attempts \in [Attempts -> {"unused", "waiting", "over"}]
    /\ waited \in [Attempts -> 0 .. Timeout]
    /\ timersSet \in [Timers -> Nat]
    /\ indexCheck \in [Attempts -> {"none", "asking", "askingTx", "askingAgain", "retryLater", "known"}]
    /\ indexErrors \in 0 .. MaxErrors
    /\ intervalRuns = ~activeBlockchain
    /\ {activeBlockchain, rpcUp, txindexAvailable, oldNode} \subseteq BOOLEAN

\* The node is verified once, and no periodic timer is ever set twice, as long as
\* the timeout of the client ends an attempt before the next one starts.
VerifiedOnce == \A t \in Timers : timersSet[t] <= 1

\* A verified node's index is assessed in the end, however often (at most
\* MaxErrors times) the check fails first: the explorer does not go on with the
\* txindexAvailable = false it started with.
IndexIsAssessed == rpcUp ~> \E a \in Attempts : indexCheck[a] = "known"
=============================================================================
