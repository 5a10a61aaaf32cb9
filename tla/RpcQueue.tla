------------------------------ MODULE RpcQueue ------------------------------
(***************************************************************************)
(* The RPC request queue of app/api/rpcApi.js: every call to the node goes *)
(* through one async.queue of config.rpcConcurrency workers.  A worker     *)
(* takes the oldest task, picks the client at that moment, waits for the   *)
(* node and settles the caller's promise before it calls back.             *)
(*                                                                         *)
(* A call is one invocation of getRpcData or getRpcDataWithParams; the two *)
(* functions run the same steps.  gettxoutsetinfo goes through a client of *)
(* its own that has no timeout, so such a call may hold its worker for     *)
(* ever.  Bounds: the calls are the set Calls, each made at most once.     *)
(***************************************************************************)
EXTENDS Naturals, FiniteSets, Sequences

CONSTANTS
    Calls,          \* all invocations
    Attempts,       \* pairs <<getnetworkinfo, getblockchaininfo>> of probe calls
    UtxoCalls,      \* the calls whose method is gettxoutsetinfo
    Concurrency     \* config.rpcConcurrency: 3 on a slow device, else 10

\* The calls made with verifyingConnection = true.
ProbeCalls == UNION {{a[1], a[2]} : a \in Attempts}

ASSUME CallsAssumption ==
    /\ Attempts \subseteq Calls \X Calls
    /\ \A a \in Attempts : a[1] # a[2]
    /\ UtxoCalls \subseteq Calls \ ProbeCalls

ASSUME ConcurrencyAssumption == Concurrency \in Nat \ {0}

VARIABLES
    rpcConnected,   \* global.rpcConnected
    rpcClient,      \* global.rpcClient: a client, or null after /disconnect
    tasks,          \* tasks pushed on rpcQueue and not started, oldest first
    running,        \* the calls a worker is awaiting
    outcome,        \* the state of the promise each call returned
    rpcStats        \* global.rpcStats summed over the methods

vars == <<rpcConnected, rpcClient, tasks, running, outcome, rpcStats>>

Settled == {"resolved", "rejected"}

\* How an awaited request ends: with a result, with a result that is an
\* RpcError object, or with a rejection (connection error, HTTP error, timeout).
Answers == {"ok", "rpcError", "failed"}

NoStats == [count |-> 0, successes |-> 0, failures |-> 0]

Init ==
    /\ rpcConnected = FALSE
    /\ rpcClient = "live"
    /\ tasks = <<>>
    /\ running = {}
    /\ outcome = [c \in Calls |-> "idle"]
    /\ rpcStats = NoStats

-----------------------------------------------------------------------------
(* Calling *)

\* Mutant: the not-connected check is dropped.
AdmittedUnchecked(c) == TRUE

Admitted(c) == c \in ProbeCalls \/ rpcConnected

\* getRpcData / getRpcDataWithParams: push a task, or refuse in the same turn.
Call(c) ==
    /\ outcome[c] = "idle"
    /\ c \notin ProbeCalls
    /\ IF Admitted(c)
       THEN /\ tasks' = Append(tasks, c)
            /\ outcome' = [outcome EXCEPT ![c] = "waiting"]
       ELSE /\ outcome' = [outcome EXCEPT ![c] = "rejected"]
            /\ UNCHANGED tasks
    /\ UNCHANGED <<rpcConnected, rpcClient, running, rpcStats>>

\* verifyRpcConnection: the two probes of an attempt are pushed together.
VerifyRpcConnection(a) ==
    /\ ~rpcConnected
    /\ outcome[a[1]] = "idle" /\ outcome[a[2]] = "idle"
    /\ tasks' = Append(Append(tasks, a[1]), a[2])
    /\ outcome' = [outcome EXCEPT ![a[1]] = "waiting", ![a[2]] = "waiting"]
    /\ UNCHANGED <<rpcConnected, rpcClient, running, rpcStats>>

\* Its Promise.all resolved: onRpcConnectionVerified sets the flag.
RpcConnectionVerified(a) ==
    /\ ~rpcConnected
    /\ outcome[a[1]] = "resolved" /\ outcome[a[2]] = "resolved"
    /\ rpcConnected' = TRUE
    /\ UNCHANGED <<rpcClient, tasks, running, outcome, rpcStats>>

-----------------------------------------------------------------------------
(* Working *)

\* Mutant: success is logged before the result is looked at.
LoggedBeforeLooking(answer) ==
    [successes |-> IF answer = "failed" THEN 0 ELSE 1,
     failures  |-> IF answer = "ok" THEN 0 ELSE 1]

\* One logStats call per entry: what is counted for a request that ended so.
\* An RpcError result is logged where it is recognised and, because that
\* place throws, again in the catch block.
Logged(answer) ==
    CASE answer = "ok"       -> [successes |-> 1, failures |-> 0]
      [] answer = "rpcError" -> [successes |-> 0, failures |-> 2]
      [] answer = "failed"   -> [successes |-> 0, failures |-> 1]

LogStats(answer) ==
    rpcStats' = [count     |-> rpcStats.count + Logged(answer).successes + Logged(answer).failures,
                 successes |-> rpcStats.successes + Logged(answer).successes,
                 failures  |-> rpcStats.failures + Logged(answer).failures]

\* Mutant: the error object itself becomes the state of the promise.
OutcomeOfRaw(answer) == IF answer = "ok" THEN "resolved" ELSE answer

OutcomeOf(answer) == IF answer = "ok" THEN "resolved" ELSE "rejected"

\* Mutant: one worker too many.
FreeWorkerOffByOne == Cardinality(running) <= Concurrency

FreeWorker == Cardinality(running) < Concurrency

HasClient(c) == c \in UtxoCalls \/ rpcClient = "live"

\* A free worker takes the oldest task and sends its request.
Start ==
    /\ tasks # <<>>
    /\ FreeWorker
    /\ HasClient(Head(tasks))
    /\ tasks' = Tail(tasks)
    /\ running' = running \cup {Head(tasks)}
    /\ UNCHANGED <<rpcConnected, rpcClient, outcome, rpcStats>>

\* The client is null: request throws at once and the catch block settles.
StartWithoutClient ==
    /\ tasks # <<>>
    /\ FreeWorker
    /\ ~HasClient(Head(tasks))
    /\ tasks' = Tail(tasks)
    /\ outcome' = [outcome EXCEPT ![Head(tasks)] = "rejected"]
    /\ LogStats("failed")
    /\ UNCHANGED <<rpcConnected, rpcClient, running>>

\* Mutant: the catch block settles the promise but never calls back.
AnswerKeepingWorker(c, answer) ==
    /\ c \in running /\ outcome[c] = "waiting"
    /\ running' = IF answer = "ok" THEN running \ {c} ELSE running
    /\ outcome' = [outcome EXCEPT ![c] = OutcomeOf(answer)]
    /\ LogStats(answer)
    /\ UNCHANGED <<rpcConnected, rpcClient, tasks>>

\* The awaited request ends; the promise is settled and the worker called back.
Answer(c, answer) ==
    /\ c \in running
    /\ running' = running \ {c}
    /\ outcome' = [outcome EXCEPT ![c] = OutcomeOf(answer)]
    /\ LogStats(answer)
    /\ UNCHANGED <<rpcConnected, rpcClient, tasks>>

-----------------------------------------------------------------------------
(* The client *)

\* GET /disconnect.
Disconnect ==
    /\ rpcClient' = "null"
    /\ UNCHANGED <<rpcConnected, tasks, running, outcome, rpcStats>>

\* The auth cookie file changed: new clients; requests under way keep theirs.
ConnectToRpcServer ==
    /\ rpcClient' = "live"
    /\ UNCHANGED <<rpcConnected, tasks, running, outcome, rpcStats>>

-----------------------------------------------------------------------------

AnswerCall(c) == \E answer \in Answers : Answer(c, answer)

Next ==
    \/ \E c \in Calls : Call(c) \/ AnswerCall(c)
    \/ \E a \in Attempts : VerifyRpcConnection(a) \/ RpcConnectionVerified(a)
    \/ Start
    \/ StartWithoutClient
    \/ Disconnect
    \/ ConnectToRpcServer

Spec == Init /\ [][Next]_vars

\* async.queue runs a worker whenever there is a task and a free one, and the
\* main client's timeout ends every request it sends.  Nothing makes a
\* gettxoutsetinfo request end, and nothing makes anybody call.
FairSpec ==
    /\ Spec
    /\ WF_vars(Start \/ StartWithoutClient)
    /\ \A c \in Calls \ UtxoCalls : WF_vars(AnswerCall(c))

-----------------------------------------------------------------------------
(* Properties *)

Waiting == {c \in Calls : outcome[c] = "waiting"}
Queued == {tasks[i] : i \in DOMAIN tasks}

\* Every value has the shape the code gives it.
TypeOK ==
    /\ rpcConnected \in BOOLEAN
    /\ rpcClient \in {"live", "null"}
    /\ tasks \in Seq(Calls)
    /\ running \subseteq Calls
    /\ outcome \in [Calls -> {"idle", "waiting"} \cup Settled]
    /\ rpcStats \in [count : Nat, successes : Nat, failures : Nat]

\* No call is lost and none is worked on twice: a promise is pending exactly
\* while its task is in the queue, once, or held by one worker.
NoCallLost ==
    /\ Waiting = Queued \cup running
    /\ Queued \cap running = {}
    /\ \A i, j \in DOMAIN tasks : tasks[i] = tasks[j] => i = j

\* The workers a slow node is protected by: never more than rpcConcurrency.
ConcurrencyBound == Cardinality(running) <= Concurrency

\* Until the node is verified nothing but the verifying probes waits for it,
\* whatever was called before, between and after the attempts.
OnlyProbesUnverified ==
    ~rpcConnected => Waiting \subseteq ProbeCalls

\* The dashboard's numbers: successes are the resolved promises and every
\* logged request counts as a success or a failure.
StatsAgree ==
    /\ rpcStats.successes = Cardinality({c \in Calls : outcome[c] = "resolved"})
    /\ rpcStats.count = rpcStats.successes + rpcStats.failures

\* While there are fewer gettxoutsetinfo calls than workers, every other call
\* that waits is settled, even if none of those ever ends: an error, a null
\* client or a timeout must give the worker back.
TimedCallsSettle ==
    \A c \in Calls \ UtxoCalls : (outcome[c] = "waiting") ~> (outcome[c] \in Settled)

\* The queue does what RpcService promises.
Service == INSTANCE RpcService WITH inService <- running
ServiceSpec == Service!Spec
=============================================================================
