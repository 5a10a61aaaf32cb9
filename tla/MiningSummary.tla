--------------------------- MODULE MiningSummary ---------------------------
(***************************************************************************)
(* The mining summary.  The page asks /build-mining-summary to summarise a *)
(* range of blocks, polls /mining-summary-status with the id it made up,   *)
(* and fetches the result from /get-mining-summary when the status says    *)
(* that all is done.  coreApi.buildMiningSummary looks every height up in  *)
(* miningSummaryCache and pushes a task for each it misses on a queue that *)
(* all builds share; it goes on when the queue has drained.                *)
(*                                                                         *)
(* A summary is the set of the heights that are in it.  Bounds: one build  *)
(* for each id of Builds, MaxGets fetches of a page under way.             *)
(***************************************************************************)
EXTENDS Naturals, FiniteSets, Sequences

CONSTANTS
    Builds,     \* the status ids
    First, Last,\* the range of each build
    Workers,    \* the queue's concurrency: 30
    MaxGets

ASSUME RangesAssumption == First \in [Builds -> Nat] /\ Last \in [Builds -> Nat]
ASSUME WorkersAssumption == Workers \in Nat \ {0} /\ MaxGets \in Nat \ {0}

VARIABLES
    cache,      \* the heights in miningSummaryCache
    tasks,      \* tasks waiting on miningPromiseQueue
    running,    \* tasks its workers are running
    itemsDone,  \* the local of that name of each task
    pc,         \* where each build stands
    height,     \* its loop variable
    summariesByHeight,  \* the heights it has summaries for
    doneCount,
    miningSummaryStatuses,  \* partial: the done field by id; 0 stands for {}
    miningSummaries,        \* the ids whose summary waits to be fetched
    page,       \* the browser page of each build
    gets        \* its fetches under way

queueVars == <<tasks, running, itemsDone>>
buildVars == <<pc, height, summariesByHeight, doneCount>>
pageVars == <<page, gets>>
vars == <<cache, queueVars, buildVars, miningSummaryStatuses, miningSummaries, pageVars>>

Heights(b) == First[b]..Last[b]
Tasks == {<<b, h>> : b \in Builds, h \in UNION {Heights(b) : b \in Builds}}

\* The count field of every status.
Total(b) == 3 * Cardinality(Heights(b)) + 1

Init ==
    /\ cache = {}
    /\ tasks = <<>> /\ running = {}
    /\ itemsDone = [t \in Tasks |-> 0]
    /\ pc = [b \in Builds |-> "idle"]
    /\ height = First
    /\ summariesByHeight = [b \in Builds |-> {}]
    /\ doneCount = [b \in Builds |-> 0]
    /\ miningSummaryStatuses = <<>>
    /\ miningSummaries = {}
    /\ page = [b \in Builds |-> "idle"]
    /\ gets = [b \in Builds |-> 0]

-----------------------------------------------------------------------------
(* buildMiningSummary *)

SetStatus(b, done) ==
    miningSummaryStatuses' =
        [i \in DOMAIN miningSummaryStatuses \cup {b} |->
            IF i = b THEN done ELSE miningSummaryStatuses[i]]

markItemsDone(b, count) ==
    /\ doneCount' = [doneCount EXCEPT ![b] = @ + count]
    /\ SetStatus(b, doneCount[b] + count)

Keep(b, h) == summariesByHeight' = [summariesByHeight EXCEPT ![b] = @ \cup {h}]

\* The route handler, up to the first cache lookup.
Build(b) ==
    /\ page[b] # "idle" /\ pc[b] = "idle"
    /\ SetStatus(b, 0)
    /\ pc' = [pc EXCEPT ![b] = "loop"]
    /\ UNCHANGED <<cache, queueVars, height, summariesByHeight, doneCount,
                   miningSummaries, pageVars>>

\* One turn of the loop, after its await.
LookUpHeight(b) ==
    /\ pc[b] = "loop" /\ height[b] \in Heights(b)
    /\ height' = [height EXCEPT ![b] = @ + 1]
    /\ \/ /\ height[b] \in cache
          /\ Keep(b, height[b])
          /\ markItemsDone(b, 3)
          /\ UNCHANGED tasks
       \/ /\ height[b] \notin cache
          /\ tasks' = Append(tasks, <<b, height[b]>>)
          /\ UNCHANGED <<summariesByHeight, doneCount, miningSummaryStatuses>>
    /\ UNCHANGED <<cache, running, itemsDone, pc, miningSummaries, pageVars>>

\* async's queue.idle()
idle == tasks = <<>> /\ running = {}

\* Mutant: queue.length() is asked instead of queue.idle().
EndLoopIfNoneWaits(b) ==
    /\ pc[b] = "loop" /\ height[b] \notin Heights(b)
    /\ pc' = [pc EXCEPT ![b] = IF tasks = <<>> THEN "drained" ELSE "draining"]
    /\ UNCHANGED <<cache, queueVars, height, summariesByHeight, doneCount,
                   miningSummaryStatuses, miningSummaries, pageVars>>

\* The loop is over: wait for the drain event unless there is nothing to do.
EndLoop(b) ==
    /\ pc[b] = "loop" /\ height[b] \notin Heights(b)
    /\ pc' = [pc EXCEPT ![b] = IF idle THEN "drained" ELSE "draining"]
    /\ UNCHANGED <<cache, queueVars, height, summariesByHeight, doneCount,
                   miningSummaryStatuses, miningSummaries, pageVars>>

\* The sums over the range, the last status and the handler's assignment run
\* in one turn.  A missing height makes the first of them throw.
Summarise(b) ==
    /\ pc[b] = "drained"
    /\ IF summariesByHeight[b] = Heights(b)
       THEN /\ pc' = [pc EXCEPT ![b] = "built"]
            /\ SetStatus(b, Total(b))
            /\ miningSummaries' = miningSummaries \cup {b}
       ELSE /\ pc' = [pc EXCEPT ![b] = "failed"]
            /\ UNCHANGED <<miningSummaryStatuses, miningSummaries>>
    /\ UNCHANGED <<cache, queueVars, height, summariesByHeight, doneCount, pageVars>>

-----------------------------------------------------------------------------
(* The shared queue and its tasks *)

StartTask ==
    /\ tasks # <<>>
    /\ Cardinality(running) < Workers
    /\ running' = running \cup {Head(tasks)}
    /\ tasks' = Tail(tasks)
    /\ UNCHANGED <<cache, itemsDone, buildVars, miningSummaryStatuses, miningSummaries, pageVars>>

\* The task calls back.  If that was the last one, every build that waits
\* for the drain event goes on.
callback(t) ==
    /\ running' = running \ {t}
    /\ pc' = [b \in Builds |->
                IF pc[b] = "draining" /\ tasks = <<>> /\ running = {t}
                THEN "drained" ELSE pc[b]]

\* getBlockHashByHeight or getBlockByHash succeeded.
TaskAdvances(t) ==
    /\ t \in running /\ itemsDone[t] < 2
    /\ itemsDone' = [itemsDone EXCEPT ![t] = @ + 1]
    /\ markItemsDone(t[1], 1)
    /\ UNCHANGED <<cache, tasks, running, pc, height, summariesByHeight, miningSummaries, pageVars>>

\* getRawTransaction succeeded too.
TaskSucceeds(t) ==
    /\ t \in running /\ itemsDone[t] = 2
    /\ cache' = cache \cup {t[2]}
    /\ Keep(t[1], t[2])
    /\ markItemsDone(t[1], 1)
    /\ callback(t)
    /\ UNCHANGED <<tasks, itemsDone, height, miningSummaries, pageVars>>

\* Mutant: the catch block counts all three items.
TaskFailsCountingAll(t) ==
    /\ t \in running
    /\ markItemsDone(t[1], 3)
    /\ callback(t)
    /\ UNCHANGED <<cache, tasks, itemsDone, height, summariesByHeight, miningSummaries, pageVars>>

\* Mutant: the catch block does not call back.
TaskFailsSilently(t) ==
    /\ t \in running /\ itemsDone[t] < 3
    /\ itemsDone' = [itemsDone EXCEPT ![t] = 3]
    /\ markItemsDone(t[1], 3 - itemsDone[t])
    /\ UNCHANGED <<cache, tasks, running, pc, height, summariesByHeight, miningSummaries, pageVars>>

\* One of the three calls is rejected.
TaskFails(t) ==
    /\ t \in running
    /\ markItemsDone(t[1], 3 - itemsDone[t])
    /\ callback(t)
    /\ UNCHANGED <<cache, tasks, itemsDone, height, summariesByHeight, miningSummaries, pageVars>>

\* The LRU cache drops an entry.
Evict ==
    /\ \E h \in cache : cache' = cache \ {h}
    /\ UNCHANGED <<queueVars, buildVars, miningSummaryStatuses, miningSummaries, pageVars>>

-----------------------------------------------------------------------------
(* The page *)

\* loadMiningData: the polling interval starts before the build request.
loadMiningData(b) ==
    /\ page[b] = "idle"
    /\ page' = [page EXCEPT ![b] = "polling"]
    /\ UNCHANGED <<cache, queueVars, buildVars, miningSummaryStatuses, miningSummaries, gets>>

\* The reply to a status request says that all is done: stop polling, fetch.
\* A request sent before the interval was cleared may say so once more.
updateStatus(b) ==
    /\ page[b] \in {"polling", "fetching"} /\ gets[b] < MaxGets
    /\ b \in DOMAIN miningSummaryStatuses /\ miningSummaryStatuses[b] = Total(b)
    /\ page' = [page EXCEPT ![b] = "fetching"]
    /\ gets' = [gets EXCEPT ![b] = @ + 1]
    /\ UNCHANGED <<cache, queueVars, buildVars, miningSummaryStatuses, miningSummaries>>

\* Mutant: the status is forgotten but the summary is kept.
GetMiningSummaryKeeping(b) ==
    /\ gets[b] > 0
    /\ gets' = [gets EXCEPT ![b] = @ - 1]
    /\ page' = [page EXCEPT ![b] = IF @ = "closed" THEN @ ELSE "shown"]
    /\ miningSummaryStatuses' =
        [i \in DOMAIN miningSummaryStatuses \ {b} |-> miningSummaryStatuses[i]]
    /\ UNCHANGED <<cache, queueVars, buildVars, miningSummaries>>

\* GET /get-mining-summary: the summary once, then 204.
GetMiningSummary(b) ==
    /\ gets[b] > 0
    /\ gets' = [gets EXCEPT ![b] = @ - 1]
    /\ IF b \in miningSummaries
       THEN /\ page' = [page EXCEPT ![b] = IF @ = "closed" THEN @ ELSE "shown"]
            /\ miningSummaries' = miningSummaries \ {b}
            /\ miningSummaryStatuses' =
                [i \in DOMAIN miningSummaryStatuses \ {b} |-> miningSummaryStatuses[i]]
       ELSE UNCHANGED <<page, miningSummaries, miningSummaryStatuses>>
    /\ UNCHANGED <<cache, queueVars, buildVars>>

Close(b) ==
    /\ page[b] \in {"polling", "fetching"}
    /\ page' = [page EXCEPT ![b] = "closed"]
    /\ UNCHANGED <<cache, queueVars, buildVars, miningSummaryStatuses, miningSummaries, gets>>

-----------------------------------------------------------------------------

BuildStep(b) == Build(b) \/ LookUpHeight(b) \/ EndLoop(b) \/ Summarise(b)
TaskStep(t) == TaskAdvances(t) \/ TaskSucceeds(t) \/ TaskFails(t)
PageStep(b) == updateStatus(b) \/ GetMiningSummary(b)

Next ==
    \/ \E b \in Builds :
        \/ Build(b) \/ LookUpHeight(b) \/ EndLoop(b) \/ Summarise(b)
        \/ loadMiningData(b) \/ updateStatus(b) \/ GetMiningSummary(b) \/ Close(b)
    \/ StartTask
    \/ \E t \in Tasks : TaskAdvances(t) \/ TaskSucceeds(t) \/ TaskFails(t)
    \/ Evict

Spec == Init /\ [][Next]_vars

\* The event loop runs what is ready, the RPC timeout ends every call of a
\* task, an open page keeps polling and its requests are served.
FairSpec ==
    /\ Spec
    /\ WF_vars(StartTask)
    /\ \A t \in Tasks : WF_vars(TaskStep(t))
    /\ \A b \in Builds : WF_vars(BuildStep(b)) /\ WF_vars(PageStep(b))

-----------------------------------------------------------------------------
(* Properties *)

Ended == {"built", "failed"}

OpenTasks(b) ==
    {t \in running \cup {tasks[i] : i \in DOMAIN tasks} : t[1] = b}

\* However the builds' loops, the shared queue and its drain events
\* interleave, a build sums up only when none of its tasks is still open.
DrainCoversOwnTasks ==
    \A b \in Builds : pc[b] \in Ended \cup {"drained"} => OpenTasks(b) = {}

\* The page fetches once, on the first status that says all is done; then
\* the summary must be there.  Progress counted twice would say so early.
CompleteMeansStored ==
    \A b \in DOMAIN miningSummaryStatuses :
        miningSummaryStatuses[b] = Total(b) <=> b \in miningSummaries

\* A build ends, with or without a summary, whatever fails and whoever else
\* uses the queue.
BuildsEnd == \A b \in Builds : (pc[b] = "loop") ~> (pc[b] \in Ended)

\* Once the summary is built, a page that stays open shows it, even if
\* overlapping polls made it fetch twice; nothing is left in the stores.
BuiltIsShown ==
    \A b \in Builds :
        (pc[b] = "built") ~>
            \/ page[b] = "closed"
            \/ page[b] = "shown" /\ b \notin miningSummaries \cup DOMAIN miningSummaryStatuses

\* "resolve anyway": a height that failed does not cost the whole summary.
BlockFailureTolerated == \A b \in Builds : pc[b] # "failed"
=============================================================================
