-------------------------- MODULE MempoolSummaries --------------------------
(***************************************************************************)
(* The mempool summary and the predicted blocks.  A build lists the node's *)
(* mempool, reloads the global mempoolTxSummaryCache from its file, fetches *)
(* the details of every transaction the cache lacks, all at once, purges   *)
(* the cache of what it did not list, saves it and aggregates.  Builds     *)
(* overlap (two kinds of page and the fee estimate start them) and all of  *)
(* them read, rebind, fill and purge the same global.  The page polls the  *)
(* status and fetches the result, as for the mining summary, but goes on   *)
(* polling until it has a result to show.                                  *)
(*                                                                         *)
(* A transaction's summary is the transaction.  Bounds: one build for each *)
(* id of Builds, MaxGets fetches of a page under way.                      *)
(***************************************************************************)
EXTENDS Naturals, FiniteSets

CONSTANTS Txs, Builds, MaxGets

ASSUME BoundAssumption == MaxGets \in Nat \ {0}
ASSUME TxsAssumption == IsFiniteSet(Txs)

VARIABLES
    mempool,        \* the node's
    mempoolTxSummaryCache,
    file,           \* mempool-tx-summaries-v2.json; {} if missing or not JSON
    pc,             \* where each build stands
    allTxids,       \* what it listed
    results,        \* the summaries it has
    pending,        \* the fetches it waits for
    missed,         \* history: the fetches that failed
    doneCount,
    statuses,       \* mempoolSummaryStatuses, partial: records of count and done
    summaries,      \* mempoolSummaries, partial: the transactions aggregated
    page,           \* the browser page of each build
    gets            \* its fetches under way

cacheVars == <<mempoolTxSummaryCache, file>>
buildVars == <<allTxids, results, pending, missed, doneCount>>
storeVars == <<statuses, summaries>>
pageVars == <<page, gets>>
vars == <<mempool, cacheVars, pc, buildVars, storeVars, pageVars>>

NotStarted == [count |-> 0, done |-> 0]

Init ==
    /\ mempool \in SUBSET Txs
    /\ mempoolTxSummaryCache = {}
    /\ file \in SUBSET Txs
    /\ pc = [b \in Builds |-> "idle"]
    /\ allTxids = [b \in Builds |-> {}]
    /\ results = [b \in Builds |-> {}]
    /\ pending = [b \in Builds |-> {}]
    /\ missed = [b \in Builds |-> {}]
    /\ doneCount = [b \in Builds |-> 0]
    /\ statuses = <<>>
    /\ summaries = <<>>
    /\ page = [b \in Builds |-> "idle"]
    /\ gets = [b \in Builds |-> 0]

Put(store, b, v) == [i \in DOMAIN store \cup {b} |-> IF i = b THEN v ELSE store[i]]
Drop(store, b) == [i \in DOMAIN store \ {b} |-> store[i]]
Goto(b, stage) == pc' = [pc EXCEPT ![b] = stage]

-----------------------------------------------------------------------------
(* The build *)

\* The route handler, up to getAllMempoolTxids.
BuildMempoolSummary(b) ==
    /\ page[b] # "idle" /\ pc[b] = "idle"
    /\ Goto(b, "listing")
    /\ statuses' = Put(statuses, b, NotStarted)
    /\ UNCHANGED <<mempool, cacheVars, buildVars, summaries, pageVars>>

\* getMempoolTxSummaries up to its await, in the turn in which the list came.
StartFetches(b, cached) ==
    /\ allTxids' = [allTxids EXCEPT ![b] = mempool]
    /\ results' = [results EXCEPT ![b] = mempool \cap cached]
    /\ pending' = [pending EXCEPT ![b] = mempool \ cached]
    /\ doneCount' = [doneCount EXCEPT ![b] = Cardinality(mempool \cap cached)]
    /\ statuses' =
        IF mempool \cap cached = {} THEN statuses
        ELSE Put(statuses, b, [count |-> Cardinality(mempool),
                               done |-> Cardinality(mempool \cap cached)])

ListMempool(b) ==
    /\ pc[b] = "listing"
    /\ mempoolTxSummaryCache' = file
    /\ StartFetches(b, file)
    /\ Goto(b, "fetching")
    /\ UNCHANGED <<mempool, file, missed, summaries, pageVars>>

\* Mutant: every fetch is counted when it is sent, and again when it ends.
markDoneTwice(b) ==
    /\ doneCount' = [doneCount EXCEPT ![b] = @ + 2]
    /\ statuses' = Put(statuses, b,
                       [count |-> Cardinality(allTxids[b]), done |-> doneCount[b] + 2])

\* doneCount++; statusUpdate()
markDone(b) ==
    /\ doneCount' = [doneCount EXCEPT ![b] = @ + 1]
    /\ statuses' = Put(statuses, b,
                       [count |-> Cardinality(allTxids[b]), done |-> doneCount[b] + 1])

FetchEnds(b, t) ==
    /\ pc[b] = "fetching" /\ t \in pending[b]
    /\ pending' = [pending EXCEPT ![b] = @ \ {t}]
    /\ markDone(b)

\* getMempoolTxDetails succeeded.  The cache it fills is the one that is
\* global now, whoever loaded it.
FetchSucceeds(b, t) ==
    /\ FetchEnds(b, t)
    /\ results' = [results EXCEPT ![b] = @ \cup {t}]
    /\ mempoolTxSummaryCache' = mempoolTxSummaryCache \cup {t}
    /\ UNCHANGED <<mempool, file, pc, allTxids, missed, summaries, pageVars>>

\* Mutant: the catch block rejects, and Promise.all with it.
FetchFailsRejecting(b, t) ==
    /\ FetchEnds(b, t)
    /\ Goto(b, "failed")
    /\ UNCHANGED <<mempool, cacheVars, allTxids, results, missed, summaries, pageVars>>

\* It failed, perhaps because the transaction has left the mempool.
FetchFails(b, t) ==
    /\ FetchEnds(b, t)
    /\ missed' = [missed EXCEPT ![b] = @ \cup {t}]
    /\ UNCHANGED <<mempool, cacheVars, pc, allTxids, results, summaries, pageVars>>

\* Mutant: what is aggregated is looked up in the cache after the fetches.
FromCache(b) == allTxids[b] \cap mempoolTxSummaryCache

\* The local array of the build.
Fetched(b) == results[b]

\* Drop what was not listed and save; a failed save is logged and may leave
\* the old file or none that can be read.
PurgeAndSave(b) ==
    /\ mempoolTxSummaryCache' = mempoolTxSummaryCache \cap allTxids[b]
    /\ file' \in {mempoolTxSummaryCache', file, {}}

\* buildMempoolSummary after the fetches, and the handler after it.
Summarise(b) ==
    /\ statuses' = Put(statuses, b, [count |-> Cardinality(Fetched(b)),
                                     done |-> Cardinality(Fetched(b))])
    /\ summaries' = Put(summaries, b, Fetched(b))

\* Promise.all resolved.
Aggregate(b) ==
    /\ pc[b] = "fetching" /\ pending[b] = {}
    /\ PurgeAndSave(b)
    /\ Summarise(b)
    /\ Goto(b, "built")
    /\ UNCHANGED <<mempool, buildVars, pageVars>>

\* getrawmempool was rejected: the handler logs it and never replies.
ListFails(b) ==
    /\ pc[b] = "listing"
    /\ Goto(b, "failed")
    /\ UNCHANGED <<mempool, cacheVars, buildVars, storeVars, pageVars>>

-----------------------------------------------------------------------------
(* The page *)

\* The polling interval starts before the build request.
loadMempool(b) ==
    /\ page[b] = "idle"
    /\ page' = [page EXCEPT ![b] = "polling"]
    /\ UNCHANGED <<mempool, cacheVars, pc, buildVars, storeVars, gets>>

\* The reply to a poll: without a count it is taken for "not started yet".
updateStatus(b) ==
    /\ page[b] = "polling" /\ gets[b] < MaxGets
    /\ b \in DOMAIN statuses
    /\ statuses[b].count # 0 /\ statuses[b].done = statuses[b].count
    /\ gets' = [gets EXCEPT ![b] = @ + 1]
    /\ UNCHANGED <<mempool, cacheVars, pc, buildVars, storeVars, page>>

\* Mutant: the page stops polling at its first fetch, as the mining page does.
GetMempoolSummaryOnce(b) ==
    /\ gets[b] > 0
    /\ gets' = [gets EXCEPT ![b] = @ - 1]
    /\ page' = [page EXCEPT ![b] =
                    IF @ # "polling" THEN @ ELSE IF b \in DOMAIN summaries THEN "shown" ELSE "idle"]
    /\ summaries' = Drop(summaries, b)
    /\ statuses' = IF b \in DOMAIN summaries THEN Drop(statuses, b) ELSE statuses
    /\ UNCHANGED <<mempool, cacheVars, pc, buildVars>>

\* GET /get-mempool-summary: the summary once, otherwise 204.  A page shows
\* it, and stops polling, if it counts any transaction.
GetMempoolSummary(b) ==
    /\ gets[b] > 0
    /\ gets' = [gets EXCEPT ![b] = @ - 1]
    /\ IF b \in DOMAIN summaries
       THEN /\ page' = [page EXCEPT ![b] =
                            IF @ = "polling" /\ summaries[b] # {} THEN "shown" ELSE @]
            /\ summaries' = Drop(summaries, b)
            /\ statuses' = Drop(statuses, b)
       ELSE UNCHANGED <<page, storeVars>>
    /\ UNCHANGED <<mempool, cacheVars, pc, buildVars>>

Close(b) ==
    /\ page[b] = "polling"
    /\ page' = [page EXCEPT ![b] = "closed"]
    /\ UNCHANGED <<mempool, cacheVars, pc, buildVars, storeVars, gets>>

-----------------------------------------------------------------------------

\* A transaction enters or leaves the node's mempool.
MempoolChanges ==
    /\ \E t \in Txs : mempool' = IF t \in mempool THEN mempool \ {t} ELSE mempool \cup {t}
    /\ UNCHANGED <<cacheVars, pc, buildVars, storeVars, pageVars>>

Fetch(b) == \E t \in Txs : FetchSucceeds(b, t) \/ FetchFails(b, t)

Next ==
    \/ \E b \in Builds :
        \/ loadMempool(b) \/ updateStatus(b) \/ GetMempoolSummary(b) \/ Close(b)
        \/ BuildMempoolSummary(b) \/ ListMempool(b) \/ ListFails(b)
        \/ \E t \in Txs : FetchSucceeds(b, t) \/ FetchFails(b, t)
        \/ Aggregate(b)
    \/ MempoolChanges

Spec == Init /\ [][Next]_vars

\* The event loop runs what is ready, the RPC timeout ends every fetch, an
\* open page keeps polling and its requests are served.
FairSpec ==
    /\ Spec
    /\ \A b \in Builds :
        /\ WF_vars(BuildMempoolSummary(b)) /\ WF_vars(ListMempool(b) \/ ListFails(b))
        /\ WF_vars(Fetch(b)) /\ WF_vars(Aggregate(b))
        /\ WF_vars(updateStatus(b) \/ GetMempoolSummary(b))

-----------------------------------------------------------------------------
(* Properties *)

\* However overlapping builds reload, fill and purge the cache they share, a
\* summary holds every transaction of its own listing except those whose
\* fetch failed, and nothing else.
SummaryIsOwnListing ==
    \A b \in DOMAIN summaries : summaries[b] = allTxids[b] \ missed[b]

\* Progress never runs ahead: while a fetch is open the status does not say
\* that all is done, and it accounts for every fetch that has ended.
ProgressIsExact ==
    \A b \in Builds : pc[b] = "fetching" =>
        /\ doneCount[b] = Cardinality(allTxids[b]) - Cardinality(pending[b])
        /\ pending[b] # {} => statuses[b].done < statuses[b].count \/ statuses[b] = NotStarted

\* A build that listed the mempool ends, whatever becomes of its fetches.
BuildsEnd == \A b \in Builds : (pc[b] = "fetching") ~> (pc[b] = "built")

\* Once a summary of some transactions is stored, a page that stays open
\* shows it, although its first fetches may have come too early.
BuiltIsShown ==
    \A b \in Builds :
        (pc[b] = "built" /\ results[b] # {}) ~> (page[b] \in {"shown", "closed"})

\* "We're done, make sure statusFunc knows it": a page learns of the end of
\* every build.  Not of an empty mempool: the final status has no count.
EveryEndIsSeen ==
    \A b \in Builds : (pc[b] = "built") ~> (page[b] \in {"shown", "closed"})
=============================================================================
