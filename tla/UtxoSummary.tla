----------------------------- MODULE UtxoSummary -----------------------------
(***************************************************************************)
(* The UTXO set summary: the result of gettxoutsetinfo, the one RPC that   *)
(* may keep a node busy for many minutes.  Three things ask for it: the    *)
(* refresh that runs at startup and every 30 minutes (app.js), the page    *)
(* snippet /snippet/utxo-set and the API route /api/blockchain/utxo-set.   *)
(* All three go through coreApi.getUtxoSetSummary, that is through         *)
(* miscCache, then a file that outlives the process, then the node.        *)
(*                                                                         *)
(* A summary is the height at which the node computed it.  Time is not     *)
(* modelled: a cache entry may expire at any moment.  Bounds: MaxTip       *)
(* blocks; every job of Jobs runs at most once.                            *)
(***************************************************************************)
EXTENDS Naturals

CONSTANTS
    Jobs,       \* the refreshes, page views and API requests of a behaviour
    Kind,       \* Kind[j] is "refresh", "page" or "api"
    MaxTip,
    NoSummary,  \* null
    Corrupt     \* what a file holds after an interrupted write

ASSUME KindAssumption == Kind \in [Jobs -> {"refresh", "page", "api"}]
ASSUME ValuesAssumption ==
    /\ MaxTip \in Nat \ {0}
    /\ NoSummary \notin Nat /\ Corrupt \notin Nat /\ NoSummary # Corrupt

VARIABLES
    slowDeviceMode,         \* config.slowDeviceMode, fixed at startup
    getindexinfo,           \* global.getindexinfo: "unknown", "noCoinstats" or "coinstats"
    utxoSetSummary,         \* global.utxoSetSummary
    utxoSetSummaryPending,  \* global.utxoSetSummaryPending
    miscCache,              \* miscCache's entry "getUtxoSetSummary"
    file,                   \* utxo-set.json
    tip,                    \* the node's height
    pc,                     \* where each job stands
    result                  \* the height the node computed for a job, or what it delivered

globals == <<utxoSetSummary, utxoSetSummaryPending>>
vars == <<slowDeviceMode, getindexinfo, globals, miscCache, file, tip, pc, result>>

Summaries == 1..MaxTip
Waiting == {"lookup", "rpc", "computed"}
Active(j) == pc[j] \in Waiting

Init ==
    /\ slowDeviceMode \in BOOLEAN
    /\ getindexinfo = "unknown"
    /\ utxoSetSummary = NoSummary
    /\ utxoSetSummaryPending = FALSE
    /\ miscCache = NoSummary
    /\ file \in {NoSummary, Corrupt, 1}
    /\ tip = 1
    /\ pc = [j \in Jobs |-> "idle"]
    /\ result = [j \in Jobs |-> NoSummary]

-----------------------------------------------------------------------------
(* Asking *)

\* Mutant: the helper forgets that the index may not be known yet.
SkipOnlyKnownMissing == slowDeviceMode /\ getindexinfo = "noCoinstats"

shouldSkipUtxoSetSummaryFetch == slowDeviceMode /\ getindexinfo # "coinstats"

Finish(j, v) ==
    /\ pc' = [pc EXCEPT ![j] = "done"]
    /\ result' = [result EXCEPT ![j] = v]

GoOn(j) ==
    /\ pc' = [pc EXCEPT ![j] = "lookup"]
    /\ UNCHANGED result

\* refreshUtxoSetSummary up to its await.  Its timer's 30 minutes are far
\* longer than the lookup in the caches, not than the call to the node.
BeginRefresh(j) ==
    /\ pc[j] = "idle" /\ Kind[j] = "refresh"
    /\ \A k \in Jobs : Kind[k] = "refresh" => pc[k] # "lookup"
    /\ IF shouldSkipUtxoSetSummaryFetch
       THEN /\ utxoSetSummary' = NoSummary
            /\ utxoSetSummaryPending' = FALSE
            /\ Finish(j, NoSummary)
       ELSE /\ utxoSetSummaryPending' = TRUE
            /\ GoOn(j)
            /\ UNCHANGED utxoSetSummary
    /\ UNCHANGED <<slowDeviceMode, getindexinfo, miscCache, file, tip>>

\* The /snippet/utxo-set handler up to its await.
BeginPage(j) ==
    /\ pc[j] = "idle" /\ Kind[j] = "page"
    /\ IF utxoSetSummary # NoSummary THEN Finish(j, utxoSetSummary)
       ELSE IF shouldSkipUtxoSetSummaryFetch THEN Finish(j, NoSummary)
       ELSE GoOn(j)
    /\ UNCHANGED <<slowDeviceMode, getindexinfo, globals, miscCache, file, tip>>

\* The /api/blockchain/utxo-set handler asks no one.
BeginApi(j) ==
    /\ pc[j] = "idle" /\ Kind[j] = "api"
    /\ GoOn(j)
    /\ UNCHANGED <<slowDeviceMode, getindexinfo, globals, miscCache, file, tip>>

-----------------------------------------------------------------------------
(* coreApi.getUtxoSetSummary *)

\* What the job does with its summary: a refresh publishes it.
Deliver(j, v) ==
    /\ Finish(j, v)
    /\ IF Kind[j] = "refresh"
       THEN utxoSetSummary' = v /\ utxoSetSummaryPending' = FALSE
       ELSE UNCHANGED globals

\* Only a refresh passes useCacheIfAvailable = false.
MayUseFile(j) == Kind[j] # "refresh"

CacheHit(j) ==
    /\ pc[j] = "lookup"
    /\ miscCache # NoSummary
    /\ Deliver(j, miscCache)
    /\ UNCHANGED <<slowDeviceMode, getindexinfo, miscCache, file, tip>>

\* Mutant: the file is used as it is.
LoadJsonUnparsed == file

\* tryLoadJson: null when the file is missing or is not JSON.
LoadJson == IF file = Corrupt THEN NoSummary ELSE file

\* The file's summary also goes to the cache, as if it were new.
FileHit(j) ==
    /\ pc[j] = "lookup"
    /\ miscCache = NoSummary
    /\ MayUseFile(j)
    /\ LoadJson # NoSummary
    /\ Deliver(j, LoadJson)
    /\ miscCache' = LoadJson
    /\ UNCHANGED <<slowDeviceMode, getindexinfo, file, tip>>

\* Nothing to use: ask the node.  A file that did not parse was removed.
CallNode(j) ==
    /\ pc[j] = "lookup"
    /\ miscCache = NoSummary
    /\ MayUseFile(j) => LoadJson = NoSummary
    /\ file' = LoadJson
    /\ pc' = [pc EXCEPT ![j] = "rpc"]
    /\ UNCHANGED <<slowDeviceMode, getindexinfo, globals, miscCache, tip, result>>

\* The node scans its UTXO set.
NodeComputes(j) ==
    /\ pc[j] = "rpc"
    /\ pc' = [pc EXCEPT ![j] = "computed"]
    /\ result' = [result EXCEPT ![j] = tip]
    /\ UNCHANGED <<slowDeviceMode, getindexinfo, globals, miscCache, file, tip>>

\* The summary arrives: file (a failed write is logged and may leave half a
\* file), cache, caller.
Answer(j) ==
    /\ pc[j] = "computed"
    /\ file' \in {result[j], file, Corrupt}
    /\ miscCache' = result[j]
    /\ Deliver(j, result[j])
    /\ UNCHANGED <<slowDeviceMode, getindexinfo, tip>>

\* An answer without total_amount: null, and nothing is kept.
AnswerEmpty(j) ==
    /\ pc[j] \in {"rpc", "computed"}
    /\ Deliver(j, NoSummary)
    /\ UNCHANGED <<slowDeviceMode, getindexinfo, miscCache, file, tip>>

\* Mutant: the flag is reset after the await instead of in finally.
FailWithoutFinally(j) ==
    /\ pc[j] \in {"rpc", "computed"}
    /\ Finish(j, NoSummary)
    /\ UNCHANGED <<slowDeviceMode, getindexinfo, globals, miscCache, file, tip>>

\* The call is rejected: the summary stays, finally resets the flag.
Fail(j) ==
    /\ pc[j] \in {"rpc", "computed"}
    /\ Finish(j, NoSummary)
    /\ utxoSetSummaryPending' = (utxoSetSummaryPending /\ Kind[j] # "refresh")
    /\ UNCHANGED <<slowDeviceMode, getindexinfo, utxoSetSummary, miscCache, file, tip>>

-----------------------------------------------------------------------------
(* Around it *)

\* assessTxindexAvailability got an answer.
LearnIndexInfo ==
    /\ getindexinfo = "unknown"
    /\ getindexinfo' \in {"noCoinstats", "coinstats"}
    /\ UNCHANGED <<slowDeviceMode, globals, miscCache, file, tip, pc, result>>

CacheExpires ==
    /\ miscCache # NoSummary
    /\ miscCache' = NoSummary
    /\ UNCHANGED <<slowDeviceMode, getindexinfo, globals, file, tip, pc, result>>

NodeAdvances ==
    /\ tip < MaxTip
    /\ tip' = tip + 1
    /\ UNCHANGED <<slowDeviceMode, getindexinfo, globals, miscCache, file, pc, result>>

\* The process stops, perhaps while it writes the file, and starts again.
Restart ==
    /\ getindexinfo' = "unknown"
    /\ utxoSetSummary' = NoSummary
    /\ utxoSetSummaryPending' = FALSE
    /\ miscCache' = NoSummary
    /\ file' \in {file} \cup {Corrupt : j \in {k \in Jobs : pc[k] = "computed"}}
    /\ pc' = [j \in Jobs |-> IF Active(j) THEN "killed" ELSE pc[j]]
    /\ UNCHANGED <<slowDeviceMode, tip, result>>

-----------------------------------------------------------------------------

Begin(j) == BeginRefresh(j) \/ BeginPage(j) \/ BeginApi(j)
Lookup(j) == CacheHit(j) \/ FileHit(j) \/ CallNode(j)
Reply(j) == Answer(j) \/ AnswerEmpty(j) \/ Fail(j)

Next ==
    \/ \E j \in Jobs :
        \/ BeginRefresh(j) \/ BeginPage(j) \/ BeginApi(j)
        \/ CacheHit(j) \/ FileHit(j) \/ CallNode(j)
        \/ NodeComputes(j) \/ Answer(j) \/ AnswerEmpty(j) \/ Fail(j)
    \/ LearnIndexInfo
    \/ CacheExpires
    \/ NodeAdvances
    \/ Restart

Spec == Init /\ [][Next]_vars

\* A lookup always goes on; the node answers every call in the end, however
\* long it takes (rpcClientNoTimeout never gives up).
FairSpec == Spec /\ \A j \in Jobs : WF_vars(Lookup(j)) /\ WF_vars(Reply(j))

-----------------------------------------------------------------------------
(* Properties *)

\* Every value has the shape the code gives it.
TypeOK ==
    /\ slowDeviceMode \in BOOLEAN
    /\ getindexinfo \in {"unknown", "noCoinstats", "coinstats"}
    /\ utxoSetSummary \in Summaries \cup {NoSummary}
    /\ utxoSetSummaryPending \in BOOLEAN
    /\ miscCache \in Summaries \cup {NoSummary}
    /\ file \in Summaries \cup {NoSummary, Corrupt}
    /\ tip \in Summaries
    /\ pc \in [Jobs -> Waiting \cup {"idle", "done", "killed"}]
    /\ result \in [Jobs -> Summaries \cup {NoSummary}]

Refreshing == \E j \in Jobs : Kind[j] = "refresh" /\ Active(j)

\* "Reset any pending-state flags via finally blocks to prevent stale state
\* leaks": the flag never outlives the refreshes, whichever way they end.
NoStalePending == utxoSetSummaryPending => Refreshing

\* A half-written file is never shown, cached or published, and nothing is
\* served from a height the node has not reached.
SummariesAreReal ==
    /\ \A v \in {utxoSetSummary, miscCache} \cup {result[j] : j \in Jobs} :
        v = NoSummary \/ v \in 1..tip

\* On a slow device without a coin-stats index neither a refresh nor a page
\* asks the node, even when the index is not known yet or the process has
\* just restarted.
RefreshAndPageSkip ==
    [][\A j \in Jobs :
        (Kind[j] # "api" /\ pc[j] # "rpc" /\ pc'[j] = "rpc")
            => ~(slowDeviceMode /\ getindexinfo # "coinstats")]_vars

\* The flag does not stay up: every refresh ends, with or without a summary.
PendingClears == utxoSetSummaryPending ~> ~utxoSetSummaryPending

\* The maintainers' rule for every route: skip gettxoutsetinfo when the index
\* is unavailable.  The API route does not.
SlowDeviceProtected ==
    [][\A j \in Jobs :
        (pc[j] # "rpc" /\ pc'[j] = "rpc")
            => ~(slowDeviceMode /\ getindexinfo # "coinstats")]_vars

\* What the flag is for: to tell "no details yet" from "not going to compute
\* them".  It fails when two refreshes overlap.
PendingWhileComputing ==
    (utxoSetSummary = NoSummary /\ Refreshing) => utxoSetSummaryPending
=============================================================================
