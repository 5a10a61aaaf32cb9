----------------------- MODULE MempoolSummariesProofs -----------------------
(***************************************************************************)
(* A mempool summary is that of its own listing, for any transactions, any *)
(* number of overlapping builds and any changes of the mempool.  The cache *)
(* the builds share does not appear in the inductive invariant: a build    *)
(* only ever takes from it in the turn in which it lists the mempool.      *)
(***************************************************************************)
EXTENDS MempoolSummaries, FiniteSetTheorems, TLAPS

Stages == {"idle", "listing", "fetching", "built", "failed"}

\* The shape of the state, as far as the argument needs it.
BuildTypes ==
    /\ pc \in [Builds -> Stages]
    /\ allTxids \in [Builds -> SUBSET Txs]
    /\ results \in [Builds -> SUBSET Txs]
    /\ pending \in [Builds -> SUBSET Txs]
    /\ missed \in [Builds -> SUBSET Txs]

\* Nothing has failed before the fetches start.
NoneMissedYet(b) == pc[b] \in {"idle", "listing"} => missed[b] = {}

\* What a build listed it has, waits for, or failed to fetch.
Accounted(b) ==
    /\ pending[b] \cap missed[b] = {}
    /\ pc[b] \in {"fetching", "built"} =>
        /\ pending[b] \subseteq allTxids[b]
        /\ results[b] = allTxids[b] \ (pending[b] \cup missed[b])

\* Only a build that waits for nothing has stored a summary.
Stored(b) ==
    b \in DOMAIN summaries =>
        /\ pc[b] = "built" /\ pending[b] = {}
        /\ summaries[b] = results[b]

BuildInv ==
    /\ BuildTypes
    /\ \A b \in Builds : NoneMissedYet(b) /\ Accounted(b) /\ Stored(b)
    /\ DOMAIN summaries \subseteq Builds

-----------------------------------------------------------------------------

LEMMA BuildInvInit == Init => BuildInv
BY DEF Init, BuildInv, BuildTypes, Stages, NoneMissedYet, Accounted, Stored

\* One fetch of b ends, well or badly.
LEMMA FetchKeepsInv ==
    ASSUME BuildInv, NEW b \in Builds, NEW t \in Txs,
           FetchSucceeds(b, t) \/ FetchFails(b, t)
    PROVE  BuildInv'
<1>1. /\ pc[b] = "fetching" /\ t \in pending[b]
      /\ pending' = [pending EXCEPT ![b] = @ \ {t}]
      /\ UNCHANGED <<pc, allTxids, summaries>>
      /\ \/ results' = [results EXCEPT ![b] = @ \cup {t}] /\ missed' = missed
         \/ missed' = [missed EXCEPT ![b] = @ \cup {t}] /\ results' = results
    BY DEF FetchSucceeds, FetchFails, FetchEnds, cacheVars, pageVars
<1>2. BuildTypes'
    BY <1>1 DEF BuildInv, BuildTypes
<1>3. ASSUME NEW c \in Builds
      PROVE  NoneMissedYet(c)' /\ Accounted(c)' /\ Stored(c)'
    <2>1. CASE c = b
        BY <1>1, <2>1 DEF BuildInv, BuildTypes, NoneMissedYet, Accounted, Stored
    <2>2. CASE c # b
        BY <1>1, <1>3, <2>2 DEF BuildInv, BuildTypes, NoneMissedYet, Accounted, Stored
    <2> QED BY <2>1, <2>2
<1> QED BY <1>1, <1>2, <1>3 DEF BuildInv

\* b lists the mempool: what the cache lacks it will fetch.
LEMMA ListKeepsInv ==
    ASSUME BuildInv, mempool \subseteq Txs, NEW b \in Builds, ListMempool(b)
    PROVE  BuildInv'
<1>1. /\ pc[b] = "listing" /\ pc' = [pc EXCEPT ![b] = "fetching"]
      /\ allTxids' = [allTxids EXCEPT ![b] = mempool]
      /\ results' = [results EXCEPT ![b] = mempool \cap file]
      /\ pending' = [pending EXCEPT ![b] = mempool \ file]
      /\ UNCHANGED <<missed, summaries>>
    BY DEF ListMempool, StartFetches, Goto
<1>2. BuildTypes'
    BY <1>1 DEF BuildInv, BuildTypes, Stages
<1>3. ASSUME NEW c \in Builds
      PROVE  NoneMissedYet(c)' /\ Accounted(c)' /\ Stored(c)'
    <2>1. CASE c = b
        BY <1>1, <2>1 DEF BuildInv, BuildTypes, NoneMissedYet, Accounted, Stored
    <2>2. CASE c # b
        BY <1>1, <1>3, <2>2 DEF BuildInv, BuildTypes, NoneMissedYet, Accounted, Stored
    <2> QED BY <2>1, <2>2
<1> QED BY <1>1, <1>2, <1>3 DEF BuildInv

\* b stores what it fetched, now that it waits for nothing.
LEMMA AggregateKeepsInv ==
    ASSUME BuildInv, NEW b \in Builds, Aggregate(b)
    PROVE  BuildInv'
<1>1. /\ pc[b] = "fetching" /\ pc' = [pc EXCEPT ![b] = "built"]
      /\ pending[b] = {}
      /\ summaries' = Put(summaries, b, results[b])
      /\ UNCHANGED <<allTxids, results, pending, missed>>
    BY DEF Aggregate, Summarise, Goto, Fetched, buildVars
<1>2. BuildTypes'
    BY <1>1 DEF BuildInv, BuildTypes, Stages
<1>3. ASSUME NEW c \in Builds
      PROVE  NoneMissedYet(c)' /\ Accounted(c)' /\ Stored(c)'
    <2>1. CASE c = b
        BY <1>1, <2>1 DEF BuildInv, BuildTypes, NoneMissedYet, Accounted, Stored, Put
    <2>2. CASE c # b
        BY <1>1, <1>3, <2>2 DEF BuildInv, BuildTypes, NoneMissedYet, Accounted, Stored, Put
    <2> QED BY <2>1, <2>2
<1>4. (DOMAIN summaries \subseteq Builds)'
    BY <1>1 DEF BuildInv, Put
<1> QED BY <1>2, <1>3, <1>4 DEF BuildInv

\* b starts or gives up: nothing was fetched yet.
LEMMA StageKeepsInv ==
    ASSUME BuildInv, NEW b \in Builds, BuildMempoolSummary(b) \/ ListFails(b)
    PROVE  BuildInv'
<1>1. /\ pc[b] \in {"idle", "listing"}
      /\ \/ pc' = [pc EXCEPT ![b] = "listing"]
         \/ pc' = [pc EXCEPT ![b] = "failed"]
      /\ UNCHANGED <<allTxids, results, pending, missed, summaries>>
    BY DEF BuildMempoolSummary, ListFails, Goto, buildVars, storeVars
<1>2. BuildTypes'
    BY <1>1 DEF BuildInv, BuildTypes, Stages
<1>3. ASSUME NEW c \in Builds
      PROVE  NoneMissedYet(c)' /\ Accounted(c)' /\ Stored(c)'
    BY <1>1, <1>3 DEF BuildInv, BuildTypes, NoneMissedYet, Accounted, Stored
<1> QED BY <1>1, <1>2, <1>3 DEF BuildInv

\* The page fetches the summary, and the stores drop it.
LEMMA GetKeepsInv ==
    ASSUME BuildInv, NEW b \in Builds, GetMempoolSummary(b)
    PROVE  BuildInv'
<1>1. /\ summaries' = Drop(summaries, b) \/ summaries' = summaries
      /\ UNCHANGED <<pc, allTxids, results, pending, missed>>
    BY DEF GetMempoolSummary, buildVars, storeVars
<1>2. /\ DOMAIN summaries' \subseteq DOMAIN summaries
      /\ \A c \in DOMAIN summaries' : summaries'[c] = summaries[c]
    BY <1>1 DEF Drop
<1> QED
    BY <1>1, <1>2 DEF BuildInv, BuildTypes, NoneMissedYet, Accounted, Stored

LEMMA BuildInvStep ==
    BuildInv /\ mempool \subseteq Txs /\ [Next]_vars => BuildInv'
<1> SUFFICES ASSUME BuildInv, mempool \subseteq Txs, [Next]_vars PROVE BuildInv'
    OBVIOUS
<1>1. ASSUME UNCHANGED <<pc, buildVars, summaries>> PROVE BuildInv'
    BY <1>1 DEF buildVars, BuildInv, BuildTypes, NoneMissedYet, Accounted, Stored
<1>2. ASSUME NEW b \in Builds, loadMempool(b) \/ updateStatus(b) \/ Close(b)
      PROVE  BuildInv'
    BY <1>1, <1>2 DEF loadMempool, updateStatus, Close, storeVars
<1>3. ASSUME MempoolChanges PROVE BuildInv'
    BY <1>1, <1>3 DEF MempoolChanges, storeVars
<1>4. ASSUME UNCHANGED vars PROVE BuildInv'
    BY <1>1, <1>4 DEF vars, storeVars
<1> QED
    BY <1>2, <1>3, <1>4, FetchKeepsInv, ListKeepsInv, AggregateKeepsInv, StageKeepsInv,
       GetKeepsInv DEF Next

\* Only listed transactions of the node: the mempool stays a set of Txs.
LEMMA MempoolStep ==
    mempool \subseteq Txs /\ [Next]_vars => (mempool \subseteq Txs)'
BY DEF Next, vars, loadMempool, updateStatus, GetMempoolSummary, Close, BuildMempoolSummary,
       ListMempool, ListFails, FetchSucceeds, FetchFails, Aggregate, MempoolChanges

LEMMA BuildInvAlways == Spec => []BuildInv
<1>1. Init => mempool \subseteq Txs
    BY DEF Init
<1> QED BY <1>1, BuildInvInit, BuildInvStep, MempoolStep, PTL DEF Spec

-----------------------------------------------------------------------------

\* However many builds reload, fill and purge the shared cache, a stored
\* summary is the build's listing without the fetches that failed
\* (getMempoolTxSummaries, buildMempoolSummary).
THEOREM SummariesAreOwnListings == Spec => []SummaryIsOwnListing
<1>1. BuildInv => SummaryIsOwnListing
    BY DEF BuildInv, Accounted, Stored, SummaryIsOwnListing
<1> QED BY <1>1, BuildInvAlways, PTL

-----------------------------------------------------------------------------
(* Progress. *)

\* What the status of a build says while it lists and fetches: nothing yet, or
\* the size of its listing and how many of the fetches have ended.
Progress(b) ==
    /\ pc[b] = "listing" => b \in DOMAIN statuses /\ statuses[b] = NotStarted
    /\ pc[b] = "fetching" =>
        /\ b \in DOMAIN statuses
        /\ doneCount[b] = Cardinality(allTxids[b]) - Cardinality(pending[b])
        /\ \/ statuses[b] = NotStarted
           \/ statuses[b].count = Cardinality(allTxids[b]) /\ statuses[b].done = doneCount[b]

\* What a build reports is what it has counted.
ProgressInv ==
    /\ doneCount \in [Builds -> Int]
    /\ \A b \in Builds : Progress(b)

\* Storing under one id, or forgetting it, does not touch the others.
LEMMA PutAndDrop ==
    ASSUME NEW store, NEW b, NEW v
    PROVE  /\ b \in DOMAIN Put(store, b, v) /\ Put(store, b, v)[b] = v
           /\ \A c : c # b /\ c \in DOMAIN store =>
                /\ c \in DOMAIN Put(store, b, v) /\ Put(store, b, v)[c] = store[c]
                /\ c \in DOMAIN Drop(store, b) /\ Drop(store, b)[c] = store[c]
BY DEF Put, Drop

\* A build is not disturbed by a step that leaves its own state and status alone.
LEMMA OthersKeepProgress ==
    ASSUME NEW c \in Builds, Progress(c), pc'[c] = pc[c], allTxids'[c] = allTxids[c],
           pending'[c] = pending[c], doneCount'[c] = doneCount[c],
           c \in DOMAIN statuses => c \in DOMAIN statuses' /\ statuses'[c] = statuses[c]
    PROVE  Progress(c)'
BY DEF Progress

\* A listing is finite, and what is waited for is part of it.
LEMMA ListingIsFinite ==
    ASSUME NEW listing \in SUBSET Txs
    PROVE  IsFiniteSet(listing) /\ Cardinality(listing) \in Nat
BY TxsAssumption, FS_Subset, FS_CardinalityType DEF TxsAssumption

\* What the cache holds needs no fetch: it counts as done from the start.
LEMMA ListKeepsProgress ==
    ASSUME BuildInv, ProgressInv, mempool \subseteq Txs, NEW b \in Builds, ListMempool(b)
    PROVE  ProgressInv'
<1> DEFINE held == Cardinality(mempool \cap file)
<1>1. /\ pc[b] = "listing" /\ pc' = [pc EXCEPT ![b] = "fetching"]
      /\ allTxids' = [allTxids EXCEPT ![b] = mempool]
      /\ pending' = [pending EXCEPT ![b] = mempool \ file]
      /\ doneCount' = [doneCount EXCEPT ![b] = held]
      /\ statuses' = IF mempool \cap file = {} THEN statuses
                     ELSE Put(statuses, b, [count |-> Cardinality(mempool), done |-> held])
    BY DEF ListMempool, StartFetches, Goto
<1>2. held \in Nat /\ Cardinality(mempool) \in Nat /\ IsFiniteSet(mempool)
    BY ListingIsFinite
<1>3. Cardinality(mempool \ file) = Cardinality(mempool) - held /\ Cardinality(mempool \ file) \in Nat
    BY <1>2, FS_Difference, ListingIsFinite
<1> HIDE DEF held
<1>4. Progress(b)'
    <2>1. /\ pc'[b] = "fetching" /\ allTxids'[b] = mempool /\ pending'[b] = mempool \ file
          /\ doneCount'[b] = held
        BY <1>1 DEF BuildInv, BuildTypes, ProgressInv
    <2>2. doneCount'[b] = Cardinality(mempool) - Cardinality(mempool \ file)
        BY <1>2, <1>3, <2>1
    <2>3. b \in DOMAIN statuses /\ statuses[b] = NotStarted
        BY <1>1 DEF ProgressInv, Progress
    <2>4. CASE mempool \cap file = {}
        BY <1>1, <2>1, <2>2, <2>3, <2>4 DEF Progress
    <2>5. CASE mempool \cap file # {}
        <3> DEFINE first == [count |-> Cardinality(mempool), done |-> held]
        <3>1. statuses' = Put(statuses, b, first)
            BY <1>1, <2>5
        <3>2. b \in DOMAIN statuses' /\ statuses'[b] = first
            BY <3>1, PutAndDrop
        <3>3. statuses'[b].count = Cardinality(mempool) /\ statuses'[b].done = held
            BY <3>2
        <3>4. statuses'[b].count = Cardinality(allTxids'[b]) /\ statuses'[b].done = doneCount'[b]
            BY <2>1, <3>3
        <3>5. doneCount'[b] = Cardinality(allTxids'[b]) - Cardinality(pending'[b])
            BY <2>1, <2>2
        <3> HIDE DEF first
        <3> QED BY <2>1, <3>2, <3>4, <3>5 DEF Progress
    <2> QED BY <2>4, <2>5
<1>5. ASSUME NEW c \in Builds, c # b PROVE Progress(c)'
    <2>1. c \in DOMAIN statuses => c \in DOMAIN statuses' /\ statuses'[c] = statuses[c]
        BY <1>1, <1>5, PutAndDrop
    <2> QED BY <1>1, <1>5, <2>1, OthersKeepProgress DEF BuildInv, BuildTypes, ProgressInv
<1>6. doneCount' \in [Builds -> Int]
    BY <1>1, <1>2 DEF ProgressInv
<1> QED BY <1>4, <1>5, <1>6 DEF ProgressInv

\* A fetch that ends is counted once, whether it failed or not.
LEMMA FetchKeepsProgress ==
    ASSUME BuildInv, ProgressInv, NEW b \in Builds, NEW t \in Txs, FetchEnds(b, t),
           UNCHANGED <<pc, allTxids>>
    PROVE  ProgressInv'
<1> DEFINE next == [count |-> Cardinality(allTxids[b]), done |-> doneCount[b] + 1]
<1>1. /\ pc[b] = "fetching" /\ t \in pending[b]
      /\ pending' = [pending EXCEPT ![b] = @ \ {t}]
      /\ doneCount' = [doneCount EXCEPT ![b] = @ + 1]
      /\ statuses' = Put(statuses, b, next)
    BY DEF FetchEnds, markDone
<1>2. /\ pending[b] \in SUBSET Txs /\ allTxids[b] \in SUBSET Txs /\ doneCount[b] \in Int
      /\ doneCount[b] = Cardinality(allTxids[b]) - Cardinality(pending[b])
    BY <1>1 DEF BuildInv, BuildTypes, ProgressInv, Progress
<1>3. /\ Cardinality(pending[b]) \in Nat /\ Cardinality(allTxids[b]) \in Nat
      /\ Cardinality(pending[b] \ {t}) = Cardinality(pending[b]) - 1
    BY <1>1, <1>2, ListingIsFinite, FS_RemoveElement
<1>4. Progress(b)'
    <2>1. pending'[b] = pending[b] \ {t} /\ doneCount'[b] = doneCount[b] + 1
        BY <1>1 DEF BuildInv, BuildTypes, ProgressInv
    <2>2. b \in DOMAIN statuses' /\ statuses'[b] = next
        BY <1>1, PutAndDrop
    <2>3. doneCount'[b] = Cardinality(allTxids[b]) - Cardinality(pending'[b])
        BY <1>2, <1>3, <2>1
    <2> QED BY <1>1, <2>1, <2>2, <2>3 DEF Progress
<1>5. ASSUME NEW c \in Builds, c # b PROVE Progress(c)'
    <2>1. c \in DOMAIN statuses => c \in DOMAIN statuses' /\ statuses'[c] = statuses[c]
        BY <1>1, <1>5, PutAndDrop
    <2> QED BY <1>1, <1>5, <2>1, OthersKeepProgress DEF BuildInv, BuildTypes, ProgressInv
<1>6. doneCount' \in [Builds -> Int]
    BY <1>1, <1>2 DEF ProgressInv
<1> QED BY <1>4, <1>5, <1>6 DEF ProgressInv

\* The other steps of a build and its page.
LEMMA StageKeepsProgress ==
    ASSUME BuildInv, ProgressInv, NEW b \in Builds,
           \/ BuildMempoolSummary(b) \/ ListFails(b) \/ Aggregate(b) \/ GetMempoolSummary(b)
    PROVE  ProgressInv'
<1>1. UNCHANGED <<allTxids, pending, doneCount>>
    BY DEF BuildMempoolSummary, ListFails, Aggregate, GetMempoolSummary, buildVars
<1>2. ASSUME NEW c \in Builds, c # b PROVE Progress(c)'
    <2>1. pc'[c] = pc[c]
        BY <1>2 DEF BuildMempoolSummary, ListFails, Aggregate, GetMempoolSummary, Goto, BuildInv, BuildTypes
    <2>2. \/ \E v : statuses' = Put(statuses, b, v)
          \/ statuses' = Drop(statuses, b)
          \/ statuses' = statuses
        BY DEF BuildMempoolSummary, ListFails, Aggregate, Summarise, GetMempoolSummary, storeVars
    <2>3. c \in DOMAIN statuses => c \in DOMAIN statuses' /\ statuses'[c] = statuses[c]
        <3>1. CASE \E v : statuses' = Put(statuses, b, v)
            <4>1. PICK v : statuses' = Put(statuses, b, v)
                BY <3>1
            <4> QED BY <1>2, <4>1, PutAndDrop
        <3>2. CASE statuses' = Drop(statuses, b)
            BY <1>2, <3>2 DEF Drop
        <3> QED BY <2>2, <3>1, <3>2
    <2> QED BY <1>1, <1>2, <2>1, <2>3, OthersKeepProgress DEF ProgressInv
<1>3. Progress(b)'
    <2>1. CASE BuildMempoolSummary(b)
        <3>1. pc'[b] = "listing" /\ statuses' = Put(statuses, b, NotStarted)
            BY <2>1 DEF BuildMempoolSummary, Goto, BuildInv, BuildTypes
        <3>2. b \in DOMAIN statuses' /\ statuses'[b] = NotStarted
            BY <3>1, PutAndDrop
        <3> QED BY <3>1, <3>2 DEF Progress
    <2>2. CASE ListFails(b) \/ Aggregate(b)
        BY <2>2 DEF ListFails, Aggregate, Goto, BuildInv, BuildTypes, Progress
    <2>3. CASE GetMempoolSummary(b)
        <3>1. pc' = pc
            BY <2>3 DEF GetMempoolSummary
        <3>2. CASE b \in DOMAIN summaries
            BY <3>1, <3>2 DEF BuildInv, Stored, Progress
        <3>3. CASE b \notin DOMAIN summaries
            BY <1>1, <2>3, <3>1, <3>3 DEF GetMempoolSummary, storeVars, ProgressInv, Progress
        <3> QED BY <3>2, <3>3
    <2> QED BY <2>1, <2>2, <2>3
<1> QED BY <1>1, <1>2, <1>3 DEF ProgressInv

\* A transaction that arrives or fails is counted once, in its own build.
LEMMA ProgressInvStep ==
    BuildInv /\ ProgressInv /\ mempool \subseteq Txs /\ [Next]_vars => ProgressInv'
<1> SUFFICES ASSUME BuildInv, ProgressInv, mempool \subseteq Txs, [Next]_vars PROVE ProgressInv'
    OBVIOUS
<1>1. ASSUME UNCHANGED <<pc, buildVars, statuses>> PROVE ProgressInv'
    BY <1>1 DEF buildVars, ProgressInv, Progress
<1>2. ASSUME NEW b \in Builds, loadMempool(b) \/ updateStatus(b) \/ Close(b)
      PROVE  ProgressInv'
    BY <1>1, <1>2 DEF loadMempool, updateStatus, Close, storeVars
<1>3. ASSUME MempoolChanges PROVE ProgressInv'
    BY <1>1, <1>3 DEF MempoolChanges, storeVars
<1>4. ASSUME UNCHANGED vars PROVE ProgressInv'
    BY <1>1, <1>4 DEF vars, storeVars
<1>5. ASSUME NEW b \in Builds, NEW t \in Txs, FetchSucceeds(b, t) \/ FetchFails(b, t)
      PROVE  ProgressInv'
    BY <1>5, FetchKeepsProgress DEF FetchSucceeds, FetchFails
<1> QED
    BY <1>2, <1>3, <1>4, <1>5, ListKeepsProgress, StageKeepsProgress DEF Next

\* The status of a build (statusUpdate of getMempoolTxSummaries) counts every
\* fetch that has ended, once, and never says that all is done while one is
\* open, whatever the builds that overlap with it do.
THEOREM ProgressIsCounted == Spec => []ProgressIsExact
<1>1. Init => mempool \subseteq Txs /\ ProgressInv
    BY DEF Init, ProgressInv, Progress
<1>2. BuildInv /\ ProgressInv => ProgressIsExact
    <2> SUFFICES ASSUME BuildInv, ProgressInv, NEW b \in Builds, pc[b] = "fetching"
                 PROVE  /\ doneCount[b] = Cardinality(allTxids[b]) - Cardinality(pending[b])
                        /\ pending[b] # {} => statuses[b].done < statuses[b].count \/ statuses[b] = NotStarted
        BY DEF ProgressIsExact
    <2>1. pending[b] \in SUBSET Txs /\ allTxids[b] \in SUBSET Txs
        BY DEF BuildInv, BuildTypes
    <2>2. Cardinality(allTxids[b]) \in Nat /\ Cardinality(pending[b]) \in Nat
          /\ (pending[b] # {} => Cardinality(pending[b]) # 0)
        BY <2>1, ListingIsFinite, FS_EmptySet
    <2> QED BY <2>2 DEF ProgressInv, Progress
<1> QED BY <1>1, <1>2, BuildInvAlways, ProgressInvStep, MempoolStep, PTL DEF Spec
=============================================================================
