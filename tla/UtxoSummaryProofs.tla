------------------------- MODULE UtxoSummaryProofs -------------------------
(***************************************************************************)
(* The safety properties of UtxoSummary for any jobs, any kinds of jobs    *)
(* and any number of blocks.                                               *)
(***************************************************************************)
EXTENDS UtxoSummary, TLAPS

Stages == Waiting \cup {"idle", "done", "killed"}

\* A summary the node may have computed by now, or none.
Reached == 1..tip \cup {NoSummary}

\* What SummariesAreReal needs to be inductive: it also says what the file
\* may hold, which a restart leaves for the next lookup.
RealInv ==
    /\ tip \in 1..MaxTip
    /\ utxoSetSummary \in Reached /\ miscCache \in Reached
    /\ file \in Reached \cup {Corrupt}
    /\ result \in [Jobs -> Reached]
    /\ pc \in [Jobs -> Stages]

\* A refresh or a page that may soon ask the node may do so: the index, once
\* known, stays known until a restart, which ends the job too.
SpareInv ==
    \A j \in Jobs : Kind[j] # "api" /\ pc[j] = "lookup"
        => ~(slowDeviceMode /\ getindexinfo # "coinstats")

FlagInv ==
    /\ slowDeviceMode \in BOOLEAN /\ utxoSetSummaryPending \in BOOLEAN
    /\ getindexinfo \in {"unknown", "noCoinstats", "coinstats"}
    /\ NoStalePending
    /\ SpareInv

UtxoInv == RealInv /\ FlagInv

-----------------------------------------------------------------------------
(* Real summaries *)

LEMMA RealInvInit == Init => RealInv
BY ValuesAssumption DEF Init, RealInv, Reached, Stages, Waiting

\* A job that ends with a summary the node may have computed.
LEMMA DeliverKeepsReal ==
    ASSUME RealInv, NEW j \in Jobs, NEW v \in Reached, Deliver(j, v), tip' = tip,
           miscCache' \in Reached, file' \in Reached \cup {Corrupt}
    PROVE  RealInv'
<1>1. /\ pc' = [pc EXCEPT ![j] = "done"] /\ result' = [result EXCEPT ![j] = v]
      /\ utxoSetSummary' \in {v, utxoSetSummary}
    BY DEF Deliver, Finish, globals
<1>2. Reached' = Reached
    BY DEF Reached
<1> QED BY <1>1, <1>2 DEF RealInv, Stages

\* A job that moves on without a summary, or ends without one.
LEMMA MoveKeepsReal ==
    ASSUME RealInv, NEW j \in Jobs, NEW stage \in Stages,
           pc' = [pc EXCEPT ![j] = stage],
           \E v \in Reached : result' = [result EXCEPT ![j] = v] \/ result' = result,
           utxoSetSummary' \in {NoSummary, utxoSetSummary}, tip' = tip,
           miscCache' = miscCache, file' \in Reached \cup {Corrupt}
    PROVE  RealInv'
<1>1. Reached' = Reached /\ NoSummary \in Reached
    BY DEF Reached
<1>2. result' \in [Jobs -> Reached] /\ pc' \in [Jobs -> Stages]
    BY DEF RealInv
<1> QED BY <1>1, <1>2 DEF RealInv

LEMMA BeginKeepsReal ==
    ASSUME RealInv, NEW j \in Jobs, Begin(j)
    PROVE  RealInv'
<1>1. /\ \E stage \in Stages : pc' = [pc EXCEPT ![j] = stage]
      /\ \E v \in Reached : result' = [result EXCEPT ![j] = v] \/ result' = result
    BY DEF Begin, BeginRefresh, BeginPage, BeginApi, Finish, GoOn, RealInv, Stages, Waiting, Reached
<1>2. /\ utxoSetSummary' \in {NoSummary, utxoSetSummary} /\ tip' = tip
      /\ miscCache' = miscCache /\ file' \in Reached \cup {Corrupt}
    BY DEF Begin, BeginRefresh, BeginPage, BeginApi, globals, RealInv
<1> QED BY <1>1, <1>2, MoveKeepsReal

LEMMA LookupKeepsReal ==
    ASSUME RealInv, NEW j \in Jobs, Lookup(j)
    PROVE  RealInv'
<1>1. LoadJson \in Reached
    BY DEF RealInv, LoadJson, Reached
<1>2. CASE CacheHit(j)
    BY <1>2, DeliverKeepsReal DEF CacheHit, RealInv
<1>3. CASE FileHit(j)
    BY <1>1, <1>3, DeliverKeepsReal DEF FileHit, RealInv
<1>4. CASE CallNode(j)
    <2>1. NoSummary \in Reached /\ "rpc" \in Stages
        BY DEF Reached, Stages, Waiting
    <2> QED BY <1>1, <1>4, <2>1, MoveKeepsReal DEF CallNode, globals
<1> QED BY <1>2, <1>3, <1>4 DEF Lookup

LEMMA ReplyKeepsReal ==
    ASSUME RealInv, NEW j \in Jobs, NodeComputes(j) \/ Reply(j)
    PROVE  RealInv'
<1>1. NoSummary \in Reached /\ {"computed", "done"} \subseteq Stages
    BY DEF Reached, Stages, Waiting
<1>2. CASE NodeComputes(j)
    <2>1. tip \in Reached
        BY DEF RealInv, Reached
    <2>2. file \in Reached \cup {Corrupt}
        BY DEF RealInv
    <2> QED BY <1>1, <1>2, <2>1, <2>2, MoveKeepsReal DEF NodeComputes, globals
<1>3. CASE Answer(j)
    <2>1. result[j] \in Reached /\ file \in Reached \cup {Corrupt}
        BY DEF RealInv
    <2> QED BY <1>3, <2>1, DeliverKeepsReal DEF Answer
<1>4. CASE AnswerEmpty(j)
    BY <1>1, <1>4, DeliverKeepsReal DEF AnswerEmpty, RealInv
<1>5. CASE Fail(j)
    <2>1. file \in Reached \cup {Corrupt}
        BY DEF RealInv
    <2> QED BY <1>1, <1>5, <2>1, MoveKeepsReal DEF Fail, Finish
<1> QED BY <1>2, <1>3, <1>4, <1>5 DEF Reply

LEMMA RealInvStep == RealInv /\ [Next]_vars => RealInv'
<1> SUFFICES ASSUME RealInv, [Next]_vars PROVE RealInv'
    OBVIOUS
<1>1. CASE LearnIndexInfo \/ UNCHANGED vars
    BY <1>1 DEF LearnIndexInfo, vars, globals, RealInv, Reached
<1>2. CASE CacheExpires
    BY <1>2 DEF CacheExpires, globals, RealInv, Reached
<1>3. CASE NodeAdvances
    <2>1. tip' \in 1..MaxTip /\ Reached \subseteq Reached'
        BY <1>3, ValuesAssumption DEF NodeAdvances, RealInv, Reached
    <2> QED BY <1>3, <2>1 DEF NodeAdvances, globals, RealInv
<1>4. CASE Restart
    <2>1. Reached' = Reached /\ NoSummary \in Reached
        BY <1>4 DEF Restart, Reached
    <2>2. file' \in Reached \cup {Corrupt}
        BY <1>4 DEF Restart, RealInv
    <2>3. pc' \in [Jobs -> Stages]
        BY <1>4 DEF Restart, RealInv, Stages
    <2> QED BY <1>4, <2>1, <2>2, <2>3 DEF Restart, RealInv
<1> QED
    BY <1>1, <1>2, <1>3, <1>4, BeginKeepsReal, LookupKeepsReal, ReplyKeepsReal
    DEF Next, Begin, Lookup, Reply

-----------------------------------------------------------------------------
(* The pending flag, and who asks the node *)

LEMMA FlagInvInit == Init => FlagInv
BY DEF Init, FlagInv, NoStalePending, SpareInv

\* A job goes from one waiting stage to another: a refresh goes on refreshing.
LEMMA WaitingKeepsFlag ==
    ASSUME RealInv, FlagInv, NEW j \in Jobs, NEW stage \in Waiting,
           Active(j), stage # "lookup",
           pc' = [pc EXCEPT ![j] = stage],
           UNCHANGED <<slowDeviceMode, getindexinfo, utxoSetSummaryPending>>
    PROVE  FlagInv'
<1>1. ASSUME Refreshing PROVE Refreshing'
    <2>1. PICK k \in Jobs : Kind[k] = "refresh" /\ Active(k)
        BY <1>1 DEF Refreshing
    <2>2. Active(k)'
        BY <2>1 DEF Active, RealInv
    <2> QED BY <2>1, <2>2 DEF Refreshing
<1> QED BY <1>1 DEF FlagInv, NoStalePending, SpareInv, RealInv

\* A job ends.  A refresh lowers the flag; another job leaves every refresh
\* where it is.
LEMMA EndKeepsFlag ==
    ASSUME RealInv, FlagInv, NEW j \in Jobs, pc' = [pc EXCEPT ![j] = "done"],
           IF Kind[j] = "refresh" THEN utxoSetSummaryPending' = FALSE
                                  ELSE utxoSetSummaryPending' = utxoSetSummaryPending,
           UNCHANGED <<slowDeviceMode, getindexinfo>>
    PROVE  FlagInv'
<1>1. ASSUME Kind[j] # "refresh", Refreshing PROVE Refreshing'
    <2>1. PICK k \in Jobs : Kind[k] = "refresh" /\ Active(k)
        BY <1>1 DEF Refreshing
    <2>2. Active(k)'
        BY <1>1, <2>1 DEF Active, RealInv
    <2> QED BY <2>1, <2>2 DEF Refreshing
<1>2. NoStalePending' /\ utxoSetSummaryPending' \in BOOLEAN
    BY <1>1 DEF FlagInv, NoStalePending
<1>3. SpareInv'
    BY DEF FlagInv, SpareInv, RealInv
<1> QED BY <1>2, <1>3 DEF FlagInv

LEMMA BeginKeepsFlag ==
    ASSUME RealInv, FlagInv, NEW j \in Jobs, Begin(j)
    PROVE  FlagInv'
<1>1. /\ pc[j] = "idle" /\ UNCHANGED <<slowDeviceMode, getindexinfo>>
      /\ pc' = [pc EXCEPT ![j] = "done"] \/ pc' = [pc EXCEPT ![j] = "lookup"]
    BY DEF Begin, BeginRefresh, BeginPage, BeginApi, Finish, GoOn
<1>2. CASE pc' = [pc EXCEPT ![j] = "done"]
    <2>1. "lookup" # "done" /\ pc'[j] = "done"
        BY <1>2 DEF RealInv
    <2>2. IF Kind[j] = "refresh" THEN utxoSetSummaryPending' = FALSE
                                 ELSE utxoSetSummaryPending' = utxoSetSummaryPending
        BY <2>1 DEF Begin, BeginRefresh, BeginPage, BeginApi, Finish, GoOn, globals, RealInv
    <2> QED BY <1>1, <1>2, <2>2, EndKeepsFlag
<1>3. CASE pc' = [pc EXCEPT ![j] = "lookup"]
    <2>1. pc'[j] = "lookup" /\ \A k \in Jobs : k # j => pc'[k] = pc[k]
        BY <1>3 DEF RealInv
    <2>2. /\ Kind[j] # "api" => ~shouldSkipUtxoSetSummaryFetch
          /\ Kind[j] = "refresh" \/ utxoSetSummaryPending' = utxoSetSummaryPending
          /\ utxoSetSummaryPending' \in BOOLEAN
        BY <2>1 DEF Begin, BeginRefresh, BeginPage, BeginApi, Finish, GoOn, globals,
                    RealInv, FlagInv
    <2>3. ASSUME Kind[j] = "refresh" \/ Refreshing PROVE Refreshing'
        <3>1. CASE Kind[j] = "refresh"
            BY <2>1, <3>1 DEF Refreshing, Active, Waiting
        <3>2. CASE Refreshing
            <4>1. PICK k \in Jobs : Kind[k] = "refresh" /\ Active(k)
                BY <3>2 DEF Refreshing
            <4> QED BY <2>1, <4>1 DEF Refreshing, Active, Waiting
        <3> QED BY <2>3, <3>1, <3>2
    <2>4. NoStalePending'
        BY <2>2, <2>3 DEF FlagInv, NoStalePending
    <2>5. SpareInv'
        BY <1>1, <2>1, <2>2 DEF FlagInv, SpareInv, shouldSkipUtxoSetSummaryFetch
    <2> QED BY <1>1, <2>2, <2>4, <2>5 DEF FlagInv
<1> QED BY <1>1, <1>2, <1>3

LEMMA JobKeepsFlag ==
    ASSUME RealInv, FlagInv, NEW j \in Jobs, Lookup(j) \/ NodeComputes(j) \/ Reply(j)
    PROVE  FlagInv'
<1>1. CASE CallNode(j) \/ NodeComputes(j)
    <2>1. /\ Active(j)
          /\ \E stage \in {"rpc", "computed"} : pc' = [pc EXCEPT ![j] = stage]
          /\ UNCHANGED <<slowDeviceMode, getindexinfo, utxoSetSummaryPending>>
        BY <1>1 DEF CallNode, NodeComputes, Active, Waiting, globals
    <2> QED BY <2>1, WaitingKeepsFlag DEF Waiting
<1>2. CASE CacheHit(j) \/ FileHit(j) \/ Answer(j) \/ AnswerEmpty(j) \/ Fail(j)
    <2>1. /\ pc' = [pc EXCEPT ![j] = "done"] /\ UNCHANGED <<slowDeviceMode, getindexinfo>>
        BY <1>2 DEF CacheHit, FileHit, Answer, AnswerEmpty, Fail, Deliver, Finish
    <2>2. IF Kind[j] = "refresh" THEN utxoSetSummaryPending' = FALSE
                                 ELSE utxoSetSummaryPending' = utxoSetSummaryPending
        BY <1>2 DEF CacheHit, FileHit, Answer, AnswerEmpty, Fail, Deliver, globals, FlagInv
    <2> QED BY <2>1, <2>2, EndKeepsFlag
<1> QED BY <1>1, <1>2 DEF Lookup, Reply

LEMMA FlagInvStep == UtxoInv /\ [Next]_vars => FlagInv'
<1> SUFFICES ASSUME RealInv, FlagInv, [Next]_vars PROVE FlagInv'
    BY DEF UtxoInv
<1>1. ASSUME UNCHANGED <<slowDeviceMode, getindexinfo, utxoSetSummaryPending, pc>>
      PROVE  FlagInv'
    BY <1>1 DEF FlagInv, NoStalePending, SpareInv, Refreshing, Active
<1>2. CASE CacheExpires \/ NodeAdvances \/ UNCHANGED vars
    BY <1>1, <1>2 DEF CacheExpires, NodeAdvances, vars, globals
<1>3. CASE LearnIndexInfo
    BY <1>3 DEF LearnIndexInfo, globals, FlagInv, NoStalePending, SpareInv, Refreshing, Active
<1>4. CASE Restart
    <2>1. \A j \in Jobs : pc'[j] # "lookup"
        BY <1>4 DEF Restart, Active, Waiting
    <2> QED BY <1>4, <2>1 DEF Restart, FlagInv, NoStalePending, SpareInv
<1> QED
    BY <1>2, <1>3, <1>4, BeginKeepsFlag, JobKeepsFlag DEF Next, Begin, Lookup, Reply

LEMMA UtxoInvAlways == Spec => []UtxoInv
<1>1. Init => UtxoInv
    BY RealInvInit, FlagInvInit DEF UtxoInv
<1>2. UtxoInv /\ [Next]_vars => UtxoInv'
    BY RealInvStep, FlagInvStep DEF UtxoInv
<1> QED BY <1>1, <1>2, PTL DEF Spec

-----------------------------------------------------------------------------
(* The theorems *)

\* The state keeps its shape (the globals, miscCache and utxo-set.json).
THEOREM UtxoTypeOK == Spec => []TypeOK
<1>1. UtxoInv => TypeOK
    BY ValuesAssumption DEF UtxoInv, RealInv, FlagInv, TypeOK, Summaries, Reached, Stages, Waiting
<1> QED BY <1>1, UtxoInvAlways, PTL

\* utxoSetSummaryPending never outlives the refreshes (refreshUtxoSetSummary's
\* finally block, on every way out).
THEOREM PendingIsNeverStale == Spec => []NoStalePending
<1>1. UtxoInv => NoStalePending
    BY DEF UtxoInv, FlagInv
<1> QED BY <1>1, UtxoInvAlways, PTL

\* Whatever is shown, cached or published was computed by the node at a
\* height it has reached, although a restart may leave half a file.
THEOREM OnlyRealSummaries == Spec => []SummariesAreReal
<1>1. UtxoInv => SummariesAreReal
    BY DEF UtxoInv, RealInv, SummariesAreReal, Reached
<1> QED BY <1>1, UtxoInvAlways, PTL

\* shouldSkipUtxoSetSummaryFetch protects a slow node from the refresh and
\* the page through every restart and every answer about the index.
THEOREM SlowNodeSpared == Spec => RefreshAndPageSkip
<1> DEFINE Spared == \A j \in Jobs :
        (Kind[j] # "api" /\ pc[j] # "rpc" /\ pc'[j] = "rpc")
            => ~(slowDeviceMode /\ getindexinfo # "coinstats")
<1>1. ASSUME UtxoInv, [Next]_vars, NEW j \in Jobs, pc[j] # "rpc", pc'[j] = "rpc"
      PROVE  pc[j] = "lookup"
    BY <1>1 DEF UtxoInv, RealInv, Stages, Waiting, Next, vars, BeginRefresh, BeginPage, BeginApi,
        CacheHit, FileHit, CallNode, NodeComputes, Answer, AnswerEmpty, Fail, Deliver, Finish,
        GoOn, LearnIndexInfo, CacheExpires, NodeAdvances, Restart
<1>2. UtxoInv /\ [Next]_vars => Spared
    BY <1>1 DEF UtxoInv, FlagInv, SpareInv
<1>3. UtxoInv /\ [Next]_vars => [Spared]_vars
    BY <1>2
<1> QED BY <1>3, UtxoInvAlways, PTL DEF Spec, RefreshAndPageSkip
=============================================================================
