------------------------- MODULE PageRequestsProofs -------------------------
(***************************************************************************)
(* What is proved of PageRequests.  The module has no parameters: what the *)
(* theorems add to the run is the reason.  Every handler of every route is *)
(* shown to answer at most once and, with the exceptions named, to pass on *)
(* what it has answered; and a request that meets such handlers only is    *)
(* answered once, in whichever order its steps fail.                       *)
(***************************************************************************)
EXTENDS PageRequests, TLAPS, SequenceTheorems, FiniteSetTheorems

-----------------------------------------------------------------------------
(* What a handler is made of *)

\* The steps that answer a request, and those that work for it.
AnswerOps == {"page", "json", "redirect"}
WorkOps == {"await", "uncaught", "mayRaise", "raises"}

\* A sequence, whatever it holds.
IsList(s) == \E S : s \in Seq(S)

\* Behind an answer there is next() only, and nothing behind that.
Tidy(s) ==
    \A i \in DOMAIN s :
        /\ s[i].op \in AnswerOps => \A j \in DOMAIN s : i < j => s[j].op = "next"
        /\ s[i].op = "next" => i = Len(s)

\* It is passed on right behind an answer only.
AnswersFirst(s) == \A i \in DOMAIN s : s[i].op = "next" => i > 1 /\ s[i - 1].op \in AnswerOps

\* It is not answered at all.
Silent(s) == \A i \in DOMAIN s : s[i].op \notin AnswerOps

\* A handler whose parts, the try block and what follows it, are tidy; the same with the
\* two promises above, and a handler that does nothing.
IsHandler(h) ==
    /\ IsList(h.parts) /\ Len(h.parts) > 0
    /\ \A p \in DOMAIN h.parts : IsList(h.parts[p]) /\ Tidy(h.parts[p])
Answering(h) == \A p \in DOMAIN h.parts : AnswersFirst(h.parts[p])
Passing(h) == \A p \in DOMAIN h.parts : Silent(h.parts[p])
Idle(h) == \A p \in DOMAIN h.parts : h.parts[p] = <<>>

\* A handler of the request, and one behind it: what the two do together.
IsRoute(r) ==
    \A i \in DOMAIN r.handlers :
        /\ IsHandler(r.handlers[i])
        /\ r.name \notin {ApiXpub.name, TransactionAtHeight.name} => Answering(r.handlers[i])
        /\ r.name = TransactionAtHeight.name => Passing(r.handlers[i])

\* The handler that next() leads to.
IsLater(h, name) ==
    /\ IsHandler(h) /\ Answering(h)
    /\ name # TransactionAtHeight.name => Idle(h)

-----------------------------------------------------------------------------
(* Every handler of the routes *)

\* Steps that neither answer nor pass on.
OnlyWork(s) == IsList(s) /\ \A i \in DOMAIN s : s[i].op \in WorkOps

\* A part that passes on, at its end, what it has answered.
IsPart(s) == IsList(s) /\ Tidy(s) /\ AnswersFirst(s)

\* A handler whose parts all do.
IsSound(h) == IsList(h.parts) /\ Len(h.parts) > 0 /\ \A p \in DOMAIN h.parts : IsPart(h.parts[p])

\* A route whose handlers all do, and that is not the one whose handler only passes on.
AllSound(r) ==
    /\ r.name # "GET /tx/:transactionId@:blockHeight"
    /\ \A i \in DOMAIN r.handlers : IsSound(r.handlers[i])

\* The kinds of steps.
LEMMA StepKinds ==
    /\ \A calls, needs : Settle(calls, needs).op \in WorkOps
    /\ \A call : Await(call).op \in WorkOps /\ Uncaught(call).op \in WorkOps
    /\ MayRaise.op \in WorkOps /\ Raises.op \in WorkOps
    /\ \A view : Page(view).op \in AnswerOps
    /\ Json.op \in AnswerOps /\ Redirect.op \in AnswerOps /\ PassOn.op = "next"
BY DEF Settle, Await, Uncaught, MayRaise, Raises, Page, Json, Redirect, PassOn, WorkOps, AnswerOps

\* A tuple is a list.
LEMMA ListsOf ==
    /\ IsList(<<>>)
    /\ \A a : IsList(<<a>>)
    /\ \A a, b : IsList(<<a, b>>)
    /\ \A a, b, c : IsList(<<a, b, c>>)
    /\ \A a, b, c, d : IsList(<<a, b, c, d>>)
<1>1. IsList(<<>>)
    <2>1. <<>> \in Seq({})
        OBVIOUS
    <2> QED BY <2>1 DEF IsList
<1>2. ASSUME NEW a PROVE IsList(<<a>>)
    <2>1. <<a>> \in Seq({a})
        OBVIOUS
    <2> QED BY <2>1 DEF IsList
<1>3. ASSUME NEW a, NEW b PROVE IsList(<<a, b>>)
    <2>1. <<a, b>> \in Seq({a, b})
        OBVIOUS
    <2> QED BY <2>1 DEF IsList
<1>4. ASSUME NEW a, NEW b, NEW c PROVE IsList(<<a, b, c>>)
    <2>1. <<a, b, c>> \in Seq({a, b, c})
        OBVIOUS
    <2> QED BY <2>1 DEF IsList
<1>5. ASSUME NEW a, NEW b, NEW c, NEW d PROVE IsList(<<a, b, c, d>>)
    <2>1. <<a, b, c, d>> \in Seq({a, b, c, d})
        OBVIOUS
    <2> QED BY <2>1 DEF IsList
<1> QED BY <1>1, <1>2, <1>3, <1>4, <1>5

\* Lists behind one another.
LEMMA ListsJoined ==
    ASSUME NEW s, NEW t, IsList(s), IsList(t)
    PROVE  /\ IsList(s \o t) /\ Len(s) \in Nat /\ Len(t) \in Nat
           /\ DOMAIN s = 1 .. Len(s) /\ DOMAIN t = 1 .. Len(t)
           /\ Len(s \o t) = Len(s) + Len(t) /\ DOMAIN (s \o t) = 1 .. Len(s) + Len(t)
           /\ \A i \in 1 .. Len(s) : (s \o t)[i] = s[i]
           /\ \A i \in Len(s) + 1 .. Len(s) + Len(t) : i - Len(s) \in 1 .. Len(t) /\ (s \o t)[i] = t[i - Len(s)]
<1>1. PICK S, T : s \in Seq(S) /\ t \in Seq(T)
    BY DEF IsList
<1>2. PICK U : U = S \cup T
    OBVIOUS
<1>3. s \in Seq(U) /\ t \in Seq(U)
    BY <1>1, <1>2
<1>4. /\ s \o t \in Seq(U) /\ Len(s \o t) = Len(s) + Len(t)
      /\ \A i \in 1 .. Len(s) + Len(t) : (s \o t)[i] = IF i <= Len(s) THEN s[i] ELSE t[i - Len(s)]
    BY <1>3, ConcatProperties
<1> QED BY <1>3, <1>4 DEF IsList

\* Work is added to work.
LEMMA WorkLists ==
    /\ OnlyWork(<<>>)
    /\ \A a : a.op \in WorkOps => OnlyWork(<<a>>)
    /\ \A a, b : a.op \in WorkOps /\ b.op \in WorkOps => OnlyWork(<<a, b>>)
    /\ \A a, b, c : a.op \in WorkOps /\ b.op \in WorkOps /\ c.op \in WorkOps => OnlyWork(<<a, b, c>>)
    /\ \A a, b, c, d :
         a.op \in WorkOps /\ b.op \in WorkOps /\ c.op \in WorkOps /\ d.op \in WorkOps => OnlyWork(<<a, b, c, d>>)
    /\ \A s, t : OnlyWork(s) /\ OnlyWork(t) => OnlyWork(s \o t)
<1>1. ASSUME NEW s, NEW t, OnlyWork(s), OnlyWork(t) PROVE OnlyWork(s \o t)
    <2>1. IsList(s) /\ IsList(t)
        BY <1>1 DEF OnlyWork
    <2>2. PICK all, m, n : all = s \o t /\ m = Len(s) /\ n = Len(t)
        OBVIOUS
    <2>3. /\ IsList(all) /\ m \in Nat /\ n \in Nat
          /\ DOMAIN s = 1 .. m /\ DOMAIN t = 1 .. n /\ DOMAIN all = 1 .. m + n
          /\ \A i \in 1 .. m : all[i] = s[i]
          /\ \A i \in m + 1 .. m + n : i - m \in 1 .. n /\ all[i] = t[i - m]
        BY <2>1, <2>2, ListsJoined
    <2>4. (\A i \in 1 .. m : s[i].op \in WorkOps) /\ \A i \in 1 .. n : t[i].op \in WorkOps
        BY <1>1, <2>3 DEF OnlyWork
    <2>5. \A i \in 1 .. m + n : i \in 1 .. m \/ i \in m + 1 .. m + n
        BY <2>3
    <2>6. \A i \in DOMAIN all : all[i].op \in WorkOps
        BY ONLY <2>3, <2>4, <2>5
    <2> QED BY <2>2, <2>3, <2>6 DEF OnlyWork
<1>2. OnlyWork(<<>>)
    BY ListsOf DEF OnlyWork
<1>3. ASSUME NEW a, a.op \in WorkOps PROVE OnlyWork(<<a>>)
    BY <1>3, ListsOf DEF OnlyWork
<1>4. ASSUME NEW a, NEW b, a.op \in WorkOps, b.op \in WorkOps PROVE OnlyWork(<<a, b>>)
    BY <1>4, ListsOf DEF OnlyWork
<1>5. ASSUME NEW a, NEW b, NEW c, a.op \in WorkOps, b.op \in WorkOps, c.op \in WorkOps PROVE OnlyWork(<<a, b, c>>)
    BY <1>5, ListsOf DEF OnlyWork
<1>6. ASSUME NEW a, NEW b, NEW c, NEW d, a.op \in WorkOps, b.op \in WorkOps, c.op \in WorkOps, d.op \in WorkOps
      PROVE  OnlyWork(<<a, b, c, d>>)
    BY <1>6, ListsOf DEF OnlyWork
<1> QED BY <1>1, <1>2, <1>3, <1>4, <1>5, <1>6

\* Work in front of a part.
LEMMA WorkedPart ==
    ASSUME NEW w, OnlyWork(w), NEW e, IsPart(e)
    PROVE  IsPart(w \o e)
<1>1. IsList(w) /\ IsList(e)
    BY DEF OnlyWork, IsPart
<1>2. PICK s, m, n : s = w \o e /\ m = Len(w) /\ n = Len(e)
    OBVIOUS
<1>3. /\ IsList(s) /\ m \in Nat /\ n \in Nat /\ DOMAIN s = 1 .. m + n /\ Len(s) = m + n /\ DOMAIN e = 1 .. n
      /\ \A i \in 1 .. m : s[i].op \in WorkOps
      /\ \A i \in m + 1 .. m + n : i - m \in 1 .. n /\ s[i] = e[i - m]
    BY <1>1, <1>2, ListsJoined DEF OnlyWork
<1>4. ASSUME NEW i \in DOMAIN s, s[i].op \notin WorkOps PROVE i \in m + 1 .. m + n
    BY <1>3, <1>4
<1>5. WorkOps \cap AnswerOps = {} /\ "next" \notin WorkOps
    BY DEF WorkOps, AnswerOps
<1>6. ASSUME NEW i \in DOMAIN s, s[i].op \in AnswerOps, NEW j \in DOMAIN s, i < j PROVE s[j].op = "next"
    <2>1. i \in m + 1 .. m + n /\ j \in m + 1 .. m + n
        BY <1>3, <1>4, <1>5, <1>6
    <2>2. e[i - m].op \in AnswerOps /\ i - m \in 1 .. n /\ j - m \in 1 .. n /\ i - m < j - m /\ s[j] = e[j - m]
        BY <1>3, <1>6, <2>1
    <2> QED BY <1>3, <2>2 DEF IsPart, Tidy
<1>7. ASSUME NEW i \in DOMAIN s, s[i].op = "next" PROVE i = Len(s) /\ i > 1 /\ s[i - 1].op \in AnswerOps
    <2>1. i \in m + 1 .. m + n
        BY <1>4, <1>5, <1>7
    <2>2. i - m \in 1 .. n /\ e[i - m].op = "next"
        BY <1>3, <1>7, <2>1
    <2>3. i - m = n /\ i - m > 1 /\ e[(i - m) - 1].op \in AnswerOps
        BY <1>3, <2>2 DEF IsPart, Tidy, AnswersFirst
    <2>4. i - 1 \in m + 1 .. m + n /\ (i - 1) - m = (i - m) - 1
        BY <1>3, <2>1, <2>3
    <2> QED BY <1>3, <2>1, <2>3, <2>4
<1> QED BY <1>2, <1>3, <1>6, <1>7 DEF IsPart, Tidy, AnswersFirst

\* How a part may end.
LEMMA PartEnds ==
    /\ IsPart(<<>>)
    /\ \A a : a.op \in AnswerOps => IsPart(<<a>>) /\ IsPart(<<a, PassOn>>)
<1>1. IsPart(<<>>)
    BY ListsOf DEF IsPart, Tidy, AnswersFirst
<1>2. ASSUME NEW a, a.op \in AnswerOps PROVE IsPart(<<a>>) /\ IsPart(<<a, PassOn>>)
    BY <1>2, ListsOf, StepKinds DEF IsPart, Tidy, AnswersFirst, AnswerOps
<1> QED BY <1>1, <1>2

\* The parts the handlers have.
LEMMA Parts ==
    /\ \A w : OnlyWork(w) => IsPart(w)
    /\ \A w, a : OnlyWork(w) /\ a.op \in AnswerOps => IsPart(w \o <<a, PassOn>>) /\ IsPart(Append(w, a))
    /\ \A a, b : a.op \in WorkOps /\ b.op \in AnswerOps => IsPart(<<a, b>>) /\ IsPart(<<a, b, PassOn>>)
    /\ \A w, a, b : OnlyWork(w) /\ a.op \in WorkOps /\ b.op \in AnswerOps => IsPart(w \o <<a, b, PassOn>>)
<1>1. ASSUME NEW w, OnlyWork(w) PROVE IsPart(w)
    <2>1. \A i \in DOMAIN w : w[i].op \notin AnswerOps /\ w[i].op # "next"
        BY <1>1 DEF OnlyWork, WorkOps, AnswerOps
    <2> QED BY <1>1, <2>1 DEF OnlyWork, IsPart, Tidy, AnswersFirst
<1>2. ASSUME NEW w, OnlyWork(w), NEW a, a.op \in AnswerOps PROVE IsPart(Append(w, a))
    <2>1. PICK S : w \in Seq(S)
        BY <1>2 DEF OnlyWork, IsList
    <2>2. PICK U : U = S \cup {a}
        OBVIOUS
    <2>3. w \in Seq(U) /\ a \in U
        BY <2>1, <2>2
    <2>4. Append(w, a) = w \o <<a>>
        BY <2>3
    <2> QED BY <1>2, <2>4, WorkedPart, PartEnds
<1>3. ASSUME NEW a, NEW b, a.op \in WorkOps, b.op \in AnswerOps PROVE IsPart(<<a, b>>) /\ IsPart(<<a, b, PassOn>>)
    BY <1>3, ListsOf, StepKinds DEF IsPart, Tidy, AnswersFirst, AnswerOps, WorkOps
<1> QED BY <1>1, <1>2, <1>3, WorkedPart, PartEnds

\* The handlers with one to three parts.
LEMMA HandlersOf ==
    /\ \A s, e : IsPart(s) => IsSound(Handler(<<s>>, e))
    /\ \A s, t, e : IsPart(s) /\ IsPart(t) => IsSound(Handler(<<s, t>>, e))
    /\ \A s, t, u, e : IsPart(s) /\ IsPart(t) /\ IsPart(u) => IsSound(Handler(<<s, t, u>>, e))
    /\ \A hosts, h : IsSound(h) => IsSound(OnlyWith(hosts, h))
BY ListsOf DEF Handler, OnlyWith, IsSound

\* The shapes of module Handlers.
LEMMA Shapes ==
    ASSUME NEW w, OnlyWork(w), NEW view, NEW a, a.op \in AnswerOps
    PROVE  /\ IsSound(PlainPage(view, w)) /\ IsSound(PageWithCatch(view, w)) /\ IsSound(PlainJson(w))
           /\ IsSound(JsonWithCatch(w)) /\ IsSound(Ends(w, a))
BY Parts, PartEnds, StepKinds, HandlersOf DEF PlainPage, PageWithCatch, PlainJson, JsonWithCatch, Ends

\* Routes with one to five handlers.
LEMMA RoutesOf ==
    ASSUME NEW name, name # "GET /tx/:transactionId@:blockHeight"
    PROVE  /\ \A g : IsSound(g) => AllSound(On(name, <<g>>))
           /\ \A g, h : IsSound(g) /\ IsSound(h) => AllSound(On(name, <<g, h>>))
           /\ \A g, h, i : IsSound(g) /\ IsSound(h) /\ IsSound(i) => AllSound(On(name, <<g, h, i>>))
           /\ \A g, h, i, j :
                IsSound(g) /\ IsSound(h) /\ IsSound(i) /\ IsSound(j) => AllSound(On(name, <<g, h, i, j>>))
           /\ \A g, h, i, j, k :
                IsSound(g) /\ IsSound(h) /\ IsSound(i) /\ IsSound(j) /\ IsSound(k)
                    => AllSound(On(name, <<g, h, i, j, k>>))
<1> DEFINE Route(h) == On(name, h)
<1>1. \A h : Route(h).name = name /\ Route(h).handlers = h
    BY DEF On
<1>2. \A h : (\A i \in DOMAIN h : IsSound(h[i])) => AllSound(Route(h))
    BY <1>1 DEF AllSound
<1> HIDE DEF Route
<1>3. ASSUME NEW g, IsSound(g) PROVE AllSound(Route(<<g>>))
    <2> DEFINE list == <<g>>
    <2>1. \A p \in DOMAIN list : IsSound(list[p])
        BY ONLY <1>3
    <2> HIDE DEF list
    <2>2. AllSound(Route(list))
        BY <1>2, <2>1
    <2> QED BY <2>2 DEF list
<1>4. ASSUME NEW g, NEW h, IsSound(g), IsSound(h) PROVE AllSound(Route(<<g, h>>))
    <2> DEFINE list == <<g, h>>
    <2>1. \A p \in DOMAIN list : IsSound(list[p])
        BY ONLY <1>4
    <2> HIDE DEF list
    <2>2. AllSound(Route(list))
        BY <1>2, <2>1
    <2> QED BY <2>2 DEF list
<1>5. ASSUME NEW g, NEW h, NEW i, IsSound(g), IsSound(h), IsSound(i) PROVE AllSound(Route(<<g, h, i>>))
    <2> DEFINE list == <<g, h, i>>
    <2>1. \A p \in DOMAIN list : IsSound(list[p])
        BY ONLY <1>5
    <2> HIDE DEF list
    <2>2. AllSound(Route(list))
        BY <1>2, <2>1
    <2> QED BY <2>2 DEF list
<1>6. ASSUME NEW g, NEW h, NEW i, NEW j, IsSound(g), IsSound(h), IsSound(i), IsSound(j)
      PROVE  AllSound(Route(<<g, h, i, j>>))
    <2> DEFINE list == <<g, h, i, j>>
    <2>1. \A p \in DOMAIN list : IsSound(list[p])
        BY ONLY <1>6
    <2> HIDE DEF list
    <2>2. AllSound(Route(list))
        BY <1>2, <2>1
    <2> QED BY <2>2 DEF list
<1>7. ASSUME NEW g, NEW h, NEW i, NEW j, NEW k,
             IsSound(g), IsSound(h), IsSound(i), IsSound(j), IsSound(k)
      PROVE  AllSound(Route(<<g, h, i, j, k>>))
    <2> DEFINE list == <<g, h, i, j, k>>
    <2>1. \A p \in DOMAIN list : IsSound(list[p])
        BY ONLY <1>7
    <2> HIDE DEF list
    <2>2. AllSound(Route(list))
        BY <1>2, <2>1
    <2> QED BY <2>2 DEF list
<1> QED BY <1>3, <1>4, <1>5, <1>6, <1>7 DEF Route

\* The halving estimate is work.
LEMMA HalvingWork == \A needs : OnlyWork(HalvingLookup(needs))
BY StepKinds, WorkLists DEF HalvingLookup

\* The members of a finite set as a sequence.
LEMMA ListOfSet ==
    ASSUME NEW S, IsFiniteSet(S)
    PROVE  SetToSeq(S) \in Seq(S)
<1>1. Cardinality(S) \in Nat /\ ExistsBijection(1 .. Cardinality(S), S)
    BY FS_CardinalityType
<1>2. PICK f \in [1 .. Cardinality(S) -> S] : IsInjective(f)
    BY <1>1 DEF ExistsBijection, Bijection, Injection
<1>3. SetToSeq(S) \in [1 .. Cardinality(S) -> S]
    BY <1>2 DEF SetToSeq
<1> QED BY <1>1, <1>3

\* Every handler of the public interface passes on what it has answered, except that of
\* /api/xyzpub, whose catch block answers nothing.
LEMMA SoundApiRoutes == \A r \in ApiRoutes \ {ApiXpub} : AllSound(r)
<1>1. AllSound(ApiDocs)
    BY StepKinds, WorkLists, Shapes, RoutesOf DEF ApiDocs
<1>2. AllSound(ApiChangelog)
    BY StepKinds, WorkLists, Shapes, RoutesOf DEF ApiChangelog
<1>3. AllSound(ApiVersion)
    BY StepKinds, WorkLists, Shapes, RoutesOf DEF ApiVersion
<1>4. AllSound(ApiTip)
    BY StepKinds, WorkLists, Shapes, RoutesOf DEF ApiTip
<1>5. AllSound(ApiTipHeight)
    BY StepKinds, WorkLists, Shapes, RoutesOf DEF ApiTipHeight
<1>6. AllSound(ApiBlock)
    BY StepKinds, WorkLists, Shapes, RoutesOf DEF ApiBlock
<1>7. AllSound(ApiBlockHeader)
    BY StepKinds, WorkLists, Shapes, RoutesOf DEF ApiBlockHeader
<1>8. AllSound(ApiTransaction)
    BY StepKinds, WorkLists, Shapes, RoutesOf DEF ApiTransaction
<1>9. AllSound(ApiVolume)
    BY StepKinds, WorkLists, Shapes, RoutesOf DEF ApiVolume
<1>10. AllSound(ApiCoins)
    BY StepKinds, WorkLists, Shapes, RoutesOf DEF ApiCoins
<1>11. AllSound(ApiUtxoSet)
    BY StepKinds, WorkLists, Shapes, RoutesOf DEF ApiUtxoSet
<1>12. AllSound(ApiNextHalving)
    BY StepKinds, WorkLists, Shapes, RoutesOf, HalvingWork DEF ApiNextHalving
<1>13. AllSound(ApiAddress)
    BY StepKinds, WorkLists, Shapes, RoutesOf DEF ApiAddress
<1>14. AllSound(ApiXpubRedirect)
    BY StepKinds, WorkLists, Shapes, RoutesOf DEF ApiXpubRedirect
<1>15. AllSound(ApiXpubTxids)
    BY StepKinds, WorkLists, Shapes, RoutesOf DEF ApiXpubTxids
<1>16. AllSound(ApiXpubAddresses)
    BY StepKinds, WorkLists, Shapes, RoutesOf DEF ApiXpubAddresses
<1>17. AllSound(ApiHashrate)
    BY StepKinds, WorkLists, Shapes, RoutesOf, HandlersOf, Parts, PartEnds DEF ApiHashrate
<1>18. AllSound(ApiDifficultyEstimate)
    BY StepKinds, WorkLists, Shapes, RoutesOf DEF ApiDifficultyEstimate
<1>19. AllSound(ApiNextBlock)
    BY StepKinds, WorkLists, Shapes, RoutesOf DEF ApiNextBlock
<1>20. AllSound(ApiNextBlockTxids)
    BY StepKinds, WorkLists, Shapes, RoutesOf DEF ApiNextBlockTxids
<1>21. AllSound(ApiNextBlockIncludes)
    BY StepKinds, WorkLists, Shapes, RoutesOf DEF ApiNextBlockIncludes
<1>22. AllSound(ApiMinerSummary)
    BY StepKinds, WorkLists, Shapes, RoutesOf DEF ApiMinerSummary
<1>23. AllSound(ApiMempoolSummary)
    BY StepKinds, WorkLists, Shapes, RoutesOf DEF ApiMempoolSummary
<1>24. AllSound(ApiMempoolFees)
    BY StepKinds, WorkLists, Shapes, RoutesOf DEF ApiMempoolFees
<1>25. AllSound(ApiPriceSats)
    BY StepKinds, WorkLists, Shapes, RoutesOf DEF ApiPriceSats
<1>26. AllSound(ApiMarketCap)
    BY StepKinds, WorkLists, Shapes, RoutesOf DEF ApiMarketCap
<1>27. AllSound(ApiPrice)
    BY StepKinds, WorkLists, Shapes, RoutesOf DEF ApiPrice
<1>28. AllSound(ApiQuoteRandom)
    BY StepKinds, WorkLists, Shapes, RoutesOf DEF ApiQuoteRandom
<1>29. AllSound(ApiQuotesAll)
    BY StepKinds, WorkLists, Shapes, RoutesOf DEF ApiQuotesAll
<1>30. AllSound(ApiQuote)
    BY StepKinds, WorkLists, Shapes, RoutesOf, HandlersOf, Parts, PartEnds DEF ApiQuote, NoQuoteIndex
<1>31. AllSound(ApiHolidaysAll)
    BY StepKinds, WorkLists, Shapes, RoutesOf DEF ApiHolidaysAll
<1>32. AllSound(ApiHolidaysToday)
    BY StepKinds, WorkLists, Shapes, RoutesOf DEF ApiHolidaysToday
<1>33. AllSound(ApiHolidays)
    BY StepKinds, WorkLists, Shapes, RoutesOf, HandlersOf, Parts, PartEnds DEF ApiHolidays, NoDay
<1> QED BY <1>1, <1>2, <1>3, <1>4, <1>5, <1>6, <1>7, <1>8, <1>9, <1>10, <1>11, <1>12, <1>13, <1>14, <1>15,
       <1>16, <1>17, <1>18, <1>19, <1>20, <1>21, <1>22, <1>23, <1>24, <1>25, <1>26, <1>27, <1>28, <1>29,
       <1>30, <1>31, <1>32, <1>33 DEF ApiRoutes

\* Every handler the pages call passes on what it has answered.
LEMMA SoundAppRoutes == \A r \in AppRoutes : AllSound(r)
<1>1. AllSound(BlocksByHeight)
    BY StepKinds, WorkLists, Shapes, RoutesOf DEF BlocksByHeight
<1>2. AllSound(BlockHeadersByHeight)
    BY StepKinds, WorkLists, Shapes, RoutesOf DEF BlockHeadersByHeight
<1>3. AllSound(BlockStatsByHeight)
    BY StepKinds, WorkLists, Shapes, RoutesOf DEF BlockStatsByHeight
<1>4. AllSound(MempoolTxs)
    BY StepKinds, WorkLists, Shapes, RoutesOf, HandlersOf, Parts, PartEnds DEF MempoolTxs
<1>5. AllSound(DifficultyByHeight)
    BY StepKinds, WorkLists, Shapes, RoutesOf DEF DifficultyByHeight
<1>6. AllSound(PredictedBlocksStatus)
    BY StepKinds, WorkLists, Shapes, RoutesOf DEF PredictedBlocksStatus
<1>7. AllSound(GetPredictedBlocks)
    BY StepKinds, WorkLists, Shapes, RoutesOf DEF GetPredictedBlocks
<1>8. AllSound(MempoolSummaryStatus)
    BY StepKinds, WorkLists, Shapes, RoutesOf DEF MempoolSummaryStatus
<1>9. AllSound(GetMempoolSummary)
    BY StepKinds, WorkLists, Shapes, RoutesOf DEF GetMempoolSummary
<1>10. AllSound(MiningSummaryStatus)
    BY StepKinds, WorkLists, Shapes, RoutesOf DEF MiningSummaryStatus
<1>11. AllSound(GetMiningSummary)
    BY StepKinds, WorkLists, Shapes, RoutesOf DEF GetMiningSummary
<1>12. AllSound(BuildPredictedBlocks)
    BY StepKinds, WorkLists, Shapes, RoutesOf, HandlersOf, Parts, PartEnds DEF BuildPredictedBlocks, JsonBeforeJob
<1>13. AllSound(BuildMiningSummary)
    BY StepKinds, WorkLists, Shapes, RoutesOf, HandlersOf, Parts, PartEnds DEF BuildMiningSummary, JsonBeforeJob
<1>14. AllSound(BuildMempoolSummary)
    BY StepKinds, WorkLists, Shapes, RoutesOf, HandlersOf, Parts, PartEnds DEF BuildMempoolSummary
<1>15. AllSound(MempoolTxSummaries)
    BY StepKinds, WorkLists, Shapes, RoutesOf DEF MempoolTxSummaries
<1>16. AllSound(RawTxWithInputs)
    BY StepKinds, WorkLists, Shapes, RoutesOf, HandlersOf, Parts, PartEnds DEF RawTxWithInputs
<1>17. AllSound(BlockTxSummaries)
    BY StepKinds, WorkLists, Shapes, RoutesOf DEF BlockTxSummaries
<1>18. AllSound(FormatUtils)
    BY StepKinds, WorkLists, Shapes, RoutesOf DEF FormatUtils
<1>19. AllSound(FormatCurrencyAmount)
    BY StepKinds, WorkLists, Shapes, RoutesOf DEF FormatCurrencyAmount
<1>20. AllSound(QuoteSnippet)
    BY StepKinds, WorkLists, Shapes, RoutesOf DEF QuoteSnippet
<1>21. AllSound(NextBlockSnippet)
    BY StepKinds, WorkLists, Shapes, RoutesOf DEF NextBlockSnippet
<1>22. AllSound(HalvingSnippet)
    BY StepKinds, WorkLists, Shapes, RoutesOf, HalvingWork, HandlersOf, Parts, PartEnds DEF HalvingSnippet
<1>23. AllSound(UtxoSetSnippet)
    BY StepKinds, WorkLists, Shapes, RoutesOf DEF UtxoSetSnippet
<1>24. AllSound(TimezoneToast)
    BY StepKinds, WorkLists, Shapes, RoutesOf DEF TimezoneToast
<1>25. AllSound(Timestamp)
    BY StepKinds, WorkLists, Shapes, RoutesOf DEF Timestamp
<1>26. AllSound(Dashboard)
    BY StepKinds, WorkLists, Shapes, RoutesOf DEF Dashboard
<1>27. AllSound(OsStats)
    BY StepKinds, WorkLists, Shapes, RoutesOf DEF OsStats
<1>28. AllSound(PerfLog)
    BY StepKinds, WorkLists, Shapes, RoutesOf DEF PerfLog
<1>29. AllSound(AppStats)
    BY StepKinds, WorkLists, Shapes, RoutesOf DEF AppStats
<1>30. AllSound(ResetUserSettings)
    BY StepKinds, WorkLists, Shapes, RoutesOf DEF ResetUserSettings
<1>31. AllSound(HeapDump)
    BY StepKinds, WorkLists, Shapes, RoutesOf, HandlersOf, Parts, PartEnds DEF HeapDump
<1>32. AllSound(TxDisplay)
    BY StepKinds, WorkLists, Shapes, RoutesOf DEF TxDisplay
<1> QED BY <1>1, <1>2, <1>3, <1>4, <1>5, <1>6, <1>7, <1>8, <1>9, <1>10, <1>11, <1>12, <1>13, <1>14, <1>15,
       <1>16, <1>17, <1>18, <1>19, <1>20, <1>21, <1>22, <1>23, <1>24, <1>25, <1>26, <1>27, <1>28, <1>29,
       <1>30, <1>31, <1>32 DEF AppRoutes

\* Every handler of a page passes on what it has answered, except the one that rewrites
\* the url of a transaction.
LEMMA SoundBaseRoutes == \A r \in BaseRoutes \ {TransactionAtHeight} : AllSound(r)
<1>1. AllSound(Home)
    BY StepKinds, WorkLists, Shapes, RoutesOf, HandlersOf, Parts, PartEnds DEF Home
<1>2. AllSound(NodeDetails)
    BY StepKinds, WorkLists, Shapes, RoutesOf DEF NodeDetails
<1>3. AllSound(MempoolSummaryPage)
    BY StepKinds, WorkLists, Shapes, RoutesOf DEF MempoolSummaryPage
<1>4. AllSound(Peers)
    BY StepKinds, WorkLists, Shapes, RoutesOf DEF Peers
<1>5. AllSound(Connect)
    BY StepKinds, WorkLists, Shapes, RoutesOf DEF Connect
<1>6. AllSound(Disconnect)
    BY StepKinds, WorkLists, Shapes, RoutesOf DEF Disconnect
<1>7. AllSound(ChangeSetting)
    BY StepKinds, WorkLists, Shapes, RoutesOf DEF ChangeSetting
<1>8. AllSound(SessionData)
    BY StepKinds, WorkLists, Shapes, RoutesOf DEF SessionData
<1>9. AllSound(UserSettings)
    BY StepKinds, WorkLists, Shapes, RoutesOf DEF UserSettings
<1>10. AllSound(Blocks)
    BY StepKinds, WorkLists, Shapes, RoutesOf DEF Blocks
<1>11. AllSound(MiningSummaryPage)
    BY StepKinds, WorkLists, Shapes, RoutesOf DEF MiningSummaryPage
<1>12. AllSound(ExtendedPublicKey)
    BY StepKinds, WorkLists, Shapes, RoutesOf DEF ExtendedPublicKey, KeyBalance
<1>13. AllSound(BlockStats)
    BY StepKinds, WorkLists, Shapes, RoutesOf DEF BlockStats
<1>14. AllSound(MiningTemplate)
    BY StepKinds, WorkLists, Shapes, RoutesOf DEF MiningTemplate
<1>15. AllSound(NextBlock)
    BY StepKinds, WorkLists, Shapes, RoutesOf DEF NextBlock
<1>16. AllSound(SearchForm)
    BY StepKinds, WorkLists, Shapes, RoutesOf DEF SearchForm
<1>17. AllSound(Search)
    BY StepKinds, WorkLists, Shapes, RoutesOf, HandlersOf, Parts, PartEnds DEF Search
<1>18. AllSound(BlockHeight)
    BY StepKinds, WorkLists, Shapes, RoutesOf DEF BlockHeight
<1>19. AllSound(Block)
    BY StepKinds, WorkLists, Shapes, RoutesOf DEF Block
<1>20. AllSound(PredictedBlocks)
    BY StepKinds, WorkLists, Shapes, RoutesOf DEF PredictedBlocks
<1>21. AllSound(PredictedBlocksOld)
    BY StepKinds, WorkLists, Shapes, RoutesOf DEF PredictedBlocksOld
<1>22. AllSound(BlockAnalysis)
    BY StepKinds, WorkLists, Shapes, RoutesOf, HandlersOf, Parts, PartEnds DEF BlockAnalysis
<1>23. AllSound(BlockAnalysisSearch)
    BY StepKinds, WorkLists, Shapes, RoutesOf DEF BlockAnalysisSearch
<1>24. AllSound(Transaction)
    BY StepKinds, WorkLists, Shapes, RoutesOf DEF Transaction
<1>25. AllSound(NextHalving)
    BY StepKinds, WorkLists, Shapes, RoutesOf, HalvingWork DEF NextHalving
<1>26. AllSound(RpcTerminalForm)
    BY StepKinds, WorkLists, Shapes, RoutesOf DEF RpcTerminalForm
<1>27. AllSound(RpcTerminal)
    BY StepKinds, WorkLists, Shapes, RoutesOf DEF RpcTerminal
<1>28. AllSound(RpcBrowser)
    BY StepKinds, WorkLists, Shapes, RoutesOf DEF RpcBrowser, ExecuteMethod
<1>29. AllSound(TerminalForm)
    BY StepKinds, WorkLists, Shapes, RoutesOf DEF TerminalForm
<1>30. AllSound(Terminal)
    BY StepKinds, WorkLists, Shapes, RoutesOf DEF Terminal
<1>31. AllSound(MempoolTransactions)
    BY StepKinds, WorkLists, Shapes, RoutesOf DEF MempoolTransactions
<1>32. AllSound(TxStats)
    BY StepKinds, WorkLists, Shapes, RoutesOf DEF TxStats
<1>33. AllSound(DifficultyHistoryPage)
    BY StepKinds, WorkLists, Shapes, RoutesOf, HandlersOf, Parts, PartEnds DEF DifficultyHistoryPage
<1>34. AllSound(UtxoSetPage)
    BY StepKinds, WorkLists, Shapes, RoutesOf DEF UtxoSetPage
<1>35. AllSound(About)
    BY StepKinds, WorkLists, Shapes, RoutesOf DEF About
<1>36. AllSound(Tools)
    BY StepKinds, WorkLists, Shapes, RoutesOf DEF Tools
<1>37. AllSound(Changelog)
    BY StepKinds, WorkLists, Shapes, RoutesOf DEF Changelog
<1>38. AllSound(Fun)
    BY StepKinds, WorkLists, Shapes, RoutesOf DEF Fun
<1>39. AllSound(Quotes)
    BY StepKinds, WorkLists, Shapes, RoutesOf DEF Quotes
<1>40. AllSound(Holidays)
    BY StepKinds, WorkLists, Shapes, RoutesOf DEF Holidays
<1>41. AllSound(Quote)
    BY StepKinds, WorkLists, Shapes, RoutesOf DEF Quote
<1>42. AllSound(Whitepaper)
    BY StepKinds, WorkLists, Shapes, RoutesOf DEF Whitepaper
<1>43. AllSound(WhitepaperPdf)
    BY StepKinds, WorkLists, Shapes, RoutesOf, HandlersOf, Parts, PartEnds DEF WhitepaperPdf
<1>44. \A r \in DoubledPaths : AllSound(r)
    BY StepKinds, WorkLists, Shapes, RoutesOf DEF DoubledPaths
<1>45. AllSound(Address)
    <2> DEFINE Known(lookups) == PageWithCatch("address", <<Await("getAddress"), MayRaise>> \o lookups)
               some == {Known(lookups) : lookups \in AddressLookups}
               last == PageWithCatch("address", <<Await("getAddress"), Settle({"toDataURL"}, {})>>)
    <2>1. \A lookups \in AddressLookups : OnlyWork(lookups)
        BY StepKinds, WorkLists DEF AddressLookups
    <2>2. \A lookups \in AddressLookups : IsSound(Known(lookups))
        BY <2>1, StepKinds, WorkLists, Shapes
    <2>3. IsSound(last)
        BY StepKinds, WorkLists, Shapes
    <2>4. PICK a, b : AddressLookups = {a, b}
        BY DEF AddressLookups
    <2>5. IsFiniteSet(some)
        <3>1. some = {Known(a), Known(b)}
            BY <2>4
        <3> HIDE DEF some, Known
        <3>2. IsFiniteSet({Known(a)}) /\ {Known(a), Known(b)} = {Known(a)} \cup {Known(b)}
            BY FS_Singleton
        <3> QED BY <3>1, <3>2, FS_AddElement
    <2>6. Address.handlers = Append(SetToSeq(some), last)
        BY DEF Address, On
    <2>7. \A h \in some : IsSound(h)
        BY <2>2
    <2> HIDE DEF some, last
    <2>8. SetToSeq(some) \in Seq(some)
        BY <2>5, ListOfSet
    <2>9. Address.name # "GET /tx/:transactionId@:blockHeight"
        BY DEF Address, On
    <2>10. \A i \in DOMAIN Append(SetToSeq(some), last) : IsSound(Append(SetToSeq(some), last)[i])
        BY <2>3, <2>7, <2>8
    <2> QED BY <2>6, <2>9, <2>10 DEF AllSound
<1> QED BY <1>1, <1>2, <1>3, <1>4, <1>5, <1>6, <1>7, <1>8, <1>9, <1>10, <1>11, <1>12, <1>13, <1>14, <1>15,
       <1>16, <1>17, <1>18, <1>19, <1>20, <1>21, <1>22, <1>23, <1>24, <1>25, <1>26, <1>27, <1>28, <1>29,
       <1>30, <1>31, <1>32, <1>33, <1>34, <1>35, <1>36, <1>37, <1>38, <1>39, <1>40, <1>41, <1>42, <1>43,
       <1>44, <1>45 DEF BaseRoutes

-----------------------------------------------------------------------------
(* The way of a request *)

\* The answers, and the stages of a request that has none yet.
Kinds == {"401", "404", "429", "errorPage", "redirect", "page", "json"}
Unanswered == {"waiting", "login", "body", "limiter", "session", "connection", "csrf", "error"}

\* In a handler: what is left of its part is tidy, and nothing but next() is left behind an
\* answer.  The handler that only passes on has one behind it and answers nothing; any
\* other passes on what it has answered.
HandlerInv ==
    /\ IsHandler(handler) /\ part \in DOMAIN handler.parts
    /\ IsList(steps) /\ Tidy(steps)
    /\ follow = <<>> \/ \E h : follow = <<h>> /\ IsLater(h, route)
    /\ answers # <<>> => \A i \in DOMAIN steps : steps[i].op = "next"
    /\ follow # <<>> /\ route = TransactionAtHeight.name => Passing(handler) /\ Silent(steps) /\ answers = <<>>
    /\ follow = <<>> /\ route # ApiXpub.name =>
         /\ Answering(handler)
         /\ \A i \in DOMAIN steps :
              steps[i].op = "next" => answers # <<>> \/ (i > 1 /\ steps[i - 1].op \in AnswerOps)

\* The inductive invariant: one answer at most, none before the handlers, and one at the
\* end, "not found" only where NotFoundIsTrue allows it.
RequestInv ==
    /\ answers \in Seq(Kinds) /\ Len(answers) <= 1
    /\ stage \in Unanswered \cup {"handler", "finished", "done"}
    /\ stage \in Unanswered => answers = <<>>
    /\ stage = "handler" => HandlerInv /\ \A i \in DOMAIN answers : answers[i] # "404"
    /\ stage = "finished" =>
         (answers # <<>> \/ route = ApiXpub.name) /\ \A i \in DOMAIN answers : answers[i] # "404"
    /\ NotFoundIsTrue

\* What the steps use of the routes and of the order of their registration.
RoutesAreSound ==
    /\ \A r \in Routes : IsRoute(r)
    /\ \A name \in Names : LaterMatches(name) = <<>> \/ \E h : LaterMatches(name) = <<h>> /\ IsLater(h, name)
    /\ LaterMatches(ApiXpub.name) = <<>> /\ LaterMatches(TransactionAtHeight.name) # <<>>

\* A request begins unanswered.
LEMMA RequestInvInit == Init => RequestInv
BY DEF Init, RequestInv, Unanswered, NotFoundIsTrue

\* Entering a handler: one that does nothing when there is an answer already.
LEMMA EntersInv ==
    ASSUME RequestInv, NEW h, NEW later, IsHandler(h), Enter(h, later), UNCHANGED <<rpcConnected, route, host>>,
           \A i \in DOMAIN answers : answers[i] # "404",
           later = <<>> \/ \E l : later = <<l>> /\ IsLater(l, route),
           answers # <<>> => Idle(h),
           later # <<>> /\ route = TransactionAtHeight.name => Passing(h) /\ answers = <<>>,
           later = <<>> /\ route # ApiXpub.name => Answering(h)
    PROVE  RequestInv'
<1>1. /\ stage' = "handler" /\ handler' = h /\ part' = 1 /\ steps' = h.parts[1] /\ follow' = later
      /\ answers' = answers /\ route' = route
    BY DEF Enter
<1>2. 1 \in DOMAIN h.parts /\ IsList(h.parts[1]) /\ Tidy(h.parts[1])
    BY DEF IsHandler, IsList
<1>3. HandlerInv'
    <2>1. answers # <<>> => steps' = <<>>
        BY <1>1, <1>2 DEF Idle
    <2>2. later # <<>> /\ route = TransactionAtHeight.name => Silent(h.parts[1])
        BY <1>2 DEF Passing
    <2>3. later = <<>> /\ route # ApiXpub.name => AnswersFirst(h.parts[1])
        BY <1>2 DEF Answering
    <2>4. IsHandler(handler') /\ part' \in DOMAIN handler'.parts /\ IsList(steps') /\ Tidy(steps')
        BY <1>1, <1>2
    <2>5. answers' # <<>> => \A i \in DOMAIN steps' : steps'[i].op = "next"
        BY <1>1, <2>1
    <2>6. follow' = <<>> /\ route' # ApiXpub.name =>
            /\ Answering(handler')
            /\ \A i \in DOMAIN steps' :
                 steps'[i].op = "next" => answers' # <<>> \/ (i > 1 /\ steps'[i - 1].op \in AnswerOps)
        BY <1>1, <2>3 DEF AnswersFirst
    <2>7. /\ follow' = <<>> \/ \E l : follow' = <<l>> /\ IsLater(l, route')
          /\ follow' # <<>> /\ route' = TransactionAtHeight.name
               => Passing(handler') /\ Silent(steps') /\ answers' = <<>>
        BY <1>1, <2>2
    <2> QED BY <2>4, <2>5, <2>6, <2>7 DEF HandlerInv
<1> QED BY <1>1, <1>3 DEF RequestInv, NotFoundIsTrue, Unanswered

\* The first answer is the only one.
LEMMA FirstAnswer ==
    ASSUME NEW kind \in Kinds, NEW none \in Seq(Kinds), none = <<>>
    PROVE  /\ Append(none, kind) \in Seq(Kinds) /\ Len(Append(none, kind)) = 1
           /\ \A i \in DOMAIN Append(none, kind) : Append(none, kind)[i] = kind
<1>1. Append(none, kind) \in Seq(Kinds) /\ Len(Append(none, kind)) = Len(none) + 1
      /\ Append(none, kind)[Len(none) + 1] = kind
    BY AppendProperties
<1>2. Len(none) = 0
    OBVIOUS
<1>3. PICK list : list = Append(none, kind)
    OBVIOUS
<1>4. list \in Seq(Kinds) /\ Len(list) = 1 /\ list[1] = kind
    BY <1>1, <1>2, <1>3
<1>5. \A i \in DOMAIN list : list[i] = kind
    BY <1>4
<1> QED BY <1>3, <1>4, <1>5

\* What is left behind the first step.
LEMMA TailOfSteps ==
    ASSUME NEW s, IsList(s), s # <<>>, Tidy(s)
    PROVE  /\ IsList(Tail(s)) /\ Tidy(Tail(s)) /\ 1 \in DOMAIN s /\ Head(s) = s[1]
           /\ \A i \in DOMAIN Tail(s) : i \in Nat \ {0} /\ i + 1 \in DOMAIN s /\ Tail(s)[i] = s[i + 1]
           /\ \A i \in DOMAIN Tail(s) : i > 1 => i - 1 \in DOMAIN Tail(s)
<1>0. PICK S : s \in Seq(S)
    BY DEF IsList
<1>1. /\ Len(s) \in Nat /\ Len(s) > 0 /\ DOMAIN s = 1 .. Len(s)
      /\ Tail(s) \in Seq(S) /\ Len(Tail(s)) = Len(s) - 1 /\ DOMAIN Tail(s) = 1 .. Len(s) - 1
      /\ \A i \in 1 .. Len(s) - 1 : Tail(s)[i] = s[i + 1]
    BY <1>0
<1>2. \A i \in DOMAIN Tail(s) : i \in Nat \ {0} /\ i + 1 \in DOMAIN s /\ Tail(s)[i] = s[i + 1]
    BY <1>1
<1>3. Tidy(Tail(s))
    <2>1. ASSUME NEW i \in DOMAIN Tail(s), NEW j \in DOMAIN Tail(s), Tail(s)[i].op \in AnswerOps, i < j
          PROVE  Tail(s)[j].op = "next"
        <3>1. i + 1 \in DOMAIN s /\ j + 1 \in DOMAIN s /\ i + 1 < j + 1
            BY <1>1, <2>1
        <3> QED BY <1>2, <2>1, <3>1 DEF Tidy
    <2>2. ASSUME NEW i \in DOMAIN Tail(s), Tail(s)[i].op = "next" PROVE i = Len(Tail(s))
        <3>1. i + 1 = Len(s)
            BY <1>2, <2>2 DEF Tidy
        <3> QED BY <1>1, <3>1
    <2> QED BY <2>1, <2>2 DEF Tidy
<1> QED BY <1>0, <1>1, <1>2, <1>3 DEF IsList

\* Before a step that is not next() there is no answer.
LEMMA NotAnsweredYet ==
    ASSUME HandlerInv, steps # <<>>, Head(steps).op # "next"
    PROVE  answers = <<>>
<1>1. 1 \in DOMAIN steps /\ Head(steps) = steps[1]
    BY TailOfSteps DEF HandlerInv
<1> QED BY <1>1 DEF HandlerInv

\* The next step of the part.
LEMMA ContinueKeeps ==
    ASSUME RequestInv, stage = "handler", steps # <<>>, Head(steps).op \notin AnswerOps \cup {"next"},
           Continue, UNCHANGED <<rpcConnected, request, answers>>
    PROVE  RequestInv'
<1>1. HandlerInv /\ answers = <<>>
    BY NotAnsweredYet DEF RequestInv
<1>2. /\ stage' = "handler" /\ UNCHANGED <<handler, part, follow, route, answers>> /\ steps' = Tail(steps)
    BY DEF Continue, request
<1>3. /\ IsList(steps') /\ Tidy(steps') /\ steps[1].op \notin AnswerOps
      /\ \A i \in DOMAIN steps' : i \in Nat \ {0} /\ i + 1 \in DOMAIN steps /\ steps'[i] = steps[i + 1]
      /\ \A i \in DOMAIN steps' : i > 1 => i - 1 \in DOMAIN steps'
    BY <1>1, <1>2, TailOfSteps DEF HandlerInv
<1>4. Silent(steps) => Silent(steps')
    BY <1>3 DEF Silent
<1>5. ASSUME follow = <<>>, route # ApiXpub.name, NEW i \in DOMAIN steps', steps'[i].op = "next"
      PROVE  i > 1 /\ steps'[i - 1].op \in AnswerOps
    <2>1. steps[i + 1].op = "next" /\ i + 1 \in DOMAIN steps /\ i \in Nat \ {0}
        BY <1>3, <1>5
    <2>2. steps[(i + 1) - 1].op \in AnswerOps
        BY <1>1, <1>5, <2>1 DEF HandlerInv
    <2>3. steps[i].op \in AnswerOps /\ i > 1
        BY <1>3, <2>1, <2>2
    <2>4. i - 1 \in DOMAIN steps' /\ (i - 1) + 1 = i
        BY <1>3, <1>5, <2>1, <2>3
    <2> QED BY <1>3, <2>3, <2>4
<1>6. HandlerInv'
    BY <1>1, <1>2, <1>3, <1>4, <1>5 DEF HandlerInv
<1> QED BY <1>1, <1>2, <1>6 DEF RequestInv, NotFoundIsTrue, Unanswered

\* A catch block, or the error page.
LEMMA RaiseKeeps ==
    ASSUME RequestInv, stage = "handler", steps # <<>>, Head(steps).op # "next",
           Raise, UNCHANGED <<rpcConnected, request>>
    PROVE  RequestInv'
<1>1. HandlerInv /\ answers = <<>>
    BY NotAnsweredYet DEF RequestInv
<1>2. UNCHANGED <<handler, follow, route, answers>>
    BY DEF Raise, request
<1>3. CASE part < Len(handler.parts)
    <2>1. stage' = "handler" /\ part' = part + 1 /\ steps' = handler.parts[part + 1]
        BY <1>3 DEF Raise
    <2>2. part' \in DOMAIN handler.parts
        BY <1>1, <1>3, <2>1 DEF HandlerInv, IsHandler, IsList
    <2>3. IsList(steps') /\ Tidy(steps')
        BY <1>1, <2>1, <2>2 DEF HandlerInv, IsHandler
    <2>4. Passing(handler) => Silent(steps')
        BY <2>1, <2>2 DEF Passing
    <2>5. Answering(handler) => AnswersFirst(steps')
        BY <2>1, <2>2 DEF Answering
    <2>6. HandlerInv'
        BY <1>1, <1>2, <2>2, <2>3, <2>4, <2>5 DEF HandlerInv, AnswersFirst
    <2> QED BY <1>1, <1>2, <2>1, <2>6 DEF RequestInv, NotFoundIsTrue, Unanswered
<1>4. CASE ~(part < Len(handler.parts))
    <2>1. stage' \in {"error", "done"}
        BY <1>4 DEF Raise
    <2> QED BY <1>1, <1>2, <2>1 DEF RequestInv, NotFoundIsTrue, Unanswered
<1> QED BY <1>3, <1>4

\* Steps that work: they go on, raise or are never heard of.
LEMMA WorkKeeps ==
    RequestInv /\ (AwaitSettled \/ AwaitUncaught \/ Compute \/ Throw) => RequestInv'
<1> SUFFICES ASSUME RequestInv, AwaitSettled \/ AwaitUncaught \/ Compute \/ Throw PROVE RequestInv'
    OBVIOUS
<1>1. stage = "handler" /\ steps # <<>> /\ Head(steps).op \notin AnswerOps \cup {"next"}
      /\ UNCHANGED <<rpcConnected, request>>
    BY DEF AwaitSettled, AwaitUncaught, Compute, Throw, Running, AnswerOps
<1>2. \/ Continue /\ UNCHANGED answers
      \/ Raise
      \/ stage' = "done" /\ UNCHANGED position /\ UNCHANGED answers
    BY DEF AwaitSettled, AwaitUncaught, Compute, Throw
<1>3. answers = <<>>
    BY <1>1, NotAnsweredYet DEF RequestInv
<1>4. CASE stage' = "done" /\ UNCHANGED position /\ UNCHANGED answers
    BY <1>1, <1>3, <1>4 DEF RequestInv, NotFoundIsTrue, Unanswered, request
<1> QED BY <1>1, <1>2, <1>4, ContinueKeeps, RaiseKeeps

\* Nothing but next() is left behind an answer.
LEMMA AnswerKeeps == RequestInv /\ (Render \/ Send) => RequestInv'
<1> SUFFICES ASSUME RequestInv, Render \/ Send PROVE RequestInv'
    OBVIOUS
<1>1. /\ stage = "handler" /\ steps # <<>> /\ Head(steps).op \in AnswerOps
      /\ \E kind \in {"page", "errorPage", "json", "redirect"} : answers' = Append(answers, kind)
      /\ stage' = "handler" /\ UNCHANGED <<handler, part, follow, route>> /\ steps' = Tail(steps)
    BY DEF Render, Send, Running, Answer, AnswerOps, Continue, request
<1>2. HandlerInv /\ answers = <<>>
    BY <1>1, NotAnsweredYet DEF RequestInv, AnswerOps
<1>3. PICK kind \in {"page", "errorPage", "json", "redirect"} : answers' = Append(answers, kind)
    BY <1>1
<1>4. /\ IsList(steps') /\ Tidy(steps') /\ steps[1].op \in AnswerOps /\ 1 \in DOMAIN steps
      /\ \A i \in DOMAIN steps' : i \in Nat \ {0} /\ i + 1 \in DOMAIN steps /\ steps'[i] = steps[i + 1]
    BY <1>1, <1>2, TailOfSteps DEF HandlerInv
<1>5. \A i \in DOMAIN steps' : steps'[i].op = "next"
    BY <1>2, <1>4 DEF HandlerInv, Tidy
<1>6. ~(follow # <<>> /\ route = TransactionAtHeight.name)
    BY <1>2, <1>4 DEF HandlerInv, Silent
<1>7. HandlerInv'
    BY <1>1, <1>2, <1>3, <1>4, <1>5, <1>6 DEF HandlerInv
<1>8. answers' \in Seq(Kinds) /\ Len(answers') = 1 /\ \A i \in DOMAIN answers' : answers'[i] # "404"
    <2>1. kind \in Kinds /\ answers \in Seq(Kinds)
        BY DEF RequestInv, Kinds
    <2>2. /\ Append(answers, kind) \in Seq(Kinds) /\ Len(Append(answers, kind)) = 1
          /\ \A i \in DOMAIN Append(answers, kind) : Append(answers, kind)[i] = kind
        BY <1>2, <2>1, FirstAnswer
    <2> QED BY <1>3, <2>2
<1>9. NotFoundIsTrue'
    BY <1>8 DEF NotFoundIsTrue
<1> QED BY <1>1, <1>7, <1>8, <1>9 DEF RequestInv, Unanswered

\* next() leads to the later handler or behind the handlers.
LEMMA PassOnKeeps == RequestInv /\ Next_ => RequestInv'
<1> SUFFICES ASSUME RequestInv, Next_ PROVE RequestInv'
    OBVIOUS
<1>1. /\ stage = "handler" /\ steps # <<>> /\ Head(steps).op = "next" /\ UNCHANGED <<rpcConnected, route, host>>
      /\ HandlerInv /\ \A i \in DOMAIN answers : answers[i] # "404"
    BY DEF Next_, Running, RequestInv, request
<1>2. CASE follow # <<>>
    <2>1. PICK h : follow = <<h>> /\ IsLater(h, route)
        BY <1>1, <1>2 DEF HandlerInv
    <2>2. Enter(h, <<>>)
        BY <1>2, <2>1 DEF Next_
    <2>3. IsHandler(h) /\ Answering(h)
        BY <2>1 DEF IsLater
    <2>4. answers # <<>> => Idle(h)
        BY <1>1, <1>2, <2>1 DEF HandlerInv, IsLater
    <2> QED BY <1>1, <2>2, <2>3, <2>4, EntersInv
<1>3. CASE follow = <<>>
    <2>1. stage' = "finished" /\ UNCHANGED answers
        BY <1>3 DEF Next_
    <2>2. 1 \in DOMAIN steps /\ Head(steps) = steps[1]
        BY <1>1, TailOfSteps DEF HandlerInv
    <2>3. answers # <<>> \/ route = ApiXpub.name
        BY <1>1, <1>3, <2>2 DEF HandlerInv
    <2> QED BY <1>1, <2>1, <2>3 DEF RequestInv, NotFoundIsTrue, Unanswered
<1> QED BY <1>2, <1>3

\* The routers choose a handler of the route.
LEMMA DispatchKeeps == RoutesAreSound /\ RequestInv /\ Dispatch => RequestInv'
<1> SUFFICES ASSUME RoutesAreSound, RequestInv, Dispatch PROVE RequestInv'
    OBVIOUS
<1>1. stage = "csrf" /\ answers = <<>> /\ UNCHANGED <<rpcConnected, route, host>>
    BY DEF Dispatch, RequestInv, Unanswered, request
<1>2. CASE stage' = "error" /\ UNCHANGED <<position, answers>>
    BY <1>1, <1>2 DEF RequestInv, NotFoundIsTrue, Unanswered
<1>3. ASSUME NEW r \in Routes, NEW i \in DOMAIN r.handlers, r.name = route,
             Enter(r.handlers[i], LaterMatches(route))
      PROVE  RequestInv'
    <2>1. route \in Names
        BY <1>3 DEF Names
    <2> DEFINE h == r.handlers[i]
               later == LaterMatches(route)
    <2>2. /\ IsHandler(h)
          /\ route \notin {ApiXpub.name, TransactionAtHeight.name} => Answering(h)
          /\ route = TransactionAtHeight.name => Passing(h)
        BY <1>3 DEF RoutesAreSound, IsRoute
    <2>3. /\ later = <<>> \/ \E l : later = <<l>> /\ IsLater(l, route)
          /\ route = ApiXpub.name => later = <<>>
          /\ route = TransactionAtHeight.name => later # <<>>
        BY <2>1 DEF RoutesAreSound
    <2> HIDE DEF h, later
    <2>4. Enter(h, later)
        BY <1>3 DEF h, later
    <2> QED BY <1>1, <2>2, <2>3, <2>4, EntersInv
<1> QED BY <1>1, <1>2, <1>3 DEF Dispatch

\* The middleware before and behind the handlers.
LEMMA MiddlewareKeeps ==
    ASSUME RequestInv,
           \/ RpcConnectionVerified \/ Arrive \/ Authenticate \/ ParseBody \/ RateLimit \/ LoadSession
           \/ CheckConnection \/ Return \/ Finish \/ ErrorPage
    PROVE  RequestInv'
<1>1. CASE RpcConnectionVerified
    <2>1. UNCHANGED <<stage, route, handler, part, steps, follow, answers>>
        BY <1>1 DEF RpcConnectionVerified, request, position
    <2>2. HandlerInv => HandlerInv'
        BY <2>1 DEF HandlerInv
    <2> QED BY <2>1, <2>2 DEF RequestInv, NotFoundIsTrue
<1>2. CASE Arrive
    BY <1>2 DEF Arrive, RequestInv, NotFoundIsTrue, Unanswered
<1>3. CASE Authenticate \/ ParseBody \/ RateLimit \/ LoadSession \/ CheckConnection
    <2>1. /\ stage \in Unanswered /\ UNCHANGED route
          /\ \/ stage' \in Unanswered /\ UNCHANGED answers
             \/ \E kind \in {"401", "redirect", "429", "errorPage"} :
                  stage' = "done" /\ answers' = Append(answers, kind)
        BY <1>3 DEF Authenticate, ParseBody, RateLimit, LoadSession, CheckConnection, Answer, Unanswered, request
    <2>2. answers = <<>>
        BY <2>1 DEF RequestInv
    <2>3. CASE stage' \in Unanswered /\ UNCHANGED answers
        BY <2>1, <2>2, <2>3 DEF RequestInv, NotFoundIsTrue, Unanswered
    <2>4. ASSUME NEW kind \in {"401", "redirect", "429", "errorPage"},
                 stage' = "done", answers' = Append(answers, kind)
          PROVE  RequestInv'
        <3>1. kind \in Kinds /\ answers \in Seq(Kinds)
            BY DEF RequestInv, Kinds
        <3>0. /\ Append(answers, kind) \in Seq(Kinds) /\ Len(Append(answers, kind)) = 1
              /\ \A i \in DOMAIN Append(answers, kind) : Append(answers, kind)[i] = kind
            BY <2>2, <3>1, FirstAnswer
        <3>2. answers' \in Seq(Kinds) /\ Len(answers') = 1 /\ \A i \in DOMAIN answers' : answers'[i] # "404"
            BY <2>4, <3>0
        <3>3. NotFoundIsTrue'
            BY <3>2 DEF NotFoundIsTrue
        <3> QED BY <2>4, <3>2, <3>3 DEF RequestInv, Unanswered
    <2> QED BY <2>1, <2>3, <2>4
<1>4. CASE Return
    BY <1>4 DEF Return, RequestInv, NotFoundIsTrue, Unanswered, request
<1>5. CASE Finish
    <2>1. CASE answers # <<>>
        BY <1>5, <2>1 DEF Finish, RequestInv, NotFoundIsTrue, Unanswered, request
    <2>2. CASE answers = <<>>
        <3>1. stage = "finished" /\ stage' = "done" /\ answers' = Append(answers, "404") /\ UNCHANGED route
            BY <1>5, <2>2 DEF Finish, Answer, request
        <3>2. answers' \in Seq(Kinds) /\ Len(answers') = 1
            BY <2>2, <3>1, FirstAnswer DEF RequestInv, Kinds
        <3>3. route' = ApiXpub.name
            BY <2>2, <3>1 DEF RequestInv
        <3> QED BY <3>1, <3>2, <3>3 DEF RequestInv, NotFoundIsTrue, Unanswered
    <2> QED BY <2>1, <2>2
<1>6. CASE ErrorPage
    <2>1. answers = <<>>
        BY <1>6 DEF ErrorPage, RequestInv, Unanswered
    <2>2. stage' = "done" /\ answers' = Append(answers, "errorPage") /\ UNCHANGED route
        BY <1>6 DEF ErrorPage, Answer, request
    <2>3. answers' \in Seq(Kinds) /\ Len(answers') = 1 /\ \A i \in DOMAIN answers' : answers'[i] # "404"
        <3>1. /\ Append(answers, "errorPage") \in Seq(Kinds) /\ Len(Append(answers, "errorPage")) = 1
              /\ \A i \in DOMAIN Append(answers, "errorPage") : Append(answers, "errorPage")[i] = "errorPage"
            BY <2>1, FirstAnswer DEF RequestInv, Kinds
        <3> QED BY <2>2, <3>1
    <2>4. NotFoundIsTrue'
        BY <2>3 DEF NotFoundIsTrue
    <2> QED BY <2>2, <2>3, <2>4 DEF RequestInv, Unanswered
<1> QED BY <1>1, <1>2, <1>3, <1>4, <1>5, <1>6

\* Every step keeps the invariant.
LEMMA RequestInvStep == RoutesAreSound /\ RequestInv /\ [Next]_vars => RequestInv'
<1> SUFFICES ASSUME RoutesAreSound, RequestInv, [Next]_vars PROVE RequestInv'
    OBVIOUS
<1>1. CASE UNCHANGED vars
    <2>1. UNCHANGED <<stage, route, handler, part, steps, follow, answers>>
        BY <1>1 DEF vars
    <2>2. HandlerInv => HandlerInv'
        BY <2>1 DEF HandlerInv
    <2> QED BY <2>1, <2>2 DEF RequestInv, NotFoundIsTrue
<1> QED BY <1>1, WorkKeeps, AnswerKeeps, PassOnKeeps, DispatchKeeps, MiddlewareKeeps
        DEF Next, RequestStep, HandlerStep

\* The two routes apart are tidy; one of them answers nothing.
LEMMA RoutesApart ==
    /\ \A i \in DOMAIN ApiXpub.handlers : IsHandler(ApiXpub.handlers[i])
    /\ \A i \in DOMAIN TransactionAtHeight.handlers :
         IsHandler(TransactionAtHeight.handlers[i]) /\ Passing(TransactionAtHeight.handlers[i])
<1>1. IsHandler(Handler(<< <<MayRaise, Json, PassOn>>, <<PassOn>> >>, "errorPage"))
    <2>1. IsPart(<<MayRaise, Json, PassOn>>)
        BY Parts, StepKinds
    <2>2. IsList(<<PassOn>>) /\ Tidy(<<PassOn>>)
        BY ListsOf, StepKinds DEF Tidy
    <2>3. IsList(<< <<MayRaise, Json, PassOn>>, <<PassOn>> >>)
        BY ListsOf
    <2>4. IsList(<<MayRaise, Json, PassOn>>) /\ Tidy(<<MayRaise, Json, PassOn>>)
        BY <2>1 DEF IsPart
    <2> DEFINE first == <<MayRaise, Json, PassOn>>
               second == <<PassOn>>
    <2> HIDE DEF first, second
    <2>5. \A i \in DOMAIN <<first, second>> :
             IsList(first) /\ Tidy(first) /\ IsList(second) /\ Tidy(second)
                => IsList(<<first, second>>[i]) /\ Tidy(<<first, second>>[i])
        OBVIOUS
    <2> QED BY <2>2, <2>3, <2>4, <2>5 DEF Handler, IsHandler, first, second
<1>2. IsHandler(Handler(<< <<PassOn>> >>, "errorPage")) /\ Passing(Handler(<< <<PassOn>> >>, "errorPage"))
    <2>1. IsList(<<PassOn>>) /\ Tidy(<<PassOn>>) /\ Silent(<<PassOn>>)
        BY ListsOf, StepKinds DEF Tidy, Silent, AnswerOps
    <2>2. IsList(<< <<PassOn>> >>)
        BY ListsOf
    <2> DEFINE only == <<PassOn>>
    <2> HIDE DEF only
    <2>3. \A i \in DOMAIN <<only>> :
             IsList(only) /\ Tidy(only) /\ Silent(only)
                => IsList(<<only>>[i]) /\ Tidy(<<only>>[i]) /\ Silent(<<only>>[i])
        OBVIOUS
    <2> QED BY <2>1, <2>2, <2>3 DEF Handler, IsHandler, Passing, only
<1>3. ApiXpub.handlers = <<Handler(<< <<MayRaise, Json, PassOn>>, <<PassOn>> >>, "errorPage")>>
    BY DEF ApiXpub, On
<1>4. TransactionAtHeight.handlers = <<Handler(<< <<PassOn>> >>, "errorPage")>>
    BY DEF TransactionAtHeight, On
<1> QED BY <1>1, <1>2, <1>3, <1>4

\* What the routes and the order of their registration promise.
LEMMA RoutesKept == RoutesAreSound
<1>1. /\ TransactionAtHeight.name = "GET /tx/:transactionId@:blockHeight"
      /\ ApiXpub.name = "GET /api/xyzpub/:extendedPubkey"
    BY DEF TransactionAtHeight, ApiXpub, On
<1>2. \A h : IsSound(h) => IsHandler(h) /\ Answering(h)
    BY DEF IsSound, IsPart, IsHandler, Answering
<1>3. ASSUME NEW r \in Routes PROVE IsRoute(r)
    <2>1. CASE r = ApiXpub
        BY <1>1, <2>1, RoutesApart DEF IsRoute
    <2>2. CASE r = TransactionAtHeight
        BY <1>1, <2>2, RoutesApart DEF IsRoute
    <2>3. CASE r # ApiXpub /\ r # TransactionAtHeight
        <3>1. AllSound(r)
            BY <2>3, SoundApiRoutes, SoundAppRoutes, SoundBaseRoutes DEF Routes
        <3> QED BY <1>1, <1>2, <3>1 DEF IsRoute, AllSound
    <2> QED BY <2>1, <2>2, <2>3
<1>4. ASSUME NEW name, LaterMatches(name) # <<>> PROVE \E h : LaterMatches(name) = <<h>> /\ IsLater(h, name)
    <2>1. CASE LaterMatches(name) = <<NoQuoteIndex>>
        <3>1. IsLater(NoQuoteIndex, name)
            BY ListsOf DEF NoQuoteIndex, Handler, IsLater, IsHandler, Answering, AnswersFirst, Idle, Tidy
        <3> QED BY <2>1, <3>1
    <2>2. CASE LaterMatches(name) = <<NoDay>>
        <3>1. IsLater(NoDay, name)
            BY ListsOf DEF NoDay, Handler, IsLater, IsHandler, Answering, AnswersFirst, Idle, Tidy
        <3> QED BY <2>2, <3>1
    <2>3. CASE LaterMatches(name) = <<Transaction.handlers[3]>> /\ name = TransactionAtHeight.name
        <3>1. 3 \in DOMAIN Transaction.handlers
            BY DEF Transaction, On
        <3>2. Transaction \in BaseRoutes /\ Transaction # TransactionAtHeight
            <4>1. Transaction.name # TransactionAtHeight.name
                BY DEF Transaction, TransactionAtHeight, On
            <4> QED BY <4>1 DEF BaseRoutes
        <3>3. IsSound(Transaction.handlers[3])
            BY <3>1, <3>2, SoundBaseRoutes DEF AllSound
        <3>4. IsLater(Transaction.handlers[3], name)
            BY <1>2, <2>3, <3>3 DEF IsLater
        <3> QED BY <2>3, <3>4
    <2> QED BY <1>4, <2>1, <2>2, <2>3 DEF LaterMatches
<1>5. LaterMatches(ApiXpub.name) = <<>>
    BY DEF LaterMatches, ApiXpub, ApiQuoteRandom, ApiQuotesAll, ApiHolidaysAll, ApiHolidaysToday,
           TransactionAtHeight, On
<1>6. LaterMatches(TransactionAtHeight.name) # <<>>
    BY DEF LaterMatches, ApiQuoteRandom, ApiQuotesAll, ApiHolidaysAll, ApiHolidaysToday, TransactionAtHeight, On
<1> QED BY <1>3, <1>4, <1>5, <1>6 DEF RoutesAreSound

-----------------------------------------------------------------------------
\* No request is answered twice, whichever route it goes to, whichever calls fail and
\* whichever handler next() leads to.
THEOREM AnsweredOnlyOnce == Spec => []AnsweredOnce
<1>1. RequestInv => AnsweredOnce
    BY DEF RequestInv, AnsweredOnce
<1> QED BY <1>1, RequestInvInit, RequestInvStep, RoutesKept, PTL DEF Spec

\* Of the routes only /api/xyzpub may answer a request of its own with "not found".
THEOREM FoundUnlessXpub == Spec => []NotFoundIsTrue
<1>1. RequestInv => NotFoundIsTrue
    BY DEF RequestInv
<1> QED BY <1>1, RequestInvInit, RequestInvStep, RoutesKept, PTL DEF Spec
=============================================================================
