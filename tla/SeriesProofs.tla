---------------------------- MODULE SeriesProofs ----------------------------
(***************************************************************************)
(* What is proved of the parts of Services that walk along a series: the   *)
(* windows of the transaction charts, the search of an extended key, the   *)
(* pages of an address's history and the points of the process charts.     *)
(***************************************************************************)
EXTENDS Services, TLAPS, SequenceTheorems

\* A step of the services is a step of each of these parts, or leaves it alone.
LEMMA ChainRuns == [Next]_vars => [Chain!Next]_chainVars
BY DEF Next, vars, SessionStep, StartupStep, TablesStep, ElectrumStep, SsoStep, HistoryStep, XpubStep, LookupStep,
       PredictionStep, StatisticsStep, PageStep, ChainStep

LEMMA XpubRuns == [Next]_vars => [Xpub!Next]_xpubVars
BY DEF Next, vars, SessionStep, StartupStep, TablesStep, ElectrumStep, SsoStep, HistoryStep, XpubStep, LookupStep,
       PredictionStep, StatisticsStep, PageStep, ChainStep

-----------------------------------------------------------------------------
(* The windows of the charts *)

\* The smaller and the larger of two numbers.
LEMMA ChainMinMax ==
    ASSUME NEW a \in Int, NEW b \in Int
    PROVE  /\ Chain!Min({a, b}) = IF a <= b THEN a ELSE b
           /\ Chain!Max({a, b}) = IF a >= b THEN a ELSE b
<1>1. \A x \in {a, b} : (\A y \in {a, b} : x <= y) <=> x = IF a <= b THEN a ELSE b
    OBVIOUS
<1>2. \A x \in {a, b} : (\A y \in {a, b} : x >= y) <=> x = IF a >= b THEN a ELSE b
    OBVIOUS
<1> QED BY <1>1, <1>2 DEF Chain!Min, Chain!Max

\* Division rounds down.
LEMMA DivisionRoundsDown ==
    ASSUME NEW a \in Nat, NEW n \in Nat \ {0}
    PROVE  /\ a \div n \in Nat
           /\ n * (a \div n) <= a /\ a < n * (a \div n) + n
           /\ a >= n => a \div n >= 1
           /\ a < n => a \div n = 0
OBVIOUS

\* Of any height, number of points and first block.
LEMMA WindowsOf ==
    ASSUME NEW h \in Nat, NEW n \in Nat \ {0}, NEW start \in 0 .. h - 1
    PROVE  LET size == Chain!BlockCount(n, start, h)
               w == [k \in 1 .. Chain!Points(n, start, h) |-> Chain!Window(start, size, k)]
               last == w[Len(w)].end
           IN  /\ \A k \in DOMAIN w : w[k].size <= w[k].end - 1
               /\ w[1].end - w[1].size = Chain!Max({start, 1})
               /\ \A k \in 1 .. Len(w) - 1 : w[k + 1].end - w[k + 1].size = w[k].end
               /\ last <= h /\ h - last < n
<1> DEFINE size == Chain!BlockCount(n, start, h)
           points == Chain!Points(n, start, h)
           w == [k \in 1 .. points |-> Chain!Window(start, size, k)]
<1>1. /\ (h - start) \div n \in Nat
      /\ n * ((h - start) \div n) <= h - start /\ h - start < n * ((h - start) \div n) + n
      /\ h - start >= n => (h - start) \div n >= 1
      /\ h - start < n => (h - start) \div n = 0
    BY DivisionRoundsDown
<1>2. size = IF (h - start) \div n >= 1 THEN (h - start) \div n ELSE 1
    BY <1>1, ChainMinMax DEF Chain!BlockCount
<1>3. points = IF n <= h - start THEN n ELSE h - start
    BY ChainMinMax DEF Chain!Points
<1>4. /\ size \in Nat \ {0} /\ points \in Nat \ {0} /\ points <= n
      /\ points * size <= h - start /\ h - start < points * size + n
    <2>1. CASE h - start >= n
        BY <1>1, <1>2, <1>3, <2>1
    <2>2. CASE h - start < n
        <3>1. size = 1 /\ points = h - start
            BY <1>1, <1>2, <1>3, <2>2
        <3> HIDE DEF size, points
        <3> QED BY <3>1, <2>2
    <2> QED BY <2>1, <2>2
<1> HIDE DEF size, points
<1>5. ASSUME NEW k \in 1 .. points
      PROVE  /\ w[k].end = start + k * size
             /\ w[k].size = IF size <= start + k * size - 1 THEN size ELSE start + k * size - 1
    <2>1. start + k * size - 1 \in Int
        BY <1>4
    <2>2. w[k] = Chain!Window(start, size, k)
        OBVIOUS
    <2>3. Chain!Window(start, size, k).end = start + k * size
        BY DEF Chain!Window
    <2>4. Chain!Window(start, size, k).size = Chain!Min({size, (start + k * size) - 1})
        BY DEF Chain!Window
    <2>5. size \in Int
        BY <1>4
    <2> HIDE DEF w
    <2> QED BY <2>1, <2>2, <2>3, <2>4, <2>5, ChainMinMax
<1>6. DOMAIN w = 1 .. points /\ Len(w) = points
    BY <1>4
<1> HIDE DEF w
<1>7. \A k \in 1 .. points : k * size \in Nat /\ k * size >= size
    BY <1>4
<1>8. \A k \in 1 .. points : w[k].size <= w[k].end - 1
    BY <1>4, <1>5, <1>7
<1>9. w[1].end - w[1].size = Chain!Max({start, 1})
    <2>1. 1 \in 1 .. points /\ 1 * size = size
        BY <1>4
    <2>2. Chain!Max({start, 1}) = IF start >= 1 THEN start ELSE 1
        <3>1. start \in Int /\ 1 \in Int
            OBVIOUS
        <3> QED BY <3>1, ChainMinMax
    <2> QED BY <1>4, <1>5, <2>1, <2>2
<1>10. ASSUME NEW k \in 1 .. points - 1
       PROVE  w[k + 1].end - w[k + 1].size = w[k].end
    <2>1. k \in 1 .. points /\ k + 1 \in 1 .. points /\ (k + 1) * size = k * size + size
        BY <1>4
    <2> QED BY <1>4, <1>5, <1>7, <2>1
<1>11. w[Len(w)].end <= h /\ h - w[Len(w)].end < n
    <2>1. w[Len(w)].end = start + points * size
        BY <1>4, <1>5, <1>6
    <2> QED BY <1>4, <1>7, <2>1
<1> QED BY <1>6, <1>8, <1>9, <1>10, <1>11 DEF w, size, points

\* The windows of every chart tile the chain up to the tip, at every height and
\* for any number of points (getTxStats).
THEOREM ChartsTile == Spec => []WindowsTile
<1> DEFINE HeightInv == chainHeight \in Nat
<1>1. Init => HeightInv
    BY DEF Init, Chain!Init
<1>2. HeightInv /\ [Next]_vars => HeightInv'
    BY ChainRuns DEF Chain!Next, Chain!Mine, chainVars
<1>3. HeightInv => WindowsTile
    <2> SUFFICES ASSUME chainHeight \in Nat, NEW n \in 1 .. MaxPoints, NEW start \in 0 .. chainHeight - 1
                 PROVE  LET size == Chain!BlockCount(n, start, chainHeight)
                            w == [k \in 1 .. Chain!Points(n, start, chainHeight) |-> Chain!Window(start, size, k)]
                            last == w[Len(w)].end
                        IN  /\ \A k \in DOMAIN w : w[k].size <= w[k].end - 1
                            /\ w[1].end - w[1].size = Chain!Max({start, 1})
                            /\ \A k \in 1 .. Len(w) - 1 : w[k + 1].end - w[k + 1].size = w[k].end
                            /\ last <= chainHeight /\ chainHeight - last < n
        BY DEF WindowsTile, Chain!WindowsTile
    <2>1. n \in Nat \ {0}
        BY BoundsAssumption DEF BoundsAssumption
    <2> QED BY <2>1, WindowsOf
<1> QED BY <1>1, <1>2, <1>3, PTL DEF Spec
-----------------------------------------------------------------------------
(* The search of an extended key *)

\* The addresses of a kind whose pages have all come.
Done(c) == IF xpubAt = "page" /\ c = receiveOrChange THEN Len(txCounts[c]) - 1 ELSE Len(txCounts[c])

\* The shape of the search's state; every address that was asked for was counted.
XpubTypes ==
    /\ addressCount \in Nat /\ receiveOrChange \in {0, 1} /\ txOffset \in Nat /\ noTxids \in Nat
    /\ gapCounts \in [{0, 1} -> Nat]
    /\ txCounts \in [{0, 1} -> Seq(Nat)]
    /\ used \in [{0, 1} -> Seq(Nat)]
    /\ \A c \in {0, 1} : Len(used[c]) = Len(txCounts[c])

\* A kind that is still searched has been asked for every address up to the one
\* the search is at.
InStep ==
    xpubAt \in {"idle", "chain", "page"} =>
        /\ xpubAt = "page" => gapCounts[receiveOrChange] < GapLimit
        /\ \A c \in {0, 1} : gapCounts[c] < GapLimit =>
             Len(txCounts[c]) = IF c < receiveOrChange \/ (xpubAt = "page" /\ c = receiveOrChange)
                                THEN addressCount + 1 ELSE addressCount

\* The search ended for its limit or behind both gaps.
GapsEndIt == xpubAt = "over" /\ addressLimit = Xpub!NoLimit => \A c \in {0, 1} : gapCounts[c] >= GapLimit

\* The pages of the address the search is at were full so far.
FullPages ==
    xpubAt = "page" =>
        /\ used[receiveOrChange][addressCount + 1] = txOffset
        /\ txOffset <= txCounts[receiveOrChange][addressCount + 1]
        /\ \E pages \in Nat : txOffset = pages * TxLimit

\* An address that is done has all its transactions listed.
Reported == \A c \in {0, 1} : \A k \in 1 .. Done(c) : used[c][k] = txCounts[c][k]

\* What is counted as a gap is one.
RealGaps ==
    \A c \in {0, 1} :
        /\ gapCounts[c] <= Done(c)
        /\ \A k \in Done(c) - gapCounts[c] + 1 .. Done(c) : txCounts[c][k] = 0

\* The empty addresses are those done with no transaction.
RealEmpties ==
    /\ \A c \in {0, 1} : \A k \in 1 .. Done(c) : txCounts[c][k] = 0 => <<c, k - 1>> \in emptyAddresses
    /\ \A e \in emptyAddresses : \E c \in {0, 1} : \E k \in 1 .. Done(c) : txCounts[c][k] = 0 /\ e = <<c, k - 1>>

\* Every answer had a list, and no address ended on a full page.
Regular == noTxids = 0 /\ ~Xpub!EndsOnFullPage

\* The search keeps its counts, and what it found holds as long as every answer had a
\* list and no address ended on a full page.
XpubInv ==
    /\ XpubTypes /\ InStep /\ GapsEndIt
    /\ xpubAt # "failed" /\ Regular => FullPages /\ Reported /\ RealGaps /\ RealEmpties

\* Nothing has been searched.
LEMMA XpubInvInit == Xpub!Init => XpubInv
<1> SUFFICES ASSUME Xpub!Init PROVE XpubInv
    OBVIOUS
<1>1. \A c \in {0, 1} : txCounts[c] = <<>> /\ used[c] = <<>> /\ gapCounts[c] = 0
    BY DEF Xpub!Init, Xpub!Chains
<1>2. XpubTypes
    BY <1>1 DEF Xpub!Init, Xpub!Chains, XpubTypes
<1>3. xpubAt = "idle" /\ addressCount = 0 /\ receiveOrChange = 0 /\ emptyAddresses = {}
    BY DEF Xpub!Init
<1>4. \A c \in {0, 1} : Done(c) = 0
    BY <1>1, <1>3 DEF Done
<1> QED BY <1>1, <1>2, <1>3, <1>4 DEF XpubInv, InStep, GapsEndIt, FullPages, Reported, RealGaps, RealEmpties

\* The address the search is at, and the page that is answered.
LEMMA ThisPageIs ==
    ASSUME XpubInv, xpubAt = "page"
    PROVE  /\ Len(txCounts[receiveOrChange]) = addressCount + 1
           /\ Len(used[receiveOrChange]) = addressCount + 1
           /\ Xpub!ThisCount \in Nat /\ Xpub!ThisPage \in Nat
           /\ Xpub!ThisCount <= txOffset <=> Xpub!ThisPage = 0
           /\ Xpub!ThisPage > 0 => Xpub!ThisPage = IF TxLimit <= Xpub!ThisCount - txOffset
                                                   THEN TxLimit ELSE Xpub!ThisCount - txOffset
<1>1. /\ Len(txCounts[receiveOrChange]) = addressCount + 1
      /\ Len(used[receiveOrChange]) = addressCount + 1
    BY DEF XpubInv, XpubTypes, InStep
<1>2. txCounts[receiveOrChange] \in Seq(Nat) /\ addressCount + 1 \in 1 .. Len(txCounts[receiveOrChange])
    BY <1>1 DEF XpubInv, XpubTypes
<1>3. Xpub!ThisCount \in Nat
    BY <1>2 DEF Xpub!ThisCount
<1>4. txOffset \in Nat /\ TxLimit \in Nat \ {0}
    BY XpubAssumption DEF XpubAssumption, XpubInv, XpubTypes
<1>5. \A a, b \in Int : Xpub!Min({a, b}) = IF a <= b THEN a ELSE b
    <2> SUFFICES ASSUME NEW a \in Int, NEW b \in Int PROVE Xpub!Min({a, b}) = IF a <= b THEN a ELSE b
        OBVIOUS
    <2>1. \A x \in {a, b} : (\A y \in {a, b} : x <= y) <=> x = IF a <= b THEN a ELSE b
        OBVIOUS
    <2> QED BY <2>1 DEF Xpub!Min
<1>6. Xpub!ThisPage = IF Xpub!ThisCount <= txOffset THEN 0
                      ELSE IF TxLimit <= Xpub!ThisCount - txOffset THEN TxLimit ELSE Xpub!ThisCount - txOffset
    BY <1>3, <1>4, <1>5 DEF Xpub!ThisPage, Xpub!PageSize
<1> QED BY <1>1, <1>3, <1>4, <1>6

\* A multiple of the page that is positive ends an address on a full page.
LEMMA FullPageEnds ==
    ASSUME XpubTypes, NEW c \in {0, 1}, NEW k \in 1 .. Len(txCounts[c]), NEW pages \in Nat,
           txCounts[c][k] = pages * TxLimit, txCounts[c][k] > 0
    PROVE  Xpub!EndsOnFullPage
<1>1. TxLimit \in Nat \ {0}
    BY XpubAssumption DEF XpubAssumption
<1>2. (pages * TxLimit) % TxLimit = 0
    BY <1>1
<1>3. k \in DOMAIN txCounts[c]
    BY DEF XpubTypes
<1> QED BY <1>2, <1>3 DEF Xpub!EndsOnFullPage, Xpub!Chains

\* A kind whose gap is found is skipped.
LEMMA SkipChainKeeps ==
    ASSUME XpubInv, Xpub!SkipChain
    PROVE  XpubInv'
<1> USE DEF Xpub!SkipChain, Xpub!results
<1>1. xpubAt = "chain" /\ xpubAt' \in {"chain", "over"} /\ gapCounts[receiveOrChange] >= GapLimit
    BY DEF Xpub!Advance
<1>2. XpubTypes'
    BY DEF XpubInv, XpubTypes, Xpub!Advance
<1>3. InStep'
    <2>1. \A c \in {0, 1} : gapCounts[c] < GapLimit =>
            Len(txCounts[c]) = IF c < receiveOrChange THEN addressCount + 1 ELSE addressCount
        BY <1>1 DEF XpubInv, InStep
    <2>2. GapLimit \in Nat /\ addressCount \in Nat /\ receiveOrChange \in {0, 1} /\ gapCounts \in [{0, 1} -> Nat]
        BY XpubAssumption DEF XpubAssumption, XpubInv, XpubTypes
    <2>3. UNCHANGED <<gapCounts, txCounts>>
        OBVIOUS
    <2>4. CASE receiveOrChange = 0
        <3>1. receiveOrChange' = 1 /\ addressCount' = addressCount
            BY <2>4 DEF Xpub!Advance
        <3>2. \A c \in {0, 1} : gapCounts[c] < GapLimit => c = 1
            BY <1>1, <2>2, <2>4
        <3> QED BY <1>1, <2>1, <2>2, <2>3, <2>4, <3>1, <3>2 DEF InStep
    <2>5. CASE receiveOrChange = 1
        <3>1. receiveOrChange' = 0 /\ addressCount' = addressCount + 1
            BY <2>5 DEF Xpub!Advance
        <3>2. \A c \in {0, 1} : gapCounts[c] < GapLimit => c = 0
            BY <1>1, <2>2, <2>5
        <3> QED BY <1>1, <2>1, <2>2, <2>3, <2>5, <3>1, <3>2 DEF InStep
    <2> QED BY <2>2, <2>4, <2>5
<1>4. GapsEndIt'
    BY <1>1 DEF XpubInv, XpubTypes, GapsEndIt, Xpub!Advance, Xpub!GapsFound, Xpub!Chains, Xpub!NoLimit
<1>5. \A c \in {0, 1} : Done(c)' = Done(c)
    BY <1>1 DEF Done
<1>6. Regular' => Regular
    BY DEF Regular, Xpub!EndsOnFullPage
<1>7. Regular' => FullPages' /\ Reported' /\ RealGaps' /\ RealEmpties'
    BY <1>1, <1>5, <1>6 DEF XpubInv, FullPages, Reported, RealGaps, RealEmpties
<1> QED BY <1>2, <1>3, <1>4, <1>7 DEF XpubInv

\* Another address is asked for.
LEMMA GetAddressKeeps ==
    ASSUME XpubInv, Xpub!GetAddress
    PROVE  XpubInv'
<1> DEFINE r == receiveOrChange
           n == addressCount
<1>1. /\ xpubAt = "chain" /\ xpubAt' = "page" /\ gapCounts[r] < GapLimit /\ txOffset' = 0
      /\ UNCHANGED <<addressLimit, addressCount, receiveOrChange, gapCounts, emptyAddresses, noTxids>>
      /\ used' = [used EXCEPT ![r] = Append(@, 0)]
    BY DEF Xpub!GetAddress
<1>2. PICK count \in Nat : txCounts' = [txCounts EXCEPT ![r] = Append(@, count)]
    <2>1. (IF addressCount < MaxIndex THEN AddressMaxTxs ELSE 0) \in Nat
        BY XpubAssumption DEF XpubAssumption
    <2>2. PICK count \in 0 .. (IF addressCount < MaxIndex THEN AddressMaxTxs ELSE 0) :
            txCounts' = [txCounts EXCEPT ![receiveOrChange] = Append(@, count)]
        BY DEF Xpub!GetAddress
    <2>3. count \in Nat
        BY <2>1
    <2> QED BY <2>2, <2>3
<1>3. r \in {0, 1} /\ n \in Nat /\ Len(txCounts[r]) = n /\ Len(used[r]) = n
    BY <1>1 DEF XpubInv, XpubTypes, InStep
<1>4. /\ txCounts'[r] \in Seq(Nat) /\ Len(txCounts'[r]) = n + 1 /\ txCounts'[r][n + 1] = count
      /\ \A k \in 1 .. n : txCounts'[r][k] = txCounts[r][k]
    <2>1. txCounts'[r] = Append(txCounts[r], count) /\ txCounts[r] \in Seq(Nat)
        BY <1>2, <1>3 DEF XpubInv, XpubTypes
    <2> QED BY <1>3, <2>1, AppendProperties
<1>5. /\ used'[r] \in Seq(Nat) /\ Len(used'[r]) = n + 1 /\ used'[r][n + 1] = 0
      /\ \A k \in 1 .. n : used'[r][k] = used[r][k]
    <2>1. used'[r] = Append(used[r], 0) /\ used[r] \in Seq(Nat)
        BY <1>1, <1>3 DEF XpubInv, XpubTypes
    <2> QED BY <1>3, <2>1, AppendProperties
<1>6. \A c \in {0, 1} : c # r => txCounts'[c] = txCounts[c] /\ used'[c] = used[c]
    BY <1>1, <1>2 DEF XpubInv, XpubTypes
<1>7. XpubTypes'
    <2>1. txCounts' \in [{0, 1} -> Seq(Nat)] /\ used' \in [{0, 1} -> Seq(Nat)]
        BY <1>1, <1>2, <1>3, <1>4, <1>5 DEF XpubInv, XpubTypes
    <2> QED BY <1>1, <1>3, <1>4, <1>5, <1>6, <2>1 DEF XpubInv, XpubTypes
<1>8. InStep'
    BY <1>1, <1>3, <1>4, <1>6 DEF XpubInv, XpubTypes, InStep
<1>9. GapsEndIt'
    BY <1>1 DEF GapsEndIt
<1>10. \A c \in {0, 1} : Done(c)' = Done(c) /\ Done(c) \in Nat /\ Done(c) = Len(txCounts[c])
    <2>1. \A c \in {0, 1} : Len(txCounts[c]) \in Nat
        BY DEF XpubInv, XpubTypes
    <2>2. \A c \in {0, 1} : Done(c) = Len(txCounts[c])
        BY <1>1 DEF Done
    <2>3. \A c \in {0, 1} : c = r => Done(c)' = Len(txCounts'[c]) - 1
        BY <1>1 DEF Done
    <2>4. \A c \in {0, 1} : c # r => Done(c)' = Len(txCounts'[c])
        BY <1>1 DEF Done
    <2>5. \A c \in {0, 1} : c = r => Done(c)' = Done(c)
        BY <1>3, <1>4, <2>2, <2>3
    <2>6. \A c \in {0, 1} : c # r => Done(c)' = Done(c)
        BY <1>6, <2>2, <2>4
    <2> SUFFICES ASSUME NEW c \in {0, 1} PROVE Done(c)' = Done(c)
        BY <2>1, <2>2
    <2>7. CASE c = r
        BY <2>5, <2>7
    <2>8. CASE c # r
        BY <2>6, <2>8
    <2> QED BY <2>7, <2>8
<1>11. Regular' => Regular
    <2>1. ASSUME Xpub!EndsOnFullPage PROVE Xpub!EndsOnFullPage'
        <3>1. PICK c \in {0, 1} : \E k \in DOMAIN txCounts[c] : txCounts[c][k] > 0 /\ txCounts[c][k] % TxLimit = 0
            BY <2>1 DEF Xpub!EndsOnFullPage, Xpub!Chains
        <3>2. PICK k \in DOMAIN txCounts[c] : txCounts[c][k] > 0 /\ txCounts[c][k] % TxLimit = 0
            BY <3>1
        <3>3. k \in DOMAIN txCounts'[c] /\ txCounts'[c][k] = txCounts[c][k]
            <4>1. DOMAIN txCounts[c] = 1 .. Len(txCounts[c]) /\ Len(txCounts[c]) \in Nat
                BY DEF XpubInv, XpubTypes
            <4>2. CASE c = r
                <5>1. DOMAIN txCounts'[r] = 1 .. n + 1
                    BY <1>4
                <5> QED BY <1>3, <1>4, <4>1, <4>2, <5>1
            <4>3. CASE c # r
                BY <1>6, <4>3
            <4> QED BY <4>2, <4>3
        <3> QED BY <3>2, <3>3 DEF Xpub!EndsOnFullPage, Xpub!Chains
    <2> QED BY <1>1, <2>1 DEF Regular
<1>12. ASSUME Regular' PROVE FullPages' /\ Reported' /\ RealGaps' /\ RealEmpties'
    <2>1. Reported /\ RealGaps /\ RealEmpties
        BY <1>1, <1>11, <1>12 DEF XpubInv
    <2>2. \A c \in {0, 1} : \A k \in 1 .. Done(c) : txCounts'[c][k] = txCounts[c][k] /\ used'[c][k] = used[c][k]
        BY <1>3, <1>4, <1>5, <1>6, <1>10
    <2>3. FullPages'
        <3>1. 0 = 0 * TxLimit
            BY XpubAssumption DEF XpubAssumption
        <3> QED BY <1>1, <1>3, <1>4, <1>5, <3>1 DEF FullPages
    <2>4. Reported'
        BY <1>10, <2>1, <2>2 DEF Reported
    <2>5. RealGaps'
        <3>1. \A c \in {0, 1} : \A k \in Done(c) - gapCounts[c] + 1 .. Done(c) : k \in 1 .. Done(c)
            BY <1>10, <2>1 DEF RealGaps, XpubInv, XpubTypes
        <3> QED BY <1>1, <1>10, <2>1, <2>2, <3>1 DEF RealGaps
    <2>6. RealEmpties'
        <3>1. \A c \in {0, 1} : \A k \in 1 .. Done(c) : txCounts'[c][k] = 0 => <<c, k - 1>> \in emptyAddresses'
            BY <1>1, <2>1, <2>2 DEF RealEmpties
        <3>2. \A e \in emptyAddresses' : \E c \in {0, 1} : \E k \in 1 .. Done(c) :
                txCounts'[c][k] = 0 /\ e = <<c, k - 1>>
            BY <1>1, <2>1, <2>2 DEF RealEmpties
        <3> QED BY <1>10, <3>1, <3>2 DEF RealEmpties
    <2> QED BY <2>3, <2>4, <2>5, <2>6
<1> QED BY <1>7, <1>8, <1>9, <1>12 DEF XpubInv

\* The search goes on behind the last page of an address.
LEMMA AdvanceKeeps ==
    ASSUME XpubInv, xpubAt = "page", Xpub!Advance(gapCounts'), UNCHANGED <<addressLimit, txCounts>>,
           gapCounts' \in [{0, 1} -> Nat],
           \A c \in {0, 1} : c # receiveOrChange => gapCounts'[c] = gapCounts[c]
    PROVE  /\ InStep' /\ GapsEndIt'
           /\ xpubAt' \in {"chain", "over"} /\ addressCount' \in Nat /\ receiveOrChange' \in {0, 1}
           /\ \A c \in {0, 1} : Done(c)' = Len(txCounts[c])
<1>1. /\ GapLimit \in Nat /\ addressCount \in Nat /\ receiveOrChange \in {0, 1} /\ gapCounts \in [{0, 1} -> Nat]
      /\ Len(txCounts[receiveOrChange]) = addressCount + 1
    BY XpubAssumption, ThisPageIs DEF XpubAssumption, XpubInv, XpubTypes
<1>2. \A c \in {0, 1} : gapCounts[c] < GapLimit =>
        Len(txCounts[c]) = IF c < receiveOrChange \/ c = receiveOrChange THEN addressCount + 1 ELSE addressCount
    BY DEF XpubInv, InStep
<1>3. xpubAt' \in {"chain", "over"} /\ addressCount' \in Nat /\ receiveOrChange' \in {0, 1}
    BY <1>1 DEF Xpub!Advance
<1>4. InStep'
    <2>1. CASE receiveOrChange = 0
        <3>1. receiveOrChange' = 1 /\ addressCount' = addressCount
            BY <2>1 DEF Xpub!Advance
        <3>2. Len(txCounts[0]) = addressCount + 1 /\ gapCounts'[1] = gapCounts[1]
            BY <1>1, <2>1
        <3>3. gapCounts'[1] < GapLimit => Len(txCounts[1]) = addressCount
            BY <1>2, <2>1, <3>2
        <3> QED BY <1>3, <3>1, <3>2, <3>3 DEF InStep
    <2>2. CASE receiveOrChange = 1
        <3>1. receiveOrChange' = 0 /\ addressCount' = addressCount + 1
            BY <2>2 DEF Xpub!Advance
        <3>2. Len(txCounts[1]) = addressCount + 1 /\ gapCounts'[0] = gapCounts[0]
            BY <1>1, <2>2
        <3>3. gapCounts'[0] < GapLimit => Len(txCounts[0]) = addressCount + 1
            BY <1>2, <2>2, <3>2
        <3> QED BY <1>3, <3>1, <3>2, <3>3 DEF InStep
    <2> QED BY <1>1, <2>1, <2>2
<1>5. GapsEndIt'
    BY <1>1 DEF GapsEndIt, Xpub!Advance, Xpub!GapsFound, Xpub!Chains, Xpub!NoLimit
<1>6. \A c \in {0, 1} : Done(c)' = Len(txCounts[c])
    BY <1>3 DEF Done
<1> QED BY <1>3, <1>4, <1>5, <1>6

\* An address without a transaction ends here, unless it ended on a full page.
LEMMA EmptyPageKeeps ==
    ASSUME XpubInv, Xpub!EmptyPage
    PROVE  XpubInv'
<1> DEFINE r == receiveOrChange
           n == addressCount
<1>1. /\ xpubAt = "page" /\ Xpub!ThisPage = 0
      /\ emptyAddresses' = emptyAddresses \cup {<<r, n>>}
      /\ gapCounts' = [gapCounts EXCEPT ![r] = @ + 1]
      /\ txOffset' = txOffset + TxLimit
      /\ Xpub!Advance(gapCounts')
      /\ UNCHANGED <<addressLimit, txCounts, used, noTxids>>
    BY DEF Xpub!EmptyPage, Xpub!AddressAt
<1>2. r \in {0, 1} /\ n \in Nat /\ gapCounts \in [{0, 1} -> Nat] /\ txOffset \in Nat /\ TxLimit \in Nat
    BY XpubAssumption DEF XpubAssumption, XpubInv, XpubTypes
<1>3. gapCounts' \in [{0, 1} -> Nat] /\ gapCounts'[r] = gapCounts[r] + 1
    BY <1>1, <1>2
<1>4. \A c \in {0, 1} : c # r => gapCounts'[c] = gapCounts[c]
    BY <1>1, <1>2
<1>5. /\ InStep' /\ GapsEndIt'
      /\ xpubAt' \in {"chain", "over"} /\ addressCount' \in Nat /\ receiveOrChange' \in {0, 1}
      /\ \A c \in {0, 1} : Done(c)' = Len(txCounts[c])
    BY <1>1, <1>3, <1>4, AdvanceKeeps
<1>6. XpubTypes'
    BY <1>1, <1>2, <1>3, <1>5 DEF XpubInv, XpubTypes
<1>7. Regular' => Regular
    BY <1>1 DEF Regular, Xpub!EndsOnFullPage
<1>8. ASSUME Regular' PROVE FullPages' /\ Reported' /\ RealGaps' /\ RealEmpties'
    <2>1. FullPages /\ Reported /\ RealGaps /\ RealEmpties /\ ~Xpub!EndsOnFullPage
        BY <1>1, <1>7, <1>8 DEF XpubInv, Regular
    <2>2. Len(txCounts[r]) = n + 1 /\ Done(r) = n
        BY <1>1, <1>2, ThisPageIs DEF Done
    <2>3. \A c \in {0, 1} : c # r => Done(c) = Len(txCounts[c])
        BY <1>1 DEF Done
    <2>4. \A c \in {0, 1} : Len(txCounts[c]) \in Nat
        BY DEF XpubInv, XpubTypes
    <2>5. txCounts[r][n + 1] = 0 /\ used[r][n + 1] = 0
        <3>1. txCounts[r][n + 1] \in Nat /\ txCounts[r][n + 1] <= txOffset
            BY <1>1, ThisPageIs DEF Xpub!ThisCount
        <3>2. PICK pages \in Nat : txOffset = pages * TxLimit
            BY <1>1, <2>1 DEF FullPages
        <3>3. used[r][n + 1] = txOffset /\ txOffset <= txCounts[r][n + 1]
            BY <1>1, <2>1 DEF FullPages
        <3>4. txCounts[r][n + 1] = txOffset
            BY <1>2, <3>1, <3>3
        <3>5. ~(txCounts[r][n + 1] > 0)
            <4>1. n + 1 \in 1 .. Len(txCounts[r])
                BY <1>2, <2>2
            <4> QED BY <1>2, <2>1, <3>2, <3>4, <4>1, FullPageEnds DEF XpubInv
        <3> QED BY <3>1, <3>3, <3>4, <3>5
    <2>6. FullPages'
        BY <1>5 DEF FullPages
    <2>7. Reported'
        <3>1. ASSUME NEW c \in {0, 1}, NEW k \in 1 .. Len(txCounts[c]) PROVE used[c][k] = txCounts[c][k]
            <4>1. CASE c # r
                BY <2>1, <2>3, <4>1 DEF Reported
            <4>2. CASE c = r /\ k # n + 1
                <5>1. k \in 1 .. Done(r)
                    BY <1>2, <2>2, <4>2
                <5> QED BY <1>2, <2>1, <4>2, <5>1 DEF Reported
            <4>3. CASE c = r /\ k = n + 1
                BY <2>5, <4>3
            <4> QED BY <4>1, <4>2, <4>3
        <3> QED BY <1>1, <1>5, <3>1 DEF Reported
    <2>8. RealGaps'
        <3>1. ASSUME NEW c \in {0, 1}
              PROVE  /\ gapCounts'[c] <= Len(txCounts[c])
                     /\ \A k \in Len(txCounts[c]) - gapCounts'[c] + 1 .. Len(txCounts[c]) : txCounts[c][k] = 0
            <4>1. CASE c # r
                BY <1>4, <2>1, <2>3, <4>1 DEF RealGaps
            <4>2. CASE c = r
                <5>1. gapCounts[r] <= n /\ \A k \in n - gapCounts[r] + 1 .. n : txCounts[r][k] = 0
                    BY <1>2, <2>1, <2>2 DEF RealGaps
                <5>2. \A k \in n + 1 - (gapCounts[r] + 1) + 1 .. n + 1 :
                        k = n + 1 \/ k \in n - gapCounts[r] + 1 .. n
                    BY <1>2
                <5>3. \A k \in n + 1 - (gapCounts[r] + 1) + 1 .. n + 1 : txCounts[r][k] = 0
                    BY <2>5, <5>1, <5>2
                <5>4. Len(txCounts[c]) = n + 1 /\ gapCounts'[c] = gapCounts[r] + 1 /\ txCounts[c] = txCounts[r]
                    BY <1>3, <2>2, <4>2
                <5>5. gapCounts[r] + 1 <= n + 1
                    BY <1>2, <5>1
                <5> QED BY <1>2, <5>3, <5>4, <5>5, SMTT(30)
            <4> QED BY <4>1, <4>2
        <3> QED BY <1>1, <1>5, <3>1 DEF RealGaps
    <2>9. RealEmpties'
        <3>1. ASSUME NEW c \in {0, 1}, NEW k \in 1 .. Len(txCounts[c]), txCounts[c][k] = 0
              PROVE  <<c, k - 1>> \in emptyAddresses'
            <4>1. CASE c # r
                BY <1>1, <2>1, <2>3, <3>1, <4>1 DEF RealEmpties
            <4>2. CASE c = r /\ k # n + 1
                <5>1. k \in 1 .. Done(r)
                    BY <1>2, <2>2, <4>2
                <5> QED BY <1>1, <1>2, <2>1, <3>1, <4>2, <5>1 DEF RealEmpties
            <4>3. CASE c = r /\ k = n + 1
                <5>1. k - 1 = n
                    BY <1>2, <4>3
                <5> QED BY <1>1, <4>3, <5>1
            <4> QED BY <4>1, <4>2, <4>3
        <3>2. ASSUME NEW e \in emptyAddresses'
              PROVE  \E c \in {0, 1} : \E k \in 1 .. Len(txCounts[c]) : txCounts[c][k] = 0 /\ e = <<c, k - 1>>
            <4>1. CASE e \in emptyAddresses
                <5>1. PICK c \in {0, 1} : \E k \in 1 .. Done(c) : txCounts[c][k] = 0 /\ e = <<c, k - 1>>
                    BY <2>1, <4>1 DEF RealEmpties
                <5>2. 1 .. Done(c) \subseteq 1 .. Len(txCounts[c])
                    BY <1>2, <2>2, <2>3
                <5> QED BY <5>1, <5>2
            <4>2. CASE e = <<r, n>>
                <5>1. n + 1 \in 1 .. Len(txCounts[r]) /\ (n + 1) - 1 = n
                    BY <1>2, <2>2
                <5> QED BY <1>2, <2>5, <4>2, <5>1
            <4> QED BY <1>1, <4>1, <4>2
        <3> QED BY <1>1, <1>5, <3>1, <3>2 DEF RealEmpties
    <2> QED BY <2>6, <2>7, <2>8, <2>9
<1> QED BY <1>5, <1>6, <1>8 DEF XpubInv

\* A page with transactions: the gap is over, and so is the address unless the
\* page was full.
LEMMA UsedPageKeeps ==
    ASSUME XpubInv, Xpub!UsedPage
    PROVE  XpubInv'
<1> DEFINE r == receiveOrChange
           n == addressCount
<1>1. /\ xpubAt = "page" /\ Xpub!ThisPage > 0
      /\ used' = [used EXCEPT ![r][n + 1] = @ + Xpub!ThisPage]
      /\ gapCounts' = [gapCounts EXCEPT ![r] = 0]
      /\ txOffset' = txOffset + TxLimit
      /\ UNCHANGED <<addressLimit, txCounts, emptyAddresses, noTxids>>
    BY DEF Xpub!UsedPage
<1>2. /\ r \in {0, 1} /\ n \in Nat /\ gapCounts \in [{0, 1} -> Nat] /\ txOffset \in Nat
      /\ TxLimit \in Nat \ {0} /\ GapLimit \in Nat
    BY XpubAssumption DEF XpubAssumption, XpubInv, XpubTypes
<1>3. /\ Len(txCounts[r]) = n + 1 /\ Len(used[r]) = n + 1
      /\ Xpub!ThisCount \in Nat /\ Xpub!ThisPage \in Nat /\ Xpub!ThisCount = txCounts[r][n + 1]
      /\ Xpub!ThisPage = IF TxLimit <= Xpub!ThisCount - txOffset THEN TxLimit ELSE Xpub!ThisCount - txOffset
    BY <1>1, ThisPageIs DEF Xpub!ThisCount
<1> DEFINE size == Xpub!ThisPage
           count == Xpub!ThisCount
<1>4. gapCounts' \in [{0, 1} -> Nat] /\ gapCounts'[r] = 0 /\ (\A c \in {0, 1} : c # r => gapCounts'[c] = gapCounts[c])
    BY <1>1, <1>2
<1>5. /\ used' \in [{0, 1} -> Seq(Nat)] /\ (\A c \in {0, 1} : Len(used'[c]) = Len(used[c]))
      /\ used'[r][n + 1] = used[r][n + 1] + size
      /\ \A c \in {0, 1} : \A k \in 1 .. Len(used[c]) : c # r \/ k # n + 1 => used'[c][k] = used[c][k]
    <2>1. used \in [{0, 1} -> Seq(Nat)] /\ n + 1 \in 1 .. Len(used[r]) /\ used[r] \in Seq(Nat)
        BY <1>2, <1>3 DEF XpubInv, XpubTypes
    <2>2. used' = [used EXCEPT ![r] = [used[r] EXCEPT ![n + 1] = used[r][n + 1] + size]]
        BY <1>1, <2>1, SMTT(30)
    <2>3. used[r][n + 1] + size \in Nat
        BY <1>3, <2>1
    <2> DEFINE longer == [used[r] EXCEPT ![n + 1] = used[r][n + 1] + size]
    <2>4. /\ longer \in Seq(Nat) /\ Len(longer) = Len(used[r]) /\ longer[n + 1] = used[r][n + 1] + size
          /\ \A k \in 1 .. Len(used[r]) : k # n + 1 => longer[k] = used[r][k]
        BY <2>1, <2>3, ExceptSeq
    <2> HIDE DEF longer, size
    <2>5. used'[r] = longer /\ \A c \in {0, 1} : c # r => used'[c] = used[c]
        BY <1>2, <2>1, <2>2 DEF longer
    <2>6. used' \in [{0, 1} -> Seq(Nat)]
        BY <1>2, <2>1, <2>2, <2>4 DEF longer
    <2> QED BY <2>4, <2>5, <2>6
<1>6. Regular' => Regular
    BY <1>1 DEF Regular, Xpub!EndsOnFullPage
<1>7. \A c \in {0, 1} : Len(txCounts[c]) \in Nat /\ Len(used[c]) = Len(txCounts[c])
    BY DEF XpubInv, XpubTypes
<1>8. Done(r) = n /\ \A c \in {0, 1} : c # r => Done(c) = Len(txCounts[c])
    BY <1>1, <1>2, <1>3 DEF Done
<1>9. ASSUME Regular' PROVE FullPages /\ Reported /\ RealGaps /\ RealEmpties
    BY <1>1, <1>6, <1>9 DEF XpubInv
<1>10. ASSUME size < TxLimit PROVE XpubInv'
    <2>1. Xpub!Advance(gapCounts')
        BY <1>10, SMTT(30) DEF Xpub!UsedPage
    <2>2. /\ InStep' /\ GapsEndIt'
          /\ xpubAt' \in {"chain", "over"} /\ addressCount' \in Nat /\ receiveOrChange' \in {0, 1}
          /\ \A c \in {0, 1} : Done(c)' = Len(txCounts[c])
        BY <1>1, <1>4, <2>1, AdvanceKeeps
    <2>3. XpubTypes'
        BY <1>1, <1>2, <1>4, <1>5, <1>7, <2>2 DEF XpubInv, XpubTypes
    <2>4. ASSUME Regular' PROVE FullPages' /\ Reported' /\ RealGaps' /\ RealEmpties'
        <3>1. FullPages /\ Reported /\ RealGaps /\ RealEmpties
            BY <1>9, <2>4
        <3>2. used[r][n + 1] = txOffset /\ size = count - txOffset
            BY <1>1, <1>2, <1>3, <1>10, <3>1 DEF FullPages
        <3>3. used'[r][n + 1] = txCounts[r][n + 1] /\ txCounts[r][n + 1] > 0
            <4>1. count > 0
                BY <1>1, <1>2, <1>3, <3>2
            <4>2. used'[r][n + 1] = used[r][n + 1] + size /\ txCounts[r][n + 1] = count
                BY <1>3, <1>5
            <4>3. txOffset \in Nat /\ count \in Nat
                BY <1>2, <1>3
            <4>4. txOffset + (count - txOffset) = count
                BY <4>3
            <4> QED BY ONLY <3>2, <4>1, <4>2, <4>4
        <3>4. FullPages'
            BY <2>2 DEF FullPages
        <3>5. Reported'
            <4>1. ASSUME NEW c \in {0, 1}, NEW k \in 1 .. Len(txCounts[c]) PROVE used'[c][k] = txCounts[c][k]
                <5>1. CASE c = r /\ k = n + 1
                    BY <3>3, <5>1
                <5>2. CASE c # r
                    BY <1>5, <1>7, <1>8, <3>1, <5>2 DEF Reported
                <5>3. CASE c = r /\ k # n + 1
                    <6>1. k \in 1 .. Done(c) /\ k \in 1 .. Len(used[c])
                        BY <1>2, <1>3, <1>7, <1>8, <5>3
                    <6> QED BY <1>5, <3>1, <5>3, <6>1 DEF Reported
                <5> QED BY <5>1, <5>2, <5>3
            <4> QED BY <1>1, <2>2, <4>1 DEF Reported
        <3>6. RealGaps'
            <4>1. ASSUME NEW c \in {0, 1}
                  PROVE  /\ gapCounts'[c] <= Len(txCounts[c])
                         /\ \A k \in Len(txCounts[c]) - gapCounts'[c] + 1 .. Len(txCounts[c]) : txCounts[c][k] = 0
                <5>1. CASE c # r
                    BY <1>4, <1>8, <3>1, <5>1 DEF RealGaps
                <5>2. CASE c = r
                    BY <1>4, <1>7, <5>2
                <5> QED BY <5>1, <5>2
            <4> QED BY <1>1, <2>2, <4>1 DEF RealGaps
        <3>7. RealEmpties'
            <4>1. ASSUME NEW c \in {0, 1}, NEW k \in 1 .. Len(txCounts[c]), txCounts[c][k] = 0
                  PROVE  <<c, k - 1>> \in emptyAddresses
                <5>1. c # r \/ k # n + 1
                    BY <3>3, <4>1
                <5>2. k \in 1 .. Done(c)
                    BY <1>2, <1>3, <1>8, <5>1
                <5> QED BY <3>1, <4>1, <5>2 DEF RealEmpties
            <4>2. ASSUME NEW e \in emptyAddresses
                  PROVE  \E c \in {0, 1} : \E k \in 1 .. Len(txCounts[c]) : txCounts[c][k] = 0 /\ e = <<c, k - 1>>
                <5>1. PICK c \in {0, 1} : \E k \in 1 .. Done(c) : txCounts[c][k] = 0 /\ e = <<c, k - 1>>
                    BY <3>1 DEF RealEmpties
                <5>2. 1 .. Done(c) \subseteq 1 .. Len(txCounts[c])
                    BY <1>2, <1>3, <1>8
                <5> QED BY <5>1, <5>2
            <4> QED BY <1>1, <2>2, <4>1, <4>2 DEF RealEmpties
        <3> QED BY <3>4, <3>5, <3>6, <3>7
    <2> QED BY <2>2, <2>3, <2>4 DEF XpubInv
<1>11. ASSUME size = TxLimit PROVE XpubInv'
    <2>1. UNCHANGED <<xpubAt, receiveOrChange, addressCount>>
        BY <1>2, <1>11 DEF Xpub!UsedPage
    <2>2. \A c \in {0, 1} : Done(c)' = Done(c)
        BY <1>1, <2>1 DEF Done
    <2>3. XpubTypes'
        BY <1>1, <1>2, <1>4, <1>5, <1>7, <2>1 DEF XpubInv, XpubTypes
    <2>4. InStep' /\ GapsEndIt'
        <3>1. gapCounts[r] < GapLimit
            BY <1>1 DEF XpubInv, InStep
        <3>2. gapCounts'[r] < GapLimit /\ \A c \in {0, 1} : gapCounts'[c] < GapLimit => gapCounts[c] < GapLimit
            BY <1>2, <1>4, <3>1
        <3> QED BY <1>1, <2>1, <3>2 DEF XpubInv, InStep, GapsEndIt
    <2>5. ASSUME Regular' PROVE FullPages' /\ Reported' /\ RealGaps' /\ RealEmpties'
        <3>1. FullPages /\ Reported /\ RealGaps /\ RealEmpties
            BY <1>9, <2>5
        <3>2. FullPages'
            <4>1. used[r][n + 1] = txOffset
                BY <1>1, <3>1 DEF FullPages
            <4>2. used'[r][n + 1] = txOffset' /\ txOffset' <= txCounts[r][n + 1]
                BY <1>1, <1>2, <1>3, <1>5, <1>11, <4>1
            <4>3. PICK pages \in Nat : txOffset = pages * TxLimit
                BY <1>1, <3>1 DEF FullPages
            <4>4. txOffset' = (pages + 1) * TxLimit /\ pages + 1 \in Nat
                BY <1>1, <1>2, <4>3
            <4> QED BY <1>1, <2>1, <4>2, <4>4 DEF FullPages
        <3>3. \A c \in {0, 1} : \A k \in 1 .. Done(c) : k \in 1 .. Len(used[c]) /\ (c # r \/ k # n + 1)
            BY <1>2, <1>3, <1>7, <1>8
        <3>4. Reported'
            BY <1>1, <1>5, <2>2, <3>1, <3>3 DEF Reported
        <3>5. RealGaps'
            <4>1. \A c \in {0, 1} : Done(c) \in Nat
                BY <1>2, <1>7, <1>8
            <4>2. ASSUME NEW c \in {0, 1}
                  PROVE  /\ gapCounts'[c] <= Done(c)
                         /\ \A k \in Done(c) - gapCounts'[c] + 1 .. Done(c) : txCounts[c][k] = 0
                <5>1. CASE c # r
                    BY <1>4, <3>1, <5>1 DEF RealGaps
                <5>2. CASE c = r
                    BY <1>4, <4>1, <5>2
                <5> QED BY <5>1, <5>2
            <4> QED BY <1>1, <2>2, <4>2 DEF RealGaps
        <3>6. RealEmpties'
            BY <1>1, <2>2, <3>1 DEF RealEmpties
        <3> QED BY <3>2, <3>4, <3>5, <3>6
    <2> QED BY <2>3, <2>4, <2>5 DEF XpubInv
<1>12. size < TxLimit \/ size = TxLimit
    BY <1>2, <1>3
<1> QED BY <1>10, <1>11, <1>12

\* A kind of address is begun, skipped or asked for a page; the page is empty, full or
\* the last one, or has no list.
LEMMA XpubInvStep == XpubInv /\ [Xpub!Next]_xpubVars => XpubInv'
<1> SUFFICES ASSUME XpubInv, [Xpub!Next]_xpubVars PROVE XpubInv'
    OBVIOUS
<1>1. CASE UNCHANGED xpubVars
    <2>1. /\ \A c \in {0, 1} : Done(c)' = Done(c)
          /\ Xpub!EndsOnFullPage' = Xpub!EndsOnFullPage
        BY <1>1 DEF xpubVars, Done, Xpub!EndsOnFullPage
    <2>2. XpubTypes' = XpubTypes /\ InStep' = InStep /\ GapsEndIt' = GapsEndIt /\ FullPages' = FullPages
        BY <1>1 DEF xpubVars, XpubTypes, InStep, GapsEndIt, FullPages
    <2>3. Regular' = Regular
        BY <1>1, <2>1 DEF xpubVars, Regular
    <2>4. Reported => Reported'
        BY <1>1, <2>1 DEF xpubVars, Reported
    <2>5. RealGaps => RealGaps'
        BY <1>1, <2>1 DEF xpubVars, RealGaps
    <2>6. RealEmpties => RealEmpties'
        BY <1>1, <2>1 DEF xpubVars, RealEmpties
    <2>7. xpubAt' = xpubAt
        BY <1>1 DEF xpubVars
    <2> QED BY <2>2, <2>3, <2>4, <2>5, <2>6, <2>7 DEF XpubInv
<1>2. ASSUME NEW most, Xpub!Begin(most) PROVE XpubInv'
    <2>1. \A c \in {0, 1} : Done(c)' = Done(c)
        BY <1>2 DEF Xpub!Begin, Xpub!results, Done
    <2>2. /\ xpubAt = "idle" /\ xpubAt' = "chain"
          /\ UNCHANGED <<addressCount, receiveOrChange, gapCounts, txOffset, txCounts, used, emptyAddresses, noTxids>>
        BY <1>2 DEF Xpub!Begin, Xpub!results
    <2>3. XpubTypes' /\ InStep'
        BY <2>2 DEF XpubInv, XpubTypes, InStep
    <2>4. GapsEndIt' /\ FullPages'
        BY <2>2 DEF GapsEndIt, FullPages
    <2>5. ASSUME Regular' PROVE Reported' /\ RealGaps' /\ RealEmpties'
        <3>1. Regular
            BY <2>2, <2>5 DEF Regular, Xpub!EndsOnFullPage
        <3>2. Reported /\ RealGaps /\ RealEmpties
            BY <2>2, <3>1 DEF XpubInv
        <3>3. Reported'
            BY <2>1, <2>2, <3>2 DEF Reported
        <3>4. RealGaps'
            BY <2>1, <2>2, <3>2 DEF RealGaps
        <3>5. RealEmpties'
            BY <2>1, <2>2, <3>2 DEF RealEmpties
        <3> QED BY <3>3, <3>4, <3>5
    <2> QED BY <2>2, <2>3, <2>4, <2>5 DEF XpubInv
<1>3. CASE Xpub!SkipChain
    BY <1>3, SkipChainKeeps
<1>4. CASE Xpub!GetAddress
    BY <1>4, GetAddressKeeps
<1>5. CASE Xpub!EmptyPage
    BY <1>5, EmptyPageKeeps
<1>6. CASE Xpub!UsedPage
    BY <1>6, UsedPageKeeps
<1>7. CASE Xpub!PageWithoutTxids
    <2>1. ~Regular'
        BY <1>7 DEF Xpub!PageWithoutTxids, Regular, XpubInv, XpubTypes
    <2>2. txOffset' \in Nat
        BY <1>7, XpubAssumption DEF XpubAssumption, Xpub!PageWithoutTxids, XpubInv, XpubTypes
    <2> QED BY <1>7, <2>1, <2>2 DEF Xpub!PageWithoutTxids, XpubInv, XpubTypes, InStep, GapsEndIt
<1>8. CASE Xpub!Fail
    BY <1>8 DEF Xpub!Fail, Xpub!results, XpubInv, XpubTypes, InStep, GapsEndIt
<1> QED BY <1>1, <1>2, <1>3, <1>4, <1>5, <1>6, <1>7, <1>8 DEF Xpub!Next, Xpub!vars, xpubVars

\* A search that ended has found everything.
LEMMA XpubInvFinds == XpubInv => XpubFindsAll
<1> SUFFICES ASSUME XpubInv, xpubAt = "over", addressLimit = Xpub!NoLimit, noTxids = 0, ~Xpub!EndsOnFullPage
             PROVE  /\ used = txCounts
                    /\ \A c \in {0, 1} :
                         LET n == Len(txCounts[c])
                         IN  n >= GapLimit /\ \A k \in n - GapLimit + 1 .. n : txCounts[c][k] = 0
                    /\ emptyAddresses = UNION {{Xpub!AddressAt(c, k - 1) :
                         k \in {k \in DOMAIN txCounts[c] : txCounts[c][k] = 0}} : c \in {0, 1}}
    BY DEF XpubFindsAll, Xpub!XpubFindsAll, Xpub!Chains
<1>1. Reported /\ RealGaps /\ RealEmpties /\ XpubTypes /\ \A c \in {0, 1} : gapCounts[c] >= GapLimit
    BY DEF XpubInv, Regular, GapsEndIt
<1>2. \A c \in {0, 1} : /\ Done(c) = Len(txCounts[c]) /\ Len(used[c]) = Len(txCounts[c]) /\ Len(txCounts[c]) \in Nat
                        /\ DOMAIN txCounts[c] = 1 .. Len(txCounts[c])
    BY <1>1 DEF Done, XpubTypes
<1>3. used = txCounts
    <2>1. \A c \in {0, 1} : used[c] = txCounts[c]
        <3> SUFFICES ASSUME NEW c \in {0, 1} PROVE used[c] = txCounts[c]
            OBVIOUS
        <3>1. used[c] \in Seq(Nat) /\ txCounts[c] \in Seq(Nat)
            BY <1>1 DEF XpubTypes
        <3>2. \A k \in 1 .. Len(used[c]) : used[c][k] = txCounts[c][k]
            BY <1>1, <1>2 DEF Reported
        <3> QED BY <1>2, <3>1, <3>2, SeqEqual
    <2> QED BY <1>1, <2>1 DEF XpubTypes
<1>4. ASSUME NEW c \in {0, 1}
      PROVE  /\ Len(txCounts[c]) >= GapLimit
             /\ \A k \in Len(txCounts[c]) - GapLimit + 1 .. Len(txCounts[c]) : txCounts[c][k] = 0
    <2>1. /\ gapCounts[c] \in Nat /\ GapLimit \in Nat /\ gapCounts[c] >= GapLimit
          /\ gapCounts[c] <= Len(txCounts[c]) /\ Len(txCounts[c]) \in Nat
        BY <1>1, <1>2, XpubAssumption DEF XpubAssumption, XpubTypes, RealGaps
    <2>2. \A k \in Len(txCounts[c]) - GapLimit + 1 .. Len(txCounts[c]) :
            k \in Len(txCounts[c]) - gapCounts[c] + 1 .. Len(txCounts[c])
        BY <2>1
    <2> QED BY <1>1, <1>2, <2>1, <2>2 DEF RealGaps
<1>5. \A e : e \in emptyAddresses <=>
        \E c \in {0, 1} : \E k \in {k \in DOMAIN txCounts[c] : txCounts[c][k] = 0} : e = <<c, k - 1>>
    BY <1>1, <1>2 DEF RealEmpties
<1> QED BY <1>3, <1>4, <1>5 DEF Xpub!AddressAt

\* searchXpubTxids of xyzpubApi.js lists every transaction of the addresses up to the
\* gap, for every gap limit, page size and number of addresses.
THEOREM XpubSearchFindsAll == Spec => []XpubFindsAll
<1>1. Init => XpubInv
    BY XpubInvInit DEF Init
<1>2. XpubInv /\ [Next]_vars => XpubInv'
    BY XpubRuns, XpubInvStep
<1> QED BY <1>1, <1>2, XpubInvFinds, PTL DEF Spec
-----------------------------------------------------------------------------

LEMMA HistoryRuns == [Next]_vars => [History!Next]_historyVars
BY DEF Next, vars, SessionStep, StartupStep, TablesStep, ElectrumStep, SsoStep, HistoryStep, XpubStep, LookupStep,
       PredictionStep, StatisticsStep, PageStep, ChainStep

-----------------------------------------------------------------------------
(* The pages of an address's history *)

\* Sequence s is n numbers, one after the other: down from top, up from behind
\* bottom.
Down(s, top, n) == s \in Seq(Nat) /\ Len(s) = n /\ \A k \in 1 .. n : s[k] = top + 1 - k
\* The n numbers above bottom, from the lowest up.
Up(s, bottom, n) == s \in Seq(Nat) /\ Len(s) = n /\ \A k \in 1 .. n : s[k] = bottom + k

\* The newest transactions, as an answer lists them.
LEMMA NewestIsDown ==
    ASSUME NEW n \in Nat
    PROVE  Down(History!Newest(n), n, n) /\ \A s : Down(s, n, n) => s = History!Newest(n)
<1> DEFINE r == [k \in 1 .. n |-> n + 1 - k]
<1>1. r = History!Newest(n)
    BY DEF History!Newest
<1>2. r \in Seq(Nat) /\ Len(r) = n /\ \A k \in 1 .. n : r[k] = n + 1 - k
    OBVIOUS
<1>3. ASSUME NEW s, Down(s, n, n) PROVE s = r
    <2>1. s \in Seq(Nat) /\ Len(s) = n /\ \A k \in 1 .. n : s[k] = n + 1 - k
        BY <1>3 DEF Down
    <2>2. s = [k \in 1 .. n |-> s[k]]
        BY <2>1
    <2> QED BY <2>1, <2>2
<1> QED BY <1>1, <1>2, <1>3 DEF Down

\* The same in the other order.
LEMMA OldestIsUp ==
    ASSUME NEW n \in Nat
    PROVE  Up(History!Oldest(n), 0, n) /\ \A s : Up(s, 0, n) => s = History!Oldest(n)
<1> DEFINE r == [k \in 1 .. n |-> k]
<1>1. r = History!Oldest(n)
    BY DEF History!Oldest
<1>2. r \in Seq(Nat) /\ Len(r) = n /\ \A k \in 1 .. n : r[k] = 0 + k
    OBVIOUS
<1>3. ASSUME NEW s, Up(s, 0, n) PROVE s = r
    <2>1. s \in Seq(Nat) /\ Len(s) = n /\ \A k \in 1 .. n : s[k] = k
        BY <1>3 DEF Up
    <2>2. s = [k \in 1 .. n |-> s[k]]
        BY <2>1
    <2> QED BY <2>1, <2>2
<1> QED BY <1>1, <1>2, <1>3 DEF Up

\* The smaller of two numbers.
LEMMA HistoryMin ==
    ASSUME NEW a \in Int, NEW b \in Int
    PROVE  History!Min({a, b}) = IF a <= b THEN a ELSE b
<1>1. \A x \in {a, b} : (\A y \in {a, b} : x <= y) <=> x = IF a <= b THEN a ELSE b
    OBVIOUS
<1> QED BY <1>1 DEF History!Min

\* A slice of a sequence that begins within it: how long it is and what is in it.
LEMMA SliceIs ==
    ASSUME NEW s \in Seq(Nat), NEW from \in 0 .. Len(s), NEW size \in Nat,
           NEW n, n = IF Len(s) <= from + size THEN Len(s) - from ELSE size
    PROVE  /\ History!Slice(s, from, size) \in Seq(Nat)
           /\ Len(History!Slice(s, from, size)) = n
           /\ \A k \in 1 .. n : History!Slice(s, from, size)[k] = s[from + k]
<1> DEFINE stop == IF Len(s) <= from + size THEN Len(s) ELSE from + size
<1>1. Len(s) \in Nat /\ from \in Nat /\ n \in Nat /\ stop \in Nat /\ stop = from + n /\ stop <= Len(s)
    OBVIOUS
<1>2. History!Slice(s, from, size) = SubSeq(s, from + 1, stop)
    <2>1. Len(s) \in Int /\ from + size \in Int
        BY <1>1
    <2>2. History!Min({Len(s), from + size}) = IF Len(s) <= from + size THEN Len(s) ELSE from + size
        BY <2>1, HistoryMin
    <2> QED BY <2>2 DEF History!Slice
<1> HIDE DEF stop
<1>3. \A i \in (from + 1) .. stop : s[i] \in Nat
    BY <1>1
<1>4. PICK first \in Int : first = from + 1
    BY <1>1
<1>5. \A i \in first .. stop : s[i] \in Nat
    BY <1>3, <1>4
<1>6. /\ SubSeq(s, first, stop) \in Seq(Nat)
      /\ Len(SubSeq(s, first, stop)) = IF first <= stop THEN stop - first + 1 ELSE 0
      /\ \A i \in 1 .. stop - first + 1 : SubSeq(s, first, stop)[i] = s[first + i - 1]
    BY <1>1, <1>5, SubSeqProperties
<1>7. stop - first + 1 = n /\ (IF first <= stop THEN stop - first + 1 ELSE 0) = n
    BY <1>1, <1>4
<1>8. \A i \in 1 .. n : first + i - 1 = from + i
    BY <1>1, <1>4
<1>9. SubSeq(s, first, stop) = History!Slice(s, from, size)
    BY <1>2, <1>4
<1>10. Len(SubSeq(s, first, stop)) = n
    BY <1>6, <1>7
<1>11. \A i \in 1 .. n : SubSeq(s, first, stop)[i] = s[from + i]
    BY <1>6, <1>7, <1>8
<1> QED BY <1>6, <1>9, <1>10, <1>11

\* A part of a list that goes down goes down.
LEMMA SliceOfDown ==
    ASSUME NEW s, NEW top \in Nat, NEW n \in 0 .. top, Down(s, top, n),
           NEW from \in 0 .. n, NEW size \in Nat
    PROVE  Down(History!Slice(s, from, size), top - from, IF n <= from + size THEN n - from ELSE size)
<1> DEFINE m == IF n <= from + size THEN n - from ELSE size
<1>1. s \in Seq(Nat) /\ Len(s) = n /\ \A k \in 1 .. n : s[k] = top + 1 - k
    BY DEF Down
<1>2. m \in Nat /\ from + m <= n
    OBVIOUS
<1>3. /\ History!Slice(s, from, size) \in Seq(Nat) /\ Len(History!Slice(s, from, size)) = m
      /\ \A k \in 1 .. m : History!Slice(s, from, size)[k] = s[from + k]
    <2>1. s \in Seq(Nat) /\ from \in 0 .. Len(s) /\ m = IF Len(s) <= from + size THEN Len(s) - from ELSE size
        BY <1>1
    <2> HIDE DEF m
    <2> QED BY <2>1, SliceIs, Zenon
<1> HIDE DEF m
<1>4. \A k \in 1 .. m : s[from + k] = top - from + 1 - k
    BY <1>1, <1>2
<1> QED BY <1>3, <1>4 DEF Down, m

\* A part of a list that goes up goes up.
LEMMA SliceOfUp ==
    ASSUME NEW s, NEW n \in Nat, Up(s, 0, n), NEW from \in 0 .. n, NEW size \in Nat
    PROVE  Up(History!Slice(s, from, size), from, IF n <= from + size THEN n - from ELSE size)
<1> DEFINE m == IF n <= from + size THEN n - from ELSE size
<1>1. s \in Seq(Nat) /\ Len(s) = n /\ \A k \in 1 .. n : s[k] = k
    BY DEF Up
<1>2. m \in Nat /\ from + m <= n
    OBVIOUS
<1>3. /\ History!Slice(s, from, size) \in Seq(Nat) /\ Len(History!Slice(s, from, size)) = m
      /\ \A k \in 1 .. m : History!Slice(s, from, size)[k] = s[from + k]
    <2>1. s \in Seq(Nat) /\ from \in 0 .. Len(s) /\ m = IF Len(s) <= from + size THEN Len(s) - from ELSE size
        BY <1>1
    <2> HIDE DEF m
    <2> QED BY <2>1, SliceIs, Zenon
<1> HIDE DEF m
<1>4. \A k \in 1 .. m : s[from + k] = from + k
    BY <1>1, <1>2
<1> QED BY <1>3, <1>4 DEF Up, m

\* The next part goes on where the last one ended.
LEMMA DownGoesOn ==
    ASSUME NEW s, NEW t, NEW top \in Nat, NEW n \in Nat, NEW m \in Nat,
           Down(s, top, n), Down(t, top - n, m)
    PROVE  Down(s \o t, top, n + m)
<1>1. /\ s \in Seq(Nat) /\ Len(s) = n /\ \A k \in 1 .. n : s[k] = top + 1 - k
      /\ t \in Seq(Nat) /\ Len(t) = m /\ \A k \in 1 .. m : t[k] = top - n + 1 - k
    BY DEF Down
<1>2. /\ s \o t \in Seq(Nat) /\ Len(s \o t) = n + m
      /\ \A i \in 1 .. n + m : (s \o t)[i] = IF i <= n THEN s[i] ELSE t[i - n]
    BY <1>1, ConcatProperties
<1>3. \A i \in 1 .. n + m : (s \o t)[i] = top + 1 - i
    <2> TAKE i \in 1 .. n + m
    <2>1. i > n => i - n \in 1 .. m
        OBVIOUS
    <2> QED BY <1>1, <1>2, <2>1
<1> QED BY <1>2, <1>3 DEF Down

LEMMA UpGoesOn ==
    ASSUME NEW s, NEW t, NEW n \in Nat, NEW m \in Nat, Up(s, 0, n), Up(t, n, m)
    PROVE  Up(s \o t, 0, n + m)
<1>1. /\ s \in Seq(Nat) /\ Len(s) = n /\ \A k \in 1 .. n : s[k] = k
      /\ t \in Seq(Nat) /\ Len(t) = m /\ \A k \in 1 .. m : t[k] = n + k
    BY DEF Up
<1>2. /\ s \o t \in Seq(Nat) /\ Len(s \o t) = n + m
      /\ \A i \in 1 .. n + m : (s \o t)[i] = IF i <= n THEN s[i] ELSE t[i - n]
    BY <1>1, ConcatProperties
<1>3. \A i \in 1 .. n + m : (s \o t)[i] = i
    <2> TAKE i \in 1 .. n + m
    <2>1. i > n => i - n \in 1 .. m
        OBVIOUS
    <2> QED BY <1>1, <1>2, <2>1
<1> QED BY <1>2, <1>3 DEF Up

\* What goes down goes up when it is reversed.
LEMMA ReverseOfDown ==
    ASSUME NEW s, NEW top \in Nat, NEW n \in 0 .. top, Down(s, top, n)
    PROVE  Up(History!Reverse(s), top - n, n)
<1>1. s \in Seq(Nat) /\ Len(s) = n /\ \A k \in 1 .. n : s[k] = top + 1 - k
    BY DEF Down
<1>2. History!Reverse(s) = [i \in 1 .. n |-> s[(n - i) + 1]]
    BY <1>1 DEF History!Reverse
<1>3. \A i \in 1 .. n : (n - i) + 1 \in 1 .. n /\ s[(n - i) + 1] = top - n + i
    BY <1>1
<1> DEFINE r == [i \in 1 .. n |-> s[(n - i) + 1]]
<1>4. r \in Seq(Nat) /\ Len(r) = n /\ \A i \in 1 .. n : r[i] = top - n + i
    BY <1>1, <1>3
<1> QED BY <1>2, <1>4 DEF Up

-----------------------------------------------------------------------------
(* What a reader has been given *)

\* The shape of the history's state.
HistoryTypes ==
    /\ addressApi \in History!Apis /\ historyLength \in Nat
    /\ historyAt \in {"idle", "asking", "counted", "reading", "done", "failed"}
    /\ sort \in {"desc", "asc", "unknown"} /\ order \in {"desc", "asc"}
    /\ limit \in Nat \ {0} /\ offset \in Nat /\ counted \in Nat /\ started \in Nat

Begun == historyAt \notin {"idle", "failed"}

\* How many of the transactions the pages so far cover.
Covered ==
    CASE historyAt = "done"    -> historyLength
      [] historyAt = "reading" -> offset + limit
      [] OTHER                 -> offset

\* The next page begins within the history, the first one at its beginning.
PageIsWithin ==
    /\ historyAt = "idle" => listed = <<>> /\ grew = FALSE
    /\ Begun => Covered <= historyLength /\ started <= historyLength
    /\ historyAt \in {"asking", "counted"} => offset = 0 \/ offset < historyLength
    /\ historyAt = "reading" => offset + limit < historyLength
    /\ historyAt = "counted" => addressApi = "blockchain.com" /\ sort = "asc"
    /\ historyAt = "counted" /\ grew = FALSE => counted = historyLength
    /\ Begun /\ reader = "client" => sort = order

OldestFirst == order = "asc" /\ addressApi \in History!SortAsc
ClientReads == Begun /\ reader = "client" /\ History!WithinCaps

\* Newest first, nothing new: the list is the newest transactions.
NewestAreListed ==
    ClientReads /\ ~OldestFirst /\ grew = FALSE => Down(listed, historyLength, Covered)

\* Newest first: what was there at the beginning and is not behind the next
\* page was listed, although new transactions push the pages on.
NoneIsMissed ==
    ClientReads /\ ~OldestFirst =>
        /\ listed \in Seq(Nat)
        /\ \A x \in 1 .. started : x > historyLength - Covered => \E k \in DOMAIN listed : listed[k] = x

\* Oldest first over Electrum: the list is the oldest transactions.
OldestAreListed ==
    ClientReads /\ OldestFirst /\ addressApi = "electrum" => Up(listed, 0, Covered)

\* Oldest first over blockchain.com, if the pages are whole and nothing is new.
WholePagesAreListed ==
    ClientReads /\ OldestFirst /\ addressApi = "blockchain.com" /\ grew = FALSE
        /\ historyLength % limit = 0 =>
            /\ Up(listed, 0, Covered)
            /\ \E pages \in Nat : offset = pages * limit

\* What was listed so far is what the pages cover, in the order that was asked for.
HistoryInv ==
    /\ HistoryTypes /\ PageIsWithin /\ NewestAreListed /\ NoneIsMissed /\ OldestAreListed
    /\ WholePagesAreListed

\* The page that begins behind n entries and has up to "size" of them.
PageSize(n) == IF historyLength <= n + limit THEN historyLength - n ELSE limit

\* What the services that list newest first make of the client's wishes.
LEMMA NewestPage ==
    ASSUME HistoryInv, ClientReads, ~OldestFirst, offset <= historyLength,
           addressApi # "none", NEW ids \in History!Pages
    PROVE  Down(ids, historyLength - offset, PageSize(offset))
<1>1. /\ historyLength \in Nat /\ offset \in Nat /\ limit \in Nat /\ offset \in 0 .. historyLength
      /\ sort = order /\ History!WithinCaps /\ addressApi \in History!Apis \ {"none"}
    BY DEF HistoryInv, HistoryTypes, PageIsWithin, ClientReads
<1>2. Down(History!Newest(historyLength), historyLength, historyLength)
    BY <1>1, NewestIsDown
<1>3. Down(History!Slice(History!Newest(historyLength), offset, limit), historyLength - offset, PageSize(offset))
    BY <1>1, <1>2, SliceOfDown DEF PageSize
<1>4. CASE addressApi = "electrum"
    <2>1. sort # "asc"
        BY <1>1, <1>4 DEF OldestFirst, History!SortAsc
    <2>2. sort = "desc"
        BY <1>1, <2>1 DEF HistoryInv, HistoryTypes
    <2>3. ids = History!Slice(History!Newest(historyLength), offset, limit)
        BY <1>4, <2>2 DEF History!Pages, History!ElectrumPage
    <2> QED BY <1>3, <2>3
<1>5. CASE addressApi = "blockchain.com"
    <2>1. sort # "asc"
        BY <1>1, <1>5 DEF OldestFirst, History!SortAsc
    <2>2. ids = History!Slice(History!Newest(historyLength), offset, limit)
        BY <1>5, <2>1 DEF History!Pages, History!BlockchainPages
    <2> QED BY <1>3, <2>2
<1>6. CASE addressApi = "blockcypher.com"
    <2> DEFINE asked == IF historyLength <= limit + offset THEN historyLength ELSE limit + offset
    <2>1. historyLength <= BlockcypherCap /\ BlockcypherCap \in Nat
        BY <1>1, <1>6, HistoryAssumption DEF HistoryAssumption, History!WithinCaps
    <2>2. History!Min({historyLength, BlockcypherCap, limit + offset}) = asked
        <3>1. \A x \in {historyLength, BlockcypherCap, limit + offset} :
                (\A y \in {historyLength, BlockcypherCap, limit + offset} : x <= y) <=> x = asked
            BY <1>1, <2>1
        <3> HIDE DEF asked
        <3>2. asked \in {historyLength, BlockcypherCap, limit + offset}
            BY DEF asked
        <3> QED BY <3>1, <3>2 DEF History!Min
    <2>3. ids = History!Slice(SubSeq(History!Newest(historyLength), 1, asked), offset, limit)
        BY <1>6, <2>2 DEF History!Pages, History!BlockcypherPage
    <2>4. asked \in 0 .. historyLength /\ offset <= asked
        BY <1>1
    <2> HIDE DEF asked
    <2>5. Down(SubSeq(History!Newest(historyLength), 1, asked), historyLength, asked)
        <3> DEFINE s == History!Newest(historyLength)
        <3>1. s \in Seq(Nat) /\ Len(s) = historyLength /\ \A k \in 1 .. historyLength : s[k] = historyLength + 1 - k
            BY <1>2 DEF Down
        <3> HIDE DEF s
        <3>2. \A i \in 1 .. asked : s[i] \in Nat
            BY <1>1, <2>4, <3>1
        <3>3. /\ SubSeq(s, 1, asked) \in Seq(Nat)
              /\ Len(SubSeq(s, 1, asked)) = IF 1 <= asked THEN asked - 1 + 1 ELSE 0
              /\ \A i \in 1 .. asked - 1 + 1 : SubSeq(s, 1, asked)[i] = s[1 + i - 1]
            <4>1. PICK one \in Int : one = 1
                OBVIOUS
            <4>2. asked \in Int /\ \A i \in one .. asked : s[i] \in Nat
                BY <2>4, <3>2, <4>1
            <4>3. /\ SubSeq(s, one, asked) \in Seq(Nat)
                  /\ Len(SubSeq(s, one, asked)) = IF one <= asked THEN asked - one + 1 ELSE 0
                  /\ \A i \in 1 .. asked - one + 1 : SubSeq(s, one, asked)[i] = s[one + i - 1]
                BY <4>2, SubSeqProperties
            <4> QED BY <4>1, <4>3
        <3>4. asked - 1 + 1 = asked /\ (IF 1 <= asked THEN asked - 1 + 1 ELSE 0) = asked
            BY <2>4
        <3>5. \A i \in 1 .. asked : SubSeq(s, 1, asked)[i] = historyLength + 1 - i
            BY <1>1, <2>4, <3>1, <3>3, <3>4
        <3> QED BY <3>3, <3>4, <3>5 DEF Down, s
    <2>6. Down(ids, historyLength - offset, IF asked <= offset + limit THEN asked - offset ELSE limit)
        BY <1>1, <2>3, <2>4, <2>5, SliceOfDown
    <2>7. (IF asked <= offset + limit THEN asked - offset ELSE limit) = PageSize(offset)
        BY <1>1 DEF PageSize, asked
    <2> QED BY <2>6, <2>7
<1>7. CASE addressApi = "blockchair.com"
    <2> DEFINE sent == IF historyLength <= offset + BlockchairCap THEN historyLength - offset ELSE BlockchairCap
               answer == History!Slice(History!Newest(historyLength), offset, BlockchairCap)
    <2>1. limit <= BlockchairCap /\ BlockchairCap \in Nat
        BY <1>1, <1>7, HistoryAssumption DEF HistoryAssumption, History!WithinCaps
    <2>2. Down(answer, historyLength - offset, sent)
        BY <1>1, <1>2, <2>1, SliceOfDown
    <2>3. ids = History!Slice(answer, 0, limit)
        BY <1>7 DEF History!Pages, History!BlockchairPage
    <2>4. historyLength - offset \in Nat /\ sent \in 0 .. (historyLength - offset) /\ 0 \in 0 .. sent
        BY <1>1, <2>1
    <2> HIDE DEF sent, answer
    <2>5. Down(ids, (historyLength - offset) - 0, IF sent <= 0 + limit THEN sent - 0 ELSE limit)
        BY <1>1, <2>2, <2>3, <2>4, SliceOfDown
    <2>6. (IF sent <= 0 + limit THEN sent - 0 ELSE limit) = PageSize(offset)
        BY <1>1, <2>1 DEF PageSize, sent
    <2> QED BY <1>1, <2>5, <2>6
<1> QED BY <1>1, <1>4, <1>5, <1>6, <1>7 DEF History!Apis

\* Oldest first over Electrum.
LEMMA OldestPage ==
    ASSUME HistoryInv, ClientReads, OldestFirst, offset <= historyLength,
           addressApi = "electrum", NEW ids \in History!Pages
    PROVE  Up(ids, offset, PageSize(offset))
<1>1. /\ historyLength \in Nat /\ offset \in Nat /\ limit \in Nat /\ offset \in 0 .. historyLength
      /\ sort = "asc"
    BY DEF HistoryInv, HistoryTypes, PageIsWithin, ClientReads, OldestFirst
<1>2. Up(History!Oldest(historyLength), 0, historyLength)
    BY <1>1, OldestIsUp
<1>3. ids = History!Slice(History!Oldest(historyLength), offset, limit)
    BY <1>1 DEF History!Pages, History!ElectrumPage
<1> QED BY <1>1, <1>2, <1>3, SliceOfUp DEF PageSize

\* Oldest first over blockchain.com: a whole page of those it lists newest first,
\* taken from the other end and reversed.
LEMMA WholePage ==
    ASSUME HistoryInv, ClientReads, OldestFirst, addressApi = "blockchain.com",
           counted = historyLength, offset + limit <= historyLength \/ (historyLength = 0 /\ offset = 0),
           NEW ids \in History!Pages
    PROVE  Up(ids, offset, PageSize(offset))
<1>1. /\ historyLength \in Nat /\ offset \in Nat /\ limit \in Nat \ {0} /\ sort = "asc"
    BY DEF HistoryInv, HistoryTypes, PageIsWithin, ClientReads, OldestFirst
<1>2. PICK from : /\ from \in IF History!Ascending.offset < 0 THEN 0 .. historyLength ELSE {History!Ascending.offset}
                  /\ ids = History!Reverse(History!Slice(History!Newest(historyLength), from, History!Ascending.limit))
    BY <1>1 DEF History!Pages, History!BlockchainPages
<1>3. Down(History!Newest(historyLength), historyLength, historyLength)
    BY <1>1, NewestIsDown
<1> DEFINE behind == historyLength - limit - offset
<1>4. CASE offset + limit <= historyLength
    <2>1. behind \in Nat /\ ~(behind < 0)
        BY <1>1, <1>4
    <2>2. History!Ascending = [limit |-> limit, offset |-> behind]
        BY <2>1 DEF History!Ascending
    <2>3. from = behind /\ ids = History!Reverse(History!Slice(History!Newest(historyLength), behind, limit))
        BY <1>2, <2>1, <2>2
    <2>4. /\ behind \in 0 .. historyLength /\ historyLength - behind = offset + limit
          /\ (IF historyLength <= behind + limit THEN historyLength - behind ELSE limit) = limit
          /\ PageSize(offset) = limit
        BY <1>1, <1>4 DEF PageSize
    <2> HIDE DEF behind
    <2>5. Down(History!Slice(History!Newest(historyLength), behind, limit), historyLength - behind,
               IF historyLength <= behind + limit THEN historyLength - behind ELSE limit)
        BY <1>1, <1>3, <2>4, SliceOfDown
    <2>6. /\ offset + limit \in Nat /\ limit \in 0 .. offset + limit
          /\ Down(History!Slice(History!Newest(historyLength), behind, limit), offset + limit, limit)
        BY <1>1, <2>4, <2>5
    <2>7. Up(ids, (offset + limit) - limit, limit)
        BY <2>3, <2>6, ReverseOfDown
    <2>8. (offset + limit) - limit = offset
        BY <1>1
    <2> QED BY <2>4, <2>7, <2>8
<1>5. CASE historyLength = 0 /\ offset = 0
    <2>1. behind < 0 /\ limit + behind = 0 /\ behind + (limit + behind) < 0
        BY <1>1, <1>5
    <2>2. History!Ascending.limit = 0 /\ History!Ascending.offset < 0
        BY <1>1, <2>1 DEF History!Ascending
    <2>3. from = 0 /\ ids = History!Reverse(History!Slice(History!Newest(historyLength), 0, 0))
        BY <1>2, <1>5, <2>2
    <2>4. Down(History!Slice(History!Newest(historyLength), 0, 0), historyLength - 0,
               IF historyLength <= 0 + 0 THEN historyLength - 0 ELSE 0)
        BY <1>1, <1>3, SliceOfDown
    <2>5. Down(History!Slice(History!Newest(historyLength), 0, 0), 0, 0)
        BY <1>5, <2>4
    <2>6. Up(ids, 0 - 0, 0)
        BY <2>3, <2>5, ReverseOfDown
    <2>7. PageSize(offset) = 0
        BY <1>1, <1>5 DEF PageSize
    <2> QED BY <1>5, <2>6, <2>7
<1> QED BY <1>4, <1>5

\* Between two multiples of a number lies that number.
LEMMA WholePages ==
    ASSUME NEW n \in Nat, NEW size \in Nat \ {0}, n % size = 0,
           NEW q \in Nat, q * size < n
    PROVE  q * size + size <= n
<1>1. PICK p \in Nat : p = n \div size /\ n = p * size
    OBVIOUS
<1>2. q < p
    <2>1. ASSUME p <= q PROVE FALSE
        <3>1. p * size <= q * size
            BY <1>1, <2>1
        <3> QED BY <1>1, <3>1
    <2> QED BY <1>1, <2>1
<1>3. (q + 1) * size <= p * size /\ (q + 1) * size = q * size + size
    BY <1>1, <1>2
<1> QED BY <1>1, <1>3

\* No history has been opened.
LEMMA HistoryInvInit == Init => HistoryInv
<1> SUFFICES ASSUME Init PROVE HistoryInv
    OBVIOUS
<1>1. /\ addressApi \in History!Apis /\ historyLength \in 0 .. HistoryMaxTxs /\ reader = "client"
      /\ historyAt = "idle" /\ sort = "desc" /\ limit = addressTxPageSize /\ offset = 0
      /\ counted = 0 /\ listed = <<>> /\ order = "desc" /\ started = 0 /\ grew = FALSE
    BY DEF Init, History!Init
<1>2. HistoryTypes
    BY <1>1, HistoryAssumption DEF HistoryAssumption, HistoryTypes
<1> QED BY <1>1, <1>2 DEF HistoryInv, PageIsWithin, NewestAreListed, NoneIsMissed, OldestAreListed,
           WholePagesAreListed, ClientReads, Begun

\* A transaction more: what is behind the next page is no more than before.
LEMMA ReceiveKeeps ==
    ASSUME HistoryInv, History!Receive
    PROVE  HistoryInv'
<1>1. /\ historyAt \notin {"done", "failed"} /\ historyLength' = historyLength + 1
      /\ historyAt # "idle" => grew' = TRUE
      /\ historyAt = "idle" => grew' = FALSE
      /\ UNCHANGED <<addressApi, reader, historyAt, sort, limit, offset, counted, listed, order, started>>
    BY DEF History!Receive, History!reading
<1>2. HistoryTypes /\ PageIsWithin
    BY DEF HistoryInv
<1>3. HistoryTypes'
    BY <1>1, <1>2 DEF HistoryTypes, History!Apis
<1>4. PageIsWithin'
    BY <1>1, <1>2 DEF PageIsWithin, HistoryTypes, Begun, Covered
<1>5. NewestAreListed' /\ WholePagesAreListed'
    BY <1>1 DEF NewestAreListed, WholePagesAreListed, ClientReads, Begun
<1>6. historyLength \in Nat /\ Covered' = Covered /\ Covered \in Int
    BY <1>1, <1>2 DEF Covered, HistoryTypes
<1>7. ClientReads' => ClientReads
    BY <1>1, <1>6, HistoryAssumption DEF HistoryAssumption, ClientReads, Begun, History!WithinCaps
<1>8. OldestFirst' <=> OldestFirst
    BY <1>1 DEF OldestFirst, History!SortAsc
<1>9. OldestAreListed'
    BY <1>1, <1>6, <1>7, <1>8 DEF HistoryInv, OldestAreListed, Up
<1>10. NoneIsMissed'
    <2> SUFFICES ASSUME ClientReads', ~OldestFirst'
                 PROVE  /\ listed \in Seq(Nat)
                        /\ \A x \in 1 .. started : x > historyLength + 1 - Covered =>
                             \E k \in DOMAIN listed : listed[k] = x
        BY <1>1, <1>6 DEF NoneIsMissed
    <2>1. /\ listed \in Seq(Nat)
          /\ \A x \in 1 .. started : x > historyLength - Covered => \E k \in DOMAIN listed : listed[k] = x
        BY <1>7, <1>8 DEF HistoryInv, NoneIsMissed
    <2>2. started \in Nat
        BY <1>2 DEF HistoryTypes
    <2> QED BY <1>6, <2>1, <2>2
<1> QED BY <1>3, <1>4, <1>5, <1>9, <1>10 DEF HistoryInv

\* The first page is asked for.
LEMMA OpenKeeps ==
    ASSUME HistoryInv, NEW who, NEW direction \in {"desc", "asc"}, NEW size \in Nat \ {0},
           History!Open(who, direction, size)
    PROVE  HistoryInv'
<1>1. /\ historyAt = "idle" /\ historyAt' = "asking" /\ reader' = who /\ sort' = direction
      /\ limit' = size /\ offset' = 0 /\ order' = direction /\ started' = historyLength
      /\ UNCHANGED <<addressApi, historyLength, counted, listed, grew>>
    BY DEF History!Open
<1>2. HistoryTypes /\ listed = <<>>
    BY <1>1 DEF HistoryInv, PageIsWithin
<1>3. HistoryTypes'
    BY <1>1, <1>2 DEF HistoryTypes, History!Apis
<1>4. Covered' = 0 /\ historyLength \in Nat
    BY <1>1, <1>2 DEF Covered, HistoryTypes
<1>5. PageIsWithin'
    BY <1>1, <1>4 DEF PageIsWithin, Begun
<1>6. <<>> \in Seq(Nat) /\ Len(<<>>) = 0 /\ DOMAIN <<>> = {}
    OBVIOUS
<1>7. Up(listed, 0, 0)' /\ Down(listed, historyLength, 0)'
    BY <1>1, <1>2, <1>6 DEF Up, Down
<1>8. NewestAreListed' /\ OldestAreListed'
    BY <1>4, <1>7 DEF NewestAreListed, OldestAreListed
<1>9. NoneIsMissed'
    BY <1>1, <1>2, <1>4, <1>6 DEF NoneIsMissed
<1>10. WholePagesAreListed'
    <2>1. 0 \in Nat /\ offset' = 0 * limit'
        BY <1>1
    <2> QED BY <1>4, <1>7, <2>1 DEF WholePagesAreListed
<1> QED BY <1>3, <1>5, <1>8, <1>9, <1>10 DEF HistoryInv

\* The next page is asked for.
LEMMA TurnPageKeeps ==
    ASSUME HistoryInv, History!TurnPage
    PROVE  HistoryInv'
<1>1. /\ historyAt = "reading" /\ historyAt' = "asking" /\ offset' = offset + limit
      /\ reader = "client" => sort' = sort /\ limit' = limit
      /\ sort' \in {sort, "unknown"} /\ limit' \in {limit, addressTxPageSize}
      /\ UNCHANGED <<addressApi, historyLength, reader, order, started, counted, listed, grew>>
    BY DEF History!TurnPage, History!reading
<1>2. HistoryTypes /\ PageIsWithin
    BY DEF HistoryInv
<1>3. HistoryTypes'
    BY <1>1, <1>2, HistoryAssumption DEF HistoryAssumption, HistoryTypes, History!Apis
<1>4. Covered' = Covered /\ historyLength \in Nat /\ offset' < historyLength
    BY <1>1, <1>2 DEF Covered, HistoryTypes, PageIsWithin
<1>5. PageIsWithin'
    BY <1>1, <1>2, <1>4 DEF PageIsWithin, Begun
<1>6. (ClientReads' => ClientReads /\ limit' = limit) /\ (OldestFirst' <=> OldestFirst)
    BY <1>1 DEF ClientReads, Begun, History!WithinCaps, OldestFirst, History!SortAsc
<1>7. NewestAreListed' /\ NoneIsMissed' /\ OldestAreListed'
    BY <1>1, <1>4, <1>6 DEF HistoryInv, NewestAreListed, NoneIsMissed, OldestAreListed, Down, Up
<1>8. WholePagesAreListed'
    <2> SUFFICES ASSUME ClientReads', OldestFirst', (addressApi = "blockchain.com")', (grew = FALSE)',
                        (historyLength % limit = 0)'
                 PROVE  Up(listed, 0, Covered)' /\ \E pages \in Nat : offset + limit = pages * limit
        BY <1>1, <1>6 DEF WholePagesAreListed
    <2>1. Up(listed, 0, Covered) /\ \E pages \in Nat : offset = pages * limit
        BY <1>1, <1>6 DEF HistoryInv, WholePagesAreListed
    <2>2. PICK pages \in Nat : offset = pages * limit
        BY <2>1
    <2>3. offset + limit = (pages + 1) * limit /\ pages + 1 \in Nat
        BY <1>2, <2>2 DEF HistoryTypes
    <2> QED BY <1>1, <1>4, <2>1, <2>3 DEF Up
<1> QED BY <1>3, <1>5, <1>7, <1>8 DEF HistoryInv

\* The number of transactions arrives.
LEMMA CountKeeps ==
    ASSUME HistoryInv, History!CountArrives
    PROVE  HistoryInv'
<1>1. /\ historyAt = "asking" /\ historyAt' = "counted" /\ counted' = historyLength
      /\ addressApi = "blockchain.com" /\ sort = "asc"
      /\ UNCHANGED <<addressApi, historyLength, reader, order, started, sort, limit, offset, listed, grew>>
    BY DEF History!CountArrives, History!CountsFirst, History!reading
<1>2. HistoryTypes /\ PageIsWithin
    BY DEF HistoryInv
<1>3. HistoryTypes'
    BY <1>1, <1>2 DEF HistoryTypes, History!Apis
<1>4. Covered' = Covered
    BY <1>1 DEF Covered
<1>5. PageIsWithin'
    BY <1>1, <1>2, <1>4 DEF PageIsWithin, Begun
<1>6. (ClientReads' <=> ClientReads) /\ (OldestFirst' <=> OldestFirst)
    BY <1>1 DEF ClientReads, Begun, History!WithinCaps, OldestFirst, History!SortAsc
<1>7. NewestAreListed' /\ NoneIsMissed' /\ OldestAreListed' /\ WholePagesAreListed'
    BY <1>1, <1>4, <1>6
       DEF HistoryInv, NewestAreListed, NoneIsMissed, OldestAreListed, WholePagesAreListed, Down, Up
<1> QED BY <1>3, <1>5, <1>7 DEF HistoryInv

\* A page arrives: it goes on where the list ends.
LEMMA PageArrivesKeeps ==
    ASSUME HistoryInv, History!PageArrives
    PROVE  HistoryInv'
<1>1. PICK ids \in History!Pages : listed' = listed \o ids
    BY DEF History!PageArrives
<1>2. /\ historyAt = (IF History!CountsFirst THEN "counted" ELSE "asking") /\ addressApi # "none"
      /\ historyAt' = IF offset + limit < historyLength THEN "reading" ELSE "done"
      /\ UNCHANGED <<addressApi, historyLength, reader, order, started, sort, limit, offset, counted, grew>>
    BY DEF History!PageArrives, History!reading
<1>3. HistoryTypes /\ PageIsWithin /\ historyAt \in {"asking", "counted"} /\ Begun
    BY <1>2 DEF HistoryInv, Begun
<1>4. /\ historyLength \in Nat /\ offset \in Nat /\ limit \in Nat \ {0} /\ started \in Nat
      /\ offset <= historyLength /\ Covered = offset /\ started <= historyLength
      /\ offset = 0 \/ offset < historyLength
    BY <1>3 DEF HistoryTypes, PageIsWithin, Covered
<1>5. /\ PageSize(offset) \in Nat /\ Covered' = offset + PageSize(offset)
      /\ Covered' <= historyLength
    BY <1>2, <1>4 DEF PageSize, Covered
<1>6. HistoryTypes'
    BY <1>2, <1>3 DEF HistoryTypes, History!Apis
<1>7. PageIsWithin'
    BY <1>2, <1>3, <1>4, <1>5 DEF PageIsWithin, Begun
<1>8. (ClientReads' <=> ClientReads) /\ (OldestFirst' <=> OldestFirst)
    BY <1>2, <1>3 DEF ClientReads, Begun, History!WithinCaps, OldestFirst, History!SortAsc
<1>9. NewestAreListed'
    <2> SUFFICES ASSUME ClientReads, ~OldestFirst, grew = FALSE
                 PROVE  Down(listed \o ids, historyLength, offset + PageSize(offset))
        BY <1>1, <1>2, <1>5, <1>8 DEF NewestAreListed, Down
    <2>1. Down(listed, historyLength, offset)
        BY <1>4 DEF HistoryInv, NewestAreListed
    <2>2. Down(ids, historyLength - offset, PageSize(offset))
        BY <1>2, <1>4, NewestPage
    <2> QED BY <1>4, <1>5, <2>1, <2>2, DownGoesOn
<1>10. NoneIsMissed'
    <2> SUFFICES ASSUME ClientReads, ~OldestFirst
                 PROVE  /\ listed \o ids \in Seq(Nat)
                        /\ \A x \in 1 .. started : x > historyLength - (offset + PageSize(offset)) =>
                             \E k \in DOMAIN (listed \o ids) : (listed \o ids)[k] = x
        BY <1>1, <1>2, <1>5, <1>8 DEF NoneIsMissed
    <2>1. /\ listed \in Seq(Nat)
          /\ \A x \in 1 .. started : x > historyLength - offset => \E k \in DOMAIN listed : listed[k] = x
        BY <1>4 DEF HistoryInv, NoneIsMissed
    <2>2. Down(ids, historyLength - offset, PageSize(offset))
        BY <1>2, <1>4, NewestPage
    <2>3. /\ ids \in Seq(Nat) /\ Len(ids) = PageSize(offset)
          /\ \A k \in 1 .. PageSize(offset) : ids[k] = historyLength - offset + 1 - k
        BY <2>2 DEF Down
    <2>4. /\ listed \o ids \in Seq(Nat) /\ Len(listed \o ids) = Len(listed) + Len(ids)
          /\ \A i \in 1 .. Len(listed) + Len(ids) :
               (listed \o ids)[i] = IF i <= Len(listed) THEN listed[i] ELSE ids[i - Len(listed)]
        BY <2>1, <2>3, ConcatProperties
    <2>5. /\ DOMAIN (listed \o ids) = 1 .. Len(listed) + Len(ids) /\ DOMAIN listed = 1 .. Len(listed)
          /\ Len(listed) \in Nat /\ Len(ids) \in Nat
        BY <2>1, <2>3, <2>4
    <2>6. ASSUME NEW x \in 1 .. started, x > historyLength - (offset + PageSize(offset))
          PROVE  \E k \in DOMAIN (listed \o ids) : (listed \o ids)[k] = x
        <3>1. CASE x > historyLength - offset
            <4>1. PICK k \in DOMAIN listed : listed[k] = x
                BY <2>1, <3>1
            <4>2. k \in DOMAIN (listed \o ids) /\ (listed \o ids)[k] = x
                BY <2>4, <2>5, <4>1
            <4> QED BY <4>2
        <3>2. CASE ~(x > historyLength - offset)
            <4>1. PICK k \in 1 .. PageSize(offset) : k = historyLength - offset + 1 - x
                BY <1>4, <1>5, <2>6, <3>2
            <4>2. ids[k] = x
                BY <1>4, <2>3, <4>1
            <4>3. Len(listed) + k \in DOMAIN (listed \o ids) /\ (listed \o ids)[Len(listed) + k] = x
                BY <1>5, <2>3, <2>4, <2>5, <4>2
            <4> QED BY <4>3
        <3> QED BY <3>1, <3>2
    <2> QED BY <2>4, <2>6
<1>11. OldestAreListed'
    <2> SUFFICES ASSUME ClientReads, OldestFirst, addressApi = "electrum"
                 PROVE  Up(listed \o ids, 0, offset + PageSize(offset))
        BY <1>1, <1>2, <1>5, <1>8 DEF OldestAreListed, Up
    <2>1. Up(listed, 0, offset)
        BY <1>4 DEF HistoryInv, OldestAreListed
    <2>2. Up(ids, offset, PageSize(offset))
        BY <1>2, <1>4, OldestPage
    <2> QED BY <1>4, <1>5, <2>1, <2>2, UpGoesOn
<1>12. WholePagesAreListed'
    <2> SUFFICES ASSUME ClientReads, OldestFirst, addressApi = "blockchain.com", grew = FALSE,
                        historyLength % limit = 0
                 PROVE  /\ Up(listed \o ids, 0, offset + PageSize(offset))
                        /\ \E pages \in Nat : offset = pages * limit
        BY <1>1, <1>2, <1>5, <1>8 DEF WholePagesAreListed, Up
    <2>1. Up(listed, 0, offset) /\ \E pages \in Nat : offset = pages * limit
        BY <1>4 DEF HistoryInv, WholePagesAreListed
    <2>2. PICK pages \in Nat : offset = pages * limit
        BY <2>1
    <2>3. counted = historyLength
        <3>1. sort = "asc"
            BY <1>3 DEF PageIsWithin, ClientReads, OldestFirst
        <3> QED BY <1>2, <1>3, <3>1 DEF PageIsWithin, History!CountsFirst
    <2>4. offset + limit <= historyLength \/ (historyLength = 0 /\ offset = 0)
        <3>1. CASE historyLength = 0
            BY <1>4, <3>1
        <3>2. CASE historyLength # 0
            <4>1. pages * limit < historyLength
                BY <1>4, <2>2, <3>2
            <4>2. pages * limit + limit <= historyLength
                BY <1>4, <4>1, WholePages
            <4> QED BY <2>2, <4>2
        <3> QED BY <3>1, <3>2
    <2>5. Up(ids, offset, PageSize(offset))
        BY <2>3, <2>4, WholePage
    <2> QED BY <1>4, <1>5, <2>1, <2>5, UpGoesOn
<1> QED BY <1>6, <1>7, <1>9, <1>10, <1>11, <1>12 DEF HistoryInv

\* A transaction is received, a history opened, a page turned or answered.
LEMMA HistoryInvStep == HistoryInv /\ [Next]_vars => HistoryInv'
<1> SUFFICES ASSUME HistoryInv, [History!Next]_historyVars PROVE HistoryInv'
    BY HistoryRuns
<1>1. CASE History!OpenPage
    BY <1>1, OpenKeeps, HistoryAssumption DEF HistoryAssumption, History!OpenPage
<1>2. CASE History!AskAsClient
    BY <1>2, OpenKeeps, HistoryAssumption DEF HistoryAssumption, History!AskAsClient
<1>3. CASE History!NoHistory
    <2>1. /\ historyAt' = "failed"
          /\ UNCHANGED <<addressApi, historyLength, reader, order, started, sort, limit, offset,
                         counted, listed, grew>>
        BY <1>3 DEF History!NoHistory, History!reading
    <2>2. HistoryTypes'
        BY <2>1 DEF HistoryInv, HistoryTypes, History!Apis
    <2> QED BY <2>1, <2>2 DEF HistoryInv, PageIsWithin, NewestAreListed, NoneIsMissed, OldestAreListed,
               WholePagesAreListed, ClientReads, Begun
<1>4. CASE UNCHANGED historyVars
    BY <1>4 DEF historyVars, HistoryInv, HistoryTypes, History!Apis, PageIsWithin, NewestAreListed, NoneIsMissed,
           OldestAreListed, WholePagesAreListed, ClientReads, Begun, Covered, OldestFirst, History!SortAsc,
           History!WithinCaps, Down, Up
<1> QED BY <1>1, <1>2, <1>3, <1>4, ReceiveKeeps, TurnPageKeeps, CountKeeps, PageArrivesKeeps
        DEF History!Next, History!vars, historyVars

LEMMA HistoryInvAlways == Spec => []HistoryInv
BY HistoryInvInit, HistoryInvStep, PTL DEF Spec

\* A client of /api/address that steps the offset to the end of a history is
\* given all of it, once and in order, whichever service is configured; while
\* transactions come in it misses none that was there (the translation of sort,
\* limit and offset in app/api/*AddressApi.js).
THEOREM HistoryFound == Spec => []HistoryIsListed
<1>1. HistoryInv => HistoryIsListed
    <2> SUFFICES ASSUME HistoryInv PROVE HistoryIsListed
        OBVIOUS
    <2> DEFINE ascending == order = "asc" /\ addressApi \in History!SortAsc
               exact == listed = IF ascending THEN History!Oldest(historyLength) ELSE History!Newest(historyLength)
    <2> SUFFICES ASSUME historyAt = "done", reader = "client", History!WithinCaps
                 PROVE  IF ascending /\ addressApi = "blockchain.com"
                        THEN ~grew /\ historyLength % limit = 0 => exact
                        ELSE /\ ~grew \/ ascending => exact
                             /\ 1 .. started \subseteq History!ToSet(listed)
        BY DEF HistoryIsListed, History!HistoryIsListed
    <2>1. ClientReads /\ Covered = historyLength /\ historyLength \in Nat
          /\ started \in Nat /\ started <= historyLength
        BY DEF ClientReads, Begun, Covered, HistoryInv, HistoryTypes, PageIsWithin
    <2>2. ascending <=> OldestFirst
        BY DEF OldestFirst
    <2>3. Up(listed, 0, historyLength) => listed = History!Oldest(historyLength)
        BY <2>1, OldestIsUp
    <2>4. Down(listed, historyLength, historyLength) => listed = History!Newest(historyLength)
        BY <2>1, NewestIsDown
    <2>5. CASE OldestFirst /\ addressApi = "blockchain.com"
        <3>1. grew = FALSE /\ historyLength % limit = 0 => Up(listed, 0, historyLength)
            BY <2>1, <2>5 DEF HistoryInv, WholePagesAreListed
        <3> QED BY <2>2, <2>3, <2>5, <3>1
    <2>6. CASE OldestFirst /\ addressApi # "blockchain.com"
        <3>1. addressApi = "electrum"
            BY <2>6 DEF OldestFirst, History!SortAsc
        <3>2. Up(listed, 0, historyLength)
            BY <2>1, <2>6, <3>1 DEF HistoryInv, OldestAreListed
        <3>3. 1 .. started \subseteq History!ToSet(listed)
            BY <2>1, <3>2 DEF Up, History!ToSet
        <3> QED BY <2>2, <2>3, <2>6, <3>2, <3>3
    <2>7. CASE ~OldestFirst
        <3>1. grew = FALSE => Down(listed, historyLength, historyLength)
            BY <2>1, <2>7 DEF HistoryInv, NewestAreListed
        <3>2. \A x \in 1 .. started : \E k \in DOMAIN listed : listed[k] = x
            BY <2>1, <2>7 DEF HistoryInv, NoneIsMissed
        <3>3. 1 .. started \subseteq History!ToSet(listed)
            BY <3>2 DEF History!ToSet
        <3> QED BY <2>2, <2>4, <2>7, <3>1, <3>3
    <2> QED BY <2>5, <2>6, <2>7
<1> QED BY <1>1, HistoryInvAlways, PTL

-----------------------------------------------------------------------------
(* The points of the charts of the process *)

LEMMA StatisticsRun == [Next]_vars => [Stats!Next]_statisticsVars
BY DEF Next, vars, SessionStep, StartupStep, TablesStep, ElectrumStep, SsoStep, HistoryStep, XpubStep, LookupStep,
       PredictionStep, StatisticsStep, PageStep, ChainStep

\* A sequence, whatever it is of.
IsSeries(s) == Len(s) \in Nat /\ s = [i \in 1 .. Len(s) |-> s[i]]

\* The hand-over that the recent points s begin with, when those in f were made.
EdgeOf(f, s) == Len(f) - Len(s) + 1

\* A downsample stands for so many hand-overs, and one more is lost behind it.
Stride == dataPointsPerDownsample + 1

\* The hand-over that downsample k of d begins with.
StartOf(f, s, d, k) == EdgeOf(f, s) - (Len(d) + 1 - k) * Stride

\* The hand-overs of a downsample that begins with the first of them.
PeriodsFrom(first) == first .. first + dataPointsPerDownsample - 1

\* The largest of the hand-overs of a downsample.
PeakFrom(f, first) == Stats!Max({f[p] : p \in PeriodsFrom(first)})

\* There is a recent point as soon as there was a hand-over.
SeriesShape(f, s, d) ==
    /\ f \in Seq(Nat) /\ IsSeries(s) /\ IsSeries(d)
    /\ Len(s) <= Len(f)
    /\ Len(s) = 0 => Len(f) = 0 /\ Len(d) = 0

\* A recent point is one hand-over, and they follow one another up to the last.
RecentPoints(f, s) ==
    \A i \in 1 .. Len(s) :
        s[i].periods = {EdgeOf(f, s) + i - 1} /\ s[i].value = f[EdgeOf(f, s) + i - 1]

\* A downsample is the largest of the hand-overs from its first one on.
OlderPoints(f, s, d) ==
    \A k \in 1 .. Len(d) :
        /\ StartOf(f, s, d, k) >= 1
        /\ d[k].periods = PeriodsFrom(StartOf(f, s, d, k))
        /\ d[k].value = PeakFrom(f, StartOf(f, s, d, k))

\* The hand-overs f are kept as the recent points s and the downsamples d.
SeriesOf(f, s, d) == SeriesShape(f, s, d) /\ RecentPoints(f, s) /\ OlderPoints(f, s, d)

\* The series is of what was handed over, and is cut when it is too long.
SeriesInv ==
    /\ tracked.seen \in BOOLEAN /\ tracked.max \in Nat
    /\ Len(appStats) <= dataPointsToKeep + dataPointsPerDownsample
    /\ SeriesOf(peaks, appStats, downsampledAppStats)

\* What the least and the greatest of a set are.
LEMMA StatsMinMax ==
    ASSUME NEW S, S \subseteq Int, NEW a \in S
    PROVE  /\ (\A y \in S : a <= y) => Stats!Min(S) = a
           /\ (\A y \in S : a >= y) => Stats!Max(S) = a
<1>1. ASSUME \A y \in S : a <= y PROVE Stats!Min(S) = a
    <2>1. \A x \in S : (\A y \in S : x <= y) <=> x = a
        BY <1>1
    <2> QED BY <2>1 DEF Stats!Min
<1>2. ASSUME \A y \in S : a >= y PROVE Stats!Max(S) = a
    <2>1. \A x \in S : (\A y \in S : x >= y) <=> x = a
        BY <1>2
    <2> QED BY <2>1 DEF Stats!Max
<1> QED BY <1>1, <1>2

\* One more point behind a series.
LEMMA AppendedPoint ==
    ASSUME NEW s, IsSeries(s), NEW x
    PROVE  /\ IsSeries(Append(s, x)) /\ Len(Append(s, x)) = Len(s) + 1
           /\ \A i \in 1 .. Len(s) : Append(s, x)[i] = s[i]
           /\ Append(s, x)[Len(s) + 1] = x
<1> DEFINE S == {s[i] : i \in 1 .. Len(s)} \cup {x}
<1>1. s \in Seq(S) /\ x \in S
    BY DEF IsSeries
<1> HIDE DEF S
<1>2. /\ Append(s, x) \in Seq(S) /\ Len(Append(s, x)) = Len(s) + 1 /\ Len(s) \in Nat
      /\ \A i \in 1 .. Len(s) : Append(s, x)[i] = s[i]
      /\ Append(s, x)[Len(s) + 1] = x
    BY <1>1
<1>3. Append(s, x) = [i \in 1 .. Len(Append(s, x)) |-> Append(s, x)[i]]
    <2>1. \A t \in Seq(S) : t = [i \in 1 .. Len(t) |-> t[i]]
        OBVIOUS
    <2> QED BY <1>2, <2>1
<1> QED BY <1>2, <1>3 DEF IsSeries

\* Some neighbours of a series.
LEMMA PartOfSeries ==
    ASSUME NEW s, IsSeries(s), NEW from \in Nat, NEW n \in Nat, from + n <= Len(s)
    PROVE  /\ IsSeries(SubSeq(s, from + 1, from + n)) /\ Len(SubSeq(s, from + 1, from + n)) = n
           /\ \A i \in 1 .. n : SubSeq(s, from + 1, from + n)[i] = s[from + i]
<1> DEFINE S == {s[i] : i \in 1 .. Len(s)}
<1>1. PICK first \in Int, last \in Int : first = from + 1 /\ last = from + n
    OBVIOUS
<1>2. \A i \in first .. last : s[i] \in S
    BY <1>1 DEF IsSeries
<1> HIDE DEF S
<1>3. /\ SubSeq(s, first, last) \in Seq(S)
      /\ Len(SubSeq(s, first, last)) = IF first <= last THEN last - first + 1 ELSE 0
      /\ \A i \in 1 .. last - first + 1 : SubSeq(s, first, last)[i] = s[first + i - 1]
    BY <1>2, SubSeqProperties
<1>4. last - first + 1 = n /\ (IF first <= last THEN last - first + 1 ELSE 0) = n
    BY <1>1
<1>5. Len(SubSeq(s, first, last)) = n
    BY <1>3, <1>4
<1>6. \A i \in 1 .. n : SubSeq(s, first, last)[i] = s[from + i]
    <2> TAKE i \in 1 .. n
    <2>1. first + i - 1 = from + i
        BY <1>1
    <2> QED BY <1>3, <1>4, <2>1
<1>7. SubSeq(s, first, last) = [i \in 1 .. n |-> SubSeq(s, first, last)[i]]
    BY <1>3, <1>5
<1> QED BY <1>1, <1>5, <1>6, <1>7 DEF IsSeries

\* The newest points of a series that has more of them, and of one that has not.
LEMMA NewestOfMany ==
    ASSUME NEW s, IsSeries(s), NEW n \in Nat, n < Len(s)
    PROVE  /\ IsSeries(Stats!Newest(s, n)) /\ Len(Stats!Newest(s, n)) = n
           /\ \A i \in 1 .. n : Stats!Newest(s, n)[i] = s[Len(s) - n + i]
<1>1. Len(s) \in Nat
    BY DEF IsSeries
<1>2. PICK from \in Nat : from = Len(s) - n
    BY <1>1
<1>3. Stats!Newest(s, n) = SubSeq(s, from + 1, from + n)
    <2>1. Len(s) - n + 1 = from + 1 /\ Len(s) = from + n /\ Len(s) > n
        BY <1>1, <1>2
    <2> QED BY <2>1 DEF Stats!Newest
<1>4. from + n <= Len(s)
    BY <1>1, <1>2
<1>5. /\ IsSeries(SubSeq(s, from + 1, from + n)) /\ Len(SubSeq(s, from + 1, from + n)) = n
      /\ \A i \in 1 .. n : SubSeq(s, from + 1, from + n)[i] = s[from + i]
    BY <1>4, PartOfSeries
<1> QED BY <1>2, <1>3, <1>5

LEMMA NewestOfFew ==
    ASSUME NEW s, IsSeries(s), NEW n \in Nat, Len(s) <= n
    PROVE  Stats!Newest(s, n) = s
<1>1. ~(Len(s) > n)
    BY DEF IsSeries
<1> QED BY <1>1 DEF Stats!Newest

\* What a cut makes of the recent points it takes away: the first of them are
\* one point, which is as high as each of them.
LEMMA DownsampleIs ==
    ASSUME NEW s, IsSeries(s), dataPointsPerDownsample <= Len(s), NEW edge \in Nat, NEW f,
           \A i \in 1 .. dataPointsPerDownsample : s[i].periods = {edge + i - 1} /\ s[i].value = f[edge + i - 1]
    PROVE  /\ Stats!Downsample(SubSeq(s, 1, dataPointsPerDownsample)).periods = PeriodsFrom(edge)
           /\ Stats!Downsample(SubSeq(s, 1, dataPointsPerDownsample)).value = PeakFrom(f, edge)
<1>0. PICK n \in Nat \ {0} :
        /\ n = dataPointsPerDownsample /\ n <= Len(s)
        /\ \A i \in 1 .. n : s[i].periods = {edge + i - 1} /\ s[i].value = f[edge + i - 1]
    BY StatisticsAssumption DEF StatisticsAssumption
<1> DEFINE points == SubSeq(s, 1, n)
<1>1. /\ IsSeries(points) /\ Len(points) = n /\ \A i \in 1 .. n : points[i] = s[i]
    <2>1. PICK from \in Nat : from = 0
        OBVIOUS
    <2>2. n \in Nat /\ from + 1 = 1 /\ from + n = n /\ from + n <= Len(s) /\ \A i \in 1 .. n : from + i = i
        BY <1>0, <2>1
    <2>3. /\ IsSeries(SubSeq(s, from + 1, from + n)) /\ Len(SubSeq(s, from + 1, from + n)) = n
          /\ \A i \in 1 .. n : SubSeq(s, from + 1, from + n)[i] = s[from + i]
        <3>1. n \in Nat /\ from + n <= Len(s)
            BY <2>2
        <3> HIDE DEF points
        <3> QED BY ONLY IsSeries(s), from \in Nat, <3>1, PartOfSeries
    <2> QED BY <2>2, <2>3
<1>2. DOMAIN points = 1 .. n
    BY <1>1 DEF IsSeries
<1> HIDE DEF points
<1>3. \A i \in 1 .. n : points[i].periods = {edge + i - 1} /\ points[i].value = f[edge + i - 1]
    BY <1>0, <1>1
<1>4. \A p \in edge .. edge + n - 1 : p - edge + 1 \in 1 .. n /\ edge + (p - edge + 1) - 1 = p
    OBVIOUS
<1>5. \A i \in 1 .. n : edge + i - 1 \in edge .. edge + n - 1
    OBVIOUS
<1>6. UNION {points[k].periods : k \in DOMAIN points} = edge .. edge + n - 1
    <2>1. ASSUME NEW p \in edge .. edge + n - 1
          PROVE  \E k \in 1 .. n : p \in points[k].periods
        <3>1. p - edge + 1 \in 1 .. n /\ edge + (p - edge + 1) - 1 = p
            BY <1>4
        <3>2. points[p - edge + 1].periods = {p}
            BY <1>3, <3>1
        <3> QED BY <3>1, <3>2
    <2>2. ASSUME NEW k \in 1 .. n
          PROVE  points[k].periods \subseteq edge .. edge + n - 1
        BY <1>3, <1>5
    <2>3. \A p : p \in UNION {points[k].periods : k \in DOMAIN points} <=> \E k \in 1 .. n : p \in points[k].periods
        BY <1>2, Zenon
    <2>4. \A p : (\E k \in 1 .. n : p \in points[k].periods) <=> p \in edge .. edge + n - 1
        BY <2>1, <2>2, Zenon
    <2> QED BY <2>3, <2>4, Zenon
<1>7. {points[k].value : k \in DOMAIN points} = {f[p] : p \in edge .. edge + n - 1}
    <2>1. ASSUME NEW p \in edge .. edge + n - 1
          PROVE  \E k \in 1 .. n : f[p] = points[k].value
        <3>1. p - edge + 1 \in 1 .. n /\ edge + (p - edge + 1) - 1 = p
            BY <1>4
        <3>2. points[p - edge + 1].value = f[p]
            BY <1>3, <3>1
        <3> QED BY <3>1, <3>2
    <2>2. ASSUME NEW k \in 1 .. n
          PROVE  \E p \in edge .. edge + n - 1 : points[k].value = f[p]
        BY <1>3, <1>5
    <2>3. \A v : v \in {points[k].value : k \in DOMAIN points} <=> \E k \in 1 .. n : v = points[k].value
        BY <1>2, Zenon
    <2>4. \A v : (\E k \in 1 .. n : v = points[k].value) <=> v \in {f[p] : p \in edge .. edge + n - 1}
        BY ONLY <2>1, <2>2
    <2> QED BY <2>3, <2>4, Zenon
<1>8. /\ Stats!Downsample(points).periods = edge .. edge + n - 1
      /\ Stats!Downsample(points).value = Stats!Max({f[p] : p \in edge .. edge + n - 1})
    BY <1>6, <1>7 DEF Stats!Downsample, Stats!Point
<1> QED BY <1>0, <1>8 DEF PeriodsFrom, PeakFrom, points

-----------------------------------------------------------------------------

\* Nothing has been handed over.
LEMMA SeriesInvInit == Init => SeriesInv
<1> SUFFICES ASSUME Init PROVE SeriesInv
    OBVIOUS
<1>1. /\ tracked = [seen |-> FALSE, max |-> 0]
      /\ peaks = <<>> /\ appStats = <<>> /\ downsampledAppStats = <<>>
    BY DEF Init, Stats!Init, Stats!NoValue
<1>2. Len(<<>>) = 0 /\ <<>> \in Seq(Nat) /\ <<>> = [i \in 1 .. 0 |-> <<>>[i]]
    OBVIOUS
<1>3. SeriesShape(<<>>, <<>>, <<>>)
    BY <1>2 DEF SeriesShape, IsSeries
<1>4. RecentPoints(<<>>, <<>>) /\ OlderPoints(<<>>, <<>>, <<>>)
    BY <1>2 DEF RecentPoints, OlderPoints
<1> QED BY <1>1, <1>2, <1>3, <1>4, StatisticsAssumption DEF StatisticsAssumption, SeriesInv, SeriesOf

\* Steps of a stride.
LEMMA Strides ==
    /\ Stride \in Nat
    /\ \A c \in Nat : /\ c * Stride \in Nat /\ (c + 1) * Stride = c * Stride + Stride
                      /\ c >= 1 => c * Stride >= Stride
<1>1. Stride \in Nat
    BY StatisticsAssumption DEF StatisticsAssumption, Stride
<1>2. ASSUME NEW c \in Nat
      PROVE  /\ c * Stride \in Nat /\ (c + 1) * Stride = c * Stride + Stride
             /\ c >= 1 => c * Stride >= Stride
    <2>1. c * Stride \in Nat /\ (c + 1) * Stride = c * Stride + Stride
        BY <1>1
    <2>2. ASSUME c >= 1 PROVE c * Stride >= Stride
        <3>1. PICK d \in Nat : c = d + 1
            BY <2>2
        <3>2. c * Stride = d * Stride + Stride /\ d * Stride \in Nat
            BY <1>1, <3>1
        <3> QED BY <1>1, <3>2
    <2> QED BY <2>1, <2>2
<1> QED BY <1>1, <1>2

\* The sizes of a series, as integers.
LEMMA SeriesSizes ==
    ASSUME NEW f, NEW s, NEW d, SeriesShape(f, s, d)
    PROVE  /\ Len(f) \in Nat /\ Len(s) \in Nat /\ Len(d) \in Nat
           /\ EdgeOf(f, s) \in Nat /\ EdgeOf(f, s) >= 1 /\ EdgeOf(f, s) = Len(f) - Len(s) + 1
           /\ Stride = dataPointsPerDownsample + 1
           /\ dataPointsToKeep \in Nat \ {0} /\ dataPointsPerDownsample \in Nat \ {0} /\ downsamplesToKeep \in Nat
<1>1. Len(f) \in Nat /\ Len(s) \in Nat /\ Len(d) \in Nat /\ Len(s) <= Len(f)
    BY DEF SeriesShape, IsSeries
<1> QED BY <1>1, StatisticsAssumption DEF StatisticsAssumption, EdgeOf, Stride

\* A downsample ends before the recent points begin.
LEMMA OlderIsBefore ==
    ASSUME NEW f, NEW s, NEW d, SeriesOf(f, s, d), NEW k \in 1 .. Len(d)
    PROVE  /\ StartOf(f, s, d, k) \in Nat /\ StartOf(f, s, d, k) >= 1
           /\ StartOf(f, s, d, k) + dataPointsPerDownsample < EdgeOf(f, s)
<1>1. /\ Len(f) \in Nat /\ Len(s) \in Nat /\ Len(d) \in Nat
      /\ EdgeOf(f, s) \in Nat /\ Stride = dataPointsPerDownsample + 1 /\ dataPointsPerDownsample \in Nat
    BY SeriesSizes DEF SeriesOf
<1>2. PICK c \in Nat : c = Len(d) + 1 - k /\ c >= 1
    BY <1>1
<1>3. /\ c * Stride \in Nat /\ c * Stride >= Stride /\ Stride \in Nat
    BY <1>2, Strides
<1>4. StartOf(f, s, d, k) = EdgeOf(f, s) - c * Stride
    BY <1>2 DEF StartOf
<1>5. StartOf(f, s, d, k) >= 1
    BY DEF SeriesOf, OlderPoints
<1> QED BY <1>1, <1>3, <1>4, <1>5

\* The point of one more hand-over.
NextPoint(f, v) == Stats!Point({Len(f) + 1}, v)

\* One more hand-over behind the recent points.
LEMMA GrowKeeps ==
    ASSUME NEW f, NEW s, NEW d, SeriesOf(f, s, d), NEW v, v \in Nat,
           NEW point, point = NextPoint(f, v), NEW g, g = Append(f, v), NEW t, t = Append(s, point)
    PROVE  SeriesOf(g, t, d)
<1>1. /\ Len(f) \in Nat /\ Len(s) \in Nat /\ Len(d) \in Nat /\ Len(s) <= Len(f) /\ f \in Seq(Nat)
      /\ IsSeries(s) /\ IsSeries(d)
      /\ EdgeOf(f, s) \in Nat /\ EdgeOf(f, s) >= 1 /\ EdgeOf(f, s) = Len(f) - Len(s) + 1
      /\ dataPointsPerDownsample \in Nat \ {0}
    BY SeriesSizes DEF SeriesOf, SeriesShape
<1>2. point.periods = {Len(f) + 1} /\ point.value = v
    BY DEF NextPoint, Stats!Point
<1>4. /\ IsSeries(t) /\ Len(t) = Len(s) + 1
      /\ \A i \in 1 .. Len(s) : t[i] = s[i]
      /\ t[Len(s) + 1] = point
    BY <1>1, AppendedPoint
<1>5. /\ g \in Seq(Nat) /\ Len(g) = Len(f) + 1
      /\ \A p \in 1 .. Len(f) : g[p] = f[p]
      /\ g[Len(f) + 1] = v
    BY <1>1
<1>6. EdgeOf(g, t) = EdgeOf(f, s)
    BY <1>1, <1>4, <1>5 DEF EdgeOf
<1>7. SeriesShape(g, t, d)
    BY <1>1, <1>4, <1>5 DEF SeriesShape
<1>8. RecentPoints(g, t)
    <2>1. ASSUME NEW i \in 1 .. Len(t)
          PROVE  t[i].periods = {EdgeOf(f, s) + i - 1} /\ t[i].value = g[EdgeOf(f, s) + i - 1]
        <3>1. CASE i \in 1 .. Len(s)
            <4>1. s[i].periods = {EdgeOf(f, s) + i - 1} /\ s[i].value = f[EdgeOf(f, s) + i - 1]
                BY <3>1 DEF SeriesOf, RecentPoints
            <4>2. EdgeOf(f, s) + i - 1 \in 1 .. Len(f)
                BY <1>1, <3>1
            <4>3. t[i] = s[i] /\ g[EdgeOf(f, s) + i - 1] = f[EdgeOf(f, s) + i - 1]
                BY <1>4, <1>5, <3>1, <4>2
            <4> QED BY <4>1, <4>3
        <3>2. CASE i = Len(s) + 1
            <4>1. EdgeOf(f, s) + i - 1 = Len(f) + 1
                BY <1>1, <3>2
            <4>2. t[i] = point /\ g[EdgeOf(f, s) + i - 1] = v
                BY <1>4, <1>5, <3>2, <4>1
            <4>3. point.periods = {EdgeOf(f, s) + i - 1}
                BY <1>2, <4>1
            <4> QED BY <1>2, <4>2, <4>3
        <3>3. Len(s) \in Nat /\ Len(t) = Len(s) + 1
            BY <1>1, <1>4
        <3>4. i \in 1 .. Len(s) \/ i = Len(s) + 1
            BY ONLY i \in 1 .. Len(t), <3>3
        <3> QED BY ONLY <3>1, <3>2, <3>4
    <2> QED BY <1>6, <2>1 DEF RecentPoints
<1>9. OlderPoints(g, t, d)
    <2>1. ASSUME NEW k \in 1 .. Len(d), NEW first, first = StartOf(f, s, d, k)
          PROVE  /\ first >= 1 /\ d[k].periods = PeriodsFrom(first)
                 /\ d[k].value = PeakFrom(g, first)
        <3>1. first \in Nat /\ first >= 1 /\ first + dataPointsPerDownsample < EdgeOf(f, s)
            BY <2>1, OlderIsBefore
        <3>2. \A p \in PeriodsFrom(first) : g[p] = f[p]
            <4>1. \A p \in PeriodsFrom(first) : p \in 1 .. Len(f)
                BY <1>1, <3>1 DEF PeriodsFrom
            <4> QED BY <1>5, <4>1
        <3>3. PeakFrom(g, first) = PeakFrom(f, first)
            <4>1. {g[p] : p \in PeriodsFrom(first)} = {f[p] : p \in PeriodsFrom(first)}
                BY ONLY <3>2
            <4> QED BY <4>1 DEF PeakFrom
        <3>4. d[k].periods = PeriodsFrom(first) /\ d[k].value = PeakFrom(f, first)
            BY <2>1 DEF SeriesOf, OlderPoints
        <3> QED BY <3>1, <3>3, <3>4
    <2>2. \A k \in 1 .. Len(d) : StartOf(g, t, d, k) = StartOf(f, s, d, k)
        BY <1>6 DEF StartOf
    <2> QED BY <2>1, <2>2 DEF OlderPoints
<1> QED BY <1>4, <1>7, <1>8, <1>9 DEF SeriesOf

\* The cut of a series that has grown too long.
LEMMA CutKeeps ==
    ASSUME NEW g, NEW t, NEW d, SeriesOf(g, t, d), Len(t) = dataPointsToKeep + dataPointsPerDownsample + 1,
           NEW older, older = Stats!Downsample(SubSeq(t, 1, dataPointsPerDownsample)),
           NEW all, all = Append(d, older),
           NEW u, u = Stats!Newest(t, dataPointsToKeep), NEW e, e = Stats!Newest(all, downsamplesToKeep)
    PROVE  SeriesOf(g, u, e) /\ Len(u) = dataPointsToKeep
<1>1. /\ Len(g) \in Nat /\ Len(t) \in Nat /\ Len(d) \in Nat /\ Len(t) <= Len(g) /\ g \in Seq(Nat)
      /\ IsSeries(t) /\ IsSeries(d)
      /\ EdgeOf(g, t) \in Nat /\ EdgeOf(g, t) >= 1 /\ EdgeOf(g, t) = Len(g) - Len(t) + 1
      /\ dataPointsPerDownsample \in Nat \ {0} /\ dataPointsToKeep \in Nat \ {0} /\ downsamplesToKeep \in Nat
      /\ Stride = dataPointsPerDownsample + 1
    BY SeriesSizes DEF SeriesOf, SeriesShape
<1>2. PICK keep \in Nat \ {0}, per \in Nat \ {0} : keep = dataPointsToKeep /\ per = dataPointsPerDownsample
    BY <1>1
<1>3. /\ IsSeries(u) /\ Len(u) = keep
      /\ \A i \in 1 .. keep : u[i] = t[per + 1 + i]
    <2>1. keep \in Nat /\ keep < Len(t)
        BY <1>1, <1>2
    <2>2. /\ IsSeries(Stats!Newest(t, keep)) /\ Len(Stats!Newest(t, keep)) = keep
          /\ \A i \in 1 .. keep : Stats!Newest(t, keep)[i] = t[Len(t) - keep + i]
        <3>1. IsSeries(t)
            BY <1>1
        <3> QED BY ONLY <2>1, <3>1, NewestOfMany
    <2>3. \A i \in 1 .. keep : Len(t) - keep + i = per + 1 + i
        BY <1>2
    <2> QED BY ONLY <1>2, <2>2, <2>3, u = Stats!Newest(t, dataPointsToKeep)
<1>4. EdgeOf(g, u) = EdgeOf(g, t) + Stride
    BY <1>1, <1>2, <1>3 DEF EdgeOf
<1>5. RecentPoints(g, u)
    <2>1. ASSUME NEW i \in 1 .. keep
          PROVE  u[i].periods = {EdgeOf(g, u) + i - 1} /\ u[i].value = g[EdgeOf(g, u) + i - 1]
        <3>1. PICK j \in 1 .. Len(t) : j = per + 1 + i
            BY <1>2
        <3>2. EdgeOf(g, t) + j - 1 = EdgeOf(g, u) + i - 1
            BY <1>1, <1>2, <1>4, <3>1
        <3>3. t[j].periods = {EdgeOf(g, t) + j - 1} /\ t[j].value = g[EdgeOf(g, t) + j - 1]
            BY DEF SeriesOf, RecentPoints
        <3>4. u[i] = t[j]
            BY <1>3, <3>1
        <3> QED BY <3>2, <3>3, <3>4
    <2> QED BY <1>3, <2>1 DEF RecentPoints
<1>6. /\ older.periods = PeriodsFrom(EdgeOf(g, t))
      /\ older.value = PeakFrom(g, EdgeOf(g, t))
    <2>1. dataPointsPerDownsample <= Len(t)
        BY <1>1
    <2>2. PICK edge \in Nat : edge = EdgeOf(g, t)
        BY <1>1
    <2>3. \A i \in 1 .. dataPointsPerDownsample : t[i].periods = {edge + i - 1} /\ t[i].value = g[edge + i - 1]
        <3>1. \A i \in 1 .. dataPointsPerDownsample : i \in 1 .. Len(t)
            BY <1>1, <2>1
        <3> QED BY <2>2, <3>1 DEF SeriesOf, RecentPoints
    <2>4. /\ Stats!Downsample(SubSeq(t, 1, dataPointsPerDownsample)).periods = PeriodsFrom(edge)
          /\ Stats!Downsample(SubSeq(t, 1, dataPointsPerDownsample)).value = PeakFrom(g, edge)
        BY <1>1, <2>1, <2>3, DownsampleIs
    <2> QED BY <2>2, <2>4
<1>7. /\ IsSeries(all) /\ Len(all) = Len(d) + 1
      /\ \A k \in 1 .. Len(d) : all[k] = d[k]
      /\ all[Len(d) + 1] = older
    BY <1>1, AppendedPoint
<1>m. PICK m \in Nat : m = Len(d)
    BY <1>1
<1>n. downsamplesToKeep \in Nat
    BY <1>1
<1>8. PICK kept \in Nat : kept = (IF downsamplesToKeep < m + 1 THEN downsamplesToKeep ELSE m + 1)
    BY ONLY m \in Nat, <1>n
<1>9. /\ IsSeries(e) /\ Len(e) = kept /\ kept <= m + 1
      /\ \A k \in 1 .. kept : e[k] = all[m + 1 - kept + k]
    <2>1. PICK n \in Nat : n = downsamplesToKeep
        BY <1>1
    <2>2. IsSeries(all) /\ Len(all) = m + 1
        BY <1>7, <1>m
    <2>3. CASE n < m + 1
        <3>1. /\ IsSeries(Stats!Newest(all, n)) /\ Len(Stats!Newest(all, n)) = n
              /\ \A i \in 1 .. n : Stats!Newest(all, n)[i] = all[Len(all) - n + i]
            <4>1. n < Len(all)
                BY <2>2, <2>3
            <4> QED BY ONLY <2>2, <4>1, n \in Nat, NewestOfMany
        <3>2. kept = n /\ kept <= m + 1
            BY <1>8, <2>1, <2>3
        <3>3. e = Stats!Newest(all, n)
            BY <2>1
        <3> QED BY ONLY <2>2, <3>1, <3>2, <3>3
    <2>4. CASE ~(n < m + 1)
        <3>1. kept = m + 1
            BY <1>8, <2>1, <2>4
        <3>2. Stats!Newest(all, downsamplesToKeep) = all
            <4>1. Len(all) <= downsamplesToKeep
                BY <2>1, <2>2, <2>4
            <4>2. IsSeries(all) /\ downsamplesToKeep \in Nat
                BY <1>1, <2>2
            <4> QED BY ONLY <4>1, <4>2, NewestOfFew
        <3>3. e = all
            BY <3>2
        <3>4. ASSUME NEW k \in 1 .. kept PROVE e[k] = all[m + 1 - kept + k]
            <4>1. m + 1 - kept + k = k
                BY <3>1
            <4> QED BY ONLY <3>3, <4>1
        <3>5. IsSeries(e) /\ Len(e) = kept
            BY ONLY <2>2, <3>1, <3>3
        <3>6. kept <= m + 1
            BY <3>1
        <3> QED BY <3>4, <3>5, <3>6
    <2> QED BY <2>3, <2>4
<1>10. SeriesShape(g, u, e)
    <2>1. keep <= Len(g) /\ keep # 0
        BY <1>1, <1>2
    <2> QED BY <1>1, <1>3, <1>9, <2>1 DEF SeriesShape
<1>11. ASSUME NEW k \in 1 .. kept
       PROVE  /\ StartOf(g, u, e, k) >= 1 /\ e[k].periods = PeriodsFrom(StartOf(g, u, e, k))
              /\ e[k].value = PeakFrom(g, StartOf(g, u, e, k))
    <2>1. PICK c \in Nat : c = kept - k
        OBVIOUS
    <2>2. PICK edge \in Nat, stride \in Nat :
            edge = EdgeOf(g, t) /\ edge >= 1 /\ stride = Stride /\ m = Len(d)
        BY <1>1, <1>m, Strides
    <2>3. kept <= m + 1 /\ Len(e) = kept /\ EdgeOf(g, u) = edge + stride
        BY <1>4, <1>9, <2>2
    <2>4. PICK j \in 1 .. m + 1 : j = m + 1 - kept + k
        <3>1. m + 1 - kept + k \in 1 .. m + 1
            BY <2>3
        <3> QED BY <3>1
    <2>5. StartOf(g, u, e, k) = edge - c * stride
        <3>1. PICK edge2 \in Nat, c2 \in Nat : edge2 = edge + stride /\ c2 = c + 1
            OBVIOUS
        <3>2. edge2 = EdgeOf(g, u) /\ Len(e) + 1 - k = c2
            BY <2>1, <2>3, <3>1
        <3>3. StartOf(g, u, e, k) = edge2 - c2 * stride
            BY <2>2, <3>2 DEF StartOf
        <3>4. c2 * stride = c * stride + stride /\ c * stride \in Nat
            BY <2>2, <3>1, Strides
        <3> QED BY ONLY <3>1, <3>3, <3>4, edge \in Nat, stride \in Nat
    <2>6. e[k] = all[j]
        BY <1>9, <2>2, <2>4
    <2>7. CASE j = m + 1
        <3>1. c = 0
            BY <2>1, <2>4, <2>7
        <3>2. c * stride = 0
            BY <3>1
        <3>3. StartOf(g, u, e, k) = edge
            BY <2>5, <3>2
        <3>4. e[k] = older
            BY <1>7, <2>2, <2>6, <2>7
        <3> QED BY <1>6, <2>2, <3>3, <3>4
    <2>8. CASE j \in 1 .. m
        <3>1. m + 1 - j = c
            BY <2>1, <2>4
        <3>2. StartOf(g, t, d, j) = edge - c * stride
            BY <2>2, <3>1 DEF StartOf
        <3>3. e[k] = d[j]
            BY <1>7, <2>2, <2>6, <2>8
        <3>4. /\ StartOf(g, t, d, j) >= 1
              /\ d[j].periods = PeriodsFrom(StartOf(g, t, d, j))
              /\ d[j].value = PeakFrom(g, StartOf(g, t, d, j))
            BY <2>2, <2>8 DEF SeriesOf, OlderPoints
        <3>5. StartOf(g, u, e, k) = StartOf(g, t, d, j)
            BY <2>5, <3>2
        <3> QED BY <3>3, <3>4, <3>5
    <2> QED BY <2>7, <2>8
<1>12. OlderPoints(g, u, e)
    <2>1. Len(e) = kept
        BY <1>9
    <2> QED BY <1>11, <2>1 DEF OlderPoints
<1> QED BY <1>2, <1>3, <1>5, <1>10, <1>12 DEF SeriesOf

\* A hand-over is a point behind the series, which is cut when it is too long; no value
\* at all is no point.
LEMMA HandOverKeeps ==
    ASSUME SeriesInv, NEW v \in Nat, Stats!HandOver(v), tracked'.seen \in BOOLEAN, tracked'.max \in Nat
    PROVE  SeriesInv'
<1>1. SeriesOf(peaks, appStats, downsampledAppStats) /\ SeriesShape(peaks, appStats, downsampledAppStats)
    BY DEF SeriesInv, SeriesOf
<1>2. CASE v = 0
    <2>1. UNCHANGED <<peaks, appStats, downsampledAppStats>>
        <3>1. Len(appStats) <= dataPointsToKeep + dataPointsPerDownsample
            BY DEF SeriesInv
        <3>2. ~(Len(appStats) > dataPointsToKeep + dataPointsPerDownsample)
            BY <1>1, <3>1, SeriesSizes
        <3> QED BY <1>2, <3>2 DEF Stats!HandOver, Stats!TrackAppStats
    <2> QED BY <2>1 DEF SeriesInv
<1>3. CASE v # 0
    <2>1. PICK g, t : g = Append(peaks, v) /\ t = Append(appStats, Stats!Point({Len(peaks) + 1}, v))
        OBVIOUS
    <2>2. SeriesOf(g, t, downsampledAppStats) /\ Len(t) = Len(appStats) + 1
        <3>1. PICK f, s, d, w : f = peaks /\ s = appStats /\ d = downsampledAppStats /\ w = v
            OBVIOUS
        <3>2. PICK point : point = NextPoint(f, w)
            OBVIOUS
        <3>3. SeriesOf(f, s, d) /\ w \in Nat /\ g = Append(f, w) /\ t = Append(s, point)
            BY <1>1, <2>1, <3>1, <3>2 DEF NextPoint
        <3>4. SeriesOf(g, t, d)
            BY ONLY <3>2, <3>3, GrowKeeps, Zenon
        <3>5. Len(t) = Len(s) + 1
            <4>1. IsSeries(s)
                BY <3>3 DEF SeriesOf, SeriesShape
            <4> QED BY <3>3, <4>1, AppendedPoint
        <3> QED BY <3>1, <3>5, <3>4
    <2>3. peaks' = g
        BY <1>3, <2>1 DEF Stats!HandOver
    <2>4. PICK older, all, u, e :
            /\ older = Stats!Downsample(SubSeq(t, 1, dataPointsPerDownsample))
            /\ all = Append(downsampledAppStats, older)
            /\ u = Stats!Newest(t, dataPointsToKeep) /\ e = Stats!Newest(all, downsamplesToKeep)
        OBVIOUS
    <2>5. IF Len(t) > dataPointsToKeep + dataPointsPerDownsample
          THEN appStats' = u /\ downsampledAppStats' = e
          ELSE appStats' = t /\ downsampledAppStats' = downsampledAppStats
        BY <1>3, <2>1, <2>4 DEF Stats!HandOver, Stats!TrackAppStats
    <2>6. /\ Len(appStats) \in Nat /\ Len(appStats) <= dataPointsToKeep + dataPointsPerDownsample
          /\ dataPointsToKeep \in Nat /\ dataPointsPerDownsample \in Nat
        BY <1>1, SeriesSizes DEF SeriesInv
    <2>7. /\ SeriesOf(peaks', appStats', downsampledAppStats')
          /\ Len(appStats') <= dataPointsToKeep + dataPointsPerDownsample
        <3>1. CASE Len(t) > dataPointsToKeep + dataPointsPerDownsample
            <4>1. Len(t) = dataPointsToKeep + dataPointsPerDownsample + 1
                BY <2>2, <2>6, <3>1
            <4>2. SeriesOf(g, u, e) /\ Len(u) = dataPointsToKeep
                BY <2>2, <2>4, <4>1, CutKeeps
            <4>3. Len(u) <= dataPointsToKeep + dataPointsPerDownsample
                BY <2>6, <4>2
            <4> QED BY <2>3, <2>5, <3>1, <4>2, <4>3
        <3>2. CASE ~(Len(t) > dataPointsToKeep + dataPointsPerDownsample)
            <4>1. Len(t) <= dataPointsToKeep + dataPointsPerDownsample
                BY <2>2, <2>6, <3>2
            <4> QED BY <2>2, <2>3, <2>5, <3>2, <4>1
        <3> QED BY <3>1, <3>2
    <2> QED BY <2>7 DEF SeriesInv
<1> QED BY <1>2, <1>3

\* The monitor measures, and the timer hands the largest value over.
LEMMA SeriesInvStep == SeriesInv /\ [Next]_vars => SeriesInv'
<1> SUFFICES ASSUME SeriesInv, [Next]_vars PROVE SeriesInv'
    OBVIOUS
<1>1. tracked.seen \in BOOLEAN /\ tracked.max \in Nat
    BY DEF SeriesInv
<1>2. CASE Stats!ProcessAndReset
    <2>1. tracked'.seen \in BOOLEAN /\ tracked'.max \in Nat /\ Stats!HandOver(tracked.max)
        BY <1>2 DEF Stats!ProcessAndReset, Stats!NoValue
    <2> QED BY <1>1, <2>1, HandOverKeeps
<1>3. CASE UNCHANGED <<peaks, appStats, downsampledAppStats>> /\ tracked'.seen \in BOOLEAN /\ tracked'.max \in Nat
    BY <1>3 DEF SeriesInv
<1>4. CASE Stats!Measure
    <2>1. PICK value \in Measures : Stats!TrackValue(value)
        BY <1>4 DEF Stats!Measure
    <2>2. value \in Nat
        BY StatisticsAssumption DEF StatisticsAssumption
    <2>3. Stats!Max({tracked.max, value}) \in Nat
        <3>1. CASE tracked.max >= value
            <4>1. Stats!Max({tracked.max, value}) = tracked.max
                <5>1. \A y \in {tracked.max, value} : tracked.max >= y
                    BY <1>1, <2>2, <3>1
                <5>2. {tracked.max, value} \subseteq Int /\ tracked.max \in {tracked.max, value}
                    BY <1>1, <2>2
                <5> QED BY <5>1, <5>2, StatsMinMax
            <4> QED BY <1>1, <4>1
        <3>2. CASE ~(tracked.max >= value)
            <4>1. Stats!Max({tracked.max, value}) = value
                <5>1. \A y \in {tracked.max, value} : value >= y
                    BY <1>1, <2>2, <3>2
                <5>2. {tracked.max, value} \subseteq Int /\ value \in {tracked.max, value}
                    BY <1>1, <2>2
                <5> QED BY <5>1, <5>2, StatsMinMax
            <4> QED BY <2>2, <4>1
        <3> QED BY <3>1, <3>2
    <2>4. tracked'.seen \in BOOLEAN /\ tracked'.max \in Nat
        BY <2>1, <2>2, <2>3 DEF Stats!TrackValue
    <2> QED BY <1>3, <2>1, <2>4 DEF Stats!TrackValue
<1>5. CASE UNCHANGED statisticsVars
    BY <1>1, <1>3, <1>5 DEF statisticsVars
<1> QED BY <1>2, <1>4, <1>5, StatisticsRun DEF Stats!Next, Stats!vars, statisticsVars

LEMMA SeriesInvAlways == Spec => []SeriesInv
BY SeriesInvInit, SeriesInvStep, PTL DEF Spec

\* What is asked of the chart c of the hand-overs f.
Shows(f, c) ==
    /\ \A k \in DOMAIN c : c[k].value = Stats!Max({f[p] : p \in c[k].periods})
    /\ \A j, k \in DOMAIN c : j < k => \A p \in c[j].periods, q \in c[k].periods : p < q
    /\ c # <<>> => \A p \in Stats!Min(UNION {c[k].periods : k \in DOMAIN c}) .. Len(f) - 1 :
                        \/ p \in UNION {c[k].periods : k \in DOMAIN c}
                        \/ p + 1 \in UNION {c[k].periods : k \in DOMAIN c}
    /\ c # <<>> => Len(f) \in UNION {c[k].periods : k \in DOMAIN c}

\* The points of two series, one behind the other.
LEMMA TwoSeries ==
    ASSUME NEW s, IsSeries(s), NEW d, IsSeries(d)
    PROVE  /\ IsSeries(d \o s) /\ Len(d \o s) = Len(d) + Len(s)
           /\ \A k \in 1 .. Len(d) : (d \o s)[k] = d[k]
           /\ \A i \in 1 .. Len(s) : (d \o s)[Len(d) + i] = s[i]
<1> DEFINE S == {s[i] : i \in 1 .. Len(s)} \cup {d[i] : i \in 1 .. Len(d)}
<1>1. s \in Seq(S) /\ d \in Seq(S)
    BY DEF IsSeries
<1> HIDE DEF S
<1>2. /\ d \o s \in Seq(S) /\ Len(d \o s) = Len(d) + Len(s) /\ Len(d) \in Nat /\ Len(s) \in Nat
      /\ \A i \in 1 .. Len(d) + Len(s) : (d \o s)[i] = IF i <= Len(d) THEN d[i] ELSE s[i - Len(d)]
    BY <1>1, ConcatProperties
<1>3. d \o s = [i \in 1 .. Len(d \o s) |-> (d \o s)[i]]
    <2>1. \A t \in Seq(S) : t = [i \in 1 .. Len(t) |-> t[i]]
        OBVIOUS
    <2> QED BY <1>2, <2>1
<1>4. ASSUME NEW i \in 1 .. Len(s) PROVE (d \o s)[Len(d) + i] = s[i]
    <2>1. PICK j \in 1 .. Len(d) + Len(s) : j = Len(d) + i
        BY <1>2
    <2>2. ~(j <= Len(d)) /\ j - Len(d) = i
        BY <1>2, <2>1
    <2> QED BY <1>2, <2>1, <2>2
<1>5. ASSUME NEW k \in 1 .. Len(d) PROVE (d \o s)[k] = d[k]
    <2>1. k \in 1 .. Len(d) + Len(s) /\ k <= Len(d)
        BY <1>2
    <2> QED BY <1>2, <2>1
<1> QED BY <1>2, <1>3, <1>4, <1>5 DEF IsSeries

\* What the series' invariant says is what is asked of its chart.
LEMMA SeriesShows ==
    ASSUME NEW f, NEW s, NEW d, SeriesOf(f, s, d), NEW c, c = d \o s
    PROVE  Shows(f, c)
<1>1. PICK n \in Nat, recent \in Nat, older \in Nat, edge \in Nat, per \in Nat \ {0}, stride \in Nat :
        /\ n = Len(f) /\ recent = Len(s) /\ older = Len(d) /\ edge = EdgeOf(f, s) /\ edge >= 1
        /\ edge = n - recent + 1 /\ recent <= n /\ (recent = 0 => n = 0 /\ older = 0)
        /\ per = dataPointsPerDownsample /\ stride = Stride /\ stride = per + 1
    <2>1. SeriesShape(f, s, d)
        BY DEF SeriesOf
    <2>2. /\ Len(f) \in Nat /\ Len(s) \in Nat /\ Len(d) \in Nat /\ EdgeOf(f, s) \in Nat
          /\ dataPointsPerDownsample \in Nat \ {0} /\ Stride \in Nat
          /\ EdgeOf(f, s) >= 1 /\ EdgeOf(f, s) = Len(f) - Len(s) + 1 /\ Stride = dataPointsPerDownsample + 1
        BY <2>1, SeriesSizes, Strides
    <2>3. Len(s) <= Len(f) /\ (Len(s) = 0 => Len(f) = 0 /\ Len(d) = 0)
        BY <2>1 DEF SeriesShape
    <2> QED BY <2>2, <2>3
<1>sizes. /\ edge >= 1 /\ edge = n - recent + 1 /\ recent <= n /\ (recent = 0 => n = 0 /\ older = 0)
          /\ stride = per + 1
    BY <1>1
<1>series. IsSeries(s) /\ IsSeries(d) /\ f \in Seq(Nat)
    BY DEF SeriesOf, SeriesShape
<1>2. /\ DOMAIN c = 1 .. older + recent /\ Len(c) = older + recent
      /\ \A k \in 1 .. older : c[k] = d[k]
      /\ \A i \in 1 .. recent : c[older + i] = s[i]
      /\ c # <<>> => older + recent # 0
    <2>1. /\ IsSeries(c) /\ Len(c) = older + recent
          /\ \A k \in 1 .. older : c[k] = d[k]
          /\ \A i \in 1 .. recent : c[older + i] = s[i]
        BY <1>1, <1>series, TwoSeries
    <2>2. DOMAIN c = 1 .. older + recent
        BY <2>1 DEF IsSeries
    <2>3. c = [i \in 1 .. older + recent |-> c[i]]
        BY <2>1 DEF IsSeries
    <2>4. ASSUME older + recent = 0 PROVE c = <<>>
        <3>1. 1 .. older + recent = {}
            BY <2>4
        <3> QED BY <2>3, <3>1
    <2> QED BY <2>1, <2>2, <2>4
<1> DEFINE First(k) == IF k <= older THEN edge - (older + 1 - k) * stride ELSE edge + (k - older) - 1
           Last(k) == IF k <= older THEN First(k) + per - 1 ELSE First(k)
<1>3. ASSUME NEW k \in 1 .. older + recent
      PROVE  /\ First(k) \in Nat /\ First(k) >= 1 /\ Last(k) \in Nat /\ First(k) <= Last(k)
             /\ c[k].periods = First(k) .. Last(k)
             /\ c[k].value = Stats!Max({f[p] : p \in First(k) .. Last(k)})
             /\ k <= older => Last(k) + 1 < edge
             /\ k > older => First(k) >= edge
    <2>1. CASE k \in 1 .. older
        <3>1. /\ StartOf(f, s, d, k) \in Nat /\ StartOf(f, s, d, k) >= 1 /\ StartOf(f, s, d, k) + per < edge
            BY <1>1, <2>1, OlderIsBefore
        <3>2. StartOf(f, s, d, k) = edge - (older + 1 - k) * stride
            BY <1>1 DEF StartOf
        <3>3. PICK first \in Nat : first = StartOf(f, s, d, k)
            BY <3>1
        <3>4. First(k) = first /\ Last(k) = first + per - 1
            BY <2>1, <3>2, <3>3
        <3>5. /\ c[k].periods = first .. first + per - 1
              /\ c[k].value = Stats!Max({f[p] : p \in first .. first + per - 1})
            BY <1>1, <1>2, <2>1, <3>3 DEF SeriesOf, OlderPoints, PeriodsFrom, PeakFrom
        <3> HIDE DEF First, Last
        <3>6. first + per - 1 \in Nat /\ first >= 1 /\ first <= first + per - 1 /\ first + per - 1 + 1 < edge
            BY <3>1, <3>3
        <3>7. ~(k > older)
            BY <2>1
        <3> QED BY <3>4, <3>5, <3>6, <3>7
    <2>2. CASE k \notin 1 .. older
        <3>1. PICK i \in 1 .. recent : i = k - older
            BY <2>2
        <3>2. k > older /\ k = older + i
            BY <2>2, <3>1
        <3>3. PICK p \in Nat : p = edge + i - 1 /\ p >= edge /\ p >= 1 /\ p <= n
            BY <1>sizes
        <3>4. First(k) = p /\ Last(k) = p
            BY <3>1, <3>2, <3>3
        <3>5. s[i].periods = {p} /\ s[i].value = f[p]
            BY <1>1, <3>3 DEF SeriesOf, RecentPoints
        <3>6. c[k] = s[i]
            BY <1>2, <3>2
        <3>7. p .. p = {p}
            BY <3>3
        <3>8. f[p] = Stats!Max({f[q] : q \in {p}})
            <4>1. {f[q] : q \in {p}} = {f[p]}
                OBVIOUS
            <4>2. f[p] \in Nat
                <5>1. p \in 1 .. Len(f)
                    BY <1>1, <3>3
                <5> QED BY <1>series, <5>1
            <4>3. Stats!Max({f[p]}) = f[p]
                <5>1. {f[p]} \subseteq Int /\ f[p] \in {f[p]} /\ \A y \in {f[p]} : f[p] >= y
                    BY <4>2
                <5> QED BY <5>1, StatsMinMax
            <4> QED BY <4>1, <4>3
        <3> HIDE DEF First, Last
        <3>9. c[k].periods = p .. p /\ c[k].value = Stats!Max({f[q] : q \in p .. p})
            BY <3>5, <3>6, <3>7, <3>8
        <3>10. p \in Nat /\ p >= edge /\ p >= 1 /\ p <= p /\ ~(k <= older)
            BY <3>2, <3>3
        <3> QED BY <3>4, <3>9, <3>10
    <2> QED BY <2>1, <2>2
<1>4. ASSUME NEW j \in 1 .. older + recent, NEW k \in 1 .. older + recent, j < k
      PROVE  Last(j) < First(k)
    <2>1. CASE k <= older
        <3>1. PICK x \in Nat, y \in Nat : x = older + 1 - j /\ y = older + 1 - k /\ x >= y + 1
            BY <1>4, <2>1
        <3>2. x * stride >= y * stride + stride /\ x * stride \in Nat /\ y * stride \in Nat
            <4>1. PICK z \in Nat : x = z + (y + 1)
                BY <3>1
            <4>2. x * stride = z * stride + (y * stride + stride) /\ z * stride \in Nat /\ y * stride \in Nat
                BY <4>1
            <4> QED BY <4>2
        <3>3. First(j) = edge - x * stride /\ First(k) = edge - y * stride /\ Last(j) = First(j) + per - 1
            BY <1>4, <2>1, <3>1
        <3> HIDE DEF First, Last
        <3> QED BY <1>1, <3>2, <3>3
    <2>2. CASE k > older /\ j <= older
        <3>1. Last(j) \in Nat /\ First(k) \in Nat /\ Last(j) + 1 < edge /\ First(k) >= edge
            BY <1>3, <2>2
        <3> HIDE DEF First, Last
        <3> QED BY <1>1, <3>1
    <2>3. CASE j > older
        BY <1>4, <2>3
    <2> QED BY <2>1, <2>2, <2>3
<1>5. ASSUME NEW p \in Nat, First(1) <= p, p <= n, older + recent # 0
      PROVE  \/ \E k \in 1 .. older + recent : p \in First(k) .. Last(k)
             \/ p < n /\ \E k \in 1 .. older + recent : p + 1 \in First(k) .. Last(k)
    <2>1. CASE p >= edge
        <3>1. PICK k \in 1 .. older + recent : k = older + (p - edge + 1) /\ k > older
            <4>1. older + (p - edge + 1) \in 1 .. older + recent /\ older + (p - edge + 1) > older
                BY <1>sizes, <1>5, <2>1
            <4> QED BY <4>1
        <3>2. First(k) = p /\ Last(k) = p
            BY <3>1
        <3>3. p \in First(k) .. Last(k)
            <4> HIDE DEF First, Last
            <4> QED BY <3>2
        <3> HIDE DEF First, Last
        <3> QED BY <3>3
    <2>2. CASE p < edge
        <3>1. older >= 1
            BY <1>5, <2>2
        <3>2. PICK r \in Nat : r = edge - 1 - p
            BY <2>2
        <3>3. PICK x \in Nat : stride * x <= r /\ r < stride * x + stride
            <4>1. stride \in Nat \ {0}
                BY <1>sizes
            <4>2. r \div stride \in Nat /\ stride * (r \div stride) <= r /\ r < stride * (r \div stride) + stride
                BY <4>1, DivisionRoundsDown
            <4> QED BY <4>2
        <3>4. First(1) = edge - older * stride
            BY <3>1
        <3>5. x + 1 <= older
            <4>1. older * stride \in Nat /\ stride * x \in Nat /\ older * stride >= edge - p
                <5> HIDE DEF First
                <5> QED BY <1>5, <3>4
            <4>2. r + 1 <= older * stride
                BY <3>2, <4>1
            <4>3. ASSUME ~(x + 1 <= older) PROVE FALSE
                <5>1. PICK z \in Nat : x = z + older
                    BY <4>3
                <5>2. stride * x = stride * z + older * stride /\ stride * z \in Nat
                    BY <5>1
                <5> QED BY <3>3, <4>1, <4>2, <5>2
            <4> QED BY <4>3
        <3>6. PICK k \in 1 .. older : k = older - x
            BY <3>5
        <3>7. First(k) = edge - (x + 1) * stride /\ Last(k) = First(k) + per - 1
            <4>1. older + 1 - k = x + 1 /\ k <= older
                BY <3>6
            <4> QED BY <4>1
        <3>8. (x + 1) * stride = stride * x + stride /\ stride * x \in Nat
            BY <1>1
        <3> HIDE DEF First, Last
        <3>9. PICK first \in Int, last \in Int : first = First(k) /\ last = Last(k)
            BY <3>7, <3>8
        <3>10. first <= p /\ p <= last + 1
            BY <1>sizes, <3>2, <3>3, <3>7, <3>8, <3>9
        <3>11. k \in 1 .. older + recent
            BY <3>6
        <3>12. CASE p <= last
            BY <3>9, <3>10, <3>11, <3>12
        <3>13. CASE p = last + 1
            <4>1. CASE k + 1 <= older
                <5>1. PICK m \in 1 .. older + recent : m = k + 1 /\ m <= older
                    BY <4>1
                <5>2. First(m) = p + 1 /\ p + 1 <= Last(m)
                    <6>1. First(m) = edge - (older + 1 - m) * stride /\ Last(m) = First(m) + per - 1
                        BY <5>1 DEF First, Last
                    <6>2. older + 1 - m = x
                        BY <3>6, <5>1
                    <6>3. x * stride = stride * x
                        OBVIOUS
                    <6>4. First(m) = edge - stride * x
                        BY <6>1, <6>2, <6>3
                    <6> QED BY <1>sizes, <3>7, <3>8, <3>9, <3>13, <6>1, <6>4
                <5>3. p < n
                    BY <1>1, <2>2
                <5>4. p + 1 \in First(m) .. Last(m)
                    <6>1. First(m) \in Nat /\ Last(m) \in Nat
                        BY <1>3
                    <6> QED BY <5>2, <6>1
                <5> QED BY <5>3, <5>4
            <4>2. CASE ~(k + 1 <= older)
                <5>1. x = 0 /\ k = older
                    BY <3>6, <4>2
                <5>2. p + 1 = edge
                    <6>1. stride * x = 0
                        BY <5>1
                    <6> QED BY <1>sizes, <3>7, <3>8, <3>9, <3>13, <6>1
                <5>3. recent # 0 /\ edge <= n
                    BY <1>1, <3>1
                <5>4. PICK m \in 1 .. older + recent : m = older + 1
                    BY <5>3
                <5>5. First(m) = edge /\ Last(m) = edge
                    BY <5>4 DEF First, Last
                <5>6. p + 1 \in First(m) .. Last(m) /\ p < n
                    BY <5>2, <5>3, <5>5
                <5> QED BY <5>6
            <4> QED BY <4>1, <4>2
        <3> QED BY <3>10, <3>12, <3>13
    <2> QED BY <2>1, <2>2
<1>6. c # <<>> => First(1) = Stats!Min(UNION {c[k].periods : k \in DOMAIN c})
    <2> SUFFICES ASSUME c # <<>> PROVE First(1) = Stats!Min(UNION {c[k].periods : k \in DOMAIN c})
        OBVIOUS
    <2>1. PICK one \in 1 .. older + recent : one = 1
        BY <1>2
    <2> HIDE DEF First, Last
    <2>2. First(one) \in First(one) .. Last(one)
        <3>1. First(one) \in Nat /\ Last(one) \in Nat /\ First(one) <= Last(one)
            BY <1>3
        <3> QED BY <3>1
    <2>3. ASSUME NEW k \in 1 .. older + recent, NEW p \in First(k) .. Last(k)
          PROVE  p \in Int /\ First(one) <= p
        <3>1. First(one) \in Nat /\ Last(one) \in Nat /\ First(one) <= Last(one) /\ First(k) \in Nat
            BY <1>3
        <3>2. CASE k = one
            BY <3>1, <3>2
        <3>3. CASE k # one
            <4>1. Last(one) < First(k)
                BY <1>4, <2>1, <3>3
            <4> QED BY <3>1, <4>1
        <3> QED BY <3>2, <3>3
    <2>4. PICK S : S = UNION {c[k].periods : k \in DOMAIN c}
        OBVIOUS
    <2>5. \A p : p \in S <=> \E k \in 1 .. older + recent : p \in c[k].periods
        BY <1>2, <2>4, Zenon
    <2>6. \A p : p \in S <=> \E k \in 1 .. older + recent : p \in First(k) .. Last(k)
        BY <1>3, <2>5, Zenon
    <2>7. S \subseteq Int /\ First(one) \in S /\ \A p \in S : First(one) <= p
        BY <2>2, <2>3, <2>6
    <2>8. Stats!Min(S) = First(one)
        BY <2>7, StatsMinMax
    <2> QED BY <2>1, <2>4, <2>8
<1> HIDE DEF First, Last
<1>7. \A p : p \in UNION {c[k].periods : k \in DOMAIN c} <=> \E k \in 1 .. older + recent : p \in First(k) .. Last(k)
    <2>1. \A p : p \in UNION {c[k].periods : k \in DOMAIN c} <=> \E k \in 1 .. older + recent : p \in c[k].periods
        BY <1>2, Zenon
    <2>2. \A k \in 1 .. older + recent : c[k].periods = First(k) .. Last(k)
        BY <1>3
    <2>3. \A p : (\E k \in 1 .. older + recent : p \in c[k].periods)
                  <=> \E k \in 1 .. older + recent : p \in First(k) .. Last(k)
        BY <2>2
    <2> QED BY <2>1, <2>3, Zenon
<1>8. \A k \in DOMAIN c : c[k].value = Stats!Max({f[p] : p \in c[k].periods})
    <2> TAKE k \in DOMAIN c
    <2>1. k \in 1 .. older + recent
        BY <1>2
    <2>2. c[k].periods = First(k) .. Last(k) /\ c[k].value = Stats!Max({f[p] : p \in First(k) .. Last(k)})
        BY <1>3, <2>1
    <2> QED BY <2>2, Zenon
<1>9. \A j, k \in DOMAIN c : j < k => \A p \in c[j].periods, q \in c[k].periods : p < q
    <2>1. ASSUME NEW j \in 1 .. older + recent, NEW k \in 1 .. older + recent, j < k,
                 NEW p \in First(j) .. Last(j), NEW q \in First(k) .. Last(k)
          PROVE  p < q
        <3>1. Last(j) < First(k) /\ Last(j) \in Nat /\ First(k) \in Nat /\ First(j) \in Nat /\ Last(k) \in Nat
            BY <1>3, <1>4, <2>1
        <3> QED BY <3>1
    <2> TAKE j, k \in DOMAIN c
    <2>2. j \in 1 .. older + recent /\ k \in 1 .. older + recent
        BY <1>2
    <2>3. c[j].periods = First(j) .. Last(j) /\ c[k].periods = First(k) .. Last(k)
        BY <1>3, <2>2
    <2> QED BY <2>1, <2>2, <2>3, Zenon
<1>10. ASSUME c # <<>>, NEW S, S = UNION {c[k].periods : k \in DOMAIN c}
       PROVE  (\A p \in Stats!Min(S) .. Len(f) - 1 : p \in S \/ p + 1 \in S) /\ Len(f) \in S
    <2>1. PICK one \in 1 .. older + recent : one = 1 /\ older + recent # 0
        BY <1>2, <1>10
    <2>2. PICK first \in Nat : first = First(1) /\ first = Stats!Min(S)
        BY <1>3, <1>6, <1>10, <2>1
    <2>3. \A p : p \in S <=> \E k \in 1 .. older + recent : p \in First(k) .. Last(k)
        BY <1>7, <1>10
    <2>4. ASSUME NEW p \in Nat, first <= p, p <= n
          PROVE  p \in S \/ (p < n /\ p + 1 \in S)
        <3>1. \/ \E k \in 1 .. older + recent : p \in First(k) .. Last(k)
              \/ p < n /\ \E k \in 1 .. older + recent : p + 1 \in First(k) .. Last(k)
            BY <1>5, <2>1, <2>2, <2>4
        <3> QED BY <2>3, <3>1
    <2>5. first <= n
        <3>1. recent # 0
            BY <1>1, <2>1
        <3>2. PICK m \in 1 .. older + recent : m = older + 1
            BY <3>1
        <3>3. First(m) = edge /\ edge <= n
            BY <1>1, <3>1, <3>2 DEF First
        <3>4. First(one) \in Nat /\ Last(one) \in Nat /\ First(one) <= Last(one)
            BY <1>3
        <3>5. CASE m = one
            BY <2>1, <2>2, <3>3, <3>5
        <3>6. CASE m # one
            <4>1. Last(one) < First(m)
                BY <1>4, <2>1, <3>6
            <4> QED BY <2>1, <2>2, <3>3, <3>4, <4>1
        <3> QED BY <3>5, <3>6
    <2>6. n \in S
        BY <2>4, <2>5
    <2>7. \A p \in first .. n - 1 : p \in S \/ p + 1 \in S
        <3> TAKE p \in first .. n - 1
        <3>1. p \in Nat /\ first <= p /\ p <= n
            OBVIOUS
        <3> QED BY <2>4, <3>1
    <2> QED BY <1>1, <2>2, <2>6, <2>7
<1> QED BY <1>8, <1>9, <1>10 DEF Shows

\* A chart of appStats.js hides no load: its points are the largest values that were handed
\* over, in order and without overlap, and it ends with the last of them; for every number
\* of points that are kept, of downsamples and of points a downsample stands for.
THEOREM ChartHidesNoPeak == Spec => []PeaksAreShown
<1>1. SeriesInv => PeaksAreShown
    <2> SUFFICES ASSUME SeriesInv PROVE PeaksAreShown
        OBVIOUS
    <2>1. PICK f, s, d : f = peaks /\ s = appStats /\ d = downsampledAppStats
        OBVIOUS
    <2>2. SeriesOf(f, s, d) /\ PeaksAreShown = Shows(f, d \o s)
        BY <2>1 DEF SeriesInv, PeaksAreShown, Stats!PeaksAreShown, Stats!Chart, Stats!Shown, Shows
    <2> QED BY <2>2, SeriesShows
<1> QED BY <1>1, SeriesInvAlways, PTL
=============================================================================
