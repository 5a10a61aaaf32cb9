--------------------------- MODULE RpcQueueProofs ---------------------------
(***************************************************************************)
(* What TLC checks of RpcQueue on seven calls, proved for every set of     *)
(* calls and every number of workers.                                      *)
(***************************************************************************)
EXTENDS RpcQueue, FiniteSetTheorems, TLAPS

\* The inductive invariant.  NoCallLost is what makes it inductive: a worker
\* that takes the head of the queue gets a call nobody else works on.
QueueInv ==
    /\ TypeOK
    /\ NoCallLost
    /\ IsFiniteSet(running)
    /\ Cardinality(running) <= Concurrency
    /\ OnlyProbesUnverified

-----------------------------------------------------------------------------
(* What the operations on the queue do to the set of queued calls. *)

\* Taking the head of a queue without repetitions removes exactly that call.
LEMMA TailOfQueue ==
    ASSUME NEW S, NEW s \in Seq(S), s # <<>>,
           \A i, j \in DOMAIN s : s[i] = s[j] => i = j
    PROVE  /\ Tail(s) \in Seq(S)
           /\ Head(s) \in S
           /\ {Tail(s)[i] : i \in DOMAIN Tail(s)} = {s[i] : i \in DOMAIN s} \ {Head(s)}
           /\ Head(s) \in {s[i] : i \in DOMAIN s}
           /\ \A i, j \in DOMAIN Tail(s) : Tail(s)[i] = Tail(s)[j] => i = j
<1>1. /\ Tail(s) \in Seq(S) /\ Len(s) \in Nat \ {0} /\ Head(s) = s[1]
      /\ Len(Tail(s)) = Len(s) - 1 /\ DOMAIN s = 1..Len(s)
      /\ DOMAIN Tail(s) = 1..(Len(s) - 1)
      /\ \A i \in 1..(Len(s) - 1) : Tail(s)[i] = s[i + 1]
  OBVIOUS
<1>2. {Tail(s)[i] : i \in DOMAIN Tail(s)} \subseteq {s[i] : i \in DOMAIN s} \ {Head(s)}
  BY <1>1
<1>3. ASSUME NEW x \in {s[i] : i \in DOMAIN s} \ {Head(s)}
      PROVE  x \in {Tail(s)[i] : i \in DOMAIN Tail(s)}
  <2>1. PICK k \in 1..Len(s) : x = s[k]
    BY <1>1
  <2>2. k - 1 \in 1..(Len(s) - 1) /\ Tail(s)[k - 1] = x
    BY <2>1, <1>1
  <2> QED BY <2>2, <1>1
<1>4. Head(s) \in S /\ Head(s) \in {s[i] : i \in DOMAIN s}
  BY <1>1
<1>5. \A i, j \in DOMAIN Tail(s) : Tail(s)[i] = Tail(s)[j] => i = j
  BY <1>1
<1> QED BY <1>1, <1>2, <1>3, <1>4, <1>5

\* Appending a call that is not queued adds exactly that call.
LEMMA AppendToQueue ==
    ASSUME NEW S, NEW s \in Seq(S), NEW c \in S, c \notin {s[i] : i \in DOMAIN s},
           \A i, j \in DOMAIN s : s[i] = s[j] => i = j
    PROVE  /\ Append(s, c) \in Seq(S)
           /\ {Append(s, c)[i] : i \in DOMAIN Append(s, c)} = {s[i] : i \in DOMAIN s} \cup {c}
           /\ \A i, j \in DOMAIN Append(s, c) : Append(s, c)[i] = Append(s, c)[j] => i = j
<1> DEFINE t == Append(s, c)
<1>1. /\ t \in Seq(S) /\ Len(s) \in Nat /\ DOMAIN s = 1..Len(s)
      /\ DOMAIN t = 1..(Len(s) + 1) /\ t[Len(s) + 1] = c
      /\ \A i \in 1..Len(s) : t[i] = s[i]
  OBVIOUS
<1> HIDE DEF t
<1>2. {t[i] : i \in DOMAIN t} = {s[i] : i \in DOMAIN s} \cup {c}
  <2>1. ASSUME NEW x \in {s[i] : i \in DOMAIN s} \cup {c}
        PROVE  x \in {t[i] : i \in DOMAIN t}
    BY <1>1
  <2>2. ASSUME NEW i \in DOMAIN t
        PROVE  t[i] \in {s[k] : k \in DOMAIN s} \cup {c}
    BY <1>1
  <2> QED BY <2>1, <2>2
<1>3. \A i, j \in DOMAIN t : t[i] = t[j] => i = j
  BY <1>1
<1> QED BY <1>1, <1>2, <1>3 DEF t

\* Appending two different calls that are not queued adds exactly those two.
LEMMA AppendTwoToQueue ==
    ASSUME NEW S, NEW s \in Seq(S), NEW c \in S, NEW d \in S, c # d,
           c \notin {s[i] : i \in DOMAIN s}, d \notin {s[i] : i \in DOMAIN s},
           \A i, j \in DOMAIN s : s[i] = s[j] => i = j,
           NEW t, t = Append(Append(s, c), d)
    PROVE  /\ t \in Seq(S)
           /\ {t[i] : i \in DOMAIN t} = {s[i] : i \in DOMAIN s} \cup {c, d}
           /\ \A i, j \in DOMAIN t : t[i] = t[j] => i = j
<1>1. /\ t \in Seq(S) /\ Len(s) \in Nat /\ DOMAIN s = 1..Len(s)
      /\ DOMAIN t = 1..(Len(s) + 2) /\ t[Len(s) + 1] = c /\ t[Len(s) + 2] = d
      /\ \A i \in 1..Len(s) : t[i] = s[i]
  OBVIOUS
<1>2. {t[i] : i \in DOMAIN t} = {s[i] : i \in DOMAIN s} \cup {c, d}
  <2>1. ASSUME NEW x \in {s[i] : i \in DOMAIN s} \cup {c, d}
        PROVE  x \in {t[i] : i \in DOMAIN t}
    BY <1>1
  <2>2. ASSUME NEW i \in DOMAIN t
        PROVE  t[i] \in {s[k] : k \in DOMAIN s} \cup {c, d}
    BY <1>1
  <2> QED BY <2>1, <2>2
<1>3. \A i, j \in DOMAIN t : t[i] = t[j] => i = j
  BY <1>1
<1> QED BY <1>1, <1>2, <1>3

-----------------------------------------------------------------------------
(* The invariant. *)

LEMMA QueueInvInit == Init => QueueInv
<1> SUFFICES ASSUME Init PROVE QueueInv
  OBVIOUS
<1> USE DEF Init
<1>1. TypeOK
  <2>1. tasks \in Seq(Calls)
    OBVIOUS
  <2>2. rpcStats \in [count : Nat, successes : Nat, failures : Nat]
    BY DEF NoStats
  <2> QED BY <2>1, <2>2 DEF TypeOK
<1>2. NoCallLost
  BY DEF NoCallLost, Waiting, Queued
<1>3. IsFiniteSet(running) /\ Cardinality(running) <= Concurrency
  BY FS_EmptySet, ConcurrencyAssumption
<1>4. OnlyProbesUnverified
  BY DEF OnlyProbesUnverified, Waiting
<1> QED BY <1>1, <1>2, <1>3, <1>4 DEF QueueInv

\* The counters stay natural numbers whatever an answer is.
LEMMA LogStatsType ==
    ASSUME TypeOK, NEW answer \in Answers, LogStats(answer)
    PROVE  rpcStats' \in [count : Nat, successes : Nat, failures : Nat]
BY DEF TypeOK, LogStats, Logged, Answers

LEMMA CallKeepsInv ==
    ASSUME QueueInv, NEW c \in Calls, Call(c)
    PROVE  QueueInv'
<1> USE DEF Call, QueueInv
<1>1. c \notin Queued /\ c \notin Waiting
  BY DEF NoCallLost, Waiting
<1>2. CASE Admitted(c)
  <2>1. /\ tasks' = Append(tasks, c) /\ outcome' = [outcome EXCEPT ![c] = "waiting"]
        /\ UNCHANGED <<rpcConnected, rpcClient, running, rpcStats>>
    BY <1>2
  <2>a. /\ Append(tasks, c) \in Seq(Calls)
        /\ {Append(tasks, c)[i] : i \in DOMAIN Append(tasks, c)} = Queued \cup {c}
        /\ \A i, j \in DOMAIN Append(tasks, c) :
             Append(tasks, c)[i] = Append(tasks, c)[j] => i = j
    BY <1>1, AppendToQueue DEF TypeOK, NoCallLost, Queued
  <2>2. /\ tasks' \in Seq(Calls) /\ Queued' = Queued \cup {c}
        /\ \A i, j \in DOMAIN tasks' : tasks'[i] = tasks'[j] => i = j
    BY <2>1, <2>a DEF Queued
  <2>3. TypeOK'
    BY <2>1, <2>2 DEF TypeOK
  <2>4. Waiting' = Waiting \cup {c}
    BY <2>1 DEF TypeOK, Waiting
  <2>5. c \notin running
    BY <1>1 DEF NoCallLost
  <2>6. NoCallLost'
    BY <2>1, <2>2, <2>4, <2>5 DEF NoCallLost
  <2>7. OnlyProbesUnverified'
    BY <1>2, <2>1, <2>4 DEF OnlyProbesUnverified, Admitted
  <2> QED BY <2>1, <2>3, <2>6, <2>7
<1>3. CASE ~Admitted(c)
  <2>1. /\ outcome' = [outcome EXCEPT ![c] = "rejected"]
        /\ UNCHANGED <<rpcConnected, rpcClient, tasks, running, rpcStats>>
    BY <1>3
  <2>2. TypeOK'
    BY <2>1 DEF TypeOK, Settled
  <2>3. Waiting' = Waiting /\ Queued' = Queued
    BY <2>1, <1>1 DEF TypeOK, Waiting, Queued
  <2> QED BY <2>1, <2>2, <2>3 DEF NoCallLost, OnlyProbesUnverified
<1> QED BY <1>2, <1>3

LEMMA VerifyKeepsInv ==
    ASSUME QueueInv, NEW a \in Attempts, VerifyRpcConnection(a)
    PROVE  QueueInv'
<1> USE DEF VerifyRpcConnection, QueueInv
<1>1. /\ a[1] \in Calls /\ a[2] \in Calls /\ a[1] # a[2]
      /\ a[1] \in ProbeCalls /\ a[2] \in ProbeCalls
  BY CallsAssumption DEF ProbeCalls
<1>2. a[1] \notin Waiting /\ a[2] \notin Waiting
  BY DEF Waiting
<1>3. a[1] \notin Queued /\ a[2] \notin Queued
  BY <1>2 DEF NoCallLost
<1>4. /\ tasks' \in Seq(Calls) /\ Queued' = Queued \cup {a[1], a[2]}
      /\ \A i, j \in DOMAIN tasks' : tasks'[i] = tasks'[j] => i = j
  <2>1. tasks \in Seq(Calls) /\ \A i, j \in DOMAIN tasks : tasks[i] = tasks[j] => i = j
    BY DEF TypeOK, NoCallLost
  <2>2. tasks' = Append(Append(tasks, a[1]), a[2])
    OBVIOUS
  <2> HIDE DEF VerifyRpcConnection, QueueInv
  <2> QED BY <1>1, <1>3, <2>1, <2>2, AppendTwoToQueue, SMTT(30) DEF Queued
<1>5. TypeOK'
  BY <1>1, <1>4 DEF TypeOK
<1>6. Waiting' = Waiting \cup {a[1], a[2]}
  BY <1>1 DEF TypeOK, Waiting
<1>7. NoCallLost'
  BY <1>2, <1>4, <1>6 DEF NoCallLost
<1>8. OnlyProbesUnverified'
  BY <1>1, <1>6 DEF OnlyProbesUnverified
<1> QED BY <1>5, <1>7, <1>8

\* What the two ways of starting share: the head of the queue is a waiting
\* call that no worker holds, and taking it removes it.
LEMMA HeadIsWaiting ==
    ASSUME QueueInv, tasks # <<>>
    PROVE  /\ Head(tasks) \in Calls
           /\ Head(tasks) \in Waiting
           /\ Head(tasks) \notin running
           /\ Tail(tasks) \in Seq(Calls)
           /\ {Tail(tasks)[i] : i \in DOMAIN Tail(tasks)} = Queued \ {Head(tasks)}
           /\ \A i, j \in DOMAIN Tail(tasks) : Tail(tasks)[i] = Tail(tasks)[j] => i = j
BY TailOfQueue DEF QueueInv, TypeOK, NoCallLost, Queued

LEMMA StartKeepsInv ==
    ASSUME QueueInv, Start
    PROVE  QueueInv'
<1> DEFINE h == Head(tasks)
<1>1. /\ h \in Calls /\ h \in Waiting /\ h \notin running
      /\ tasks' \in Seq(Calls) /\ Queued' = Queued \ {h}
      /\ \A i, j \in DOMAIN tasks' : tasks'[i] = tasks'[j] => i = j
  BY HeadIsWaiting DEF Start, Queued
<1>2. /\ running' = running \cup {h} /\ Cardinality(running) < Concurrency
      /\ UNCHANGED <<rpcConnected, rpcClient, outcome, rpcStats>>
  BY DEF Start, FreeWorker
<1> HIDE DEF h
<1> USE DEF QueueInv
<1>3. TypeOK'
  BY <1>1, <1>2 DEF TypeOK
<1>4. Waiting' = Waiting /\ h \in Queued
  BY <1>1, <1>2 DEF Waiting, NoCallLost
<1>5. NoCallLost'
  BY <1>1, <1>2, <1>4 DEF NoCallLost
<1>6. IsFiniteSet(running') /\ Cardinality(running') = Cardinality(running) + 1
  BY <1>1, <1>2, FS_AddElement
<1>7. Cardinality(running') <= Concurrency
  BY <1>2, <1>6, FS_CardinalityType, ConcurrencyAssumption
<1>8. OnlyProbesUnverified'
  BY <1>2, <1>4 DEF OnlyProbesUnverified
<1> QED BY <1>3, <1>5, <1>6, <1>7, <1>8

LEMMA StartWithoutClientKeepsInv ==
    ASSUME QueueInv, StartWithoutClient
    PROVE  QueueInv'
<1> DEFINE h == Head(tasks)
<1>1. /\ h \in Calls /\ h \in Waiting /\ h \notin running
      /\ tasks' \in Seq(Calls) /\ Queued' = Queued \ {h}
      /\ \A i, j \in DOMAIN tasks' : tasks'[i] = tasks'[j] => i = j
  BY HeadIsWaiting DEF StartWithoutClient, Queued
<1>2. /\ outcome' = [outcome EXCEPT ![h] = "rejected"] /\ LogStats("failed")
      /\ UNCHANGED <<rpcConnected, rpcClient, running>>
  BY DEF StartWithoutClient
<1> HIDE DEF h
<1> USE DEF QueueInv
<1>3. TypeOK'
  BY <1>1, <1>2, LogStatsType DEF TypeOK, Settled, Answers
<1>4. Waiting' = Waiting \ {h}
  BY <1>1, <1>2 DEF TypeOK, Waiting
<1>5. NoCallLost'
  BY <1>1, <1>2, <1>4 DEF NoCallLost
<1>6. OnlyProbesUnverified'
  BY <1>2, <1>4 DEF OnlyProbesUnverified
<1> QED BY <1>2, <1>3, <1>5, <1>6

LEMMA AnswerKeepsInv ==
    ASSUME QueueInv, NEW c \in Calls, NEW answer \in Answers, Answer(c, answer)
    PROVE  QueueInv'
<1> USE DEF QueueInv
<1>1. /\ c \in running /\ running' = running \ {c}
      /\ outcome' = [outcome EXCEPT ![c] = OutcomeOf(answer)] /\ LogStats(answer)
      /\ UNCHANGED <<rpcConnected, rpcClient, tasks>>
  BY DEF Answer
<1>2. OutcomeOf(answer) \in Settled
  BY DEF OutcomeOf, Settled
<1>3. TypeOK'
  BY <1>1, <1>2, LogStatsType DEF TypeOK
<1>4. Waiting' = Waiting \ {c} /\ Queued' = Queued
  BY <1>1, <1>2 DEF TypeOK, Waiting, Queued, Settled
<1>5. NoCallLost'
  BY <1>1, <1>4 DEF NoCallLost
<1>6. /\ IsFiniteSet(running')
      /\ Cardinality(running') = Cardinality(running) - 1
      /\ Cardinality(running) \in Nat
  BY <1>1, FS_RemoveElement, FS_CardinalityType
<1>7. Cardinality(running') <= Concurrency
  BY <1>6, ConcurrencyAssumption
<1>8. OnlyProbesUnverified'
  BY <1>1, <1>4 DEF OnlyProbesUnverified
<1> QED BY <1>3, <1>5, <1>6, <1>7, <1>8

LEMMA QueueInvStep == QueueInv /\ [Next]_vars => QueueInv'
<1> SUFFICES ASSUME QueueInv, [Next]_vars PROVE QueueInv'
  OBVIOUS
<1>1. ASSUME NEW c \in Calls, Call(c) PROVE QueueInv'
  BY <1>1, CallKeepsInv
<1>2. ASSUME NEW c \in Calls, AnswerCall(c) PROVE QueueInv'
  BY <1>2, AnswerKeepsInv DEF AnswerCall
<1>3. ASSUME NEW a \in Attempts, VerifyRpcConnection(a) PROVE QueueInv'
  BY <1>3, VerifyKeepsInv
<1>4. ASSUME NEW a \in Attempts, RpcConnectionVerified(a) PROVE QueueInv'
  BY <1>4 DEF RpcConnectionVerified, QueueInv, TypeOK, NoCallLost, OnlyProbesUnverified,
              Waiting, Queued
<1>5. CASE Start
  BY <1>5, StartKeepsInv
<1>6. CASE StartWithoutClient
  BY <1>6, StartWithoutClientKeepsInv
<1>7. CASE Disconnect \/ ConnectToRpcServer
  BY <1>7 DEF Disconnect, ConnectToRpcServer, QueueInv, TypeOK, NoCallLost,
              OnlyProbesUnverified, Waiting, Queued
<1>8. CASE UNCHANGED vars
  BY <1>8 DEF vars, QueueInv, TypeOK, NoCallLost, OnlyProbesUnverified, Waiting, Queued
<1> QED BY <1>1, <1>2, <1>3, <1>4, <1>5, <1>6, <1>7, <1>8 DEF Next

LEMMA QueueInvAlways == Spec => []QueueInv
BY QueueInvInit, QueueInvStep, PTL DEF Spec

-----------------------------------------------------------------------------
(* Theorems. *)

\* Every value has the shape the code gives it.
THEOREM QueueTypeOK == Spec => []TypeOK
<1>1. QueueInv => TypeOK
  BY DEF QueueInv
<1> QED BY <1>1, QueueInvAlways, PTL

\* A promise is pending exactly while its task is queued, once, or held by one
\* worker of rpcQueue: no caller is forgotten and no request is sent twice.
THEOREM QueueLosesNoCall == Spec => []NoCallLost
<1>1. QueueInv => NoCallLost
  BY DEF QueueInv
<1> QED BY <1>1, QueueInvAlways, PTL

\* Before the node is verified only verifyingConnection calls wait for it.
THEOREM QueueOnlyProbesUnverified == Spec => []OnlyProbesUnverified
<1>1. QueueInv => OnlyProbesUnverified
  BY DEF QueueInv
<1> QED BY <1>1, QueueInvAlways, PTL

-----------------------------------------------------------------------------
(* The dashboard's numbers. *)

Resolved == {c \in Calls : outcome[c] = "resolved"}

\* Only finitely many calls have been resolved, although Calls may be infinite:
\* without that their number could not be counted on.
StatsInv ==
    /\ IsFiniteSet(Resolved)
    /\ rpcStats.successes = Cardinality(Resolved)
    /\ rpcStats.count = rpcStats.successes + rpcStats.failures

\* A step that resolves no call and logs none, or logs failures only, keeps the
\* numbers.
LEMMA UnresolvedKeepsStats ==
    ASSUME QueueInv, StatsInv, Resolved' = Resolved,
           rpcStats' = rpcStats \/ LogStats("failed")
    PROVE  StatsInv'
<1>1. rpcStats.failures \in Nat /\ rpcStats.successes \in Nat
  BY DEF QueueInv, TypeOK
<1>2. CASE rpcStats' = rpcStats
  BY <1>2 DEF StatsInv
<1>3. CASE LogStats("failed")
  BY <1>1, <1>3 DEF StatsInv, LogStats, Logged
<1> QED BY <1>2, <1>3

\* One resolved call more is one success more.
LEMMA AnswerKeepsStats ==
    ASSUME QueueInv, StatsInv, NEW c \in Calls, NEW answer \in Answers, Answer(c, answer)
    PROVE  StatsInv'
<1>1. /\ c \in running /\ outcome' = [outcome EXCEPT ![c] = OutcomeOf(answer)] /\ LogStats(answer)
      /\ outcome \in [Calls -> {"idle", "waiting"} \cup Settled]
      /\ rpcStats \in [count : Nat, successes : Nat, failures : Nat]
  BY DEF Answer, QueueInv, TypeOK
<1>2. c \in Waiting
  BY <1>1 DEF QueueInv, NoCallLost
<1>3. c \notin Resolved
  BY <1>2 DEF Resolved, Waiting
<1>4. CASE answer = "ok"
  <2>1. Resolved' = Resolved \cup {c}
    BY <1>1, <1>4 DEF Resolved, OutcomeOf
  <2>2. IsFiniteSet(Resolved') /\ Cardinality(Resolved') = Cardinality(Resolved) + 1
    BY <1>3, <2>1, FS_AddElement DEF StatsInv
  <2>3. /\ rpcStats'.successes = rpcStats.successes + 1 /\ rpcStats'.failures = rpcStats.failures
        /\ rpcStats'.count = rpcStats.count + 1
    BY <1>1, <1>4 DEF LogStats, Logged
  <2> QED BY <1>1, <2>2, <2>3 DEF StatsInv
<1>5. CASE answer # "ok"
  <2>1. Resolved' = Resolved
    BY <1>1, <1>3, <1>5 DEF Resolved, OutcomeOf
  <2>2. \E n \in Nat : /\ rpcStats'.successes = rpcStats.successes /\ rpcStats'.failures = rpcStats.failures + n
                       /\ rpcStats'.count = rpcStats.count + n
    <3>1. CASE answer = "rpcError"
      BY <1>1, <3>1 DEF LogStats, Logged
    <3>2. CASE answer = "failed"
      BY <1>1, <3>2 DEF LogStats, Logged
    <3> QED BY <1>5, <3>1, <3>2 DEF Answers
  <2> QED BY <1>1, <2>1, <2>2 DEF StatsInv
<1> QED BY <1>4, <1>5

\* Every action counts what it ends.
LEMMA StatsInvStep == QueueInv /\ StatsInv /\ [Next]_vars => StatsInv'
<1> SUFFICES ASSUME QueueInv, StatsInv, [Next]_vars PROVE StatsInv'
  OBVIOUS
<1>1. outcome \in [Calls -> {"idle", "waiting"} \cup Settled]
  BY DEF QueueInv, TypeOK
<1>2. ASSUME NEW c \in Calls, Call(c) PROVE StatsInv'
  <2>1. Resolved' = Resolved
    BY <1>1, <1>2 DEF Call, Resolved
  <2> QED BY <1>2, <2>1, UnresolvedKeepsStats DEF Call
<1>3. ASSUME NEW c \in Calls, AnswerCall(c) PROVE StatsInv'
  BY <1>3, AnswerKeepsStats DEF AnswerCall
<1>4. ASSUME NEW a \in Attempts, VerifyRpcConnection(a) PROVE StatsInv'
  <2>1. Resolved' = Resolved
    BY <1>1, <1>4 DEF VerifyRpcConnection, Resolved
  <2> QED BY <1>4, <2>1, UnresolvedKeepsStats DEF VerifyRpcConnection
<1>5. CASE StartWithoutClient
  <2>1. tasks \in Seq(Calls) /\ tasks # <<>> /\ Head(tasks) \in Waiting
    BY <1>5, HeadIsWaiting DEF StartWithoutClient, QueueInv, TypeOK
  <2>2. Resolved' = Resolved
    BY <1>1, <1>5, <2>1 DEF StartWithoutClient, Resolved, Waiting
  <2> QED BY <1>5, <2>2, UnresolvedKeepsStats DEF StartWithoutClient
<1>6. ASSUME UNCHANGED <<outcome, rpcStats>> PROVE StatsInv'
  <2>1. Resolved' = Resolved
    BY <1>6 DEF Resolved
  <2> QED BY <1>6, <2>1, UnresolvedKeepsStats
<1>7. ASSUME NEW a \in Attempts, RpcConnectionVerified(a) PROVE StatsInv'
  BY <1>6, <1>7 DEF RpcConnectionVerified
<1>8. CASE Start \/ Disconnect \/ ConnectToRpcServer \/ UNCHANGED vars
  BY <1>6, <1>8 DEF Start, Disconnect, ConnectToRpcServer, vars
<1> QED BY <1>2, <1>3, <1>4, <1>5, <1>7, <1>8 DEF Next

\* logStats and the promises agree: the dashboard's successes are exactly the
\* calls that were resolved, although an RpcError is logged twice.
THEOREM QueueStatsAgree == Spec => []StatsAgree
<1>1. Init => StatsInv
  BY FS_EmptySet DEF Init, StatsInv, Resolved, NoStats
<1>2. StatsInv => StatsAgree
  BY DEF StatsInv, StatsAgree, Resolved
<1> QED BY <1>1, <1>2, StatsInvStep, QueueInvAlways, PTL DEF Spec

-----------------------------------------------------------------------------
(* The queue implements RpcService: every step of the queue is a step of   *)
(* the service, or leaves what the service shows unchanged.                *)

LEMMA CallImplements ==
    ASSUME QueueInv, NEW c \in Calls, Call(c)
    PROVE  Service!Next
<1> USE DEF Call, QueueInv, TypeOK
<1>1. CASE Admitted(c)
  <2>1. outcome' = [d \in Calls |-> IF d \in {c} THEN "waiting" ELSE outcome[d]]
    BY <1>1
  <2>2. Service!Accept({c})
    BY <1>1, <2>1 DEF Service!Accept, Admitted
  <2> QED BY <2>2 DEF Service!Next
<1>2. CASE ~Admitted(c)
  <2>1. Service!Refuse(c)
    BY <1>2 DEF Service!Refuse, Admitted
  <2> QED BY <2>1 DEF Service!Next
<1> QED BY <1>1, <1>2

LEMMA VerifyImplements ==
    ASSUME QueueInv, NEW a \in Attempts, VerifyRpcConnection(a)
    PROVE  Service!Next
<1> USE DEF VerifyRpcConnection, QueueInv, TypeOK
<1>1. {a[1], a[2]} \subseteq Calls \cap ProbeCalls
  BY CallsAssumption DEF ProbeCalls
<1>2. outcome' = [d \in Calls |-> IF d \in {a[1], a[2]} THEN "waiting" ELSE outcome[d]]
  BY <1>1
<1>3. Service!Accept({a[1], a[2]})
  BY <1>1, <1>2 DEF Service!Accept
<1> QED BY <1>1, <1>3 DEF Service!Next

LEMMA VerifiedImplements ==
    ASSUME NEW a \in Attempts, RpcConnectionVerified(a)
    PROVE  Service!Next
<1>1. a[1] \in ProbeCalls
  BY CallsAssumption DEF ProbeCalls
<1>2. Service!Connect
  BY <1>1 DEF RpcConnectionVerified, Service!Connect
<1> QED BY <1>2 DEF Service!Next

LEMMA StartImplements ==
    ASSUME QueueInv, Start
    PROVE  Service!Next
<1> DEFINE h == Head(tasks)
<1>1. h \in Calls /\ h \in Waiting /\ h \notin running
  BY HeadIsWaiting DEF Start
<1>2. /\ running' = running \cup {h} /\ Cardinality(running) < Concurrency
      /\ UNCHANGED <<rpcConnected, outcome>>
  BY DEF Start, FreeWorker
<1> HIDE DEF h
<1>3. Service!Cardinality(running) = Cardinality(running)
  BY DEF Service!Cardinality, Cardinality
<1>4. Service!Serve(h)
  BY <1>1, <1>2, <1>3 DEF Service!Serve, Waiting
<1> QED BY <1>1, <1>4 DEF Service!Next

LEMMA StartWithoutClientImplements ==
    ASSUME QueueInv, StartWithoutClient
    PROVE  Service!Next
<1>1. Head(tasks) \in Calls /\ Head(tasks) \in Waiting /\ Head(tasks) \notin running
  BY HeadIsWaiting DEF StartWithoutClient
<1>2. Service!Settle(Head(tasks))
  BY <1>1 DEF Service!Settle, Service!Settled, StartWithoutClient, Waiting
<1> QED BY <1>1, <1>2 DEF Service!Next

LEMMA AnswerImplements ==
    ASSUME QueueInv, NEW c \in Calls, NEW answer \in Answers, Answer(c, answer)
    PROVE  Service!Next
<1>1. outcome[c] = "waiting"
  BY DEF QueueInv, NoCallLost, Waiting, Answer
<1>2. OutcomeOf(answer) \in Service!Settled
  BY DEF OutcomeOf, Service!Settled
<1>3. Service!Settle(c)
  BY <1>1, <1>2 DEF Service!Settle, Answer
<1> QED BY <1>3 DEF Service!Next

\* rpcQueue keeps the promise of RpcService: each accepted call is settled
\* exactly once, calls before verification are refused unless they are
\* probes, and the node never has more than rpcConcurrency requests.
THEOREM QueueImplementsService == Spec => ServiceSpec
<1>1. Init => Service!Init
  BY DEF Init, Service!Init
<1>2. ASSUME QueueInv, [Next]_vars
      PROVE  [Service!Next]_(Service!vars)
  <2>1. ASSUME NEW c \in Calls, Call(c) PROVE Service!Next
    BY <1>2, <2>1, CallImplements
  <2>2. ASSUME NEW c \in Calls, AnswerCall(c) PROVE Service!Next
    BY <1>2, <2>2, AnswerImplements DEF AnswerCall
  <2>3. ASSUME NEW a \in Attempts, VerifyRpcConnection(a) PROVE Service!Next
    BY <1>2, <2>3, VerifyImplements
  <2>4. ASSUME NEW a \in Attempts, RpcConnectionVerified(a) PROVE Service!Next
    BY <1>2, <2>4, VerifiedImplements
  <2>5. CASE Start
    BY <1>2, <2>5, StartImplements
  <2>6. CASE StartWithoutClient
    BY <1>2, <2>6, StartWithoutClientImplements
  <2>7. CASE Disconnect \/ ConnectToRpcServer
    BY <2>7 DEF Disconnect, ConnectToRpcServer, Service!vars
  <2>8. CASE UNCHANGED vars
    BY <2>8 DEF vars, Service!vars
  <2> QED BY <1>2, <2>1, <2>2, <2>3, <2>4, <2>5, <2>6, <2>7, <2>8 DEF Next
<1> QED BY <1>1, <1>2, QueueInvAlways, PTL DEF Spec, ServiceSpec, Service!Spec
=============================================================================
