------------------------ MODULE MiningSummaryProofs ------------------------
(***************************************************************************)
(* The drain event of a queue that all builds share covers the tasks of    *)
(* the build that waits for it, and the status of a build is complete       *)
(* exactly as long as its summary waits to be fetched: for any builds,     *)
(* ranges and workers.                                                     *)
(***************************************************************************)
EXTENDS MiningSummary, TLAPS, FiniteSetTheorems

Stages == {"idle", "loop", "draining", "drained"} \cup Ended

\* The shape of the state, as far as the argument needs it.
QueueTypes ==
    /\ tasks \in Seq(Tasks) /\ running \subseteq Tasks
    /\ pc \in [Builds -> Stages]

Open == running \cup {tasks[i] : i \in DOMAIN tasks}

\* A task is open only while its build pushes tasks or waits for the drain.
\* This adds to DrainCoversOwnTasks that a build has none before it starts,
\* without which the build's first lookups could meet tasks of their own.
TasksHaveBuild == \A t \in Open : pc[t[1]] \in {"loop", "draining"}

DrainInv == QueueTypes /\ TasksHaveBuild

-----------------------------------------------------------------------------
(* Which tasks an operation on the queue leaves open. *)

LEMMA AppendedTasks ==
    ASSUME NEW S, NEW s \in Seq(S), NEW x \in S, NEW t, t = Append(s, x)
    PROVE  /\ t \in Seq(S)
           /\ {t[i] : i \in DOMAIN t} \subseteq {s[i] : i \in DOMAIN s} \cup {x}
<1>1. /\ t \in Seq(S) /\ Len(s) \in Nat /\ DOMAIN s = 1..Len(s)
      /\ DOMAIN t = 1..(Len(s) + 1) /\ t[Len(s) + 1] = x
      /\ \A i \in 1..Len(s) : t[i] = s[i]
    OBVIOUS
<1> QED BY <1>1

LEMMA RemainingTasks ==
    ASSUME NEW S, NEW s \in Seq(S), s # <<>>
    PROVE  /\ Tail(s) \in Seq(S)
           /\ Head(s) \in {s[i] : i \in DOMAIN s}
           /\ Head(s) \in S
           /\ {Tail(s)[i] : i \in DOMAIN Tail(s)} \subseteq {s[i] : i \in DOMAIN s}
<1>1. /\ Tail(s) \in Seq(S) /\ Len(s) \in Nat \ {0} /\ Head(s) = s[1]
      /\ DOMAIN s = 1..Len(s) /\ DOMAIN Tail(s) = 1..(Len(s) - 1)
      /\ \A i \in 1..(Len(s) - 1) : Tail(s)[i] = s[i + 1]
    OBVIOUS
<1> QED BY <1>1

\* The first component of a task is its build.
LEMMA BuildOfTask == \A t \in Tasks : t[1] \in Builds
BY DEF Tasks

LEMMA DrainInvInit == Init => DrainInv
<1> SUFFICES ASSUME Init PROVE DrainInv
    OBVIOUS
<1>1. tasks \in Seq(Tasks) /\ DOMAIN tasks = {} /\ running = {}
    BY DEF Init
<1> QED BY <1>1 DEF Init, DrainInv, QueueTypes, TasksHaveBuild, Open, Stages

-----------------------------------------------------------------------------

\* The loop pushes a task of its own build.
LEMMA LookUpKeepsInv ==
    ASSUME DrainInv, NEW b \in Builds, LookUpHeight(b)
    PROVE  DrainInv'
<1>1. /\ pc[b] = "loop" /\ pc' = pc /\ running' = running
      /\ height[b] \in Heights(b)
      /\ tasks' = tasks \/ tasks' = Append(tasks, <<b, height[b]>>)
    BY DEF LookUpHeight
<1>2. <<b, height[b]>> \in Tasks
    BY <1>1 DEF Tasks
<1>3. tasks' \in Seq(Tasks) /\ Open' \subseteq Open \cup {<<b, height[b]>>}
    <2>1. tasks \in Seq(Tasks)
        BY DEF DrainInv, QueueTypes
    <2>2. CASE tasks' = tasks
        BY <1>1, <2>1, <2>2 DEF Open
    <2>3. CASE tasks' = Append(tasks, <<b, height[b]>>)
        BY <1>1, <1>2, <2>1, <2>3, AppendedTasks DEF Open
    <2> QED BY <1>1, <2>2, <2>3
<1> QED BY <1>1, <1>3 DEF DrainInv, QueueTypes, TasksHaveBuild

\* A worker takes the oldest task: the open tasks stay the same.
LEMMA StartTaskKeepsInv ==
    ASSUME DrainInv, StartTask
    PROVE  DrainInv'
<1>1. /\ tasks # <<>> /\ tasks' = Tail(tasks)
      /\ running' = running \cup {Head(tasks)} /\ pc' = pc
    BY DEF StartTask, buildVars
<1>2. tasks' \in Seq(Tasks) /\ Head(tasks) \in Tasks /\ Open' \subseteq Open
    BY <1>1, RemainingTasks DEF DrainInv, QueueTypes, Open
<1> QED BY <1>1, <1>2 DEF DrainInv, QueueTypes, TasksHaveBuild

\* A task ends.  If it was the last one nothing is open when the builds that
\* wait go on; otherwise none of them goes on.
LEMMA CallbackKeepsInv ==
    ASSUME DrainInv, NEW t \in Tasks, callback(t), tasks' = tasks
    PROVE  DrainInv'
<1>1. /\ running' = running \ {t}
      /\ pc' = [b \in Builds |->
                  IF pc[b] = "draining" /\ tasks = <<>> /\ running = {t}
                  THEN "drained" ELSE pc[b]]
    BY DEF callback
<1>2. QueueTypes'
    BY <1>1 DEF DrainInv, QueueTypes, Stages
<1>3. Open' \subseteq Open
    BY <1>1 DEF Open
<1>4. CASE tasks = <<>> /\ running = {t}
    <2>1. Open' = {}
        BY <1>1, <1>4 DEF Open
    <2> QED BY <1>2, <2>1 DEF DrainInv, TasksHaveBuild
<1>5. CASE ~(tasks = <<>> /\ running = {t})
    <2>1. pc' = pc
        BY <1>1, <1>5 DEF DrainInv, QueueTypes
    <2> QED BY <1>2, <1>3, <2>1 DEF DrainInv, TasksHaveBuild
<1> QED BY <1>4, <1>5

\* The loop is over: the build goes on at once only if the queue is idle.
LEMMA EndLoopKeepsInv ==
    ASSUME DrainInv, NEW b \in Builds, EndLoop(b)
    PROVE  DrainInv'
<1>1. /\ pc[b] = "loop" /\ tasks' = tasks /\ running' = running
      /\ pc' = [pc EXCEPT ![b] = IF idle THEN "drained" ELSE "draining"]
    BY DEF EndLoop, queueVars
<1>2. QueueTypes'
    BY <1>1 DEF DrainInv, QueueTypes, Stages
<1>3. Open' = Open
    BY <1>1 DEF Open
<1>4. CASE idle
    <2>1. Open = {}
        BY <1>4 DEF idle, Open
    <2> QED BY <1>2, <1>3, <2>1 DEF DrainInv, TasksHaveBuild
<1>5. CASE ~idle
    BY <1>1, <1>2, <1>3, <1>5, BuildOfTask DEF DrainInv, QueueTypes, TasksHaveBuild
<1> QED BY <1>4, <1>5

\* A build that starts or sums up has no open task, before and after.
LEMMA StageKeepsInv ==
    ASSUME DrainInv, NEW b \in Builds, Build(b) \/ Summarise(b)
    PROVE  DrainInv'
<1>1. /\ pc[b] \in {"idle", "drained"} /\ tasks' = tasks /\ running' = running
      /\ \E stage \in {"loop", "built", "failed"} : pc' = [pc EXCEPT ![b] = stage]
    BY DEF Build, Summarise, queueVars
<1>2. QueueTypes' /\ Open' = Open
    BY <1>1 DEF DrainInv, QueueTypes, Stages, Ended, Open
<1>3. \A t \in Open : t[1] # b
    BY <1>1 DEF DrainInv, TasksHaveBuild
<1> QED BY <1>1, <1>2, <1>3 DEF DrainInv, QueueTypes, TasksHaveBuild

LEMMA DrainInvStep == DrainInv /\ [Next]_vars => DrainInv'
<1> SUFFICES ASSUME DrainInv, [Next]_vars PROVE DrainInv'
    OBVIOUS
<1>1. ASSUME UNCHANGED <<tasks, running, pc>> PROVE DrainInv'
    BY <1>1 DEF DrainInv, QueueTypes, TasksHaveBuild, Open
<1>2. ASSUME NEW b \in Builds,
             loadMiningData(b) \/ updateStatus(b) \/ GetMiningSummary(b) \/ Close(b)
      PROVE  DrainInv'
    BY <1>1, <1>2 DEF loadMiningData, updateStatus, GetMiningSummary, Close, queueVars, buildVars
<1>3. ASSUME NEW t \in Tasks, TaskAdvances(t) PROVE DrainInv'
    BY <1>1, <1>3 DEF TaskAdvances
<1>4. ASSUME NEW t \in Tasks, TaskSucceeds(t) \/ TaskFails(t) PROVE DrainInv'
    BY <1>4, CallbackKeepsInv DEF TaskSucceeds, TaskFails
<1>5. ASSUME Evict \/ UNCHANGED vars PROVE DrainInv'
    BY <1>1, <1>5 DEF Evict, vars, queueVars, buildVars
<1> QED
    BY <1>2, <1>3, <1>4, <1>5, LookUpKeepsInv, StartTaskKeepsInv, EndLoopKeepsInv,
       StageKeepsInv DEF Next

LEMMA DrainInvAlways == Spec => []DrainInv
BY DrainInvInit, DrainInvStep, PTL DEF Spec

\* A build sums up only when none of its tasks is open, although the loops of
\* the builds, the queue and its drain events interleave (the drain of
\* miningPromiseQueue that buildMiningSummary awaits).
THEOREM DrainCovers == Spec => []DrainCoversOwnTasks
<1>1. DrainInv => DrainCoversOwnTasks
    BY DEF DrainInv, TasksHaveBuild, Open, DrainCoversOwnTasks, OpenTasks, Ended
<1> QED BY <1>1, DrainInvAlways, PTL

-----------------------------------------------------------------------------
(* The progress of a build.  It is exact: what doneCount counts is a set. *)

\* The shape of the counts.
CountTypes ==
    /\ height \in [Builds -> Nat] /\ doneCount \in [Builds -> Nat]
    /\ itemsDone \in [Tasks -> Nat]

\* No task waits twice, none waits and runs.
TaskOnce ==
    /\ \A i, j \in DOMAIN tasks : tasks[i] = tasks[j] => i = j
    /\ \A i \in DOMAIN tasks : tasks[i] \notin running

\* The loop has passed the height of an open task, which has an item left.
OpenIsPassed ==
    \A t \in Open : t[2] \in Heights(t[1]) /\ t[2] < height[t[1]] /\ itemsDone[t] <= 2

\* A height that the loop has not reached has no item done.
AheadIsFresh ==
    \A b \in Builds : \A h \in Heights(b) : h >= height[b] => itemsDone[<<b, h>>] = 0

\* The items of the heights passed, without those an open task has left.
Items(b) ==
    {x \in Heights(b) \X (1..3) :
        x[1] < height[b] /\ (<<b, x[1]>> \in Open => x[2] <= itemsDone[<<b, x[1]>>])}

CountIsExact == \A b \in Builds : doneCount[b] = Cardinality(Items(b))

\* While a build is under way its status shows that count; the count of all
\* items and one more is shown exactly as long as the summary is kept.
StatusOfBuild ==
    /\ \A b \in Builds : pc[b] = "idle" => doneCount[b] = 0
    /\ \A b \in miningSummaries : b \in Builds /\ pc[b] = "built"
    /\ \A b \in DOMAIN miningSummaryStatuses : b \in Builds /\ pc[b] # "idle"
    /\ \A b \in DOMAIN miningSummaryStatuses :
        pc[b] # "built" => miningSummaryStatuses[b] = doneCount[b] /\ b \notin miningSummaries
    /\ \A b \in DOMAIN miningSummaryStatuses :
        pc[b] = "built" => miningSummaryStatuses[b] = Total(b) /\ b \in miningSummaries

\* What a build counts as done is what it has stored or given up.
CountInv ==
    /\ DrainInv /\ CountTypes /\ TaskOnce /\ OpenIsPassed /\ AheadIsFresh
    /\ CountIsExact /\ StatusOfBuild

-----------------------------------------------------------------------------
(* Sets of items and the queue without repetitions. *)

\* The items of a height after the first m of its three.
Rest(h, m) == {<<h, k>> : k \in (m + 1)..3}

\* What is added when m of the three items were there already.
LEMMA AddRest ==
    ASSUME NEW S, IsFiniteSet(S), NEW h, NEW m \in 0..3,
           Rest(h, m) \cap S = {}
    PROVE  Cardinality(S \cup Rest(h, m)) = Cardinality(S) + 3 - m
<1> DEFINE S3 == S \cup {<<h, 3>>}
           S2 == S3 \cup {<<h, 2>>}
           S1 == S2 \cup {<<h, 1>>}
<1>1. Cardinality(S) \in Nat
    BY FS_CardinalityType
<1>9. \A k \in 1..3 : k > m => <<h, k>> \notin S
    BY DEF Rest
<1>2. m < 3 => IsFiniteSet(S3) /\ Cardinality(S3) = Cardinality(S) + 1
    BY <1>9, FS_AddElement
<1>3. m < 2 => IsFiniteSet(S2) /\ Cardinality(S2) = Cardinality(S3) + 1
    <2>1. m < 2 => <<h, 2>> \notin S3
        BY <1>9
    <2> QED BY <1>2, <2>1, FS_AddElement
<1>4. m < 1 => IsFiniteSet(S1) /\ Cardinality(S1) = Cardinality(S2) + 1
    <2>1. m < 1 => <<h, 1>> \notin S2
        BY <1>9
    <2> QED BY <1>3, <2>1, FS_AddElement
<1>5. CASE m = 3
    <2>1. (m + 1)..3 = {}
        BY <1>5
    <2>2. S \cup Rest(h, m) = S
        BY <2>1 DEF Rest
    <2> QED BY <1>1, <1>5, <2>2
<1>6. CASE m = 2
    <2>1. (m + 1)..3 = {3}
        BY <1>6
    <2>2. S \cup Rest(h, m) = S3
        BY <2>1 DEF Rest
    <2> HIDE DEF S1, S2, S3
    <2> QED BY <1>1, <1>2, <1>6, <2>2
<1>7. CASE m = 1
    <2>1. (m + 1)..3 = {2, 3}
        BY <1>7
    <2>2. S \cup Rest(h, m) = S2
        BY <2>1 DEF Rest
    <2> HIDE DEF S1, S2, S3
    <2>3. Cardinality(S2) = Cardinality(S) + 2
        BY <1>1, <1>2, <1>3, <1>7
    <2>4. Cardinality(S) + 3 - m = Cardinality(S) + 2
        BY <1>1, <1>7
    <2> QED BY <2>2, <2>3, <2>4
<1>8. CASE m = 0
    <2>1. (m + 1)..3 = {1, 2, 3}
        BY <1>8
    <2>2. S \cup Rest(h, m) = S1
        BY <2>1 DEF Rest
    <2> HIDE DEF S1, S2, S3
    <2>3. Cardinality(S1) = Cardinality(S) + 3
        BY <1>1, <1>2, <1>3, <1>4, <1>8
    <2>4. Cardinality(S) + 3 - m = Cardinality(S) + 3
        BY <1>1, <1>8
    <2> QED BY <2>2, <2>3, <2>4
<1> QED BY <1>5, <1>6, <1>7, <1>8

\* A task that is put behind a queue of others is in it once.
LEMMA AppendOnce ==
    ASSUME NEW S, NEW s \in Seq(S), NEW x \in S, NEW t, t = Append(s, x),
           \A i, j \in DOMAIN s : s[i] = s[j] => i = j,
           \A i \in DOMAIN s : s[i] # x
    PROVE  /\ \A i, j \in DOMAIN t : t[i] = t[j] => i = j
           /\ {t[i] : i \in DOMAIN t} = {s[i] : i \in DOMAIN s} \cup {x}
<1>1. /\ Len(s) \in Nat /\ DOMAIN s = 1..Len(s)
      /\ DOMAIN t = 1..(Len(s) + 1) /\ t[Len(s) + 1] = x
      /\ \A i \in 1..Len(s) : t[i] = s[i]
    OBVIOUS
<1>2. \A i \in DOMAIN t : i \in DOMAIN s \/ i = Len(s) + 1
    BY <1>1
<1>3. \A i \in DOMAIN s : i \in DOMAIN t
    BY <1>1
<1>4. {t[i] : i \in DOMAIN t} = {s[i] : i \in DOMAIN s} \cup {x}
    BY <1>1, <1>2, <1>3
<1>5. \A i, j \in DOMAIN t : t[i] = t[j] => i = j
    BY <1>1, <1>2
<1> QED BY <1>4, <1>5

\* What is left of a queue without its first task.
LEMMA TailOnce ==
    ASSUME NEW S, NEW s \in Seq(S), s # <<>>,
           \A i, j \in DOMAIN s : s[i] = s[j] => i = j
    PROVE  /\ \A i, j \in DOMAIN Tail(s) : Tail(s)[i] = Tail(s)[j] => i = j
           /\ \A i \in DOMAIN Tail(s) : Tail(s)[i] # Head(s)
           /\ {Tail(s)[i] : i \in DOMAIN Tail(s)} \cup {Head(s)} = {s[i] : i \in DOMAIN s}
           /\ \A i \in DOMAIN Tail(s) : Tail(s)[i] \in {s[j] : j \in DOMAIN s}
<1> DEFINE t == Tail(s)
<1>1. /\ Len(s) \in Nat \ {0} /\ Head(s) = s[1] /\ DOMAIN s = 1..Len(s)
      /\ DOMAIN t = 1..(Len(s) - 1) /\ \A i \in 1..(Len(s) - 1) : t[i] = s[i + 1]
    OBVIOUS
<1> HIDE DEF t
<1>2. \A i \in DOMAIN t : i \in Nat /\ i + 1 \in DOMAIN s /\ i + 1 # 1 /\ t[i] = s[i + 1]
    BY <1>1
<1>3. \A j \in DOMAIN s : j = 1 \/ \E i \in DOMAIN t : t[i] = s[j]
    <2> TAKE j \in DOMAIN s
    <2>1. j # 1 => j - 1 \in DOMAIN t /\ (j - 1) + 1 = j
        BY <1>1
    <2> QED BY <1>2, <2>1
<1>4. 1 \in DOMAIN s
    BY <1>1
<1>5. \A i, j \in DOMAIN t : t[i] = t[j] => i = j
    BY <1>2
<1>6. \A i \in DOMAIN t : t[i] # Head(s) /\ t[i] \in {s[j] : j \in DOMAIN s}
    BY <1>1, <1>2, <1>4
<1>7. {t[i] : i \in DOMAIN t} \cup {Head(s)} = {s[i] : i \in DOMAIN s}
    <2>1. Head(s) \in {s[i] : i \in DOMAIN s}
        BY <1>1, <1>4
    <2>2. {t[i] : i \in DOMAIN t} \subseteq {s[i] : i \in DOMAIN s}
        BY <1>6
    <2>3. ASSUME NEW j \in DOMAIN s
          PROVE  s[j] \in {t[i] : i \in DOMAIN t} \cup {Head(s)}
        BY <1>1, <1>3
    <2> QED BY <2>1, <2>2, <2>3
<1> QED BY <1>5, <1>6, <1>7 DEF t

\* The items of a range are finitely many, fewer than the count of the end.
LEMMA ItemsAreBelowTotal ==
    ASSUME NEW b \in Builds
    PROVE  /\ IsFiniteSet(Items(b)) /\ Cardinality(Items(b)) \in Nat
           /\ Total(b) \in Nat /\ Cardinality(Items(b)) < Total(b)
<1>1. First[b] \in Int /\ Last[b] \in Int
    BY RangesAssumption DEF RangesAssumption
<1>2. IsFiniteSet(Heights(b)) /\ Cardinality(Heights(b)) \in Nat
    BY <1>1, FS_Interval, FS_CardinalityType DEF Heights
<1>3. IsFiniteSet(1..3) /\ Cardinality(1..3) = 3
    <2>1. 1 \in Int /\ 3 \in Int /\ ~(1 > 3) /\ 3 - 1 + 1 = 3
        OBVIOUS
    <2>2. Cardinality(1..3) = IF 1 > 3 THEN 0 ELSE 3 - 1 + 1
        BY <2>1, FS_Interval
    <2> QED BY <2>1, <2>2, FS_Interval
<1>4. /\ IsFiniteSet(Heights(b) \X (1..3))
      /\ Cardinality(Heights(b) \X (1..3)) = Cardinality(Heights(b)) * 3
    BY <1>2, <1>3, FS_Product
<1>5. Items(b) \subseteq Heights(b) \X (1..3)
    BY DEF Items
<1>6. /\ IsFiniteSet(Items(b)) /\ Cardinality(Items(b)) \in Nat
      /\ Cardinality(Items(b)) <= Cardinality(Heights(b)) * 3
    BY <1>4, <1>5, FS_Subset, FS_CardinalityType
<1> QED BY <1>2, <1>6 DEF Total

\* No build has begun.
LEMMA CountInvInit == Init => CountInv
<1> SUFFICES ASSUME Init PROVE CountInv
    OBVIOUS
<1>1. tasks = <<>> /\ DOMAIN tasks = {} /\ running = {} /\ Open = {}
    BY DEF Init, Open
<1>2. height \in [Builds -> Nat] /\ height = First
    BY RangesAssumption DEF RangesAssumption, Init
<1>3. CountTypes /\ AheadIsFresh
    BY <1>2 DEF Init, CountTypes, AheadIsFresh, Tasks
<1>4. CountIsExact
    <2>1. ASSUME NEW b \in Builds PROVE Items(b) = {}
        BY <1>2, RangesAssumption DEF RangesAssumption, Items, Heights
    <2> QED BY <2>1, FS_EmptySet DEF Init, CountIsExact
<1>5. StatusOfBuild
    BY DEF Init, StatusOfBuild
<1> QED BY <1>1, <1>3, <1>4, <1>5, DrainInvInit DEF CountInv, TaskOnce, OpenIsPassed

-----------------------------------------------------------------------------
(* How an operation counts. *)

\* A status that was set is the new one; the others are as they were.
LEMMA StatusIsSet ==
    ASSUME NEW b, NEW done, SetStatus(b, done)
    PROVE  /\ DOMAIN miningSummaryStatuses' = DOMAIN miningSummaryStatuses \cup {b}
           /\ miningSummaryStatuses'[b] = done
           /\ \A i \in DOMAIN miningSummaryStatuses :
                i # b => miningSummaryStatuses'[i] = miningSummaryStatuses[i]
BY DEF SetStatus

\* Items m + 1 to 3, or item m + 1, of height h of build b are done now, and
\* markItemsDone has counted as many: the count stays exact.
LEMMA CountStaysExact ==
    ASSUME CountTypes, CountIsExact, NEW b \in Builds, NEW count \in Nat,
           NEW D,
           markItemsDone(b, count),
           Items(b)' = Items(b) \cup D,
           Cardinality(Items(b) \cup D) = Cardinality(Items(b)) + count,
           \A c \in Builds : c # b => Items(c)' = Items(c)
    PROVE  CountIsExact' /\ doneCount' \in [Builds -> Nat]
<1>1. doneCount' = [doneCount EXCEPT ![b] = @ + count] /\ doneCount \in [Builds -> Nat]
    BY DEF markItemsDone, CountTypes
<1>2. doneCount' \in [Builds -> Nat] /\ doneCount'[b] = doneCount[b] + count
    BY <1>1
<1>3. ASSUME NEW c \in Builds PROVE doneCount'[c] = Cardinality(Items(c)')
    <2>1. CASE c = b
        BY <1>2, <2>1 DEF CountIsExact
    <2>2. CASE c # b
        BY <1>1, <2>2 DEF CountIsExact
    <2> QED BY <2>1, <2>2
<1> QED BY <1>2, <1>3 DEF CountIsExact

\* A build that is under way and counts shows the count.
LEMMA CountIsShown ==
    ASSUME CountInv, NEW b \in Builds, NEW count \in Nat,
           markItemsDone(b, count),
           pc[b] \in {"loop", "draining"},
           miningSummaries' = miningSummaries,
           \A c \in Builds : \/ pc'[c] = pc[c]
                             \/ pc[c] = "draining" /\ pc'[c] = "drained"
    PROVE  StatusOfBuild'
<1>1. /\ doneCount' = [doneCount EXCEPT ![b] = @ + count] /\ doneCount \in [Builds -> Nat]
      /\ SetStatus(b, doneCount[b] + count)
    BY DEF markItemsDone, CountInv, CountTypes
<1>2. doneCount'[b] = doneCount[b] + count /\ \A c \in Builds : c # b => doneCount'[c] = doneCount[c]
    BY <1>1
<1>3. /\ DOMAIN miningSummaryStatuses' = DOMAIN miningSummaryStatuses \cup {b}
      /\ miningSummaryStatuses'[b] = doneCount'[b]
      /\ \A i \in DOMAIN miningSummaryStatuses :
           i # b => miningSummaryStatuses'[i] = miningSummaryStatuses[i]
    BY <1>1, <1>2, StatusIsSet
<1>4. StatusOfBuild
    BY DEF CountInv
<1>5. ASSUME NEW c \in DOMAIN miningSummaryStatuses'
      PROVE  /\ c \in Builds /\ pc'[c] # "idle"
             /\ pc'[c] # "built" => miningSummaryStatuses'[c] = doneCount'[c] /\ c \notin miningSummaries'
             /\ pc'[c] = "built" => miningSummaryStatuses'[c] = Total(c) /\ c \in miningSummaries'
    <2>1. CASE c = b
        BY <1>3, <1>4, <2>1 DEF StatusOfBuild
    <2>2. CASE c # b
        BY <1>2, <1>3, <1>4, <2>2 DEF StatusOfBuild
    <2> QED BY <2>1, <2>2
<1>6. \A c \in miningSummaries' : c \in Builds /\ pc'[c] = "built"
    BY <1>4 DEF StatusOfBuild
<1>7. \A c \in Builds : pc'[c] = "idle" => doneCount'[c] = 0
    BY <1>2, <1>4 DEF StatusOfBuild
<1> QED BY <1>5, <1>6, <1>7 DEF StatusOfBuild, Total

\* Nothing that the count depends on changes.
LEMMA NothingCounted ==
    ASSUME CountInv,
           height' = height, itemsDone' = itemsDone, doneCount' = doneCount, Open' = Open
    PROVE  CountTypes' /\ OpenIsPassed' /\ AheadIsFresh' /\ CountIsExact'
<1>1. \A b \in Builds : Items(b)' = Items(b)
    BY DEF Items
<1> QED BY <1>1 DEF CountInv, CountTypes, OpenIsPassed, AheadIsFresh, CountIsExact

\* The tasks of a build are those of the heights of its range.
LEMMA TaskOfHeight == \A b \in Builds : \A h \in Heights(b) : <<b, h>> \in Tasks
BY DEF Tasks

-----------------------------------------------------------------------------

\* A cache hit counts the three items at once; a miss puts all three off.
LEMMA LookUpKeepsCount ==
    ASSUME CountInv, NEW b \in Builds, LookUpHeight(b)
    PROVE  CountInv'
<1> DEFINE h == height[b]
           task == <<b, h>>
<1>1. /\ pc[b] = "loop" /\ h \in Heights(b) /\ running' = running /\ itemsDone' = itemsDone
      /\ height' = [height EXCEPT ![b] = @ + 1] /\ pc' = pc
      /\ miningSummaries' = miningSummaries
    BY DEF LookUpHeight
<1>2. /\ height \in [Builds -> Nat] /\ doneCount \in [Builds -> Nat] /\ itemsDone \in [Tasks -> Nat]
      /\ tasks \in Seq(Tasks) /\ running \subseteq Tasks
    BY DEF CountInv, CountTypes, DrainInv, QueueTypes
<1>3. /\ height' \in [Builds -> Nat] /\ h \in Nat /\ height'[b] = h + 1
      /\ \A c \in Builds : c # b => height'[c] = height[c]
    BY <1>1, <1>2
<1>4. task \in Tasks /\ itemsDone[task] = 0 /\ task \notin Open
    <2>1. task \in Tasks
        BY <1>1, TaskOfHeight
    <2>2. itemsDone[task] = 0
        BY <1>1, <1>3 DEF CountInv, AheadIsFresh
    <2>3. task \notin Open
        BY <1>3 DEF CountInv, OpenIsPassed
    <2> QED BY <2>1, <2>2, <2>3
<1>5. AheadIsFresh'
    BY <1>1, <1>3, RangesAssumption DEF RangesAssumption, Heights, CountInv, AheadIsFresh
<1>6. DrainInv'
    BY LookUpKeepsInv DEF CountInv
<1>9. \A t \in Open : t[2] \in Heights(t[1]) /\ t[2] < height'[t[1]] /\ itemsDone'[t] <= 2
    <2> TAKE t \in Open
    <2>1. t[1] \in Builds /\ t[2] \in Heights(t[1]) /\ t[2] < height[t[1]] /\ itemsDone[t] <= 2
        BY BuildOfTask DEF CountInv, OpenIsPassed, DrainInv, QueueTypes, Open
    <2>2. t[2] \in Int
        BY <2>1, RangesAssumption DEF RangesAssumption, Heights
    <2> QED BY <1>1, <1>2, <1>3, <2>1, <2>2
<1>7. CASE tasks' = tasks /\ markItemsDone(b, 3)
    <2>1. Open' = Open
        BY <1>1, <1>7 DEF Open
    <2>2. OpenIsPassed'
        BY <1>9, <2>1 DEF OpenIsPassed, Heights
    <2>3. ASSUME NEW c \in Builds, c # b PROVE Items(c)' = Items(c)
        BY <1>1, <1>3, <2>1, <2>3 DEF Items
    <2>4. Items(b)' = Items(b) \cup Rest(h, 0)
        BY <1>1, <1>3, <1>4, <2>1, RangesAssumption DEF RangesAssumption, Items, Heights, Rest
    <2>5. Rest(h, 0) \cap Items(b) = {}
        BY <1>3 DEF Items, Rest
    <2>6. Cardinality(Items(b) \cup Rest(h, 0)) = Cardinality(Items(b)) + 3
        <3>1. IsFiniteSet(Items(b)) /\ Cardinality(Items(b)) \in Nat /\ 0 \in 0..3
            BY ItemsAreBelowTotal
        <3>2. Cardinality(Items(b) \cup Rest(h, 0)) = Cardinality(Items(b)) + 3 - 0
            BY <2>5, <3>1, AddRest
        <3> QED BY <3>1, <3>2
    <2>7. CountIsExact' /\ doneCount' \in [Builds -> Nat]
        BY <1>7, <2>3, <2>4, <2>6, CountStaysExact DEF CountInv
    <2>8. StatusOfBuild'
        BY <1>1, <1>7, CountIsShown
    <2> QED BY <1>1, <1>2, <1>3, <1>5, <1>6, <1>7, <2>2, <2>7, <2>8
            DEF CountInv, CountTypes, TaskOnce
<1>8. CASE /\ tasks' = Append(tasks, task)
           /\ UNCHANGED <<doneCount, miningSummaryStatuses>>
    <2>1. \A i \in DOMAIN tasks : tasks[i] # task
        BY <1>4 DEF Open
    <2>9. \A i, j \in DOMAIN tasks : tasks[i] = tasks[j] => i = j
        BY DEF CountInv, TaskOnce
    <2>2. /\ \A i, j \in DOMAIN tasks' : tasks'[i] = tasks'[j] => i = j
          /\ {tasks'[i] : i \in DOMAIN tasks'} = {tasks[i] : i \in DOMAIN tasks} \cup {task}
        <3>1. tasks \in Seq(Tasks) /\ task \in Tasks /\ tasks' = Append(tasks, task)
            BY <1>2, <1>4, <1>8
        <3> HIDE DEF task
        <3> QED BY <2>1, <2>9, <3>1, AppendOnce
    <2>3. Open' = Open \cup {task}
        BY <1>1, <2>2 DEF Open
    <2>4. TaskOnce'
        <3>1. ASSUME NEW i \in DOMAIN tasks' PROVE tasks'[i] \notin running'
            <4>1. tasks'[i] = task \/ \E j \in DOMAIN tasks : tasks'[i] = tasks[j]
                BY <2>2
            <4> QED BY <1>1, <1>4, <4>1 DEF CountInv, TaskOnce, Open
        <3> QED BY <2>2, <3>1 DEF TaskOnce
    <2>5. OpenIsPassed'
        <3>1. task[2] \in Heights(task[1]) /\ task[2] < height'[task[1]] /\ itemsDone'[task] <= 2
            BY <1>1, <1>3, <1>4
        <3> QED BY <1>9, <2>3, <3>1 DEF OpenIsPassed, Heights
    <2>6. ASSUME NEW c \in Builds PROVE Items(c)' = Items(c)
        <3>1. CASE c # b
            BY <1>1, <1>3, <2>3, <3>1 DEF Items
        <3>2. CASE c = b
            BY <1>1, <1>3, <1>4, <2>3, <3>2, RangesAssumption DEF RangesAssumption, Items, Heights
        <3> QED BY <3>1, <3>2
    <2>7. CountIsExact' /\ StatusOfBuild'
        BY <1>1, <1>8, <2>6 DEF CountInv, CountIsExact, StatusOfBuild, Total, Heights
    <2> QED BY <1>1, <1>2, <1>3, <1>5, <1>6, <1>8, <2>4, <2>5, <2>7 DEF CountInv, CountTypes
<1> QED BY <1>7, <1>8 DEF LookUpHeight

\* A worker that takes the oldest task leaves all tasks open, each once.
LEMMA StartTaskKeepsCount ==
    ASSUME CountInv, StartTask
    PROVE  CountInv'
<1>1. /\ tasks # <<>> /\ tasks' = Tail(tasks) /\ running' = running \cup {Head(tasks)}
      /\ UNCHANGED <<itemsDone, pc, height, doneCount, miningSummaryStatuses, miningSummaries>>
    BY DEF StartTask, buildVars
<1>2. tasks \in Seq(Tasks) /\ \A i, j \in DOMAIN tasks : tasks[i] = tasks[j] => i = j
    BY DEF CountInv, TaskOnce, DrainInv, QueueTypes
<1>3. /\ \A i, j \in DOMAIN Tail(tasks) : Tail(tasks)[i] = Tail(tasks)[j] => i = j
      /\ \A i \in DOMAIN Tail(tasks) : Tail(tasks)[i] # Head(tasks)
      /\ {Tail(tasks)[i] : i \in DOMAIN Tail(tasks)} \cup {Head(tasks)} = {tasks[i] : i \in DOMAIN tasks}
      /\ \A i \in DOMAIN Tail(tasks) : Tail(tasks)[i] \in {tasks[j] : j \in DOMAIN tasks}
    BY <1>1, <1>2, TailOnce
<1>4. Open' = Open
    BY <1>1, <1>3 DEF Open
<1>5. TaskOnce'
    BY <1>1, <1>3 DEF CountInv, TaskOnce
<1>6. CountTypes' /\ OpenIsPassed' /\ AheadIsFresh' /\ CountIsExact'
    BY <1>1, <1>4, NothingCounted
<1>7. StatusOfBuild'
    BY <1>1 DEF CountInv, StatusOfBuild, Total
<1> QED BY <1>5, <1>6, <1>7, StartTaskKeepsInv DEF CountInv

\* What is known of a task that runs.
LEMMA RunningTask ==
    ASSUME CountInv, NEW t \in running
    PROVE  /\ t \in Tasks /\ t \in Open /\ t[1] \in Builds /\ t = <<t[1], t[2]>>
           /\ t[2] \in Heights(t[1]) /\ t[2] \in Nat /\ t[2] < height[t[1]]
           /\ itemsDone[t] \in 0..2 /\ pc[t[1]] \in {"loop", "draining"}
           /\ \A i \in DOMAIN tasks : tasks[i] # t
<1>1. t \in Tasks /\ t \in Open /\ itemsDone[t] \in Nat
    BY DEF CountInv, CountTypes, DrainInv, QueueTypes, Open
<1>2. t[1] \in Builds /\ t = <<t[1], t[2]>>
    BY <1>1 DEF Tasks
<1>3. t[2] \in Heights(t[1]) /\ t[2] < height[t[1]] /\ itemsDone[t] <= 2
    BY <1>1 DEF CountInv, OpenIsPassed
<1>4. t[2] \in Nat
    BY <1>2, <1>3, RangesAssumption DEF RangesAssumption, Heights
<1> QED BY <1>1, <1>2, <1>3, <1>4 DEF CountInv, DrainInv, TasksHaveBuild, TaskOnce

\* One more item of a task is done, and counted.
LEMMA TaskAdvancesKeepsCount ==
    ASSUME CountInv, NEW t \in Tasks, TaskAdvances(t)
    PROVE  CountInv'
<1> DEFINE b == t[1]
           h == t[2]
           m == itemsDone[t]
<1>1. /\ t \in running /\ m < 2 /\ itemsDone' = [itemsDone EXCEPT ![t] = @ + 1]
      /\ markItemsDone(b, 1)
      /\ UNCHANGED <<tasks, running, pc, height, miningSummaries>>
    BY DEF TaskAdvances
<1>2. /\ b \in Builds /\ t = <<b, h>> /\ h \in Heights(b) /\ h \in Nat /\ h < height[b]
      /\ m \in 0..2 /\ pc[b] \in {"loop", "draining"} /\ t \in Open
    BY <1>1, RunningTask
<1>3. /\ itemsDone' \in [Tasks -> Nat] /\ itemsDone'[t] = m + 1
      /\ \A u \in Tasks : u # t => itemsDone'[u] = itemsDone[u]
    BY <1>1, <1>2 DEF CountInv, CountTypes
<1>4. Open' = Open /\ Open \subseteq Tasks
    BY <1>1 DEF Open, CountInv, DrainInv, QueueTypes
<1>5. DrainInv' /\ TaskOnce'
    BY <1>1 DEF CountInv, DrainInv, QueueTypes, TasksHaveBuild, Open, TaskOnce
<1>6. OpenIsPassed'
    <2>1. \A u \in Open : itemsDone'[u] <= 2
        BY <1>1, <1>2, <1>3, <1>4 DEF CountInv, OpenIsPassed
    <2> QED BY <1>1, <1>4, <2>1 DEF CountInv, OpenIsPassed, Heights
<1>7. AheadIsFresh'
    <2>1. ASSUME NEW c \in Builds, NEW k \in Heights(c), k >= height[c]
          PROVE  itemsDone'[<<c, k>>] = 0
        <3>1. <<c, k>> # t /\ <<c, k>> \in Tasks
            <4>1. <<c, k>> \in Tasks /\ k \in Nat /\ height[c] \in Nat
                BY TaskOfHeight, RangesAssumption
                   DEF RangesAssumption, Heights, CountInv, CountTypes
            <4>2. ~(h >= height[b])
                BY <1>2 DEF CountInv, CountTypes
            <4> QED BY <1>2, <2>1, <4>1, <4>2
        <3> QED BY <1>3, <2>1, <3>1 DEF CountInv, AheadIsFresh
    <2> QED BY <1>1, <2>1 DEF AheadIsFresh, Heights
<1>8. ASSUME NEW c \in Builds, c # b PROVE Items(c)' = Items(c)
    <2>1. \A k \in Heights(c) : itemsDone'[<<c, k>>] = itemsDone[<<c, k>>]
        BY <1>2, <1>3, <1>8, TaskOfHeight
    <2> QED BY <1>1, <1>4, <2>1 DEF Items, Heights
<1>9. Items(b)' = Items(b) \cup {<<h, m + 1>>}
    <2>1. \A k \in Heights(b) : k # h => itemsDone'[<<b, k>>] = itemsDone[<<b, k>>]
        BY <1>2, <1>3, TaskOfHeight
    <2>2. itemsDone'[<<b, h>>] = itemsDone[<<b, h>>] + 1 /\ <<b, h>> \in Open
        BY <1>2, <1>3
    <2>3. itemsDone[<<b, h>>] = m
        BY <1>2
    <2> HIDE DEF b, h, m
    <2> QED BY <1>1, <1>2, <1>4, <2>1, <2>2, <2>3 DEF Items, Heights
<1>10. <<h, m + 1>> \notin Items(b)
    <2>1. itemsDone[<<b, h>>] = m /\ <<b, h>> \in Open
        BY <1>2
    <2> QED BY <1>2, <2>1 DEF Items
<1>11. Cardinality(Items(b) \cup {<<h, m + 1>>}) = Cardinality(Items(b)) + 1
    BY <1>2, <1>10, ItemsAreBelowTotal, FS_AddElement
<1>12. CountIsExact' /\ doneCount' \in [Builds -> Nat]
    BY <1>1, <1>2, <1>8, <1>9, <1>11, CountStaysExact DEF CountInv
<1>13. StatusOfBuild'
    BY <1>1, <1>2, CountIsShown
<1> QED BY <1>1, <1>3, <1>5, <1>6, <1>7, <1>12, <1>13 DEF CountInv, CountTypes

\* A task that ends, done or failed, counts what it has left.
LEMMA TaskEndsKeepsCount ==
    ASSUME CountInv, NEW t \in Tasks, TaskSucceeds(t) \/ TaskFails(t)
    PROVE  CountInv'
<1> DEFINE b == t[1]
           h == t[2]
           m == itemsDone[t]
<1>1. /\ t \in running /\ callback(t) /\ markItemsDone(b, 3 - m)
      /\ UNCHANGED <<tasks, itemsDone, height, miningSummaries>>
    BY DEF TaskSucceeds, TaskFails
<1>2. /\ b \in Builds /\ t = <<b, h>> /\ h \in Heights(b) /\ h \in Nat /\ h < height[b]
      /\ m \in 0..2 /\ pc[b] \in {"loop", "draining"} /\ t \in Open
      /\ \A i \in DOMAIN tasks : tasks[i] # t
    BY <1>1, RunningTask
<1>3. /\ running' = running \ {t}
      /\ \A c \in Builds : pc'[c] = pc[c] \/ (pc[c] = "draining" /\ pc'[c] = "drained")
    BY <1>1 DEF callback
<1>4. Open' = Open \ {t}
    BY <1>1, <1>2, <1>3 DEF Open
<1>5. DrainInv'
    BY <1>1, CallbackKeepsInv DEF CountInv
<1>6. TaskOnce' /\ OpenIsPassed' /\ AheadIsFresh'
    BY <1>1, <1>3, <1>4 DEF CountInv, TaskOnce, OpenIsPassed, AheadIsFresh, Heights
<1>7. ASSUME NEW c \in Builds, c # b PROVE Items(c)' = Items(c)
    <2>1. \A k : <<c, k>> # t
        BY <1>2, <1>7
    <2> QED BY <1>1, <1>4, <2>1 DEF Items, Heights
<1>8. itemsDone[<<b, h>>] = m /\ <<b, h>> \in Open /\ <<b, h>> \notin Open'
    BY <1>2, <1>4
<1>9. \A k : k # h => (<<b, k>> \in Open' <=> <<b, k>> \in Open)
    BY <1>2, <1>4
<1>10. Items(b)' = Items(b) \cup Rest(h, m)
    <2>1. ASSUME NEW x \in Items(b)' PROVE x \in Items(b) \cup Rest(h, m)
        BY <1>1, <1>2, <1>8, <1>9 DEF Items, Rest, Heights
    <2>2. Items(b) \subseteq Items(b)'
        BY <1>1, <1>2, <1>8, <1>9 DEF Items, Heights
    <2>3. Rest(h, m) \subseteq Items(b)'
        BY <1>1, <1>2, <1>8, <1>9 DEF Items, Rest, Heights
    <2> QED BY <2>1, <2>2, <2>3
<1>11. Rest(h, m) \cap Items(b) = {}
    BY <1>2, <1>8 DEF Items, Rest
<1>12. Cardinality(Items(b) \cup Rest(h, m)) = Cardinality(Items(b)) + (3 - m)
    <2>1. IsFiniteSet(Items(b)) /\ Cardinality(Items(b)) \in Nat /\ m \in 0..3
        BY <1>2, ItemsAreBelowTotal
    <2>2. Cardinality(Items(b) \cup Rest(h, m)) = Cardinality(Items(b)) + 3 - m
        BY <1>11, <2>1, AddRest
    <2> QED BY <2>1, <2>2
<1>13. CountIsExact' /\ doneCount' \in [Builds -> Nat]
    <2>1. 3 - m \in Nat
        BY <1>2
    <2> QED BY <1>1, <1>2, <1>7, <1>10, <1>12, <2>1, CountStaysExact DEF CountInv
<1>14. StatusOfBuild'
    <2>1. 3 - m \in Nat
        BY <1>2
    <2> QED BY <1>1, <1>2, <1>3, <2>1, CountIsShown
<1> QED BY <1>1, <1>5, <1>6, <1>13, <1>14 DEF CountInv, CountTypes

\* The status is forgotten with the summary.
LEMMA GetKeepsCount ==
    ASSUME CountInv, NEW b \in Builds, GetMiningSummary(b)
    PROVE  CountInv'
<1>1. UNCHANGED <<tasks, running, itemsDone, pc, height, doneCount>>
    BY DEF GetMiningSummary, queueVars, buildVars
<1>2. Open' = Open /\ TaskOnce' /\ DrainInv'
    BY <1>1 DEF Open, CountInv, TaskOnce, DrainInv, QueueTypes, TasksHaveBuild
<1>3. \/ UNCHANGED <<miningSummaries, miningSummaryStatuses>>
      \/ /\ miningSummaries' = miningSummaries \ {b}
         /\ miningSummaryStatuses' =
              [i \in DOMAIN miningSummaryStatuses \ {b} |-> miningSummaryStatuses[i]]
    BY DEF GetMiningSummary
<1>4. StatusOfBuild'
    BY <1>1, <1>3 DEF CountInv, StatusOfBuild, Total, Heights
<1> QED BY <1>1, <1>2, <1>4, NothingCounted DEF CountInv


\* A build starts with an empty status, and none of its items done.
LEMMA BuildKeepsCount ==
    ASSUME CountInv, NEW b \in Builds, Build(b)
    PROVE  CountInv'
<1>1. /\ pc[b] = "idle" /\ SetStatus(b, 0) /\ pc' = [pc EXCEPT ![b] = "loop"]
      /\ UNCHANGED <<tasks, running, itemsDone, height, doneCount, miningSummaries>>
    BY DEF Build, queueVars
<1>2. Open' = Open /\ TaskOnce'
    BY <1>1 DEF Open, CountInv, TaskOnce
<1>3. StatusOfBuild /\ pc \in [Builds -> Stages]
    BY DEF CountInv, DrainInv, QueueTypes
<1>4. doneCount[b] = 0 /\ b \notin miningSummaries
    BY <1>1, <1>3 DEF StatusOfBuild
<1>5. pc'[b] = "loop" /\ \A c \in Builds : c # b => pc'[c] = pc[c]
    BY <1>1, <1>3
<1>6. /\ DOMAIN miningSummaryStatuses' = DOMAIN miningSummaryStatuses \cup {b}
      /\ miningSummaryStatuses'[b] = 0
      /\ \A i \in DOMAIN miningSummaryStatuses :
           i # b => miningSummaryStatuses'[i] = miningSummaryStatuses[i]
    BY <1>1, StatusIsSet
<1>7. StatusOfBuild'
    BY <1>1, <1>3, <1>4, <1>5, <1>6 DEF StatusOfBuild, Total, Heights
<1>8. DrainInv'
    BY StageKeepsInv DEF CountInv
<1> QED BY <1>1, <1>2, <1>7, <1>8, NothingCounted DEF CountInv

\* The sums: the count of all items and the one of the sums is shown when the
\* summary is kept; a build that cannot sum up keeps showing its count.
LEMMA SummariseKeepsCount ==
    ASSUME CountInv, NEW b \in Builds, Summarise(b)
    PROVE  CountInv'
<1>1. /\ pc[b] = "drained"
      /\ UNCHANGED <<tasks, running, itemsDone, height, doneCount>>
    BY DEF Summarise, queueVars
<1>2. Open' = Open /\ TaskOnce'
    BY <1>1 DEF Open, CountInv, TaskOnce
<1>3. StatusOfBuild /\ pc \in [Builds -> Stages]
    BY DEF CountInv, DrainInv, QueueTypes
<1>4. StatusOfBuild'
    <2>1. CASE /\ pc' = [pc EXCEPT ![b] = "built"] /\ SetStatus(b, Total(b))
               /\ miningSummaries' = miningSummaries \cup {b}
        <3>1. pc'[b] = "built" /\ \A c \in Builds : c # b => pc'[c] = pc[c]
            BY <1>3, <2>1
        <3>2. /\ DOMAIN miningSummaryStatuses' = DOMAIN miningSummaryStatuses \cup {b}
              /\ miningSummaryStatuses'[b] = Total(b)
              /\ \A i \in DOMAIN miningSummaryStatuses :
                   i # b => miningSummaryStatuses'[i] = miningSummaryStatuses[i]
            BY <2>1, StatusIsSet
        <3> QED BY <1>1, <1>3, <2>1, <3>1, <3>2 DEF StatusOfBuild, Total, Heights
    <2>2. CASE /\ pc' = [pc EXCEPT ![b] = "failed"]
               /\ UNCHANGED <<miningSummaryStatuses, miningSummaries>>
        <3>1. pc'[b] = "failed" /\ \A c \in Builds : c # b => pc'[c] = pc[c]
            BY <1>3, <2>2
        <3> QED BY <1>1, <1>3, <2>2, <3>1 DEF StatusOfBuild, Total, Heights
    <2> QED BY <2>1, <2>2 DEF Summarise
<1>5. DrainInv'
    BY StageKeepsInv DEF CountInv
<1> QED BY <1>1, <1>2, <1>4, <1>5, NothingCounted DEF CountInv

\* The end of the loop counts nothing.
LEMMA EndLoopKeepsCount ==
    ASSUME CountInv, NEW b \in Builds, EndLoop(b)
    PROVE  CountInv'
<1>1. /\ pc[b] = "loop"
      /\ pc' = [pc EXCEPT ![b] = IF idle THEN "drained" ELSE "draining"]
      /\ UNCHANGED <<tasks, running, itemsDone, height, doneCount,
                     miningSummaryStatuses, miningSummaries>>
    BY DEF EndLoop, queueVars
<1>2. Open' = Open /\ TaskOnce'
    BY <1>1 DEF Open, CountInv, TaskOnce
<1>3. StatusOfBuild /\ pc \in [Builds -> Stages]
    BY DEF CountInv, DrainInv, QueueTypes
<1>4. pc'[b] \in {"drained", "draining"} /\ \A c \in Builds : c # b => pc'[c] = pc[c]
    BY <1>1, <1>3
<1>5. StatusOfBuild'
    BY <1>1, <1>3, <1>4 DEF StatusOfBuild, Total, Heights
<1>6. DrainInv'
    BY EndLoopKeepsInv DEF CountInv
<1> QED BY <1>1, <1>2, <1>5, <1>6, NothingCounted DEF CountInv

\* Every action counts a block when its task ends, and once.
LEMMA CountInvStep == CountInv /\ [Next]_vars => CountInv'
<1> SUFFICES ASSUME CountInv, [Next]_vars PROVE CountInv'
    OBVIOUS
<1>1. ASSUME UNCHANGED <<tasks, running, itemsDone, pc, height, doneCount,
                         miningSummaryStatuses, miningSummaries>>
      PROVE  CountInv'
    <2>1. Open' = Open /\ TaskOnce' /\ DrainInv'
        BY <1>1 DEF Open, CountInv, TaskOnce, DrainInv, QueueTypes, TasksHaveBuild
    <2>2. StatusOfBuild'
        BY <1>1 DEF CountInv, StatusOfBuild, Total, Heights
    <2> QED BY <1>1, <2>1, <2>2, NothingCounted DEF CountInv
<1>2. ASSUME NEW b \in Builds, loadMiningData(b) \/ updateStatus(b) \/ Close(b)
      PROVE  CountInv'
    BY <1>1, <1>2 DEF loadMiningData, updateStatus, Close, queueVars, buildVars
<1>3. ASSUME Evict \/ UNCHANGED vars PROVE CountInv'
    BY <1>1, <1>3 DEF Evict, vars, queueVars, buildVars
<1> QED
    BY <1>2, <1>3, BuildKeepsCount, LookUpKeepsCount, EndLoopKeepsCount, SummariseKeepsCount,
       GetKeepsCount, StartTaskKeepsCount, TaskAdvancesKeepsCount, TaskEndsKeepsCount DEF Next

LEMMA CountInvAlways == Spec => []CountInv
BY CountInvInit, CountInvStep, PTL DEF Spec

\* The page fetches the summary once, on the first status whose done is the
\* count; a status says so exactly as long as the summary waits in
\* miningSummaries, however the builds, tasks and failures interleave
\* (markItemsDone of buildMiningSummary, called from the loop, from the tasks
\* and from their catch block).
THEOREM StatusIsComplete == Spec => []CompleteMeansStored
<1>1. CountInv => CompleteMeansStored
    <2> SUFFICES ASSUME CountInv, NEW b \in DOMAIN miningSummaryStatuses
                 PROVE  miningSummaryStatuses[b] = Total(b) <=> b \in miningSummaries
        BY DEF CompleteMeansStored
    <2>1. b \in Builds /\ StatusOfBuild /\ CountIsExact
        BY DEF CountInv, StatusOfBuild
    <2>2. CASE pc[b] = "built"
        BY <2>1, <2>2 DEF StatusOfBuild
    <2>3. CASE pc[b] # "built"
        <3>1. miningSummaryStatuses[b] = Cardinality(Items(b)) /\ b \notin miningSummaries
            BY <2>1, <2>3 DEF StatusOfBuild, CountIsExact
        <3>2. Total(b) \in Nat /\ Cardinality(Items(b)) \in Nat /\ Cardinality(Items(b)) < Total(b)
            BY <2>1, ItemsAreBelowTotal
        <3> QED BY <3>1, <3>2
    <2> QED BY <2>2, <2>3
<1> QED BY <1>1, CountInvAlways, PTL
=============================================================================
