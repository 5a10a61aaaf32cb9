------------------------------ MODULE Statistics ------------------------------
(***************************************************************************)
(* One measurement of the process on its way to the admin charts:          *)
(* app/systemMonitor.js takes it, app/statTracker.js keeps its largest     *)
(* value, app.js hands that over every five minutes, and app/appStats.js   *)
(* keeps a series of recent points and, in front of it, one point for      *)
(* several older ones.                                                     *)
(*                                                                         *)
(* A point is the set of the hand-overs it stands for and its value; the   *)
(* hand-overs are numbered.  Bound: MaxPeriods hand-overs with a value.    *)
(***************************************************************************)
EXTENDS Naturals, Sequences, FiniteSets, FiniteSetsExt, SequencesExt

CONSTANTS
    Values,                     \* what can be measured; 0 is taken for nothing
    dataPointsToKeep,
    dataPointsPerDownsample,
    downsamplesToKeep,
    MaxPeriods

VARIABLES
    tracked,        \* valueStats: the largest value of this period, or NoValue
    peaks,          \* the values that were handed over, in order
    appStats,       \* the series: recent points
    downsampledAppStats

vars == <<tracked, peaks, appStats, downsampledAppStats>>

NoValue == [seen |-> FALSE, max |-> 0]

Init ==
    /\ tracked = NoValue
    /\ peaks = <<>> /\ appStats = <<>> /\ downsampledAppStats = <<>>

\* trackValue of statTracker.js
TrackValue(value) ==
    /\ tracked' = [seen |-> TRUE, max |-> IF tracked.seen THEN Max({tracked.max, value}) ELSE value]
    /\ UNCHANGED <<peaks, appStats, downsampledAppStats>>

\* The monitor's timers measure the heap, the load and the event loop's delay.
Measure == \E value \in Values : TrackValue(value)

Point(periods, value) == [periods |-> periods, value |-> value]

\* The newest n points.
Newest(series, n) == IF Len(series) > n THEN SubSeq(series, Len(series) - n + 1, Len(series)) ELSE series

\* Mutant: the point is the last of those it stands for, not the largest.
DownsampleLatest(points) ==
    Point(UNION {points[k].periods : k \in DOMAIN points}, points[Len(points)].value)

Downsample(points) ==
    Point(UNION {points[k].periods : k \in DOMAIN points}, Max({points[k].value : k \in DOMAIN points}))

\* trackAppStats.  The series is cut when it is longer than the points it keeps
\* and those of one downsample: one point more than the downsample stands for goes.
TrackAppStats(value) ==
    LET dataset == IF value = 0 THEN appStats ELSE Append(appStats, Point({Len(peaks) + 1}, value))
        older == Downsample(SubSeq(dataset, 1, dataPointsPerDownsample))
    IN  IF Len(dataset) > dataPointsToKeep + dataPointsPerDownsample
        THEN /\ appStats' = Newest(dataset, dataPointsToKeep)
             /\ downsampledAppStats' = Newest(Append(downsampledAppStats, older), downsamplesToKeep)
        ELSE appStats' = dataset /\ UNCHANGED downsampledAppStats

\* What app.js does with a hand-over.
HandOver(value) ==
    /\ TrackAppStats(value)
    /\ peaks' = IF value = 0 THEN peaks ELSE Append(peaks, value)

\* processAndReset of statTracker.js
ProcessAndReset ==
    /\ tracked.seen /\ Len(peaks) < MaxPeriods
    /\ tracked' = NoValue
    /\ HandOver(tracked.max)

Next == ProcessAndReset \/ Measure

Spec == Init /\ [][Next]_vars

-----------------------------------------------------------------------------
\* getAllAppStats: the points of a chart.
Chart == downsampledAppStats \o appStats

Shown == UNION {Chart[k].periods : k \in DOMAIN Chart}

\* The statistics' state keeps its shape.
TypeOK ==
    /\ tracked.seen \in BOOLEAN /\ tracked.max \in Values \cup {0}
    /\ Len(appStats) <= dataPointsToKeep + dataPointsPerDownsample
    /\ Len(downsampledAppStats) <= downsamplesToKeep

\* The chart hides no load: a point is as high as every hand-over it stands for,
\* the points are in order and stand for each hand-over at most once, and between
\* the first and the last of them never two neighbours are missing (one is, after
\* each downsample).
PeaksAreShown ==
    /\ \A k \in DOMAIN Chart : Chart[k].value = Max({peaks[p] : p \in Chart[k].periods})
    /\ \A j, k \in DOMAIN Chart : j < k => \A p \in Chart[j].periods, q \in Chart[k].periods : p < q
    /\ Chart # <<>> => \A p \in Min(Shown) .. Len(peaks) - 1 : p \in Shown \/ p + 1 \in Shown
    /\ Chart # <<>> => Len(peaks) \in Shown
=============================================================================
