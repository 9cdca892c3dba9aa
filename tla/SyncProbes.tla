---------------------------- MODULE SyncProbes ----------------------------
(***************************************************************************)
(* How a DUAL measurement decides (services/dual/sync.py _measure): probes *)
(* at several positions of the film run side by side; as soon as enough of *)
(* those that are through agree on an offset the rest is cancelled.  When  *)
(* they never agree, fewer and longer probes look for a drift.  A probe is *)
(* told apart by what it found only: a batch is a count of samples.        *)
(***************************************************************************)
EXTENDS Integers, FiniteSets, FiniteSetsExt

CONSTANTS
    BMain,      \* probes of the first batch
    BLinear,    \* probes of the second
    BOffset,    \* the offsets a probe may find (even numbers)
    BDeviation, \* SYNC_MAX_DEVIATION
    BNil

ASSUME ProbesAssumption ==
    /\ BMain \in Nat /\ BMain >= 3 /\ BLinear \in Nat /\ BDeviation \in Nat
    /\ IsFiniteSet(BOffset) /\ \A o \in BOffset : o \in Int /\ o % 2 = 0

\* Correlations: under 0.65, from 0.65, from 0.70 (SYNC_MIN_CORRELATION) and from
\* 0.75 (LINEAR_MIN_CORRELATION).
Weak == 0
Early == 1
Sure == 2
Strong == 3
Sample == BOffset \X (Weak .. Strong)

VARIABLES
    bPhase,   \* the measurement: "idle", "main", "linear", "over"
    bRun,     \* probes of the batch that run
    bFailed,  \* ... that failed
    bGot,     \* bGot[s]: ... that measured s
    bResult   \* the result: how it was reached, and the offset

probesVars == <<bPhase, bRun, bFailed, bGot, bResult>>

Nothing == [s \in Sample |-> 0]
BNone   == [kind |-> "none", offset |-> BNil]
Count(got) == MapThenSumSet(LAMBDA s : got[s], {s \in Sample : got[s] > 0})

\* Types, and no probe is lost: what was started runs, or ended one way.
ProbesTypeOK ==
    /\ bPhase \in {"idle", "main", "linear", "over"}
    /\ bRun \in Nat /\ bFailed \in Nat /\ bGot \in [Sample -> Nat]
    /\ bPhase = "main" => bRun + bFailed + Count(bGot) = BMain
    /\ bResult.kind \in {"none", "fast", "constant", "linear", "incompatible", "error"}
    /\ bResult.offset # BNil => bResult.offset \in Int

ProbesInit ==
    bPhase = "idle" /\ bRun = 0 /\ bFailed = 0 /\ bGot = Nothing /\ bResult = BNone

-----------------------------------------------------------------------------
(* _constant_candidate.                                                    *)

Abs(i) == IF i < 0 THEN -i ELSE i

\* How many samples of at least this correlation lie between two offsets.
Between(got, minimum, low, high) ==
    MapThenSumSet(LAMBDA s : got[s], {s \in Sample : /\ got[s] > 0 /\ s[2] >= minimum
                                                     /\ low <= s[1] /\ s[1] <= high})

Lowest  == CHOOSE o \in BOffset : \A p \in BOffset : o <= p
Highest == CHOOSE o \in BOffset : \A p \in BOffset : p <= o

\* statistics.median of the n such samples.
Median(got, minimum, low, high, n) ==
    LET kth(k) == CHOOSE o \in BOffset : /\ Between(got, minimum, low, o) >= k
                                         /\ \A p \in BOffset : low <= p /\ p < o =>
                                              Between(got, minimum, low, p) < k
                                         /\ low <= o /\ o <= high
    IN  IF n % 2 = 1 THEN kth((n + 1) \div 2) ELSE (kth(n \div 2) + kth(n \div 2 + 1)) \div 2

\* Mutant of Majority: two that agree outvote a third one.
MajorityOfTwo(near, n) == 10 * near >= 6 * n

\* len(inliers) >= max(3, ceil(0.6 * len(offsets))).
Majority(near, n) == near >= 3 /\ 10 * near >= 6 * n

\* The median of the samples near the median of all, or none.
ConstantCandidate(got, minimum) ==
    LET n      == Between(got, minimum, Lowest, Highest)
        median == Median(got, minimum, Lowest, Highest, n)
        near   == Between(got, minimum, median - BDeviation, median + BDeviation)
    IN  IF n >= 3 /\ Majority(near, n)
        THEN Median(got, minimum, median - BDeviation, median + BDeviation, near) ELSE BNil

-----------------------------------------------------------------------------
(* _measure.                                                               *)

\* The playlists are loaded and long enough; all probes of the batch start.
BatchStarts ==
    /\ bPhase = "idle" /\ bPhase' = "main"
    /\ bRun' = BMain /\ bFailed' = 0 /\ bGot' = Nothing /\ bResult' = BNone

Over(kind, offset) == bPhase' = "over" /\ bResult' = [kind |-> kind, offset |-> offset]

\* _measurement_result: a constant offset, else a drift its samples and the end of
\* the film agree with, else the rest.  (The regression is not computed: three
\* strong samples may or may not lie on a line.)
Classified(got, else) ==
    LET constant == ConstantCandidate(got, Sure)
        strong   == {s \in Sample : got[s] > 0 /\ s[2] = Strong}
    IN  IF constant # BNil THEN Over("constant", constant)
        ELSE \/ /\ Between(got, Strong, Lowest, Highest) >= 3
                /\ \E s \in strong : Over("linear", s[1])
             \/ else

\* failures and len(measurements) < 3.
TooFew(failed, got) == failed > 0 /\ Count(got) < 3

\* The finally of collect_batch cancels and awaits what still runs.
Rest(n) == 0

\* A probe of the first batch (collect_one) has its two samples fetched, decoded
\* and correlated; enough that agree end the batch.
ProbeEnds(s) ==
    LET got       == [bGot EXCEPT ![s] = @ + 1]
        candidate == ConstantCandidate(got, Early)
    IN  /\ bPhase = "main" /\ bRun > 0
        /\ bGot' = got /\ UNCHANGED bFailed
        /\ \/ candidate # BNil /\ bRun' = Rest(bRun - 1) /\ Over("fast", candidate)
           \/ candidate = BNil /\ bRun' = bRun - 1 /\ UNCHANGED <<bPhase, bResult>>

FailedOne == bFailed + 1

\* A download, ffmpeg or a sample that is too short: the error is kept, and logged.
ProbeFails ==
    /\ bPhase \in {"main", "linear"} /\ bRun > 0
    /\ bRun' = bRun - 1 /\ bFailed' = FailedOne
    /\ UNCHANGED <<bPhase, bGot, bResult>>

\* All probes are through: an error if some failed and fewer than three are left,
\* what the samples say, or the probes for a drift.  (What the first batch measured
\* is only reported from here on; the model keeps that it was enough.)
BatchEnds ==
    /\ bPhase = "main" /\ bRun = 0
    /\ IF TooFew(bFailed, bGot) THEN Over("error", BNil) /\ UNCHANGED <<bRun, bFailed, bGot>>
       ELSE \/ /\ Classified(bGot, FALSE) /\ UNCHANGED <<bRun, bFailed, bGot>>
            \/ /\ ConstantCandidate(bGot, Sure) = BNil
               /\ bPhase' = "linear" /\ bRun' = BLinear /\ bFailed' = 0 /\ bGot' = Nothing
               /\ UNCHANGED bResult

\* collect_one_linear.
LinearEnds(s) ==
    /\ bPhase = "linear" /\ bRun > 0
    /\ bRun' = bRun - 1 /\ bGot' = [bGot EXCEPT ![s] = @ + 1]
    /\ UNCHANGED <<bPhase, bFailed, bResult>>

\* collect_linear waits for all of its probes.
Rejected ==
    /\ bPhase = "linear" /\ bRun = 0
    /\ Classified(bGot, Over("incompatible", BNil)) /\ UNCHANGED <<bRun, bFailed, bGot>>

\* The next measurement.
MeasureAgain ==
    /\ bPhase = "over" /\ bPhase' = "idle" /\ bRun' = 0 /\ bFailed' = 0 /\ bGot' = Nothing
    /\ bResult' = BNone

ProbesNext ==
    \/ BatchStarts \/ BatchEnds \/ ProbeFails \/ Rejected \/ MeasureAgain
    \/ \E s \in Sample : ProbeEnds(s) \/ LinearEnds(s)

ProbesSpec == ProbesInit /\ [][ProbesNext]_probesVars

-----------------------------------------------------------------------------
(* Properties.                                                             *)

\* A constant offset is accepted only because at least three confident samples, and
\* no less than 60 % of the confident ones seen, lie around it, whatever the order
\* in which the probes came back and whichever failed.  (Around: within twice
\* SYNC_MAX_DEVIATION, since the median of the samples near a median may itself be
\* that far from one of them.)
AcceptedByMajority ==
    bResult.kind \in {"fast", "constant"} =>
        LET minimum == IF bResult.kind = "fast" THEN Early ELSE Sure
            around  == Between(bGot, minimum, bResult.offset - 2 * BDeviation,
                               bResult.offset + 2 * BDeviation)
        IN  around >= 3 /\ 10 * around >= 6 * Between(bGot, minimum, Lowest, Highest)

\* No probe goes on downloading and decoding once the measurement has decided.
ProbesStopped == bPhase \in {"idle", "over"} => bRun = 0

\* A pair of sources goes on to the probes for a drift, and is rejected by them,
\* only when three probes of the first batch gave a sample; fewer with a failed one
\* is an error, after which the client may try again.
RejectedOnSamples == [][bPhase = "main" /\ bPhase' = "linear" => Count(bGot) >= 3]_probesVars

\* What a measurement decides rests on its samples, whatever the order and the failures of
\* its probes, and ends them all.
DecisionSound == ProbesTypeOK /\ AcceptedByMajority /\ ProbesStopped
=============================================================================
