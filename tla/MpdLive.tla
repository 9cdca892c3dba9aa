------------------------------ MODULE MpdLive ------------------------------
(***************************************************************************)
(* Live DASH as HLS (utils/mpd_converter.py): each playlist request of a   *)
(* player fetches the MPD and converts it in a thread of its own.  The list *)
(* of segments is expanded from the timeline and cut at the live edge, and *)
(* when the MPD has no startNumber the playlists of one playback are       *)
(* numbered by a clock their threads share (_live_sequence_clocks).        *)
(***************************************************************************)
EXTENDS Integers, Sequences, FiniteSets, SequencesExt

CONSTANTS
    MRend,     \* renditions of the playback
    MSkew,     \* MSkew[r]: its timestamps are that much later (seconds)
    MThread,   \* conversions under way
    MDurs,     \* durations of a segment the source may use
    MFirst,    \* ... and begins with
    MShapes,   \* how it writes its timeline
    MKept,     \* segments the source keeps
    MLast,     \* bound: the last segment of a run of the source
    MNil

Shapes == {"each", "first", "repeat", "open", "until"}

ASSUME MpdAssumption ==
    /\ MSkew \in [MRend -> Nat] /\ MDurs \subseteq Nat \ {0} /\ MFirst \in MDurs /\ MKept \in Nat \ {0}
    /\ MShapes \subseteq Shapes /\ MLast \in Nat

MaxBase == 300
Bases   == {0, MaxBase}   \* where the media timeline of the source may start

VARIABLES
    mSrc,       \* the source: where its timeline is, its segments, its run
    mClock,     \* the clock of the playback, or MNil
    mConv,      \* each conversion
    mOut,       \* mOut[r]: the last playlist of r in this run of the source, or MNil
    mDisturbed  \* history: conversions overlapped while the clock was set, or it was evicted

mpdVars == <<mSrc, mClock, mConv, mOut, mDisturbed>>

MIdle == [pc |-> "idle", rend |-> MNil, run |-> 0, first |-> 0, time |-> 0, dur |-> 0]

MpdInit ==
    /\ \E shape \in MShapes, last \in 0 .. MLast :
         mSrc = [base |-> MaxBase, last |-> last, dur |-> MFirst, shape |-> shape, run |-> 0]
    /\ mClock = MNil /\ mConv = [c \in MThread |-> MIdle]
    /\ mOut = [r \in MRend |-> MNil] /\ mDisturbed = FALSE

\* Types; a clock that exists has the cadence of some rendition, and no playlist is
\* answered without a media sequence and a first segment.
MpdTypeOK ==
    /\ mSrc.base \in Bases /\ mSrc.last \in 0 .. MLast /\ mSrc.dur \in MDurs
    /\ mClock # MNil => mClock.origin \in Nat /\ mClock.dur \in MDurs
    /\ \A c \in MThread : mConv[c].pc \in {"idle", "get", "create", "origin", "duration", "number"}
    /\ \A r \in MRend : mOut[r] # MNil => mOut[r].seq \in Nat /\ mOut[r].first \in 0 .. MLast
    /\ mDisturbed \in BOOLEAN

-----------------------------------------------------------------------------
(* The timeline of a rendition in an MPD, as the source writes it: entries *)
(* with a start or none, a duration and a number of repetitions, negative  *)
(* when they go on to the next entry or the end.                           *)

Max2(a, b) == IF a > b THEN a ELSE b

Oldest(src)     == Max2(0, src.last - MKept + 1)
Start(src, r, k) == src.base + MSkew[r] + k * src.dur
Entry(t, d, n)  == [t |-> t, d |-> d, r |-> n]

\* By shape: a start on every entry, on the first one only, or one entry repeated, a
\* number of times, to the end, or to the start of the entry of the last segment.
Timeline(src, shape, r) ==
    LET first == Oldest(src)
        n     == src.last - first + 1
    IN  CASE shape = "each" ->
               [i \in 1 .. n |-> Entry({Start(src, r, first + i - 1)}, src.dur, 0)]
          [] shape = "first" ->
               [i \in 1 .. n |-> Entry(IF i = 1 THEN {Start(src, r, first)} ELSE {}, src.dur, 0)]
          [] shape = "repeat" -> <<Entry({Start(src, r, first)}, src.dur, n - 1)>>
          [] shape = "open" -> <<Entry({Start(src, r, first)}, src.dur, -1)>>
          [] shape = "until" ->
               LET last == Entry({Start(src, r, src.last)}, src.dur, 0)
               IN  IF n = 1 THEN <<last>> ELSE <<Entry({Start(src, r, first)}, src.dur, -1), last>>

\* What publishTime says of the end of the timeline.
Published(src, r) == Start(src, r, src.last + 1)

The(s) == CHOOSE x \in s : TRUE

\* Mutant of Repeats: the segment that is there already is counted again.
RepeatsMore(time, end, d) == (end - time + d - 1) \div d

\* max(0, ceil((end - time) / d)) - 1.
Repeats(time, end, d) == Max2(0, (end - time + d - 1) \div d) - 1

\* convert_media_playlist, the loop over the S entries: the starts of all segments.
Expanded(entries, end) ==
    LET From(i, now) == IF entries[i].t # {} THEN The(entries[i].t) ELSE now
        Next(i)      == {j \in i + 1 .. Len(entries) : entries[j].t # {}}
        Until(i)     == IF Next(i) = {} THEN end
                        ELSE The(entries[CHOOSE j \in Next(i) : \A k \in Next(i) : j <= k].t)
        Count(i, t)  == IF entries[i].r >= 0 THEN entries[i].r
                        ELSE Repeats(t, Until(i), entries[i].d)
        Step(acc, i) == LET t == From(i, acc.now)
                            n == Count(i, t) + 1
                        IN  [now  |-> t + n * entries[i].d,
                             list |-> acc.list \o [j \in 1 .. n |-> t + (j - 1) * entries[i].d]]
    IN  FoldLeft(Step, [now |-> 0, list |-> <<>>], [i \in 1 .. Len(entries) |-> i]).list

\* global_last_time_sec of one rendition: the loop adds the repetitions of an entry
\* to the last start it read, and the last duration at the end.
EdgeOf(entries) ==
    LET Step(last, s) == (IF s.t # {} THEN The(s.t) ELSE last) + s.d * s.r
    IN  FoldLeft(Step, 0, entries) + entries[Len(entries)].d

Latest(times) == CHOOSE x \in times : \A y \in times : y <= x

\* The live window: 30 seconds before the edge of all renditions, but no earlier
\* than the latest first segment of one, and a second of slack.
WindowStart(src) ==
    Max2(Latest({EdgeOf(Timeline(src, src.shape, r)) : r \in MRend}) - 30,
         Latest({The(Timeline(src, src.shape, r)[1].t) : r \in MRend})) - 1

\* all_segments, and the places in it of segments_to_use.
AllSegments(src, r) == Expanded(Timeline(src, src.shape, r), Published(src, r))
Listed(src, r) ==
    LET all == AllSegments(src, r)
        in  == {i \in DOMAIN all : all[i] >= WindowStart(src)}
    IN  IF in = {} THEN {Len(all)} ELSE in

\* The segment of a start.
SegmentAt(src, r, t) == (t - src.base - MSkew[r]) \div src.dur

-----------------------------------------------------------------------------
(* _sequence_for_live_window, at the grain of what threads share.          *)

\* round(n / d), halves to even.
Round(n, d) ==
    LET q == n \div d
        m == n % d
    IN  IF 2 * m > d \/ (2 * m = d /\ q % 2 = 1) THEN q + 1 ELSE q

Apart(a, b) == IF a > b THEN a - b ELSE b - a

\* A restarted source: its timeline is far before the origin.
MovedBack(clock, time) == time < clock.origin - Max2(8 * clock.dur, 60)

\* Another cadence: durations a quarter apart.  (The half second is below the unit.)
OtherCadence(clock, dur) == 4 * Apart(clock.dur, dur) > clock.dur

MustAnchor(clock, time, dur) == MovedBack(clock, time) \/ OtherCadence(clock, dur)

Alone(c) == \A d \in MThread \ {c} : mConv[d].pc = "idle"

\* A request fetched the MPD and converts it.
ConvertStarts(c, r) ==
    /\ mConv[c].pc = "idle"
    /\ LET t == AllSegments(mSrc, r)[Min(Listed(mSrc, r))]
       IN  mConv' = [mConv EXCEPT ![c] = [pc |-> "get", rend |-> r, run |-> mSrc.run,
                         first |-> SegmentAt(mSrc, r, t), time |-> t, dur |-> mSrc.dur]]
    /\ UNCHANGED <<mSrc, mClock, mOut, mDisturbed>>

\* clock = _live_sequence_clocks.get(key), and what the thread sees it must do.
ClockRead(c) ==
    /\ mConv[c].pc = "get"
    /\ mConv' = [mConv EXCEPT ![c].pc =
                    IF mClock = MNil THEN "create"
                    ELSE IF MustAnchor(mClock, mConv[c].time, mConv[c].dur) THEN "origin"
                    ELSE "number"]
    /\ UNCHANGED <<mSrc, mClock, mOut, mDisturbed>>

Answer(c, seq) ==
    /\ mOut' = IF mConv[c].run # mSrc.run THEN mOut
               ELSE [mOut EXCEPT ![mConv[c].rend] = [first |-> mConv[c].first, seq |-> seq]]
    /\ mConv' = [mConv EXCEPT ![c] = MIdle]

\* A new clock, whatever another thread put there meanwhile; the thread numbers by
\* its own, which is zero.
ClockCreated(c) ==
    /\ mConv[c].pc = "create"
    /\ mClock' = [origin |-> mConv[c].time, dur |-> mConv[c].dur]
    /\ Answer(c, 0)
    /\ mDisturbed' = (mDisturbed \/ ~Alone(c))
    /\ UNCHANGED mSrc

\* clock['origin'] and clock['duration'] are set one after the other.
OriginSet(c) ==
    /\ mConv[c].pc = "origin" /\ mClock # MNil
    /\ mClock' = [mClock EXCEPT !.origin = mConv[c].time]
    /\ mConv' = [mConv EXCEPT ![c].pc = "duration"]
    /\ mDisturbed' = (mDisturbed \/ ~Alone(c))
    /\ UNCHANGED <<mSrc, mOut>>

DurationSet(c) ==
    /\ mConv[c].pc = "duration" /\ mClock # MNil
    /\ mClock' = [mClock EXCEPT !.dur = mConv[c].dur]
    /\ mConv' = [mConv EXCEPT ![c].pc = "number"]
    /\ mDisturbed' = (mDisturbed \/ ~Alone(c))
    /\ UNCHANGED <<mSrc, mOut>>

\* Mutant of Sequence: the time is cut, not rounded.
SequenceCut(clock, time) == Max2(0, (time - clock.origin) \div clock.dur)

Sequence(clock, time) == Max2(0, Round(time - clock.origin, clock.dur))

Numbered(c) ==
    /\ mConv[c].pc = "number" /\ mClock # MNil
    /\ Answer(c, Sequence(mClock, mConv[c].time))
    /\ UNCHANGED <<mSrc, mClock, mDisturbed>>

\* 512 other playbacks began since: the table drops its oldest clocks.  (Here
\* between conversions; a thread that holds the clock goes on with it.)
ClockEvicted ==
    /\ mClock # MNil /\ \A c \in MThread : mConv[c].pc = "idle"
    /\ mClock' = MNil /\ mDisturbed' = TRUE
    /\ UNCHANGED <<mSrc, mConv, mOut>>

-----------------------------------------------------------------------------
(* The source.                                                             *)

\* One more segment; the oldest one goes.
SourceAdvances ==
    /\ mSrc.last < MLast /\ mSrc' = [mSrc EXCEPT !.last = @ + 1]
    /\ UNCHANGED <<mClock, mConv, mOut, mDisturbed>>

\* The source restarts, on another timeline or with another cadence.
SourceRestarts(base, dur) ==
    /\ mSrc.run = 0 /\ <<base, dur>> # <<mSrc.base, mSrc.dur>>
    /\ mSrc' = [mSrc EXCEPT !.run = 1, !.last = 0, !.base = base, !.dur = dur]
    /\ mDisturbed' = (mDisturbed \/ \E c \in MThread : mConv[c].pc # "idle")
    /\ mOut' = [r \in MRend |-> MNil]
    /\ UNCHANGED <<mClock, mConv>>

MpdNext ==
    \/ \E c \in MThread : \/ \E r \in MRend : ConvertStarts(c, r)
                          \/ ClockRead(c) \/ ClockCreated(c) \/ OriginSet(c)
                          \/ DurationSet(c) \/ Numbered(c)
    \/ ClockEvicted \/ SourceAdvances
    \/ \E base \in Bases, dur \in MDurs : SourceRestarts(base, dur)

MpdSpec == MpdInit /\ [][MpdNext]_mpdVars

-----------------------------------------------------------------------------
(* Properties.                                                             *)

\* However the source writes its timeline, the expansion lists the segments it has,
\* each once: neither a missing start nor an open repetition moves one.
TimelineIsRight(src) ==
    \A r \in MRend, shape \in Shapes :
        Expanded(Timeline(src, shape, r), Published(src, r)) =
            [i \in 1 .. src.last - Oldest(src) + 1 |-> Start(src, r, Oldest(src) + i - 1)]
TimelineExpanded == [][mSrc' # mSrc => TimelineIsRight(mSrc')]_mpdVars

\* All playlists of a playback count by the same clock: within a run of the source
\* the number of a segment is the same in every rendition and on every reload, so a
\* player that reloads one, or changes to another, goes on where it was.  Threads
\* that overlap while the clock is set, and an eviction, are the exceptions; zero is
\* also the number of what lies before the origin.
SameNumbering(o, p) ==
    (o # MNil /\ p # MNil /\ o.seq > 0 /\ p.seq > 0) => o.seq - o.first = p.seq - p.first
OneNumbering ==
    [][mOut' # mOut /\ ~mDisturbed' =>
        \A r, s \in MRend : /\ SameNumbering(mOut'[r], mOut'[s])
                           /\ SameNumbering(mOut[r], mOut'[r])]_mpdVars
=============================================================================
