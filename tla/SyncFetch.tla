----------------------------- MODULE SyncFetch -----------------------------
(***************************************************************************)
(* The downloads of DUAL measurements (services/dual/sync.py): the probes  *)
(* of a measurement share each media file they fetch, and all measurements *)
(* share one adaptive gate per host, which halves its limit when the CDN   *)
(* throttles and recovers with its successes; the playlists are fetched    *)
(* outside the gate, and tell it so too.  A probe that is no longer needed *)
(* cancels its downloads wherever they are.  There are fewer hosts than    *)
(* gates (256), so none is dropped.                                        *)
(***************************************************************************)
EXTENDS Integers, Sequences, FiniteSets, SequencesExt

CONSTANTS
    FEng,       \* measurements under way (each has its own cache)
    FUrl,       \* media files of one host
    FSlot,      \* concurrent downloads of one measurement
    FInitial,   \* initial limit of the gate
    FMax,       \* its maximum
    FRun,       \* successes in a row that raise it
    FTries      \* attempts of a download

ASSUME FetchAssumption ==
    /\ FInitial \in 1 .. FMax /\ FMax \in Nat /\ FRun \in Nat \ {0} /\ FTries \in Nat \ {0}
    /\ IsFiniteSet(FEng) /\ IsFiniteSet(FSlot)

Down == FEng \X FSlot

VARIABLES
    fDown,    \* each download: state, file and attempt
    fQueue,   \* those waiting at the gate and not notified, first come first
    fIn,      \* _in_flight
    fLimit,   \* limit
    fGood,    \* _successes
    fRecent,  \* a throttling was noted less than two seconds ago
    fCache,   \* the files each measurement has (_download_cache)
    fLost     \* history: a notification went to a download being cancelled

fetchVars == <<fDown, fQueue, fIn, fLimit, fGood, fRecent, fCache, fLost>>

Fetching == {"range", "again", "full", "sleep"}   \* inside the gate
FIdle    == [pc |-> "idle", url |-> {}, try |-> 0]

FetchTypeOK ==
    /\ fDown \in [Down -> [pc : {"idle", "lock", "queued", "woken", "ended"} \cup Fetching,
                           url : {{}} \cup {{u} : u \in FUrl}, try : 0 .. FTries]]
    /\ IsInjective(fQueue) /\ ToSet(fQueue) = {d \in Down : fDown[d].pc = "queued"}
    /\ fIn \in Nat /\ fLimit \in 1 .. FMax /\ fGood \in Nat
    /\ fRecent \in BOOLEAN /\ fCache \in [FEng -> SUBSET FUrl] /\ fLost \in BOOLEAN

FetchInit ==
    /\ fDown = [d \in Down |-> FIdle] /\ fQueue = <<>> /\ fIn = 0 /\ fLimit = FInitial
    /\ fGood = 0 /\ fRecent = FALSE /\ fCache = [e \in FEng |-> {}] /\ fLost = FALSE

-----------------------------------------------------------------------------
(* The gate.                                                               *)

\* note_success.
NoteSuccess ==
    IF fGood + 1 >= FRun /\ fLimit < FMax
    THEN fLimit' = fLimit + 1 /\ fGood' = 0
    ELSE fGood' = Min({fGood + 1, FRun}) /\ UNCHANGED fLimit

Halved == IF fLimit \div 2 > 1 THEN fLimit \div 2 ELSE 1

\* note_throttle: once per incident.
NoteThrottle ==
    IF fRecent THEN UNCHANGED <<fLimit, fGood, fRecent>>
    ELSE fRecent' = TRUE /\ fGood' = 0 /\ fLimit' = Halved

Quiet == UNCHANGED <<fLimit, fGood, fRecent>>

\* notify: the first waiting download, if any, is woken.
Notify(down) ==
    IF fQueue = <<>> THEN fQueue' = fQueue /\ fDown' = down
    ELSE fQueue' = Tail(fQueue) /\ fDown' = [down EXCEPT ![Head(fQueue)].pc = "woken"]

\* Mutant of Leave: the slot of a download that fails is kept.
LeaveKeeping(d, down) ==
    (IF fDown[d].pc = "sleep" THEN UNCHANGED fIn ELSE fIn' = fIn - 1) /\ Notify(down)

\* __aexit__.
Leave(d, down) == fIn' = fIn - 1 /\ Notify(down)

\* Mutant of MayEnter: one more than the limit.
MayEnterOneMore(d) == fIn <= fLimit
MayEnter(d) == fIn < fLimit

\* __aenter__ (wait_for): inside, or (again) at the end of the queue.
Enter(d, u) ==
    /\ IF MayEnter(d)
       THEN /\ fIn' = fIn + 1 /\ UNCHANGED fQueue
            /\ fDown' = [fDown EXCEPT ![d] = [pc |-> "range", url |-> u, try |-> 1]]
       ELSE /\ fQueue' = Append(fQueue, d) /\ UNCHANGED fIn
            /\ fDown' = [fDown EXCEPT ![d] = [pc |-> "queued", url |-> u, try |-> 0]]

-----------------------------------------------------------------------------
(* _download.                                                              *)

Locked(e, u) == \E s \in FSlot : /\ fDown[<<e, s>>].url = u
                                 /\ fDown[<<e, s>>].pc \in Fetching \cup {"queued", "woken"}
Awaited(e, u) == \E s \in FSlot : fDown[<<e, s>>].pc = "lock" /\ fDown[<<e, s>>].url = u

\* With the lock of the file: a copy of the cached file, or through the gate.
Proceed(d, u) ==
    IF u \subseteq fCache[d[1]]
    THEN fDown' = [fDown EXCEPT ![d] = [FIdle EXCEPT !.pc = "ended"]] /\ UNCHANGED <<fQueue, fIn>>
    ELSE Enter(d, u)

Contended(e, u) == Locked(e, u) \/ Awaited(e, u)

DownloadStarts(d, u) ==
    /\ fDown[d].pc = "idle"
    /\ IF Contended(d[1], {u})
       THEN /\ fDown' = [fDown EXCEPT ![d] = [pc |-> "lock", url |-> {u}, try |-> 0]]
            /\ UNCHANGED <<fQueue, fIn>>
       ELSE Proceed(d, {u})
    /\ Quiet /\ UNCHANGED <<fCache, fLost>>

LockTaken(d) ==
    /\ fDown[d].pc = "lock" /\ ~Locked(d[1], fDown[d].url) /\ Proceed(d, fDown[d].url)
    /\ Quiet /\ UNCHANGED <<fCache, fLost>>

GateWakes(d) ==
    /\ fDown[d].pc = "woken" /\ Enter(d, fDown[d].url)
    /\ Quiet /\ UNCHANGED <<fCache, fLost>>

At(d, pc) == [fDown EXCEPT ![d].pc = pc]
EndedAs   == [FIdle EXCEPT !.pc = "ended"]

\* The whole file is here, by ranges or at once: cached for the measurement.
FileComplete(d) ==
    /\ fDown[d].pc \in {"range", "again", "full"}
    /\ Leave(d, [fDown EXCEPT ![d] = EndedAs])
    /\ fCache' = [fCache EXCEPT ![d[1]] = @ \cup fDown[d].url]
    /\ NoteSuccess /\ UNCHANGED <<fRecent, fLost>>

\* A range arrived and more follow; or its answer is unusable (_get itself
\* succeeded) and the whole file is asked for.
RangeArrives(d, usable) ==
    /\ fDown[d].pc \in {"range", "again"}
    /\ fDown' = At(d, IF usable THEN "range" ELSE "full")
    /\ NoteSuccess /\ UNCHANGED <<fQueue, fIn, fRecent, fCache, fLost>>

\* A GET fails, throttled or not: a range is asked for twice, then the whole file;
\* that failing, the attempt is over.
GetFails(d, throttled) ==
    /\ fDown[d].pc \in {"range", "again", "full"}
    /\ fDown' = At(d, CASE fDown[d].pc = "range" -> "again"
                        [] fDown[d].pc = "again" -> "full"
                        [] OTHER -> "sleep")
    /\ IF throttled THEN NoteThrottle ELSE Quiet
    /\ UNCHANGED <<fQueue, fIn, fCache, fLost>>

\* The slot is kept between attempts; after the last one the error is raised.
AttemptAgain(d) ==
    /\ fDown[d].pc = "sleep"
    /\ IF fDown[d].try < FTries
       THEN /\ fDown' = [fDown EXCEPT ![d].pc = "range", ![d].try = @ + 1]
            /\ UNCHANGED <<fQueue, fIn>>
       ELSE Leave(d, [fDown EXCEPT ![d] = EndedAs])
    /\ Quiet /\ UNCHANGED <<fCache, fLost>>

\* ValueError (too large, not public) is not retried; a cancellation is a way out
\* of every wait.  asyncio may or may not pass on the notification of a woken
\* waiter that is cancelled before it runs: it depends on the interpreter.
DownloadAborts(d) ==
    LET gone == [fDown EXCEPT ![d] = EndedAs]
    IN  /\ \/ fDown[d].pc \in Fetching /\ Leave(d, gone) /\ UNCHANGED fLost
           \/ /\ fDown[d].pc = "lock" /\ fDown' = gone /\ UNCHANGED <<fQueue, fIn, fLost>>
           \/ /\ fDown[d].pc = "queued" /\ fDown' = gone
              /\ \E i \in DOMAIN fQueue : fQueue[i] = d /\ fQueue' = RemoveAt(fQueue, i)
              /\ UNCHANGED <<fIn, fLost>>
           \/ /\ fDown[d].pc = "woken" /\ UNCHANGED fIn
              /\ \/ Notify(gone) /\ UNCHANGED fLost
                 \/ fDown' = gone /\ fLost' = TRUE /\ UNCHANGED fQueue
        /\ Quiet /\ UNCHANGED fCache

\* _measure_isolated ends with its downloads; the next one starts afresh.
MeasurementEnds(e) ==
    /\ \A s \in FSlot : fDown[<<e, s>>].pc \in {"idle", "ended"}
    /\ \E s \in FSlot : fDown[<<e, s>>].pc = "ended"
    /\ fDown' = [d \in Down |-> IF d[1] = e THEN FIdle ELSE fDown[d]]
    /\ fCache' = [fCache EXCEPT ![e] = {}]
    /\ Quiet /\ UNCHANGED <<fQueue, fIn, fLost>>

\* _get of a playlist of the host, at any time: it does not enter the gate.
PlaylistRead(throttled) ==
    /\ IF throttled THEN NoteThrottle ELSE NoteSuccess /\ UNCHANGED fRecent
    /\ UNCHANGED <<fDown, fQueue, fIn, fCache, fLost>>

ThrottlingForgotten ==
    /\ fRecent /\ fRecent' = FALSE
    /\ UNCHANGED <<fDown, fQueue, fIn, fLimit, fGood, fCache, fLost>>

FetchNext ==
    \/ \E d \in Down, u \in FUrl : DownloadStarts(d, u)
    \/ \E d \in Down : LockTaken(d) \/ GateWakes(d) \/ FileComplete(d) \/ AttemptAgain(d)
                       \/ DownloadAborts(d)
    \/ \E d \in Down, b \in BOOLEAN : RangeArrives(d, b) \/ GetFails(d, b)
    \/ \E e \in FEng : MeasurementEnds(e)
    \/ \E b \in BOOLEAN : PlaylistRead(b)
    \/ ThrottlingForgotten

FetchSpec == FetchInit /\ [][FetchNext]_fetchVars

-----------------------------------------------------------------------------
(* Properties.                                                             *)

\* The count of the gate is the number of downloads inside, after every error,
\* retry and cancellation: it neither starves the host nor lets too many in.
SlotsAreHeld == fIn = Cardinality({d \in Down : fDown[d].pc \in Fetching})

\* After the limit was halved nobody enters until the surplus has left.
NobodyEntersOver == [][fIn' > fIn => fIn' <= fLimit]_fetchVars

\* Downloads wait only while somebody inside, or already woken, will wake the next
\* one; the exception is a notification the interpreter lost.
NobodyForgotten ==
    fQueue # <<>> => fIn > 0 \/ fLost \/ \E d \in Down : fDown[d].pc = "woken"

\* The probes of a measurement fetch a file once, not beside each other and not
\* again after it came.
FileFetchedOnce ==
    \A d, f \in Down : fDown[d].pc \in Fetching =>
        /\ ~(fDown[d].url \subseteq fCache[d[1]])
        /\ (f # d /\ f[1] = d[1] /\ fDown[f].pc \in Fetching => fDown[f].url # fDown[d].url)

\* The gate of a host after any errors, retries and cancellations counts who is inside and
\* forgets nobody (every download that waits is in the queue once).
GateIsExact == FetchTypeOK /\ SlotsAreHeld /\ NobodyForgotten /\ FileFetchedOnce
=============================================================================
