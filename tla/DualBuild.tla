----------------------------- MODULE DualBuild -----------------------------
(***************************************************************************)
(* Building a DUAL playback (services/proxy_dual.py _build_dual_result): a *)
(* task registers the wanted audio while the request itself first tries to *)
(* measure the offset through the English rendition of the same source.    *)
(* Both pin what they registered until the build is over, and a            *)
(* measurement (services/dual/sync.py) pins its track, too; the pins are   *)
(* what keeps the clean-up of DualStore off a track for the whole build.   *)
(***************************************************************************)
EXTENDS DualStore

CONSTANTS
    DBuild,   \* requests that build a playback
    DBridge   \* the English rendition

ASSUME BuildAssumption == DBridge \in DHid /\ IsFiniteSet(DBuild)

VARIABLES dBuild   \* each build

buildVars == <<storeVars, dBuild>>

BIdle == [pc |-> "idle", h |-> DNil, prep |-> "none", subs |-> "none", pins |-> {},
          meas |-> DNil, synced |-> FALSE]

\* The states in which a build or its measurement waits for something outside.
Awaiting == {"manifest", "bkey", "bresolve", "bsync", "wait", "sync", "subs"}

\* Types, and: a build measures in the states for it only.
BuildTypeOK ==
    /\ dBuild \in [DBuild -> [pc : Awaiting \cup {"idle", "stop", "over"}, h : DHid \cup {DNil},
                           prep : {"none", "key", "resolve", "done", "failed", "cancelled"},
                           subs : {"none", "run", "done", "cancelled"}, pins : SUBSET DHid,
                           meas : DHid \cup {DNil}, synced : BOOLEAN]]
    /\ \A b \in DBuild :
         /\ dBuild[b].pc = "sync" => dBuild[b].meas = dBuild[b].h
         /\ dBuild[b].meas # DNil => dBuild[b].pc \in {"bsync", "sync"}

BuildInit == DualStoreInit /\ dBuild = [b \in DBuild |-> BIdle]

Set(b, new) == dBuild' = [dBuild EXCEPT ![b] = new]
To(b, pc)   == [dBuild[b] EXCEPT !.pc = pc]

\* A task that runs is cancelled, and awaited before the build goes on.
Cancelled(task, running) == IF task \in running THEN "cancelled" ELSE task

\* An exception leaves the try of the build: its tasks are cancelled.
Stopped(b) ==
    [To(b, "stop") EXCEPT !.prep = Cancelled(@, {"key", "resolve"}),
                          !.subs = Cancelled(@, {"run"}), !.meas = DNil]

-----------------------------------------------------------------------------
(* One build.                                                              *)

\* _build_dual_result up to the tasks it starts: both sources are resolved, the
\* manifests read and a session issued; the shared cache may know the offset.
BuildStarts(b, h, cached) ==
    /\ dBuild[b].pc = "idle"
    /\ Set(b, [BIdle EXCEPT !.pc = IF cached \/ h = DBridge THEN "wait" ELSE "manifest",
                            !.h = h, !.prep = "key", !.subs = "run", !.synced = cached])
    /\ UNCHANGED storeVars

\* The English manifest: a rendition of its own with the same timeline, or no
\* bridge; an error of the source is logged.
BridgeManifest(b) ==
    /\ dBuild[b].pc = "manifest"
    /\ \E pc \in {"bkey", "wait"} : Set(b, To(b, pc))
    /\ UNCHANGED storeVars

\* _prepare_dual_audio, first half: the key is fetched and the track registered;
\* a track the limit drops at once is an error 400.
PrepareRegisters(b, h, kept, failed) ==
    \/ Set(b, failed) /\ UNCHANGED storeVars
    \/ /\ Registered(h) /\ UNCHANGED <<dPinned, dActive>>
       /\ Set(b, IF h \in Remaining(h) THEN kept ELSE failed)

\* Second half: the addresses resolved publicly and the track still there (an
\* expired one is an error 500), it is pinned for the build.
PreparePins(b, h, new) ==
    /\ Stored(h) /\ Touched(h) /\ Pinned(h)
    /\ Set(b, [new EXCEPT !.pins = @ \cup {h}])
    /\ UNCHANGED <<dActive, dReq>>

\* The task of the wanted audio.
PrepTask(b) ==
    LET h == dBuild[b].h
        done(p) == [dBuild[b] EXCEPT !.prep = p]
    IN  \/ /\ dBuild[b].prep = "key"
           /\ PrepareRegisters(b, h, done("resolve"), done("failed"))
        \/ /\ dBuild[b].prep = "resolve"
           /\ \/ PreparePins(b, h, done("done"))
              \/ Set(b, done("failed")) /\ UNCHANGED storeVars

\* measure: the track is pinned for the measurement, beside the pin of the build.
MeasureStarts(b, h, pc) ==
    /\ Stored(h) /\ Touched(h) /\ Pinned(h)
    /\ Set(b, [To(b, pc) EXCEPT !.meas = h])
    /\ UNCHANGED <<dActive, dReq>>

\* The English audio, in the request itself: errors of the source or the service
\* give up the bridge, any other one (a track gone meanwhile) the build.
BridgeRegisters(b) ==
    /\ dBuild[b].pc = "bkey"
    /\ PrepareRegisters(b, DBridge, To(b, "bresolve"), To(b, "wait"))

BridgePins(b) ==
    /\ dBuild[b].pc = "bresolve"
    /\ \/ PreparePins(b, DBridge, To(b, "bsync"))
       \/ Set(b, To(b, "wait")) /\ UNCHANGED storeVars
       \/ ~Stored(DBridge) /\ Set(b, Stopped(b)) /\ UNCHANGED storeVars

BridgeSync(b) ==
    dBuild[b].pc = "bsync" /\ dBuild[b].meas = DNil /\ MeasureStarts(b, DBridge, "bsync")

\* Mutant of Measured: a measurement that fails keeps its pin.
MeasuredOnSuccess(b, ok) == IF ok THEN Unpinned({dBuild[b].meas}) ELSE UNCHANGED dPinned

\* The finally of _measure_isolated, also when wait_for cancelled it.
Measured(b, ok) == Unpinned({dBuild[b].meas})

\* The bridge measured, was rejected, failed or ran into the time limit: only the
\* first one spares the measurement of the wanted audio.
BridgeEnds(b, ok) ==
    /\ dBuild[b].pc = "bsync" /\ dBuild[b].meas # DNil /\ Measured(b, ok)
    /\ Set(b, [To(b, "wait") EXCEPT !.meas = DNil, !.synced = ok])
    /\ UNCHANGED <<dTracks, dOlder, dActive, dReq>>

\* synced is None or its status is not ok.
Synced(b) == dBuild[b].synced

\* prepared = await prepared_task.
PrepAwaited(b) ==
    /\ dBuild[b].pc = "wait"
    /\ \/ dBuild[b].prep = "failed" /\ Set(b, Stopped(b)) /\ UNCHANGED storeVars
       \/ dBuild[b].prep = "done" /\ Synced(b) /\ Set(b, To(b, "subs")) /\ UNCHANGED storeVars
       \/ dBuild[b].prep = "done" /\ ~Synced(b) /\ MeasureStarts(b, dBuild[b].h, "sync")

\* The measurement of the wanted audio; one that fails fails the build (409).
SyncEnds(b, ok) ==
    /\ dBuild[b].pc = "sync" /\ Measured(b, ok)
    /\ Set(b, IF ok THEN [To(b, "subs") EXCEPT !.meas = DNil, !.synced = TRUE] ELSE Stopped(b))
    /\ UNCHANGED <<dTracks, dOlder, dActive, dReq>>

\* _register_dual_subtitle of every subtitle; errors only skip it.
SubtitlesRegistered(b) ==
    /\ dBuild[b].subs = "run" /\ Set(b, [dBuild[b] EXCEPT !.subs = "done"])
    /\ UNCHANGED storeVars

\* _unpin_all.
UnpinAll(b) == Unpinned(dBuild[b].pins)

\* The finally of the build.
BuildFinishes(b) ==
    /\ \/ dBuild[b].pc = "subs" /\ dBuild[b].subs = "done"
       \/ dBuild[b].pc = "stop"
    /\ UnpinAll(b) /\ Set(b, [To(b, "over") EXCEPT !.pins = {}])
    /\ UNCHANGED <<dTracks, dOlder, dActive, dReq>>

\* The answer is sent, and the client may ask again.
BuildForgotten(b) == dBuild[b].pc = "over" /\ Set(b, BIdle) /\ UNCHANGED storeVars

\* The request is cancelled while it waits (the server shuts down).
BuildCancelled(b) ==
    /\ dBuild[b].pc \in Awaiting
    /\ IF dBuild[b].meas = DNil THEN UNCHANGED dPinned ELSE Measured(b, FALSE)
    /\ Set(b, Stopped(b))
    /\ UNCHANGED <<dTracks, dOlder, dActive, dReq>>

RequestStep(b) ==
    \/ BridgeManifest(b) \/ BridgeRegisters(b) \/ BridgePins(b) \/ BridgeSync(b)
    \/ PrepAwaited(b) \/ BuildFinishes(b)
    \/ \E ok \in BOOLEAN : BridgeEnds(b, ok) \/ SyncEnds(b, ok)

BuildNext ==
    \E b \in DBuild :
        \/ \E h \in DHid, cached \in BOOLEAN : BuildStarts(b, h, cached)
        \/ RequestStep(b) \/ PrepTask(b) \/ SubtitlesRegistered(b)
        \/ BuildForgotten(b) \/ BuildCancelled(b)

DualNext == BuildNext \/ (PlayNext /\ UNCHANGED dBuild)

BuildSpec == BuildInit /\ [][DualNext]_buildVars

-----------------------------------------------------------------------------
(* Properties.                                                             *)

\* The pins of a track are those of the builds and measurements that hold it: none
\* is lost while somebody relies on it, and none stays behind after an error, a
\* time-out or a cancellation (it would keep the track until the process ends).
PinsAreHeld ==
    \A h \in DHid : dPinned[h] = Cardinality({b \in DBuild : h \in dBuild[b].pins})
                               + Cardinality({b \in DBuild : dBuild[b].meas = h})

\* What a build prepared or measures is stored, until the build is over.
HeldTracksStored ==
    \A b \in DBuild, h \in DHid : h \in dBuild[b].pins \/ dBuild[b].meas = h => Stored(h)

\* A build that is over has left no task running that would still register, pin
\* or measure for it.
NothingLeftRunning ==
    \A b \in DBuild : dBuild[b].pc \in {"stop", "over"} =>
        /\ dBuild[b].prep \notin {"key", "resolve"} /\ dBuild[b].subs # "run"
        /\ dBuild[b].meas = DNil

\* A build succeeds only with an offset that was measured, or known before, and
\* with its own audio registered: giving up the bridge never skips the sync.
SyncedBeforeSubtitles ==
    \A b \in DBuild : dBuild[b].pc = "subs" => dBuild[b].synced /\ dBuild[b].prep = "done"
                                                /\ Stored(dBuild[b].h)

\* Conversions under way outlive the clean-up: a track a request converts from is
\* replaced, evicted or given up for its age by the registration of a build only.
ActiveSurvivesCleanup ==
    [][\A r \in DReq : /\ dReq[r].pc = "convert" /\ dReq[r].mine
                       /\ dReq'[r].pc = "convert" /\ ~dReq'[r].mine
          => \E b \in DBuild : \/ dBuild[b].prep = "key" /\ dBuild'[b].prep # "key"
                               \/ dBuild[b].pc = "bkey" /\ dBuild'[b].pc # "bkey"]_buildVars

\* A build on the store, whatever ends it: pins exact, its tracks there, no task left
\* behind, no success without an offset.
BuildsHold == BuildTypeOK /\ PinsAreHeld /\ HeldTracksStored /\ NothingLeftRunning /\ SyncedBeforeSubtitles
=============================================================================
