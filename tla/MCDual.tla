------------------------------- MODULE MCDual -------------------------------
(* DUAL playback.  Each behaviour of this instance is one of the component      *)
(* "focus": players on the audio store beside one build ("play"), two builds of *)
(* the same source ("build"), the resolutions of two requests ("resolve"), the  *)
(* downloads of two measurements behind one gate ("fetch") and the decision of  *)
(* a measurement ("probe").  What rests stays in its initial state; the modules *)
(* share no variable but those of the store.                                    *)
EXTENDS DualBuild, DualResolve, SyncFetch, SyncProbes, TLC

CONSTANT b2

VARIABLE focus

Found == {-4, 0, 4}

Init ==
    /\ focus \in {"play", "build", "resolve", "fetch", "probe"}
    /\ BuildInit /\ ResolveInit /\ FetchInit /\ ProbesInit

PlayStep ==
    \/ PlayNext /\ UNCHANGED dBuild
    \/ BuildNext /\ dBuild'[b2] = dBuild[b2]

BuildStep ==
    \/ BuildNext
    \/ (CleanupIdle \/ DualTick) /\ UNCHANGED dBuild

Next ==
    \/ focus = "play" /\ PlayStep /\ UNCHANGED <<focus, resolveVars, fetchVars, probesVars>>
    \/ focus = "build" /\ BuildStep /\ UNCHANGED <<focus, resolveVars, fetchVars, probesVars>>
    \/ focus = "resolve" /\ ResolveNext /\ UNCHANGED <<focus, buildVars, fetchVars, probesVars>>
    \/ focus = "fetch" /\ FetchNext /\ UNCHANGED <<focus, buildVars, resolveVars, probesVars>>
    \/ focus = "probe" /\ ProbesNext /\ UNCHANGED <<focus, buildVars, resolveVars, fetchVars>>

Spec == Init /\ [][Next]_<<focus, buildVars, resolveVars, fetchVars, probesVars>>

\* What no step may do: the clean-up never takes a track from a conversion, nobody
\* enters a gate that was halved before the surplus has left, and a measurement goes on to
\* look for a drift on samples only, not on failures.
StepsSound == ActiveSurvivesCleanup /\ NobodyEntersOver /\ RejectedOnSamples
=============================================================================
