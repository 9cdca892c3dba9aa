---------------------------- MODULE MCPlayback ----------------------------
(* What a playback through EasyProxy rests on: the choice of a route, the    *)
(* configuration, the conversion of live MPDs and ClearKey decryption.  The    *)
(* modules share no variable: each behaviour of this instance is one of the    *)
(* component "focus", with the others at rest in an initial state.             *)
EXTENDS Routing, ConfigStore, MpdLive, ClearKey, TLC

VARIABLE focus

\* Routing: a list of two proxies, or none; hosts without exclusion, and with one each.
Lists    == {<<>>, <<"p1", "p2">>}
Names    == {RNil, ROff, "p1", RWarp}
Paths    == {RWarp, "tor"}
Policies == {{}, {"warp_off"}, {"proxy_off"}}

\* MPD: the audio is two seconds late.
Skews == ("audio" :> 2) @@ ("video" :> 0)

\* ClearKey: a clear fragment, one that says everything itself, with a pssh box and a
\* clear byte in each sample, and one whose sample sizes are in the init segment.
Fragment(enc, where, sizes, pssh, lead) ==
    [enc |-> enc, where |-> where, sizes |-> sizes, pssh |-> pssh,
     boxes |-> IF enc THEN 5 ELSE 0, lead |-> lead]
Fragments == {Fragment(FALSE, "trun", <<2>>, 0, 0), Fragment(TRUE, "trun", <<3, 2>>, 3, 1),
              Fragment(TRUE, "trex", <<2, 2>>, 0, 0)}
Segments  == {<<f>> : f \in Fragments} \cup {<<f, g>> : f, g \in Fragments}
KeyLists  == {<<"kid">>, <<"other", "kid">>}

Rest(component) == focus # component

Init ==
    /\ focus \in {"routing", "config", "mpd", "clearkey"}
    /\ ConfigInit /\ MpdInit /\ (Rest("mpd") => mSrc.last = 0)
    /\ RoutingInit /\ (Rest("routing") => rCfg.policy = {} /\ rCfg.route = RWarp
                        /\ rCfg.global = <<>> /\ rCfg.ext = <<>> /\ ~rCfg.warp)
    /\ ClearKeyInit /\ (Rest("clearkey") => kSrc.iv = 0 /\ kSrc.keys = <<"kid">> /\ kSrc.ranged /\ ~kSrc.sidx
                         /\ kSrc.frags = <<Fragment(FALSE, "trun", <<2>>, 0, 0)>>)

Playback == <<routingVars, configVars, mpdVars, clearKeyVars>>

Next ==
    /\ UNCHANGED focus
    /\ \/ focus = "routing" /\ RoutingNext /\ UNCHANGED <<configVars, mpdVars, clearKeyVars>>
       \/ focus = "config" /\ ConfigNext /\ UNCHANGED <<routingVars, mpdVars, clearKeyVars>>
       \/ focus = "mpd" /\ MpdNext /\ UNCHANGED <<routingVars, configVars, clearKeyVars>>
       \/ focus = "clearkey" /\ ClearKeyNext /\ UNCHANGED <<routingVars, configVars, mpdVars>>

Spec == Init /\ [][Next]_<<focus, Playback>>

\* Nothing is claimed of the numbering once conversions met while the clock was set, or
\* the clock was evicted, and the instance does not follow it there.
Undisturbed == ~mDisturbed

\* The types, and: no local endpoint is ever passed over as dead.
PlaybackTypeOK == RoutingTypeOK /\ MpdTypeOK
===========================================================================
