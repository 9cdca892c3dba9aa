---------------------------- MODULE MCOutbound ----------------------------
(* The two managed local proxies, WARP and Tor.  They share no state and no  *)
(* lock, so the product of their behaviours says nothing their own do not:   *)
(* each behaviour of this instance is one of the component "focus" with the  *)
(* other one at rest (in a state in which no fairness condition asks for a   *)
(* step: switched off, with nothing to do).                                  *)
EXTENDS WarpControl, TorClient, TLC

CONSTANTS p1, p2, k, s, r1, a1

VARIABLE focus

Pids     == {p1, p2}
Requests == {r1}
Panels   == {a1}

\* A configuration saved with Tor off and an exit pinned, and one with Tor on and none.
Files == {[enabled |-> FALSE, nodes |-> "relay", country |-> TRUE],
          [enabled |-> TRUE, nodes |-> "none", country |-> FALSE]}

\* Nothing is claimed once two of WARP's scripts have met (wMet), and the
\* instance does not follow it there.
Apart == wMet # "script"

Rest(component) == focus # component

Init ==
    /\ focus \in {"warp", "tor"} /\ WarpInit /\ TorInit
    /\ wFile \in {WNil, p1}
    /\ Rest("warp") => ~wEnabled /\ wFile = WNil
    /\ Rest("tor") => ~tEnabled /\ tNodes = "none" /\ ~tCountry /\ ~tForeign

Next ==
    \/ focus = "warp" /\ WarpNext /\ UNCHANGED <<focus, torVars>>
    \/ focus = "tor" /\ TorNext /\ UNCHANGED <<focus, warpVars>>

WarpTurn == focus = "warp"
TorTurn  == focus = "tor"

\* WarpFairness and TorFairness, each asked of its component in focus.
Spec ==
    /\ Init /\ [][Next]_<<focus, warpVars, torVars>>
    /\ WF_warpVars(WarpTurn /\ KeepaliveTick) /\ WF_warpVars(WarpTurn /\ CooldownOver)
    /\ WF_warpVars(WarpTurn /\ (WScript(WKeeper) \/ WProbing(WKeeper)))
    /\ WF_warpVars(WarpTurn /\ (WScript(WSweeper) \/ WProbing(WSweeper)))
    /\ WF_warpVars(WarpTurn /\ \E a \in WTraffic \cup WPanel : WScript(a) \/ WProbing(a))
    /\ SF_warpVars(WarpTurn /\ \E a \in WAgent : WLaunch(a))
    /\ SF_warpVars(WarpTurn /\ \E p \in WPid : WBinds(p))
    /\ WF_warpVars(WarpTurn /\ \E p \in WPid : WDies(p))
    /\ WF_torVars(TorTurn /\ KeepaliveRound)
    /\ \A a \in TAgent : SF_torVars(TorTurn /\ (TStep(a) \/ LookUpFails(a)))
    /\ WF_torVars(TorTurn /\ \E p \in TPid : TorBoots(p) \/ TorEnds(p))

\* The types, and: only who holds the lock is inside Tor's start or stop.
OutboundTypeOK == WarpTypeOK /\ TorTypeOK

\* What was switched off is down once nobody is at work, but for the overlaps that
\* WarpOffIsDown and TorOffIsDown name.
OffIsDown == WarpOffIsDown /\ TorOffIsDown

\* What is switched on comes back after refusals, crashes and time-outs, Tor with an exit
\* pinned, and with no relay excluded for longer than the change of identity.
ClientsRecover == WarpRecovers /\ TorRecovers /\ TorPins /\ []TorExcludeCleared
===========================================================================
