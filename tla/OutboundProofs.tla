--------------------------- MODULE OutboundProofs ---------------------------
(***************************************************************************)
(* What holds of the two managed local proxies, WARP (WarpControl) and Tor *)
(* (TorClient), for any number of pids, callers, operations and faults: no *)
(* process is lost, and what is switched off goes down.  WInv and TInv say *)
(* who has a handle on a live process; WOff and TOff say what is still at  *)
(* work on a component that is switched off.                               *)
(***************************************************************************)
EXTENDS MCOutbound, ListProofs

-----------------------------------------------------------------------------
(* WARP: the pid file names every live wireproxy until two scripts overlap. *)

\* The callers and the file, typed; the counters play no part in the argument.
WTyped ==
    /\ wFile \in WPid \cup {WNil}
    /\ wProc \in [WPid -> WProcState]
    /\ wTask \in [WAgent -> [pc : WPc, op : WOp, pid : WPid \cup {WNil}]]

\* One script at a time; what it waits for is what the file names, and it
\* launches when there is no file.
OneScript ==
    \A a \in WAgent : WScripting(a) =>
        /\ \A b \in WAgent \ {a} : ~WScripting(b)
        /\ wTask[a].pc = "wait" => wFile = wTask[a].pid
        /\ wTask[a].pc = "launch" => wFile = WNil

\* WarpNoOrphan alone is not inductive: a script that has waited removes the
\* file whatever it names by then, and one that launches overwrites it.
WInv == WTyped /\ (wMet # "script" => WarpNoOrphan /\ OneScript)

\* No script has met another one, so far and in this step.
Serial == wMet # "script" /\ wMet' # "script"

\* A step after which the overlap is history keeps the types only.
LEMMA WSplit ==
    ASSUME WInv, WTyped', wMet = "script" => wMet' = "script",
           Serial => WarpNoOrphan' /\ OneScript'
    PROVE  WInv'
  BY DEF WInv, Serial

\* What a move of one caller does to the scripts when no file is touched.
LEMMA WMove ==
    ASSUME WInv, Serial, NEW a \in WAgent, NEW t,
           wTask' = [wTask EXCEPT ![a] = t], wFile' = wFile, wProc' = wProc,
           t.pc \in {"wait", "launch"} => t = wTask[a],
           (t.pc \in WScriptPc /\ ~WScripting(a)) => \A b \in WAgent \ {a} : ~WScripting(b)
    PROVE  WarpNoOrphan' /\ OneScript'
<1>1. WarpNoOrphan /\ OneScript /\ WTyped
  BY DEF WInv, Serial
<1>2. WarpNoOrphan'
  BY <1>1 DEF WarpNoOrphan, Serial
<1>3. OneScript'
  BY <1>1 DEF OneScript, WScripting, WScriptPc, WTyped
<1> QED
  BY <1>2, <1>3

LEMMA WarpInitial == WarpInit => WInv
<1> SUFFICES ASSUME WarpInit PROVE WInv
  OBVIOUS
<1>1. WTyped
  BY WarpAssumption DEF WarpInit, WTyped, WProcState, WIdle, WPc, WOp, WScriptPc
<1>2. WarpNoOrphan
  BY DEF WarpInit, WarpNoOrphan
<1>3. OneScript
  BY DEF WarpInit, OneScript, WScripting, WScriptPc, WIdle
<1> QED
  BY <1>1, <1>2, <1>3 DEF WInv

LEMMA WarpTypes == ASSUME WInv, [WarpNext]_warpVars PROVE WTyped'
<1> USE WarpAssumption DEF WInv, WTyped, WProcState, WPc, WOp, WScriptPc, WIdle
<1>a. WKeeper \in WAgent /\ WSweeper \in WAgent /\ WTraffic \subseteq WAgent /\ WPanel \subseteq WAgent
  BY DEF WAgent
<1>1. ASSUME NEW a \in WAgent, WScript(a) PROVE WTyped'
  <2>1. CASE WStop(a)
    BY <2>1 DEF WStop, AfterStop, Finish, GoTo, WRunning
  <2>2. CASE WStopped(a)
    BY <2>2 DEF WStopped, AfterStop, Finish, GoTo
  <2>3. CASE WStopGivesUp(a)
    BY <2>3 DEF WStopGivesUp, ScriptEnded, Finish, GoTo
  <2>4. CASE WCheck(a)
    BY <2>4 DEF WCheck, ScriptEnded, Finish, GoTo
  <2>5. CASE WLaunch(a)
    BY <2>5 DEF WLaunch, ScriptEnded, Finish, GoTo
  <2> QED BY <1>1, <2>1, <2>2, <2>3, <2>4, <2>5 DEF WScript
<1>2. ASSUME NEW a \in WAgent, WScriptTimesOut(a) PROVE WTyped'
  BY <1>2 DEF WScriptTimesOut, ScriptEnded, Finish, GoTo
<1>3. ASSUME NEW a \in WAgent, NEW op \in WOp, ReconnectWarp(a, op), UNCHANGED <<wFile, wProc>>
      PROVE  WTyped'
  BY <1>3 DEF ReconnectWarp, Finish, Become
<1>4. ASSUME NEW a \in WAgent, WProbing(a) PROVE WTyped'
  <2>1. CASE ProbeWarp(a)
    <3>1. CASE Tunnelled
      BY <2>1, <3>1 DEF ProbeWarp, Finish
    <3>2. CASE ~Tunnelled
      BY <2>1, <3>2, <1>3 DEF ProbeWarp, ProbeFailed, Finish
    <3> QED BY <3>1, <3>2
  <2>2. CASE BindWait(a)
    BY <2>2 DEF BindWait, Finish, GoTo
  <2>3. CASE Confirm(a)
    BY <2>3 DEF Confirm, Finish
  <2> QED BY <1>4, <2>1, <2>2, <2>3 DEF WProbing
<1>5. CASE KeepaliveTick
  BY <1>5, <1>a DEF KeepaliveTick, Become
<1>6. CASE RecycleIdleWarp
  BY <1>6, <1>a DEF RecycleIdleWarp, Become
<1>7. ASSUME NEW a \in WPanel, WarpToggle(a) \/ PanelReconnect(a) PROVE WTyped'
  <2>1. CASE ReconnectWarp(a, "on") /\ UNCHANGED <<wFile, wProc>>
    BY <2>1, <1>3, <1>a
  <2>2. CASE ReconnectWarp(a, "reconnect") /\ UNCHANGED <<wFile, wProc>>
    BY <2>2, <1>3, <1>a
  <2>3. CASE Become(a, "off", "stop") /\ UNCHANGED <<wFile, wProc>>
    BY <2>3, <1>a DEF Become
  <2> QED BY <1>7, <2>1, <2>2, <2>3 DEF WarpToggle, PanelReconnect
<1>8. ASSUME NEW r \in WTraffic, UseWarp(r) \/ UseEnds(r) PROVE WTyped'
  BY <1>8, <1>a DEF UseWarp, UseEnds, Become, Finish, GoTo
<1>9. ASSUME NEW p \in WPid, WBinds(p) \/ WDies(p) \/ WFault(p) PROVE WTyped'
  BY <1>9 DEF WBinds, WDies, WFault
<1>10. CASE CooldownOver \/ ConfigStored
  BY <1>10 DEF CooldownOver, ConfigStored
<1>11. CASE UNCHANGED warpVars
  BY <1>11 DEF warpVars
<1> QED
  BY <1>1, <1>2, <1>4, <1>5, <1>6, <1>7, <1>8, <1>9, <1>10, <1>11 DEF WarpNext

\* Starting a script beside another one is what wMet records.
LEMMA WBegin ==
    ASSUME WInv, Serial, NEW a \in WAgent, NEW op, Beside(a, op)
    PROVE  \A b \in WAgent \ {a} : ~WScripting(b)
  BY DEF Beside, Serial

LEMMA WReconnect ==
    ASSUME WInv, Serial, NEW a \in WAgent, NEW op, ReconnectWarp(a, op), ~WScripting(a),
           UNCHANGED <<wFile, wProc>>
    PROVE  WarpNoOrphan' /\ OneScript'
<1>1. CASE wCooling \/ LockHeld
  BY <1>1, WMove, WIdle.pc \notin WScriptPc DEF ReconnectWarp, Finish, WIdle, WScriptPc
<1>2. CASE ~(wCooling \/ LockHeld)
  <2>1. \A b \in WAgent \ {a} : ~WScripting(b)
    BY <1>2, WBegin DEF ReconnectWarp
  <2> QED
    BY <1>2, <2>1, WMove DEF ReconnectWarp, Become
<1> QED
  BY <1>1, <1>2

\* An overlap stays in the history.
LEMMA WMetStays ==
    ASSUME [WarpNext]_warpVars, wMet = "script" PROVE wMet' = "script"
<1>1. ASSUME NEW a, NEW op, Beside(a, op) PROVE wMet' = "script"
  BY <1>1 DEF Beside
<1>2. ASSUME NEW a, NEW op, ReconnectWarp(a, op) PROVE wMet' = "script"
  BY <1>1, <1>2 DEF ReconnectWarp
<1>3. ASSUME NEW a, WScript(a) \/ WScriptTimesOut(a) PROVE wMet' = "script"
  BY <1>3 DEF WScript, WStop, WStopped, WStopGivesUp, WCheck, WLaunch, WScriptTimesOut
<1>4. ASSUME NEW a, WProbing(a) PROVE wMet' = "script"
  <2>1. CASE ProbeWarp(a)
    BY <2>1, <1>2 DEF ProbeWarp, ProbeFailed
  <2>2. CASE BindWait(a) \/ Confirm(a)
    BY <2>2 DEF BindWait, Confirm
  <2> QED BY <1>4, <2>1, <2>2 DEF WProbing
<1>5. ASSUME NEW a, WarpToggle(a) \/ PanelReconnect(a) PROVE wMet' = "script"
  BY <1>5, <1>1, <1>2 DEF WarpToggle, PanelReconnect
<1>6. CASE KeepaliveTick \/ RecycleIdleWarp \/ CooldownOver \/ ConfigStored
  BY <1>6, <1>1 DEF KeepaliveTick, RecycleIdleWarp, CooldownOver, ConfigStored
<1>7. ASSUME NEW r, UseWarp(r) \/ UseEnds(r) PROVE wMet' = "script"
  BY <1>7 DEF UseWarp, UseEnds
<1>8. ASSUME NEW p, WBinds(p) \/ WDies(p) \/ WFault(p) PROVE wMet' = "script"
  BY <1>8 DEF WBinds, WDies, WFault
<1>9. CASE UNCHANGED warpVars
  BY <1>9 DEF warpVars
<1> QED
  BY <1>3, <1>4, <1>5, <1>6, <1>7, <1>8, <1>9 DEF WarpNext

LEMMA WarpSerialStep ==
    ASSUME WInv, [WarpNext]_warpVars, Serial PROVE WarpNoOrphan' /\ OneScript'
<1> USE WarpAssumption
<1>a. /\ WTyped /\ WarpNoOrphan /\ OneScript
      /\ WKeeper \in WAgent /\ WSweeper \in WAgent
      /\ WTraffic \subseteq WAgent /\ WPanel \subseteq WAgent
  BY DEF WInv, Serial, WAgent
<1>1. ASSUME NEW a \in WAgent, WScript(a) PROVE WarpNoOrphan' /\ OneScript'
  <2> USE <1>a DEF WTyped, WarpNoOrphan, OneScript, Serial, WScripting, WScriptPc, WIdle
  <2>1. CASE WStop(a)
    <3>1. CASE WRunning(wFile)
      BY <2>1, <3>1 DEF WStop, WRunning
    <3>2. CASE ~WRunning(wFile)
      BY <2>1, <3>2 DEF WStop, WRunning, AfterStop, Finish, GoTo
    <3> QED BY <3>1, <3>2
  <2>2. CASE WStopped(a)
    BY <2>2 DEF WStopped, WRunning, AfterStop, Finish, GoTo
  <2>3. CASE WStopGivesUp(a)
    BY <2>3 DEF WStopGivesUp, ScriptEnded, Finish, GoTo
  <2>4. CASE WCheck(a)
    BY <2>4 DEF WCheck, WRunning, ScriptEnded, Finish, GoTo
  <2>5. CASE WLaunch(a)
    BY <2>5 DEF WLaunch, ScriptEnded, Finish, GoTo
  <2> QED BY <1>1, <2>1, <2>2, <2>3, <2>4, <2>5 DEF WScript
<1>2. ASSUME NEW a \in WAgent, WScriptTimesOut(a) PROVE WarpNoOrphan' /\ OneScript'
  BY <1>2, <1>a DEF WScriptTimesOut, ScriptEnded, Finish, GoTo, WTyped, WarpNoOrphan,
                    OneScript, Serial, WScripting, WScriptPc, WIdle
<1>3. ASSUME NEW a \in WAgent, WProbing(a) PROVE WarpNoOrphan' /\ OneScript'
  <2>1. CASE ProbeWarp(a)
    <3>1. CASE Tunnelled
      BY <2>1, <3>1, WMove DEF ProbeWarp, Finish, WIdle, WScriptPc
    <3>2. CASE ~Tunnelled
      <4>1. ASSUME NEW op, ReconnectWarp(a, op), UNCHANGED <<wFile, wProc>>
            PROVE  WarpNoOrphan' /\ OneScript'
        BY <2>1, <4>1, WReconnect DEF ProbeWarp, WScripting, WScriptPc
      <4>2. CASE Finish(a)
        BY <2>1, <4>2, WMove DEF ProbeWarp, Finish, WIdle, WScriptPc
      <4> QED BY <2>1, <3>2, <4>1, <4>2 DEF ProbeWarp, ProbeFailed
    <3> QED BY <3>1, <3>2
  <2>2. CASE BindWait(a)
    <3>1. CASE GoTo(a, "confirm")
      BY <2>2, <3>1, <1>a DEF BindWait, GoTo, WTyped, WarpNoOrphan, OneScript, Serial,
                              WScripting, WScriptPc
    <3>2. CASE Finish(a)
      BY <2>2, <3>2, WMove DEF BindWait, Finish, WIdle, WScriptPc
    <3> QED BY <2>2, <3>1, <3>2 DEF BindWait
  <2>3. CASE Confirm(a)
    BY <2>3, WMove DEF Confirm, Finish, WIdle, WScriptPc
  <2> QED BY <1>3, <2>1, <2>2, <2>3 DEF WProbing
<1>4. CASE KeepaliveTick
  <2>1. CASE wEnabled
    BY <1>4, <2>1, <1>a, WMove DEF KeepaliveTick, Become, WScriptPc
  <2>2. CASE ~wEnabled
    BY <1>4, <2>2, <1>a DEF KeepaliveTick, WarpNoOrphan, OneScript, Serial, WScripting
  <2> QED BY <2>1, <2>2
<1>5. CASE RecycleIdleWarp
  <2>1. \A b \in WAgent \ {WSweeper} : ~WScripting(b)
    BY <1>5, <1>a, WBegin DEF RecycleIdleWarp
  <2> QED
    BY <1>5, <2>1, <1>a, WMove DEF RecycleIdleWarp, Become
<1>6. ASSUME NEW a \in WPanel, WarpToggle(a) \/ PanelReconnect(a)
      PROVE  WarpNoOrphan' /\ OneScript'
  <2>1. ~WScripting(a) /\ a \in WAgent /\ UNCHANGED <<wFile, wProc>>
    BY <1>6, <1>a DEF WarpToggle, PanelReconnect, WScripting, WScriptPc, WIdle
  <2>2. ASSUME NEW op, ReconnectWarp(a, op) PROVE WarpNoOrphan' /\ OneScript'
    BY <2>1, <2>2, WReconnect
  <2>3. CASE Become(a, "off", "stop") /\ Beside(a, "off")
    <3>1. \A b \in WAgent \ {a} : ~WScripting(b)
      BY <2>1, <2>3, WBegin
    <3> QED
      BY <2>1, <2>3, <3>1, WMove DEF Become
  <2> QED BY <1>6, <2>2, <2>3 DEF WarpToggle, PanelReconnect
<1>7. ASSUME NEW r \in WTraffic, UseWarp(r) \/ UseEnds(r) PROVE WarpNoOrphan' /\ OneScript'
  <2> USE <1>a DEF WTyped, WarpNoOrphan, OneScript, Serial, WScripting, WScriptPc, WIdle
  <2>1. CASE UseWarp(r)
    BY <2>1 DEF UseWarp, Become
  <2>2. CASE UseEnds(r)
    BY <2>2 DEF UseEnds, Finish, GoTo
  <2> QED BY <1>7, <2>1, <2>2
<1>8. ASSUME NEW p \in WPid, WBinds(p) \/ WDies(p) \/ WFault(p)
      PROVE  WarpNoOrphan' /\ OneScript'
  BY <1>8, <1>a DEF WBinds, WDies, WFault, WTyped, WarpNoOrphan, OneScript, Serial, WScripting
<1>9. CASE CooldownOver \/ ConfigStored
  BY <1>9, <1>a DEF CooldownOver, ConfigStored, WarpNoOrphan, OneScript, Serial, WScripting
<1>10. CASE UNCHANGED warpVars
  BY <1>10, <1>a DEF warpVars, WarpNoOrphan, OneScript, Serial, WScripting
<1> QED
  BY <1>1, <1>2, <1>3, <1>4, <1>5, <1>6, <1>7, <1>8, <1>9, <1>10 DEF WarpNext

LEMMA WarpStep == WInv /\ [WarpNext]_warpVars => WInv'
  BY WMetStays, WarpTypes, WarpSerialStep, WSplit

\* Until two scripts have met, the next stop finds every live wireproxy.
THEOREM NoWarpOrphan == WarpSpec => []WarpNoOrphan
<1>1. WInv => WarpNoOrphan
  BY DEF WInv, WarpNoOrphan
<1> QED
  BY <1>1, WarpInitial, WarpStep, PTL DEF WarpSpec

-----------------------------------------------------------------------------
(* WARP: the counters, and what is switched off.                           *)

WCounts ==
    /\ wEnabled \in BOOLEAN /\ wFails \in 0 .. WPatience /\ wCooling \in BOOLEAN
    /\ wStamp \in BOOLEAN /\ wFaults \in 0 .. WMaxFault
    /\ wMet \in {"none", "probe", "script"}

LEMMA WarpTypeParts == WTyped /\ WCounts <=> WarpTypeOK
  BY DEF WTyped, WCounts, WarpTypeOK

\* What a refused or begun restart leaves of the clock and of the history.
LEMMA ReconnectCounts ==
    ASSUME WCounts, NEW a, NEW op, ReconnectWarp(a, op)
    PROVE  wCooling' \in BOOLEAN /\ wMet' \in {"none", "probe", "script"}
  BY DEF WCounts, ReconnectWarp, Beside

LEMMA WarpCounts == ASSUME WCounts, [WarpNext]_warpVars PROVE WCounts'
<1> USE WarpAssumption
<1>1. ASSUME NEW a, WScript(a) \/ WScriptTimesOut(a) PROVE WCounts'
  BY <1>1 DEF WCounts, WScript, WStop, WStopped, WStopGivesUp, WCheck, WLaunch, WScriptTimesOut
<1>2. ASSUME NEW a, WProbing(a) PROVE WCounts'
  <2>1. CASE ProbeWarp(a)
    <3>1. wFails' \in 0 .. WPatience
      BY <2>1 DEF ProbeWarp, ProbeFailed, WCounts
    <3>2. wCooling' \in BOOLEAN /\ wMet' \in {"none", "probe", "script"}
      BY <2>1, ReconnectCounts DEF ProbeWarp, ProbeFailed, WCounts
    <3> QED
      BY <2>1, <3>1, <3>2 DEF ProbeWarp, WCounts
  <2>2. CASE BindWait(a)
    <3>1. wStamp' \in BOOLEAN
      BY <2>2 DEF BindWait, WCounts
    <3> QED
      BY <2>2, <3>1 DEF BindWait, WCounts
  <2>3. CASE Confirm(a)
    BY <2>3 DEF Confirm, WCounts
  <2> QED
    BY <1>2, <2>1, <2>2, <2>3 DEF WProbing
<1>3. ASSUME NEW a, WarpToggle(a) \/ PanelReconnect(a) PROVE WCounts'
  <2>1. wCooling' \in BOOLEAN /\ wMet' \in {"none", "probe", "script"}
    BY <1>3, ReconnectCounts DEF WarpToggle, PanelReconnect, Beside, WCounts
  <2> QED
    BY <1>3, <2>1 DEF WarpToggle, PanelReconnect, WCounts
<1>4. CASE KeepaliveTick \/ RecycleIdleWarp \/ CooldownOver
  <2>1. wMet' \in {"none", "probe", "script"} /\ wFails' \in 0 .. WPatience
    BY <1>4 DEF KeepaliveTick, RecycleIdleWarp, CooldownOver, Beside, WCounts
  <2>2. wCooling' \in BOOLEAN
    BY <1>4 DEF KeepaliveTick, RecycleIdleWarp, CooldownOver, WCounts
  <2> QED
    BY <1>4, <2>1, <2>2 DEF KeepaliveTick, RecycleIdleWarp, CooldownOver, WCounts
<1>5. ASSUME NEW r, UseWarp(r) \/ UseEnds(r) PROVE WCounts'
  BY <1>5 DEF UseWarp, UseEnds, WCounts
<1>6. ASSUME NEW p, WBinds(p) \/ WDies(p) \/ WFault(p) PROVE WCounts'
  BY <1>6 DEF WBinds, WDies, WFault, WCounts
<1>7. CASE UNCHANGED warpVars
  BY <1>7 DEF warpVars, WCounts
<1>8. CASE ConfigStored
  <2>1. wMet' \in {"none", "probe", "script"}
    BY <1>8 DEF ConfigStored, WCounts
  <2> QED
    BY <1>8, <2>1 DEF ConfigStored, WCounts
<1> QED
  BY <1>1, <1>2, <1>3, <1>4, <1>5, <1>6, <1>7, <1>8 DEF WarpNext

\* The switch is at work: its script has not sent the process its signal yet.
Switching == \E a \in WAgent : wTask[a].pc = "stop"
GoingDown == \A p \in WPid : wProc[p] \in {"none", "dying"}

\* What may be at work on a WARP that its switch put off, as long as the switch met
\* nobody: nothing but the script of the switch, and nothing that restarts.
OffQuiet ==
    \A a \in WAgent : /\ wTask[a].pc \notin {"probe", "check", "launch"}
                      /\ WScripting(a) => wTask[a].op = "off"

WOff == (~wEnabled /\ wMet = "none") => OffQuiet /\ (Switching \/ GoingDown)

WarpInv == WInv /\ WCounts /\ WOff

\* WARP is off, no overlap is on record, and a step leaves it so.
StaysOff == ~wEnabled /\ wMet = "none" /\ ~wEnabled' /\ wMet' = "none"

\* A script of the switch goes on, or ends.
LEMMA OffScript ==
    ASSUME WInv, StaysOff, OffQuiet, Switching \/ GoingDown, NEW a \in WAgent,
           WScript(a) \/ WScriptTimesOut(a)
    PROVE  OffQuiet' /\ (Switching \/ GoingDown)'
<1>1. /\ wTask[a].pc \in {"stop", "wait"} /\ wTask[a].op = "off"
      /\ WTyped /\ WarpNoOrphan /\ OneScript
  BY DEF WScript, WStop, WStopped, WStopGivesUp, WCheck, WLaunch, WScriptTimesOut, OffQuiet,
         WScripting, WScriptPc, WInv, StaysOff
<1>2. \A b \in WAgent \ {a} : wTask[b].pc # "stop"
  BY <1>1 DEF OneScript, WScripting, WScriptPc
<1>3. \A p \in WPid : wProc[p] # "none" => wFile = p
  BY <1>1 DEF WarpNoOrphan, StaysOff
<1>4. CASE WStop(a) /\ WRunning(wFile)
  <2>1. /\ wProc' = [wProc EXCEPT ![wFile] = "dying"]
        /\ wTask' = [wTask EXCEPT ![a].pc = "wait", ![a].pid = wFile]
    BY <1>4 DEF WStop
  <2>2. GoingDown'
    BY <1>1, <1>3, <2>1 DEF GoingDown, WTyped
  <2>3. OffQuiet'
    BY <1>1, <2>1 DEF OffQuiet, WTyped, WScripting
  <2> QED
    BY <2>2, <2>3
<1>5. CASE Finish(a) /\ wProc' = wProc /\ GoingDown
  BY <1>1, <1>5 DEF Finish, WIdle, OffQuiet, WTyped, WScripting, WScriptPc, GoingDown
<1>6. CASE WStop(a) /\ ~WRunning(wFile)
  <2>1. Finish(a) /\ wProc' = wProc
    BY <1>1, <1>6 DEF WStop, AfterStop
  <2>2. GoingDown
    BY <1>3, <1>6, WarpAssumption DEF GoingDown, WRunning
  <2> QED
    BY <1>5, <2>1, <2>2
<1>7. CASE WStopped(a) \/ WStopGivesUp(a) \/ WScriptTimesOut(a)
  <2>1. wTask[a].pc = "wait" /\ Finish(a) /\ wProc' = wProc
    BY <1>1, <1>7 DEF WStopped, WStopGivesUp, WScriptTimesOut, AfterStop, ScriptEnded
  <2>2. GoingDown
    BY <1>2, <2>1 DEF Switching
  <2> QED
    BY <1>5, <2>1, <2>2
<1> QED
  BY <1>1, <1>4, <1>6, <1>7 DEF WScript, WCheck, WLaunch

\* Whoever ends, or only waits, changes nothing of this.
LEMMA OffOthers ==
    ASSUME WInv, OffQuiet, Switching \/ GoingDown, NEW a \in WAgent, wProc' = wProc,
           wTask[a].pc # "stop", wTask' = wTask \/ Finish(a)
    PROVE  OffQuiet' /\ (Switching \/ GoingDown)'
<1>1. CASE wTask' = wTask
  BY <1>1 DEF OffQuiet, Switching, GoingDown, WScripting
<1>2. CASE Finish(a)
  <2>1. OffQuiet'
    BY <1>2 DEF Finish, WIdle, OffQuiet, WInv, WTyped, WScripting, WScriptPc
  <2>2. \A b \in WAgent : wTask[b].pc = "stop" => wTask'[b] = wTask[b]
    BY <1>2 DEF Finish, WInv, WTyped
  <2> QED
    BY <2>1, <2>2 DEF Switching, GoingDown
<1> QED
  BY <1>1, <1>2

\* The switch itself, when it met no probe and no script.
LEMMA OffBegins ==
    ASSUME WInv, NEW a \in WAgent, Become(a, "off", "stop"), Beside(a, "off"), wMet' = "none"
    PROVE  OffQuiet' /\ Switching'
<1>1. \A b \in WAgent \ {a} : ~WScripting(b) /\ wTask[b].pc # "probe"
  BY DEF Beside
<1>2. wTask' = [wTask EXCEPT ![a] = [pc |-> "stop", op |-> "off", pid |-> WNil]]
  BY DEF Become
<1>3. OffQuiet'
  BY <1>1, <1>2 DEF OffQuiet, WInv, WTyped, WScripting, WScriptPc
<1>4. Switching'
  BY <1>2 DEF Switching, WInv, WTyped
<1> QED
  BY <1>3, <1>4

LEMMA OffStep == ASSUME WarpInv, WInv', [WarpNext]_warpVars PROVE WOff'
<1> SUFFICES ASSUME ~wEnabled', wMet' = "none" PROVE OffQuiet' /\ (Switching \/ GoingDown)'
  BY DEF WOff
<1>a. /\ WInv /\ WKeeper \in WAgent /\ WSweeper \in WAgent
      /\ WTraffic \subseteq WAgent /\ WPanel \subseteq WAgent
  BY DEF WarpInv, WAgent
<1>b. ASSUME ~wEnabled, wMet = "none" PROVE OffQuiet /\ (Switching \/ GoingDown)
  BY <1>b DEF WarpInv, WOff
<1>c. ASSUME NEW a, NEW op, op # "off", Beside(a, op)
      PROVE  wMet = "none" /\ ~(op = "reconnect" /\ ~wEnabled)
  BY <1>c DEF Beside
<1>d. ASSUME NEW a, NEW op, op # "off", ReconnectWarp(a, op)
      PROVE  wMet = "none" /\ (op = "reconnect" /\ ~wEnabled => Finish(a))
  BY <1>d, <1>c DEF ReconnectWarp
<1>1. ASSUME NEW a \in WAgent, WScript(a) \/ WScriptTimesOut(a)
      PROVE  OffQuiet' /\ (Switching \/ GoingDown)'
  <2>0. UNCHANGED <<wEnabled, wMet>>
    BY <1>1 DEF WScript, WStop, WStopped, WStopGivesUp, WCheck, WLaunch, WScriptTimesOut
  <2>1. StaysOff
    BY <2>0, Zenon DEF StaysOff
  <2> QED
    BY <1>1, <1>a, <1>b, <2>1, OffScript DEF StaysOff
<1>2. ASSUME NEW a \in WAgent, WProbing(a) PROVE OffQuiet' /\ (Switching \/ GoingDown)'
  <2>1. ~wEnabled /\ wMet = "none" /\ wProc' = wProc
    BY <1>2, <1>d DEF WProbing, ProbeWarp, ProbeFailed, BindWait, Confirm
  <2>2. OffQuiet /\ (Switching \/ GoingDown)
    BY <2>1, <1>b
  <2>3. wTask[a].pc # "stop" /\ Finish(a)
    BY <1>2, <2>1, <2>2 DEF WProbing, ProbeWarp, BindWait, Confirm, OffQuiet
  <2> QED
    BY <1>a, <2>1, <2>2, <2>3, OffOthers
<1>3. ASSUME NEW a \in WPanel, WarpToggle(a) \/ PanelReconnect(a)
      PROVE  OffQuiet' /\ (Switching \/ GoingDown)'
  <2>1. CASE WarpToggle(a)
    <3>1. Become(a, "off", "stop") /\ Beside(a, "off")
      BY <2>1 DEF WarpToggle
    <3> QED
      BY <1>a, <3>1, OffBegins
  <2>2. CASE PanelReconnect(a)
    <3>1. ~wEnabled /\ wTask[a] = WIdle /\ ReconnectWarp(a, "reconnect") /\ wProc' = wProc
      BY <2>2 DEF PanelReconnect
    <3>2. wMet = "none" /\ Finish(a) /\ wTask[a].pc # "stop"
      BY <3>1, <1>d DEF WIdle
    <3> QED
      BY <1>a, <1>b, <3>1, <3>2, OffOthers
  <2> QED
    BY <1>3, <2>1, <2>2
<1>4. CASE KeepaliveTick \/ CooldownOver \/ UNCHANGED warpVars
  <2>1. /\ ~wEnabled /\ wMet = "none" /\ wProc' = wProc /\ wTask' = wTask
    BY <1>4 DEF KeepaliveTick, CooldownOver, warpVars
  <2> QED
    BY <1>b, <2>1 DEF OffQuiet, Switching, GoingDown, WScripting
<1>8. CASE ConfigStored
  <2>1. /\ ~wEnabled /\ wMet = "none" /\ wProc' = wProc /\ wTask' = wTask
    BY <1>8, <1>a DEF ConfigStored, WarpInv, WCounts
  <2> QED
    BY <1>b, <2>1 DEF OffQuiet, Switching, GoingDown, WScripting
<1>5. CASE RecycleIdleWarp
  BY <1>5 DEF RecycleIdleWarp
<1>6. ASSUME NEW r \in WTraffic, UseWarp(r) \/ UseEnds(r)
      PROVE  OffQuiet' /\ (Switching \/ GoingDown)'
  <2>1. /\ ~wEnabled /\ wMet = "none" /\ wProc' = wProc
        /\ wTask[r].pc # "stop" /\ Finish(r)
    BY <1>6 DEF UseWarp, UseEnds
  <2> QED
    BY <1>a, <1>b, <1>6, <2>1, OffOthers
<1>7. ASSUME NEW p \in WPid, WBinds(p) \/ WDies(p) \/ WFault(p)
      PROVE  OffQuiet' /\ (Switching \/ GoingDown)'
  <2>1. ~wEnabled /\ wMet = "none" /\ wTask' = wTask
    BY <1>7 DEF WBinds, WDies, WFault
  <2>2. GoingDown => GoingDown'
    BY <1>7, <1>a DEF WBinds, WDies, WFault, GoingDown, WInv, WTyped
  <2> QED
    BY <1>b, <2>1, <2>2 DEF OffQuiet, Switching, WScripting
<1> QED
  BY <1>1, <1>2, <1>3, <1>4, <1>5, <1>6, <1>7, <1>8 DEF WarpNext

LEMMA WarpInvInit == WarpInit => WarpInv
<1> SUFFICES ASSUME WarpInit PROVE WarpInv
  OBVIOUS
<1>1. WCounts
  <2>1. wEnabled \in BOOLEAN /\ wCooling \in BOOLEAN /\ wStamp \in BOOLEAN
    BY DEF WarpInit
  <2>2. wMet \in {"none", "probe", "script"}
    BY DEF WarpInit
  <2>3. wFails \in 0 .. WPatience /\ wFaults \in 0 .. WMaxFault
    BY WarpAssumption DEF WarpInit
  <2> QED
    BY <2>1, <2>2, <2>3 DEF WCounts
<1>2. WOff
  <2>1. OffQuiet
    BY DEF WarpInit, OffQuiet, WIdle, WScripting, WScriptPc
  <2>2. ~wEnabled /\ wMet = "none" => wFile = WNil
    BY DEF WarpInit
  <2>3. wFile = WNil => GoingDown
    BY WarpAssumption DEF WarpInit, GoingDown
  <2> QED
    BY <2>1, <2>2, <2>3 DEF WOff
<1> QED
  BY <1>1, <1>2, WarpInitial DEF WarpInv

LEMMA WarpInvStep == WarpInv /\ [WarpNext]_warpVars => WarpInv'
  BY WarpStep, WarpCounts, OffStep DEF WarpInv

LEMMA WarpInvGives == WarpInv => WarpTypeOK /\ WarpOffIsDown
<1> SUFFICES ASSUME WarpInv PROVE WarpTypeOK /\ WarpOffIsDown
  OBVIOUS
<1>1. WarpTypeOK
  BY WarpTypeParts DEF WarpInv, WInv
<1>2. WarpOffIsDown
  BY DEF WarpInv, WOff, WarpOffIsDown, Switching, GoingDown, WIdle
<1> QED
  BY <1>1, <1>2

-----------------------------------------------------------------------------
(* Tor: every live process has a handle.                                   *)

\* What the argument needs to know of a coroutine's record.
TRecord(t) ==
    /\ DOMAIN t = {"op", "plan", "at", "pid", "fail", "nodes", "country"}
    /\ t.at \in {"", "boot", "stale", "term"} /\ t.pid \in TPid \cup {TNil}

TTyped ==
    /\ tProc \in [TPid -> {"none", "booting", "up", "ending"}]
    /\ tHandle \in TPid \cup {TNil} /\ tLock \in TAgent \cup {TNil}
    /\ DOMAIN tTask = TAgent /\ \A a \in TAgent : TRecord(tTask[a])

\* The lock is held exactly by who is inside _start or stop.
LockInside == \A a \in TAgent : tTask[a].at # "" <=> tLock = a

\* What _start waits for is its process; a wait is for one.
BootIsHandle ==
    \A a \in TAgent : /\ tTask[a].at = "boot" => tTask[a].pid = tHandle
                      /\ tTask[a].at \in {"boot", "term"} => tTask[a].pid \in TPid
                      /\ tTask[a].at = "stale" => tTask[a].pid = TNil /\ tHandle = TNil

\* TorOneProcess alone is not inductive: _start lets the lock go when it is done, and
\* the handle must then be the process it has been waiting for.
TInv == TTyped /\ LockInside /\ BootIsHandle /\ TorOneProcess

\* The step leaves a outside _start and stop, and the other coroutines alone.
Settles(a) ==
    /\ DOMAIN tTask' = TAgent
    /\ TRecord(tTask'[a]) /\ tTask'[a].at = ""
    /\ \A b \in TAgent \ {a} : tTask'[b] = tTask[b]

-----------------------------------------------------------------------------
(* Records of the coroutines.                                              *)

\* A record that goes on with its plan, or has ended, is between two steps.
LEMMA LeftRecord ==
    ASSUME NEW t, TRecord(t), NEW plan
    PROVE  TRecord(Left(t, plan)) /\ Left(t, plan).at = ""
  BY DEF Left, TRecord, TIdle

\* A step that ran without an error leaves its coroutine between two steps.
LEMMA ProceedSettles ==
    ASSUME TTyped, NEW a \in TAgent, Proceed(a)
    PROVE  Settles(a)
<1>1. TRecord(tTask[a])
  BY DEF TTyped
<1>2. tTask'[a] = Left(tTask[a], Tail(tTask[a].plan))
  BY DEF TTyped, Proceed
<1>3. DOMAIN tTask' = TAgent /\ \A b \in TAgent \ {a} : tTask'[b] = tTask[b]
  BY DEF TTyped, Proceed
<1> QED
  BY <1>1, <1>2, <1>3, LeftRecord DEF Settles

\* So does an error, whether it ends the coroutine, is swallowed or rolled back.
LEMMA RaiseSettles ==
    ASSUME TTyped, NEW a \in TAgent, Raise(a)
    PROVE  Settles(a)
<1> DEFINE plan == tTask[a].plan
           rest == IF Marks(plan) = {} THEN <<>> ELSE SubSeq(plan, Nearest(plan) + 1, Len(plan))
<1>1. TRecord(tTask[a])
  BY DEF TTyped
<1>2. \/ tTask' = [tTask EXCEPT ![a] = Left(tTask[a], Start)]
      \/ tTask' = [tTask EXCEPT ![a] = Left(tTask[a], rest)]
  BY DEF Raise
<1> HIDE DEF rest
<1>3. CASE tTask' = [tTask EXCEPT ![a] = Left(tTask[a], Start)]
  BY <1>1, <1>3, LeftRecord DEF Settles, TTyped
<1>4. CASE tTask' = [tTask EXCEPT ![a] = Left(tTask[a], rest)]
  BY <1>1, <1>4, LeftRecord DEF Settles, TTyped
<1> QED
  BY <1>2, <1>3, <1>4

\* A new plan for a coroutine between two steps keeps it there.
LEMMA PinSettles ==
    ASSUME TTyped, NEW a \in TAgent, tTask[a].at = "", NEW rest, PinDefault(a, rest)
    PROVE  Settles(a)
<1>1. \E plan : tTask' = [tTask EXCEPT ![a].plan = plan]
  BY DEF PinDefault, PinCountry
<1> QED
  BY <1>1 DEF Settles, TTyped, TRecord

\* A coroutine that begins is between two steps.
LEMMA LaunchSettles ==
    ASSUME TTyped, NEW a \in TAgent, NEW op, NEW plan, Launch(a, op, plan)
    PROVE  Settles(a) /\ tTask[a].at = ""
<1>1. PICK t : /\ DOMAIN t = DOMAIN TIdle /\ t.at = "" /\ t.pid = TNil
               /\ tTask' = [tTask EXCEPT ![a] = t]
  <2> DEFINE applied == [TIdle EXCEPT !.op = op, !.plan = plan, !.nodes = tNodes, !.country = tCountry]
             plain   == [TIdle EXCEPT !.op = op, !.plan = plan]
             both    == IF op = "apply" THEN applied ELSE plain
  <2>1. /\ DOMAIN applied = DOMAIN TIdle /\ applied.at = "" /\ applied.pid = TNil
        /\ DOMAIN plain = DOMAIN TIdle /\ plain.at = "" /\ plain.pid = TNil
    BY DEF TIdle
  <2>2. tTask' = [tTask EXCEPT ![a] = both]
    BY DEF Launch
  <2> HIDE DEF applied, plain
  <2> QED
    BY <2>1, <2>2
<1>2. DOMAIN TIdle = {"op", "plan", "at", "pid", "fail", "nodes", "country"} /\ TIdle.at = ""
  BY DEF TIdle
<1>3. tTask[a].at = ""
  BY <1>2 DEF Launch
<1> QED
  BY <1>1, <1>2, <1>3 DEF Settles, TTyped, TRecord

-----------------------------------------------------------------------------
(* The two ways a step can leave the lock.                                 *)

\* A step of a coroutine that touches neither lock, handle nor processes.
LEMMA QuietStep ==
    ASSUME TInv, NEW a \in TAgent, tTask[a].at = "", Settles(a),
           UNCHANGED <<tProc, tHandle, tLock>>
    PROVE  TInv'
<1>1. TTyped'
  BY DEF TInv, TTyped, Settles
<1>2. \A b \in TAgent : tTask[b].at = "" => tTask'[b].at = ""
  BY DEF Settles
<1>3. \A b \in TAgent : tTask[b].at # "" => tTask'[b] = tTask[b]
  BY DEF Settles
<1>4. LockInside' /\ BootIsHandle'
  BY <1>2, <1>3 DEF TInv, LockInside, BootIsHandle
<1>5. TorOneProcess'
  BY <1>3 DEF TInv, TorOneProcess, LockInside, TTyped
<1> QED
  BY <1>1, <1>4, <1>5 DEF TInv

\* While the lock is held, every live process is the handle or the holder's.
LEMMA Holder ==
    ASSUME TInv, NEW a \in TAgent, tTask[a].at # ""
    PROVE  /\ tLock = a
           /\ \A b \in TAgent \ {a} : tTask[b].at = ""
           /\ \A p \in TPid : tProc[p] # "none" => tHandle = p \/ tTask[a].pid = p
  BY TorAssumption DEF TInv, LockInside, TorOneProcess, TTyped

\* While it is free, no coroutine is inside and every live process is the handle.
LEMMA Free ==
    ASSUME TInv, tLock = TNil
    PROVE  /\ \A b \in TAgent : tTask[b].at = ""
           /\ \A p \in TPid : tProc[p] # "none" => tHandle = p
  BY TorAssumption DEF TInv, LockInside, TorOneProcess, TTyped, TAgent

\* A step after which the lock is free, no coroutine is inside _start or stop,
\* and the handle covers every live process.
LEMMA LockFreed ==
    ASSUME TInv, NEW a \in TAgent, Settles(a), tLock' = TNil,
           \A b \in TAgent \ {a} : tTask[b].at = "",
           tProc' \in [TPid -> {"none", "booting", "up", "ending"}],
           tHandle' \in TPid \cup {TNil},
           \A p \in TPid : tProc'[p] # "none" => tHandle' = p
    PROVE  TInv'
<1>1. \A b \in TAgent : tTask'[b].at = "" /\ TRecord(tTask'[b])
  BY DEF Settles, TInv, TTyped
<1>2. TTyped'
  BY <1>1 DEF TTyped, Settles
<1>3. LockInside' /\ BootIsHandle'
  BY <1>1, TorAssumption DEF LockInside, BootIsHandle, TAgent
<1> QED
  BY <1>2, <1>3 DEF TInv, TorOneProcess

\* A step after which a is inside, waits for process p, and every live process
\* is that one.
LEMMA LockTaken ==
    ASSUME TInv, NEW a \in TAgent, tLock' = a,
           DOMAIN tTask' = TAgent, TRecord(tTask'[a]),
           \A b \in TAgent \ {a} : tTask'[b] = tTask[b],
           \A b \in TAgent \ {a} : tTask[b].at = "",
           tTask'[a].at \in {"boot", "term"}, tTask'[a].pid \in TPid,
           tTask'[a].at = "boot" => tHandle' = tTask'[a].pid,
           tProc' \in [TPid -> {"none", "booting", "up", "ending"}],
           tHandle' \in TPid \cup {TNil},
           \A p \in TPid : tProc'[p] # "none" => p = tTask'[a].pid
    PROVE  TInv'
<1>0. \A b \in TAgent : TRecord(tTask'[b])
  BY DEF TTyped, TInv
<1>1. TTyped'
  <2>1. tLock' \in TAgent \cup {TNil}
    OBVIOUS
  <2> QED
    BY <1>0, <2>1 DEF TTyped, TRecord
<1>2. \A b \in TAgent \ {a} : tTask'[b].at = ""
  BY ZenonT(60)
<1>3. LockInside'
  BY <1>2 DEF LockInside
<1>4. BootIsHandle'
  BY <1>2 DEF BootIsHandle
<1>5. TorOneProcess'
  BY TorAssumption DEF TorOneProcess, TAgent
<1> QED
  BY <1>1, <1>3, <1>4, <1>5 DEF TInv

\* A launch, with no other tor alive, is a handle on the only one.
LEMMA SpawnKeeps ==
    ASSUME TInv, NEW a \in TAgent, Spawn(a), tLock' = a,
           \A b \in TAgent \ {a} : tTask[b].at = "",
           \A p \in TPid : tProc[p] = "none"
    PROVE  TInv'
<1>1. PICK p \in TPid : /\ tProc' = [tProc EXCEPT ![p] = "booting"] /\ tHandle' = p
                        /\ tTask' = [tTask EXCEPT ![a].at = "boot", ![a].pid = p]
  BY DEF Spawn
<1>2. /\ DOMAIN tTask' = TAgent /\ TRecord(tTask'[a])
      /\ tTask'[a].at = "boot" /\ tTask'[a].pid = p
  BY <1>1 DEF TInv, TTyped, TRecord
<1>3. \A b \in TAgent \ {a} : tTask'[b] = tTask[b]
  BY <1>1 DEF TInv, TTyped
<1>4. /\ tProc' \in [TPid -> {"none", "booting", "up", "ending"}]
      /\ \A q \in TPid : tProc'[q] # "none" => q = p
  BY <1>1 DEF TInv, TTyped
<1>5. /\ tTask'[a].at \in {"boot", "term"} /\ tTask'[a].pid \in TPid
      /\ tTask'[a].at = "boot" => tHandle' = tTask'[a].pid
      /\ tHandle' \in TPid \cup {TNil}
      /\ \A q \in TPid : tProc'[q] # "none" => q = tTask'[a].pid
  BY <1>1, <1>2, <1>4
<1> QED
  BY <1>2, <1>3, <1>4, <1>5, LockTaken

-----------------------------------------------------------------------------
(* One lemma per step of the coroutines.                                   *)

LEMMA StartBeginsKeeps ==
    ASSUME TInv, NEW a \in TAgent, StartBegins(a)
    PROVE  TInv'
<1>1. tTask[a].at = "" /\ tLock = TNil
  BY DEF StartBegins, Ready
<1>2. CASE Alive
  <2>1. Settles(a)
    BY <1>2, ProceedSettles DEF StartBegins, TInv
  <2> QED
    BY <1>1, <1>2, <2>1, QuietStep DEF StartBegins
<1>3. CASE ~Alive
  <2>1. \A p \in TPid : tProc[p] = "none"
    BY <1>1, <1>3, Free, TorAssumption DEF Alive
  <2>2. Spawn(a) /\ tLock' = a
    BY <1>3 DEF StartBegins
  <2> QED
    BY <1>1, <2>1, <2>2, Free, SpawnKeeps
<1> QED
  BY <1>2, <1>3

LEMMA StartRefusedKeeps ==
    ASSUME TInv, NEW a \in TAgent, StartRefused(a)
    PROVE  TInv'
<1>1. tLock = TNil /\ ~Alive /\ tLock' = TNil /\ tHandle' = TNil /\ tProc' = tProc
  BY DEF StartRefused, torOs
<1>2. Settles(a)
  BY RaiseSettles DEF StartRefused, TInv
<1>3. \A p \in TPid : tProc[p] = "none"
  BY <1>1, Free, TorAssumption DEF Alive
<1>4. tProc \in [TPid -> {"none", "booting", "up", "ending"}]
  BY DEF TInv, TTyped
<1> QED
  BY <1>1, <1>2, <1>3, <1>4, Free, LockFreed

LEMMA StartReadyKeeps ==
    ASSUME TInv, NEW a \in TAgent, StartReady(a)
    PROVE  TInv'
<1>1. tTask[a].at = "boot" /\ tLock' = TNil /\ tHandle' = tHandle /\ tProc' = tProc
  BY DEF StartReady, torOs
<1>2. Settles(a)
  BY ProceedSettles DEF StartReady, TInv
<1>3. tTask[a].pid = tHandle
  BY <1>1 DEF TInv, BootIsHandle
<1>4. \A p \in TPid : tProc[p] # "none" => tHandle = p
  BY <1>1, <1>3, Holder
<1>5. tHandle \in TPid \cup {TNil} /\ tProc \in [TPid -> {"none", "booting", "up", "ending"}]
  BY DEF TInv, TTyped
<1>6. \A b \in TAgent \ {a} : tTask[b].at = ""
  BY <1>1, Holder
<1> QED
  BY <1>1, <1>2, <1>4, <1>5, <1>6, LockFreed

LEMMA StartExitedKeeps ==
    ASSUME TInv, NEW a \in TAgent, StartExited(a)
    PROVE  TInv'
<1>1. tTask[a].at = "boot" /\ tProc[tTask[a].pid] = "none" /\ tHandle' = TNil /\ tProc' = tProc
  BY DEF StartExited, torOs
<1>2. /\ tLock = a
      /\ \A b \in TAgent \ {a} : tTask[b].at = ""
      /\ \A p \in TPid : tProc[p] = "none"
  BY <1>1, Holder DEF TInv, BootIsHandle
<1>3. tProc \in [TPid -> {"none", "booting", "up", "ending"}]
  BY DEF TInv, TTyped
<1>4. CASE tForeign
  <2>1. tTask' = [tTask EXCEPT ![a].at = "stale", ![a].pid = TNil] /\ tLock' = tLock
    BY <1>4 DEF StartExited
  <2>2. /\ DOMAIN tTask' = TAgent /\ TRecord(tTask'[a])
        /\ tTask'[a].at = "stale" /\ tTask'[a].pid = TNil
    BY <2>1 DEF TInv, TTyped, TRecord
  <2>3. \A b \in TAgent \ {a} : tTask'[b] = tTask[b]
    BY <2>1 DEF TInv, TTyped
  <2>4. TTyped'
    BY <1>1, <2>1, <2>2, <2>3 DEF TInv, TTyped
  <2>5. LockInside' /\ BootIsHandle'
    BY <1>1, <1>2, <2>1, <2>2, <2>3, ZenonT(60) DEF LockInside, BootIsHandle
  <2> QED
    BY <1>1, <1>2, <2>4, <2>5 DEF TInv, TorOneProcess
<1>5. CASE ~tForeign
  <2>1. Raise(a) /\ tLock' = TNil
    BY <1>5 DEF StartExited
  <2>2. Settles(a)
    BY <2>1, RaiseSettles DEF TInv
  <2> QED
    BY <1>1, <1>2, <1>3, <2>1, <2>2, LockFreed
<1> QED
  BY <1>4, <1>5

LEMMA StaleTerminatedKeeps ==
    ASSUME TInv, NEW a \in TAgent, StaleTerminated(a)
    PROVE  TInv'
<1>1. tTask[a].at = "stale" /\ tLock' = tLock /\ Spawn(a)
  BY DEF StaleTerminated
<1>2. tTask[a].pid = TNil /\ tHandle = TNil
  BY <1>1 DEF TInv, BootIsHandle
<1>3. /\ tLock = a
      /\ \A b \in TAgent \ {a} : tTask[b].at = ""
      /\ \A p \in TPid : tProc[p] = "none"
  BY <1>1, <1>2, Holder, TorAssumption
<1> QED
  BY <1>1, <1>3, SpawnKeeps

LEMMA StartTimesOutKeeps ==
    ASSUME TInv, NEW a \in TAgent, StartTimesOut(a)
    PROVE  TInv'
<1>1. /\ tTask[a].at = "boot" /\ tLock' = tLock /\ tHandle' = TNil
      /\ tProc' = [tProc EXCEPT ![tTask[a].pid] = "ending"]
      /\ tTask' = [tTask EXCEPT ![a].at = "term", ![a].fail = TRUE]
  BY DEF StartTimesOut
<1>2. tTask[a].pid \in TPid /\ tTask[a].pid = tHandle
  BY <1>1 DEF TInv, BootIsHandle
<1>3. /\ DOMAIN tTask' = TAgent /\ TRecord(tTask'[a])
      /\ tTask'[a].at = "term" /\ tTask'[a].pid = tTask[a].pid
  BY <1>1 DEF TInv, TTyped, TRecord
<1>4. \A b \in TAgent \ {a} : tTask'[b] = tTask[b]
  BY <1>1 DEF TInv, TTyped
<1>5. tLock = a /\ \A b \in TAgent \ {a} : tTask[b].at = ""
  BY <1>1, Holder
<1>6. \A p \in TPid : tProc[p] # "none" => p = tTask[a].pid
  BY <1>1, <1>2, Holder
<1>7. /\ tProc' \in [TPid -> {"none", "booting", "up", "ending"}]
      /\ \A p \in TPid : tProc'[p] # "none" => p = tTask'[a].pid
  BY <1>1, <1>2, <1>3, <1>6 DEF TInv, TTyped
<1>8. /\ tLock' = a /\ tHandle' \in TPid \cup {TNil}
      /\ tTask'[a].at \in {"boot", "term"} /\ tTask'[a].pid \in TPid
      /\ tTask'[a].at = "boot" => tHandle' = tTask'[a].pid
  BY <1>1, <1>2, <1>3, <1>5
<1> QED
  BY <1>3, <1>4, <1>5, <1>7, <1>8, LockTaken

LEMMA StopBeginsKeeps ==
    ASSUME TInv, NEW a \in TAgent, StopBegins(a)
    PROVE  TInv'
<1>1. tTask[a].at = "" /\ tLock = TNil /\ tHandle' = TNil
  BY DEF StopBegins, Ready
<1>2. \A p \in TPid : tProc[p] # "none" => tHandle = p
  BY <1>1, Free
<1>3. \A b \in TAgent \ {a} : tTask[b].at = ""
  BY <1>1, Free
<1>4. tProc \in [TPid -> {"none", "booting", "up", "ending"}] /\ tHandle \in TPid \cup {TNil}
  BY DEF TInv, TTyped
<1>5. CASE Alive
  <2>1. /\ tProc' = [tProc EXCEPT ![tHandle] = "ending"] /\ tLock' = a
        /\ tTask' = [tTask EXCEPT ![a].at = "term", ![a].pid = tHandle]
    BY <1>5 DEF StopBegins
  <2>2. tHandle \in TPid
    BY <1>4, <1>5 DEF Alive
  <2>3. /\ DOMAIN tTask' = TAgent /\ TRecord(tTask'[a])
        /\ tTask'[a].at = "term" /\ tTask'[a].pid = tHandle
    BY <2>1, <2>2 DEF TInv, TTyped, TRecord
  <2>4. \A b \in TAgent \ {a} : tTask'[b] = tTask[b]
    BY <2>1 DEF TInv, TTyped
  <2>5. /\ tProc' \in [TPid -> {"none", "booting", "up", "ending"}]
        /\ \A p \in TPid : tProc'[p] # "none" => p = tTask'[a].pid
    BY <1>2, <1>4, <2>1, <2>2, <2>3
  <2>6. /\ tLock' = a /\ tHandle' \in TPid \cup {TNil}
        /\ tTask'[a].at \in {"boot", "term"} /\ tTask'[a].pid \in TPid
        /\ tTask'[a].at = "boot" => tHandle' = tTask'[a].pid
    BY <1>1, <2>1, <2>2, <2>3
  <2> QED
    BY <1>3, <2>3, <2>4, <2>5, <2>6, LockTaken
<1>6. CASE ~Alive
  <2>1. Settles(a) /\ tProc' = tProc /\ tLock' = TNil
    BY <1>1, <1>6, ProceedSettles DEF StopBegins, TInv
  <2>2. \A p \in TPid : tProc[p] = "none"
    BY <1>2, <1>6, TorAssumption DEF Alive
  <2> QED
    BY <1>1, <1>3, <1>4, <2>1, <2>2, LockFreed
<1> QED
  BY <1>5, <1>6

LEMMA TerminatedKeeps ==
    ASSUME TInv, NEW a \in TAgent, Terminated(a)
    PROVE  TInv'
<1>1. /\ tTask[a].at = "term" /\ tProc[tTask[a].pid] = "none"
      /\ tLock' = TNil /\ tHandle' = tHandle /\ tProc' = tProc
  BY DEF Terminated, torOs
<1>2. Settles(a)
  BY ProceedSettles, RaiseSettles DEF Terminated, TInv
<1>3. \A p \in TPid : tProc[p] # "none" => tHandle = p
  BY <1>1, Holder
<1>4. \A b \in TAgent \ {a} : tTask[b].at = ""
  BY <1>1, Holder
<1>5. tHandle \in TPid \cup {TNil} /\ tProc \in [TPid -> {"none", "booting", "up", "ending"}]
  BY DEF TInv, TTyped
<1> QED
  BY <1>1, <1>2, <1>3, <1>4, <1>5, LockFreed

\* The steps outside the lock.
LEMMA OutsideKeeps ==
    ASSUME TInv, NEW a \in TAgent,
           AutoPin(a) \/ Keep(a) \/ LookUp(a) \/ LookUpFails(a) \/ PassMark(a)
    PROVE  TInv'
<1>1. tTask[a].at = "" /\ UNCHANGED <<tProc, tHandle, tLock>>
  BY DEF AutoPin, Keep, LookUp, LookUpFails, PassMark, Ready, torOs
<1>2. Proceed(a) \/ Raise(a) \/ PinDefault(a, <<"swallow">>)
         \/ PinDefault(a, <<"swallow">> \o Tail(tTask[a].plan))
  BY DEF AutoPin, Keep, LookUp, LookUpFails, PassMark
<1>3. Settles(a)
  BY <1>1, <1>2, ProceedSettles, RaiseSettles, PinSettles DEF TInv
<1> QED
  BY <1>1, <1>3, QuietStep

\* The keepalive and the panel only begin coroutines.
LEMMA CallersKeep ==
    ASSUME TInv, NEW a \in TAgent, NEW op, NEW plan, Launch(a, op, plan),
           UNCHANGED <<tProc, tHandle, tLock>>
    PROVE  TInv'
  BY LaunchSettles, QuietStep DEF TInv

\* A tor boots, ends or dies, with no coroutine taking part.
LEMMA ProcessKeeps ==
    ASSUME TInv, NEW p \in TPid, TorBoots(p) \/ TorEnds(p) \/ TorCrashes(p)
    PROVE  TInv'
<1>1. /\ UNCHANGED <<tHandle, tLock, tTask>> /\ tProc[p] # "none"
      /\ \E q \in {"none", "up"} : tProc' = [tProc EXCEPT ![p] = q]
  BY DEF TorBoots, TorEnds, TorCrashes
<1>2. TTyped' /\ LockInside' /\ BootIsHandle'
  BY <1>1 DEF TInv, TTyped, LockInside, BootIsHandle, TRecord
<1>3. \A q \in TPid : tProc'[q] # "none" => tProc[q] # "none"
  BY <1>1 DEF TInv, TTyped
<1>4. TorOneProcess'
  BY <1>1, <1>3 DEF TInv, TorOneProcess
<1> QED
  BY <1>2, <1>4 DEF TInv

LEMMA PanelKeeps ==
    ASSUME TInv, NEW a \in TPanel,
           TorAction(a) \/ NewIdentity(a) \/ \E value \in Selection : ApplyExit(a, value)
    PROVE  TInv'
<1>1. a \in TAgent
  BY DEF TAgent
<1>2. CASE TorAction(a)
  <2>1. PICK op, plan : PanelOp(a, op, plan)
    BY <1>2 DEF TorAction
  <2> QED
    BY <1>1, <2>1, CallersKeep DEF PanelOp, torOs
<1>3. CASE NewIdentity(a)
  <2>1. PICK op, plan : PanelOp(a, op, plan)
    BY <1>3 DEF NewIdentity
  <2> QED
    BY <1>1, <2>1, CallersKeep DEF PanelOp, torOs
<1>4. ASSUME NEW value \in Selection, ApplyExit(a, value)
      PROVE  TInv'
  <2>1. CASE tEnabled
    <3>1. PICK op, plan : PanelOp(a, op, plan)
      BY <1>4, <2>1 DEF ApplyExit
    <3> QED
      BY <1>1, <3>1, CallersKeep DEF PanelOp, torOs
  <2>2. CASE ~tEnabled
    <3>1. UNCHANGED <<tProc, tHandle, tLock, tTask>>
      BY <1>4, <2>2 DEF ApplyExit, torOs
    <3> QED
      BY <3>1 DEF TInv, TTyped, LockInside, BootIsHandle, TorOneProcess, TRecord
  <2> QED
    BY <2>1, <2>2
<1> QED
  BY <1>2, <1>3, <1>4

LEMMA RoundKeeps ==
    ASSUME TInv, KeepaliveRound
    PROVE  TInv'
<1>1. TKeeper \in TAgent
  BY DEF TAgent
<1>2. PICK op, plan : Launch(TKeeper, op, plan)
  BY DEF KeepaliveRound
<1> QED
  BY <1>1, <1>2, CallersKeep DEF KeepaliveRound, torOs

-----------------------------------------------------------------------------

LEMMA InitTInv ==
    ASSUME TorInit
    PROVE  TInv
<1>1. TTyped
  BY DEF TorInit, TTyped, TRecord, TIdle
<1>2. LockInside
  BY TorAssumption DEF TorInit, LockInside, TIdle, TAgent
<1>3. BootIsHandle /\ TorOneProcess
  BY DEF TorInit, BootIsHandle, TorOneProcess, TIdle
<1> QED
  BY <1>1, <1>2, <1>3 DEF TInv

LEMMA NextTInv ==
    ASSUME TInv, [TorNext]_torVars
    PROVE  TInv'
<1>1. CASE UNCHANGED torVars
  BY <1>1 DEF torVars, TInv, TTyped, LockInside, BootIsHandle, TorOneProcess, TRecord
<1>2. ASSUME NEW a \in TAgent, TStep(a)
      PROVE  TInv'
  BY <1>2, StartBeginsKeeps, StartReadyKeeps, StartExitedKeeps, StaleTerminatedKeeps,
     StopBeginsKeeps, TerminatedKeeps, OutsideKeeps DEF TStep
<1>3. ASSUME NEW a \in TAgent, StartRefused(a) \/ StartTimesOut(a) \/ LookUpFails(a)
      PROVE  TInv'
  BY <1>3, StartRefusedKeeps, StartTimesOutKeeps, OutsideKeeps
<1>4. ASSUME NEW file \in TFile, Imported(file)
      PROVE  TInv'
  <2>1. UNCHANGED <<tProc, tHandle, tLock, tTask>>
    BY <1>4 DEF Imported, torOs
  <2> QED
    BY <2>1 DEF TInv, TTyped, LockInside, BootIsHandle, TorOneProcess, TRecord
<1> QED
  BY <1>1, <1>2, <1>3, <1>4, RoundKeeps, PanelKeeps, ProcessKeeps DEF TorNext

\* Every live tor has a handle: _process, or the wait of the coroutine that
\* holds the lock (_start, stop and _terminate), whatever is started, stopped,
\* refused, timed out or has crashed before.
THEOREM OneTor == TorSpec => []TorOneProcess
<1>1. TorInit => TInv
  BY InitTInv
<1>2. TInv /\ [TorNext]_torVars => TInv'
  BY NextTInv
<1>3. TInv => TorOneProcess
  BY DEF TInv
<1> QED
  BY <1>1, <1>2, <1>3, PTL DEF TorSpec

-----------------------------------------------------------------------------
(* Tor: the plans of the coroutines, and the stored selection.             *)

\* A plan is made of the steps of the model, and whoever is inside _start or stop
\* has not finished its own.
Planned(t) ==
    /\ t.op \in TorOp /\ t.plan \in Seq(TorStep) /\ t.fail \in BOOLEAN
    /\ t.nodes \in Selection /\ t.country \in BOOLEAN
    /\ t.at # "" => t.plan # <<>>

TPlans == \A a \in TAgent : Planned(tTask[a])

TStore ==
    /\ tEnabled \in BOOLEAN /\ tNodes \in Selection /\ tCountry \in BOOLEAN
    /\ tExclude \in BOOLEAN
TRest ==
    /\ tRc \in Selection /\ tForeign \in BOOLEAN /\ tMet \in BOOLEAN
    /\ tOps \in 0 .. TMaxOp /\ tFaults \in 0 .. TMaxFault

LEMMA TorTypeParts == TInv /\ TPlans /\ TStore /\ TRest => TorTypeOK
  BY DEF TInv, TTyped, TRecord, LockInside, TPlans, Planned, TStore, TRest, TorTypeOK

LEMMA StepsArePlans ==
    /\ Start \in Seq(TorStep) /\ Restart \in Seq(TorStep) /\ <<>> \in Seq(TorStep)
    /\ <<"lookup">> \in Seq(TorStep) /\ <<"pin">> \in Seq(TorStep) /\ <<"swallow">> \in Seq(TorStep)
    /\ <<"rollback">> \in Seq(TorStep) /\ <<"keep">> \in Seq(TorStep) /\ <<"stop">> \in Seq(TorStep)
  BY DEF Start, Restart, TorStep

LEMMA PlansJoin ==
    \A p, q \in Seq(TorStep) : p \o q \in Seq(TorStep) /\ (p # <<>> => p \o q # <<>>)
<1> SUFFICES ASSUME NEW p \in Seq(TorStep), NEW q \in Seq(TorStep)
             PROVE  p \o q \in Seq(TorStep) /\ (p # <<>> => p \o q # <<>>)
  OBVIOUS
<1>1. p \o q \in Seq(TorStep) /\ Len(p \o q) = Len(p) + Len(q)
  BY ConcatProperties
<1>2. Len(p) \in Nat /\ Len(q) \in Nat /\ (p # <<>> => Len(p) > 0)
  BY EmptySeq, LenProperties
<1> QED
  BY <1>1, <1>2

\* The rest of a plan behind a mark is a plan.
LEMMA RestIsPlan ==
    ASSUME NEW plan \in Seq(TorStep), Marks(plan) # {}
    PROVE  SubSeq(plan, Nearest(plan) + 1, Len(plan)) \in Seq(TorStep)
<1>1. Marks(plan) \subseteq Nat /\ Marks(plan) \subseteq 1 .. Len(plan)
  BY DEF Marks
<1>2. PICK m \in Marks(plan) : \A n \in Marks(plan) : m <= n
  BY <1>1, LeastOf
<1>3. Nearest(plan) \in Marks(plan)
  BY <1>2 DEF Nearest
<1>4. Nearest(plan) + 1 \in 1 .. Len(plan) + 1 /\ Len(plan) \in Nat
  BY <1>1, <1>3, LenProperties
<1> QED
  BY <1>4, SubSeqProperties

\* A coroutine that goes on with a plan.
LEMMA LeftPlanned ==
    ASSUME NEW t, TRecord(t), Planned(t), NEW plan \in Seq(TorStep)
    PROVE  Planned(Left(t, plan))
<1>1. CASE plan = <<>>
  BY <1>1, StepsArePlans DEF Left, Planned, TIdle, TorOp, Selection
<1>2. CASE plan # <<>>
  BY <1>2 DEF Left, Planned, TRecord
<1> QED
  BY <1>1, <1>2

\* Each coroutine but a keeps its record, and a's is planned.
LEMMA OnePlan ==
    ASSUME TTyped, TPlans, NEW a \in TAgent, NEW t, Planned(t), tTask' = [tTask EXCEPT ![a] = t]
    PROVE  TPlans'
  BY DEF TTyped, TPlans

LEMMA ProceedPlans ==
    ASSUME TTyped, TPlans, NEW a \in TAgent, tTask[a].plan # <<>>, Proceed(a)
    PROVE  TPlans'
<1>1. TRecord(tTask[a]) /\ Planned(tTask[a])
  BY DEF TTyped, TPlans
<1>2. Tail(tTask[a].plan) \in Seq(TorStep)
  BY <1>1, HeadTailProperties DEF Planned
<1>3. Planned(Left(tTask[a], Tail(tTask[a].plan)))
  BY <1>1, <1>2, LeftPlanned
<1>4. tTask' = [tTask EXCEPT ![a] = Left(tTask[a], Tail(tTask[a].plan))]
  BY DEF Proceed
<1> QED
  BY <1>3, <1>4, OnePlan

LEMMA RaisePlans ==
    ASSUME TTyped, TPlans, TStore, NEW a \in TAgent, Raise(a)
    PROVE  TPlans' /\ TStore'
<1> DEFINE plan == tTask[a].plan
           rest == IF Marks(plan) = {} THEN <<>> ELSE SubSeq(plan, Nearest(plan) + 1, Len(plan))
<1>1. TRecord(tTask[a]) /\ Planned(tTask[a])
  BY DEF TTyped, TPlans
<1>2. Start \in Seq(TorStep) /\ rest \in Seq(TorStep)
  BY <1>1, RestIsPlan, StepsArePlans DEF Planned
<1>3. \/ tTask' = [tTask EXCEPT ![a] = Left(tTask[a], Start)]
      \/ tTask' = [tTask EXCEPT ![a] = Left(tTask[a], rest)]
  BY DEF Raise
<1>4. tExclude' \in BOOLEAN /\ tEnabled' = tEnabled
  BY DEF Raise
<1>5. tNodes' \in Selection /\ tCountry' \in BOOLEAN
  BY <1>1 DEF Raise, Planned, TStore
<1>6. TStore'
  BY <1>4, <1>5 DEF TStore
<1> HIDE DEF rest
<1>7. Planned(Left(tTask[a], Start)) /\ Planned(Left(tTask[a], rest))
  BY <1>1, <1>2, LeftPlanned
<1>8. TPlans'
  BY <1>3, <1>7, OnePlan
<1> QED
  BY <1>6, <1>8

LEMMA PinPlans ==
    ASSUME TTyped, TPlans, TStore, NEW a \in TAgent, NEW rest \in Seq(TorStep), PinDefault(a, rest)
    PROVE  TPlans' /\ TStore'
<1> DEFINE long == Restart \o <<"lookup">> \o Restart \o rest
           short == <<"pin">> \o Restart \o rest
<1>1. TRecord(tTask[a]) /\ Planned(tTask[a])
  BY DEF TTyped, TPlans
<1>2. long \in Seq(TorStep) /\ short \in Seq(TorStep) /\ long # <<>> /\ short # <<>>
  <2>1. Restart # <<>> /\ <<"pin">> # <<>>
    BY DEF Restart
  <2>2. Restart \o <<"lookup">> \in Seq(TorStep) /\ Restart \o <<"lookup">> # <<>>
    BY <2>1, StepsArePlans, PlansJoin
  <2>3. /\ (Restart \o <<"lookup">>) \o Restart \in Seq(TorStep)
        /\ (Restart \o <<"lookup">>) \o Restart # <<>>
    BY <2>2, StepsArePlans, PlansJoin
  <2>4. <<"pin">> \o Restart \in Seq(TorStep) /\ <<"pin">> \o Restart # <<>>
    BY <2>1, StepsArePlans, PlansJoin
  <2>5. long \in Seq(TorStep) /\ long # <<>>
    BY <2>3, PlansJoin
  <2>6. short \in Seq(TorStep) /\ short # <<>>
    BY <2>4, PlansJoin
  <2> QED
    BY <2>5, <2>6
<1>3. \/ tTask' = [tTask EXCEPT ![a].plan = long]
      \/ tTask' = [tTask EXCEPT ![a].plan = short]
  BY DEF PinDefault, PinCountry
<1>4. TStore'
  BY DEF PinDefault, PinCountry, TStore, torStore, Selection
<1> HIDE DEF long, short
<1>5. PICK p \in {long, short} : tTask' = [tTask EXCEPT ![a].plan = p]
  BY <1>3
<1>6. Planned([tTask[a] EXCEPT !.plan = p])
  BY <1>1, <1>2 DEF Planned, TRecord
<1>7. TPlans'
  BY <1>5, <1>6, OnePlan
<1> QED
  BY <1>4, <1>7

LEMMA LaunchPlans ==
    ASSUME TTyped, TPlans, TStore, NEW a \in TAgent, NEW op \in TorOp, NEW plan \in Seq(TorStep),
           Launch(a, op, plan)
    PROVE  TPlans' /\ tMet' \in BOOLEAN
<1> DEFINE applied == [TIdle EXCEPT !.op = op, !.plan = plan, !.nodes = tNodes, !.country = tCountry]
           plain   == [TIdle EXCEPT !.op = op, !.plan = plan]
           both    == IF op = "apply" THEN applied ELSE plain
<1>1. Planned(applied) /\ Planned(plain)
  BY DEF Planned, TIdle, TStore, Selection
<1>2. tTask' = [tTask EXCEPT ![a] = both]
  BY DEF Launch
<1>3. tMet' \in BOOLEAN
  BY DEF Launch
<1> HIDE DEF applied, plain
<1>4. Planned(both)
  BY <1>1
<1> QED
  BY <1>2, <1>3, <1>4, OnePlan

\* The steps of a coroutine.
LEMMA StepPlans ==
    ASSUME TInv, TPlans, TStore, TRest, NEW a \in TAgent,
           TStep(a) \/ StartRefused(a) \/ StartTimesOut(a) \/ LookUpFails(a)
    PROVE  TPlans' /\ TStore' /\ TRest'
<1> USE TorAssumption
<1>1. /\ TTyped /\ TRecord(tTask[a]) /\ Planned(tTask[a])
  BY DEF TInv, TTyped, TPlans
<1>2. tTask[a].plan # <<>>
  BY <1>1 DEF TStep, StartBegins, StartReady, StartExited, StaleTerminated, StopBegins, Terminated,
         AutoPin, Keep, LookUp, PassMark, StartRefused, StartTimesOut, LookUpFails, Ready, Planned
<1>3. TRest'
  <2>1. /\ tRc' \in {tRc, tNodes} /\ tForeign' \in {tForeign, FALSE} /\ UNCHANGED <<tMet, tOps>>
        /\ \/ tFaults' = tFaults
           \/ tFaults < TMaxFault /\ tFaults' = tFaults + 1
    <3>1. CASE StartRefused(a) \/ StartTimesOut(a) \/ LookUpFails(a)
      BY <3>1 DEF StartRefused, StartTimesOut, LookUpFails, torOs
    <3>2. CASE StartBegins(a) \/ StartReady(a) \/ StartExited(a) \/ StaleTerminated(a)
      BY <3>2 DEF StartBegins, StartReady, StartExited, StaleTerminated, torOs
    <3>3. CASE StopBegins(a) \/ Terminated(a) \/ AutoPin(a) \/ Keep(a) \/ LookUp(a) \/ PassMark(a)
      BY <3>3 DEF StopBegins, Terminated, AutoPin, Keep, LookUp, PassMark, torOs
    <3> QED
      BY <3>1, <3>2, <3>3 DEF TStep
  <2>2. tFaults' \in 0 .. TMaxFault
    BY <2>1 DEF TRest
  <2>3. tRc' \in Selection /\ tForeign' \in BOOLEAN /\ tMet' \in BOOLEAN /\ tOps' \in 0 .. TMaxOp
    BY <2>1 DEF TRest, TStore
  <2> QED
    BY <2>2, <2>3 DEF TRest
<1> SUFFICES TPlans' /\ TStore'
  BY <1>3
<1>4. ASSUME Proceed(a), TStore' PROVE TPlans' /\ TStore'
  BY <1>1, <1>2, <1>4, ProceedPlans
<1>5. ASSUME Raise(a) PROVE TPlans' /\ TStore'
  BY <1>1, <1>5, RaisePlans
<1>6. ASSUME NEW at \in {"boot", "stale", "term"}, NEW pid, NEW fail \in BOOLEAN, torStore' = torStore,
             tTask' = [tTask EXCEPT ![a] = [[[tTask[a] EXCEPT !.at = at] EXCEPT !.pid = pid] EXCEPT !.fail = fail]]
      PROVE  TPlans' /\ TStore'
  <2>1. Planned([[[tTask[a] EXCEPT !.at = at] EXCEPT !.pid = pid] EXCEPT !.fail = fail])
    BY <1>1, <1>2 DEF Planned, TRecord
  <2>2. TPlans'
    BY <1>1, <1>6, <2>1, OnePlan
  <2> QED
    BY <1>6, <2>2 DEF TStore, torStore
<1>7. ASSUME NEW rest \in Seq(TorStep), PinDefault(a, rest) PROVE TPlans' /\ TStore'
  BY <1>1, <1>7, PinPlans
<1>8. torStore' = torStore => TStore'
  BY DEF TStore, torStore
<1>9. ASSUME Spawn(a), torStore' = torStore PROVE TPlans' /\ TStore'
  <2>1. PICK p \in TPid : tTask' = [tTask EXCEPT ![a].at = "boot", ![a].pid = p]
    BY <1>9 DEF Spawn
  <2>2. tTask[a].fail \in BOOLEAN
    BY <1>1 DEF Planned
  <2>3. tTask' = [tTask EXCEPT ![a] = [[[tTask[a] EXCEPT !.at = "boot"] EXCEPT !.pid = p] EXCEPT !.fail = tTask[a].fail]]
    BY <1>1, <2>1 DEF TTyped, TRecord
  <2> QED
    BY <1>6, <1>9, <2>2, <2>3
<1>10. CASE StartBegins(a)
  BY <1>10, <1>4, <1>8, <1>9 DEF StartBegins
<1>11. CASE StartReady(a) \/ PassMark(a)
  BY <1>11, <1>4, <1>8 DEF StartReady, PassMark
<1>12. CASE StartRefused(a) \/ LookUpFails(a)
  BY <1>12, <1>5 DEF StartRefused, LookUpFails
<1>13. CASE StartExited(a)
  <2>1. CASE tForeign
    <3>1. tTask' = [tTask EXCEPT ![a].at = "stale", ![a].pid = TNil] /\ torStore' = torStore
      BY <1>13, <2>1 DEF StartExited
    <3>2. tTask' = [tTask EXCEPT ![a] = [[[tTask[a] EXCEPT !.at = "stale"] EXCEPT !.pid = TNil] EXCEPT !.fail = tTask[a].fail]]
      BY <1>1, <3>1 DEF TTyped, TRecord
    <3>3. tTask[a].fail \in BOOLEAN
      BY <1>1 DEF Planned
    <3> QED
      BY <1>6, <3>1, <3>2, <3>3
  <2>2. CASE ~tForeign
    BY <1>13, <2>2, <1>5 DEF StartExited
  <2> QED
    BY <2>1, <2>2
<1>14. CASE StaleTerminated(a)
  BY <1>14, <1>9 DEF StaleTerminated
<1>15. CASE StartTimesOut(a)
  <2>1. tTask' = [tTask EXCEPT ![a].at = "term", ![a].fail = TRUE] /\ torStore' = torStore
    BY <1>15 DEF StartTimesOut
  <2>2. tTask' = [tTask EXCEPT ![a] = [[[tTask[a] EXCEPT !.at = "term"] EXCEPT !.pid = tTask[a].pid] EXCEPT !.fail = TRUE]]
    BY <1>1, <2>1 DEF TTyped, TRecord
  <2> QED
    BY <1>6, <2>1, <2>2
<1>16. CASE StopBegins(a)
  <2>1. CASE Alive
    <3>1. tTask' = [tTask EXCEPT ![a].at = "term", ![a].pid = tHandle] /\ torStore' = torStore
      BY <1>16, <2>1 DEF StopBegins
    <3>2. tTask' = [tTask EXCEPT ![a] = [[[tTask[a] EXCEPT !.at = "term"] EXCEPT !.pid = tHandle] EXCEPT !.fail = tTask[a].fail]]
      BY <1>1, <3>1 DEF TTyped, TRecord
    <3>3. tTask[a].fail \in BOOLEAN
      BY <1>1 DEF Planned
    <3> QED
      BY <1>6, <3>1, <3>2, <3>3
  <2>2. CASE ~Alive
    BY <1>16, <2>2, <1>4, <1>8 DEF StopBegins
  <2> QED
    BY <2>1, <2>2
<1>17. CASE Terminated(a)
  BY <1>17, <1>4, <1>5, <1>8 DEF Terminated
<1>18. CASE AutoPin(a) \/ Keep(a)
  <2>1. Tail(tTask[a].plan) \in Seq(TorStep)
    BY <1>1, <1>2, HeadTailProperties DEF Planned
  <2>2. <<"swallow">> \in Seq(TorStep) /\ <<"swallow">> \o Tail(tTask[a].plan) \in Seq(TorStep)
    BY <2>1, StepsArePlans, PlansJoin
  <2> QED
    BY <1>18, <1>4, <1>7, <1>8, <2>2 DEF AutoPin, Keep
<1>19. CASE LookUp(a)
  <2>1. tNodes' \in Selection /\ tExclude' \in BOOLEAN /\ UNCHANGED <<tEnabled, tCountry>>
    BY <1>19 DEF LookUp, Selection
  <2>2. TStore'
    BY <2>1 DEF TStore
  <2> QED
    BY <1>19, <2>2, <1>4 DEF LookUp
<1> QED
  BY <1>10, <1>11, <1>12, <1>13, <1>14, <1>15, <1>16, <1>17, <1>18, <1>19 DEF TStep

\* The panel and the keepalive.
LEMMA CallPlans ==
    ASSUME TInv, TPlans, TStore, TRest, NEW a \in TPanel,
           \/ TorAction(a) \/ NewIdentity(a)
           \/ \E value \in Selection : ApplyExit(a, value)
    PROVE  TPlans' /\ TStore' /\ TRest'
<1> USE TorAssumption
<1>1. a \in TAgent /\ TTyped
  BY DEF TAgent, TInv
<1>2. ASSUME NEW op \in TorOp, NEW plan \in Seq(TorStep), PanelOp(a, op, plan)
      PROVE  TPlans' /\ TRest'
  <2>1. TPlans' /\ tMet' \in BOOLEAN
    BY <1>1, <1>2, LaunchPlans DEF PanelOp
  <2>2. /\ tOps' \in 0 .. TMaxOp /\ tFaults' = tFaults /\ tRc' = tRc /\ tForeign' = tForeign
    BY <1>2 DEF PanelOp, TRest, torOs
  <2> QED
    BY <2>1, <2>2 DEF TRest
<1>3. /\ Start \in Seq(TorStep) /\ Restart \in Seq(TorStep) /\ <<"stop">> \in Seq(TorStep)
      /\ Restart \o <<"lookup">> \o Restart \in Seq(TorStep)
      /\ Restart \o <<"rollback">> \in Seq(TorStep)
      /\ Restart \o (<<"lookup">> \o Restart) \o <<"rollback">> \in Seq(TorStep)
      /\ Restart \o <<>> \o <<"rollback">> \in Seq(TorStep)
  BY StepsArePlans, PlansJoin
<1>4. CASE TorAction(a)
  <2>1. tEnabled' \in BOOLEAN /\ UNCHANGED <<tNodes, tCountry, tExclude>>
    BY <1>4 DEF TorAction, TStore
  <2>2. TStore'
    BY <2>1 DEF TStore
  <2>3. TPlans' /\ TRest'
    BY <1>4, <1>2, <1>3 DEF TorAction, TorOp
  <2> QED
    BY <2>2, <2>3
<1>5. CASE NewIdentity(a)
  <2>1. tNodes' \in Selection /\ tExclude' \in BOOLEAN /\ UNCHANGED <<tEnabled, tCountry>>
    BY <1>5 DEF NewIdentity, TStore, Selection
  <2>2. TStore'
    BY <2>1 DEF TStore
  <2>3. TPlans' /\ TRest'
    BY <1>5, <1>2, <1>3 DEF NewIdentity, TorOp
  <2> QED
    BY <2>2, <2>3
<1>6. ASSUME NEW value \in Selection, ApplyExit(a, value) PROVE TPlans' /\ TStore' /\ TRest'
  <2>1. /\ tNodes' \in Selection /\ tExclude' \in BOOLEAN /\ tCountry' \in BOOLEAN
        /\ tEnabled' = tEnabled
    BY <1>6 DEF ApplyExit, TStore
  <2>2. TStore'
    BY <2>1 DEF TStore
  <2>3. CASE tEnabled
    BY <1>6, <2>2, <2>3, <1>2, <1>3 DEF ApplyExit, TorOp
  <2>4. CASE ~tEnabled
    <3>1. UNCHANGED <<tRc, tForeign, tTask, tFaults, tMet>> /\ tOps' = tOps + 1 /\ tOps < TMaxOp
      BY <1>6, <2>4 DEF ApplyExit, torOs
    <3> QED
      BY <2>2, <3>1 DEF TPlans, TRest
  <2> QED
    BY <2>3, <2>4
<1> QED
  BY <1>4, <1>5, <1>6

LEMMA RoundPlans ==
    ASSUME TInv, TPlans, TStore, TRest, KeepaliveRound
    PROVE  TPlans' /\ TStore' /\ TRest'
<1>1. /\ TKeeper \in TAgent /\ TTyped
      /\ <<"keep">> \in Seq(TorStep) /\ Start \o <<"keep">> \in Seq(TorStep) /\ "keep" \in TorOp
  BY StepsArePlans, PlansJoin DEF TAgent, TInv, TorOp
<1>2. TPlans' /\ tMet' \in BOOLEAN
  BY <1>1, LaunchPlans DEF KeepaliveRound
<1> QED
  BY <1>2 DEF KeepaliveRound, TStore, TRest, torStore, torOs

LEMMA TorPlansStep ==
    ASSUME TInv, TPlans, TStore, TRest, [TorNext]_torVars
    PROVE  TPlans' /\ TStore' /\ TRest'
<1>1. ASSUME NEW p \in TPid, TorBoots(p) \/ TorEnds(p) \/ TorCrashes(p)
      PROVE  TPlans' /\ TStore' /\ TRest'
  BY <1>1, TorAssumption DEF TorBoots, TorEnds, TorCrashes, TPlans, TStore, TRest, torStore
<1>2. CASE UNCHANGED torVars
  BY <1>2 DEF torVars, TPlans, TStore, TRest
<1>3. ASSUME NEW file \in TFile, Imported(file)
      PROVE  TPlans' /\ TStore' /\ TRest'
  <2>1. file.enabled \in BOOLEAN /\ file.nodes \in Selection /\ file.country \in BOOLEAN
    BY FileAssumption
  <2>2. TStore'
    BY <1>3, <2>1 DEF Imported, TStore
  <2>3. /\ UNCHANGED <<tRc, tForeign, tTask, tFaults>> /\ tOps' = tOps + 1 /\ tOps < TMaxOp
        /\ tMet' \in BOOLEAN
    BY <1>3 DEF Imported, torOs
  <2>4. TPlans'
    BY <2>3 DEF TPlans
  <2>5. tOps' \in 0 .. TMaxOp
    BY <2>3, TorAssumption DEF TRest
  <2> QED
    BY <2>2, <2>3, <2>4, <2>5 DEF TRest
<1> QED
  BY <1>1, <1>2, <1>3, StepPlans, CallPlans, RoundPlans DEF TorNext

-----------------------------------------------------------------------------
(* Tor: what is switched off.                                              *)

\* The coroutine of the stop button, alone at work: it has not taken the lock yet,
\* or waits for the end of the process it has let go of.
Stopping(a) ==
    /\ tTask[a].plan = <<"stop">> /\ tTask[a].op = "stop" /\ ~tTask[a].fail
    /\ tTask[a].at \in {"", "term"}
    /\ tTask[a].at = "term" => tHandle = TNil

AllIdle == \A a \in TAgent : ~Busy(a)
AllDown == \A p \in TPid : tProc[p] = "none"
StopAlone == \E a \in TAgent : Stopping(a) /\ \A b \in TAgent \ {a} : ~Busy(b)

\* TorOffIsDown is not inductive: it says nothing of the stop under way.
TOff == (~tEnabled /\ ~tMet) => (AllIdle /\ AllDown) \/ StopAlone

TorInv == TInv /\ TPlans /\ TStore /\ TRest /\ TOff

LEMMA StopPlan == Head(<<"stop">>) = "stop" /\ Tail(<<"stop">>) = <<>> /\ <<"stop">> # <<>>
<1>1. <<"stop">> \in Seq(TorStep) /\ Len(<<"stop">>) = 1
  BY StepsArePlans
<1>2. <<"stop">> # <<>>
  BY <1>1
<1>3. Len(Tail(<<"stop">>)) = 0 /\ Tail(<<"stop">>) \in Seq(TorStep)
  BY <1>1, <1>2, HeadTailProperties
<1>4. Tail(<<"stop">>) = <<>>
  BY <1>3, EmptySeq
<1> QED
  BY <1>2, <1>4

LEMMA StoppingIsBusy == ASSUME NEW a, Stopping(a) PROVE Busy(a)
<1>1. tTask[a].op = "stop"
  BY DEF Stopping
<1>2. TIdle.op = "none"
  BY DEF TIdle
<1> QED
  BY <1>1, <1>2 DEF Busy

\* A stop whose process has ended, or that found none, ends with everything down.
LEMMA StopEnds ==
    ASSUME TInv, NEW a \in TAgent, Stopping(a), \A b \in TAgent \ {a} : ~Busy(b),
           Proceed(a), tProc' = tProc, AllDown
    PROVE  AllIdle' /\ AllDown'
<1>1. Tail(tTask[a].plan) = <<>>
  BY StopPlan DEF Stopping
<1>2. tTask' = [tTask EXCEPT ![a] = TIdle]
  BY <1>1 DEF Proceed, Left
<1>3. AllIdle'
  BY <1>2 DEF AllIdle, Busy, TInv, TTyped
<1> QED
  BY <1>3 DEF AllDown

\* Every step of a stop that works alone.
LEMMA StopSteps ==
    ASSUME TInv, NEW a \in TAgent, Stopping(a), \A b \in TAgent \ {a} : ~Busy(b),
           TStep(a) \/ StartRefused(a) \/ StartTimesOut(a) \/ LookUpFails(a)
    PROVE  (AllIdle' /\ AllDown') \/ StopAlone'
<1>1. Head(tTask[a].plan) = "stop"
  BY StopPlan DEF Stopping
<1>2. StopBegins(a) \/ Terminated(a)
  BY <1>1 DEF Stopping, TStep, StartBegins, StartReady, StartExited, StaleTerminated, AutoPin, Keep,
     LookUp, PassMark, StartRefused, StartTimesOut, LookUpFails, Ready
<1>3. CASE StopBegins(a)
  <2>1. tTask[a].at = "" /\ tLock = TNil
    BY <1>3 DEF StopBegins, Ready
  <2>2. \A p \in TPid : tProc[p] # "none" => tHandle = p
    BY <2>1, Free
  <2>3. CASE Alive
    <3>1. tTask' = [tTask EXCEPT ![a].at = "term", ![a].pid = tHandle] /\ tHandle' = TNil
      BY <1>3, <2>3 DEF StopBegins
    <3>2. /\ tTask'[a].plan = tTask[a].plan /\ tTask'[a].op = tTask[a].op
          /\ tTask'[a].fail = tTask[a].fail /\ tTask'[a].at = "term"
      BY <3>1 DEF TInv, TTyped, TRecord
    <3>3. Stopping(a)'
      BY <3>1, <3>2 DEF Stopping
    <3>4. \A b \in TAgent \ {a} : ~Busy(b)'
      BY <3>1 DEF Busy, TInv, TTyped
    <3> QED
      BY <3>3, <3>4 DEF StopAlone
  <2>4. CASE ~Alive
    <3>1. AllDown
      BY <2>2, <2>4, TorAssumption DEF Alive, AllDown
    <3>2. Proceed(a) /\ tProc' = tProc
      BY <1>3, <2>4 DEF StopBegins
    <3> QED
      BY <3>1, <3>2, StopEnds
  <2> QED
    BY <2>3, <2>4
<1>4. CASE Terminated(a)
  <2>1. tTask[a].at = "term" /\ tProc[tTask[a].pid] = "none" /\ tProc' = tProc
    BY <1>4 DEF Terminated, torOs
  <2>2. Proceed(a)
    BY <1>4 DEF Terminated, Stopping
  <2>3. AllDown
    BY <2>1, Holder, TorAssumption DEF Stopping, AllDown
  <2> QED
    BY <2>1, <2>2, <2>3, StopEnds
<1> QED
  BY <1>2, <1>3, <1>4

\* The button, pressed while nobody else is at work.
LEMMA StopLaunched ==
    ASSUME TInv, NEW a \in TAgent, Launch(a, "stop", <<"stop">>), ~tMet'
    PROVE  StopAlone'
<1>1. \A b \in TAgent \ {a} : ~Busy(b)
  BY DEF Launch
<1>2. tTask' = [tTask EXCEPT ![a] = [TIdle EXCEPT !.op = "stop", !.plan = <<"stop">>]]
  BY DEF Launch
<1>3. /\ tTask'[a].plan = <<"stop">> /\ tTask'[a].op = "stop" /\ tTask'[a].fail = FALSE
      /\ tTask'[a].at = ""
  BY <1>2 DEF TInv, TTyped, TIdle
<1>4. Stopping(a)'
  BY <1>3 DEF Stopping
<1>5. \A b \in TAgent \ {a} : ~Busy(b)'
  BY <1>1, <1>2 DEF Busy, TInv, TTyped
<1> QED
  BY <1>4, <1>5 DEF StopAlone

\* While a stop works alone, or nothing runs, another launch meets the stop or needs
\* what is not there.
LEMMA NoLaunch ==
    ASSUME NEW a \in TAgent, NEW op, NEW plan, Launch(a, op, plan), StopAlone, ~tMet'
    PROVE  FALSE
<1>1. PICK b \in TAgent : Stopping(b) /\ \A c \in TAgent \ {b} : ~Busy(c)
  BY DEF StopAlone
<1>2. Busy(b) /\ tTask[b].op = "stop"
  BY <1>1, StoppingIsBusy DEF Stopping
<1>3. a # b
  BY <1>2 DEF Launch, Busy
<1> QED
  BY <1>2, <1>3 DEF Launch

LEMMA TorOffStep == ASSUME TorInv, TInv', [TorNext]_torVars PROVE TOff'
<1> SUFFICES ASSUME ~tEnabled', ~tMet' PROVE (AllIdle' /\ AllDown') \/ StopAlone'
  BY DEF TOff, AllIdle, AllDown, StopAlone
<1>a. TInv /\ TTyped
  BY DEF TorInv, TInv
<1>b. ASSUME ~tEnabled, ~tMet PROVE (AllIdle /\ AllDown) \/ StopAlone
  BY <1>b DEF TorInv, TOff
<1>c. AllDown => ~Alive
  BY <1>a DEF AllDown, Alive, TTyped
<1>1. ASSUME NEW a \in TAgent, TStep(a) \/ StartRefused(a) \/ StartTimesOut(a) \/ LookUpFails(a)
      PROVE  (AllIdle' /\ AllDown') \/ StopAlone'
  <2>1. tMet' = tMet /\ tEnabled' = tEnabled
    <3>1. CASE StartRefused(a) \/ StartTimesOut(a) \/ LookUpFails(a)
      BY <3>1 DEF StartRefused, StartTimesOut, LookUpFails, Raise, torStore
    <3>2. CASE StartBegins(a) \/ StartReady(a) \/ StartExited(a) \/ StaleTerminated(a)
      BY <3>2 DEF StartBegins, StartReady, StartExited, StaleTerminated, Raise, torStore
    <3>3. CASE StopBegins(a) \/ Terminated(a) \/ PassMark(a)
      BY <3>3 DEF StopBegins, Terminated, PassMark, Raise, torStore
    <3>4. CASE AutoPin(a) \/ Keep(a) \/ LookUp(a)
      BY <3>4 DEF AutoPin, Keep, LookUp, PinDefault, PinCountry, torStore
    <3> QED
      BY <1>1, <3>1, <3>2, <3>3, <3>4 DEF TStep
  <2>2. (AllIdle /\ AllDown) \/ StopAlone
    BY <1>b, <2>1
  <2>3. Busy(a)
    <3>1. tTask[a].at # "" \/ tTask[a].plan # <<>>
      BY <1>1 DEF TStep, StartBegins, StartReady, StartExited, StaleTerminated, StopBegins,
         Terminated, AutoPin, Keep, LookUp, PassMark, StartRefused, StartTimesOut, LookUpFails, Ready
    <3>2. TIdle.at = "" /\ TIdle.plan = <<>>
      BY DEF TIdle
    <3> QED
      BY <3>1, <3>2 DEF Busy
  <2>4. PICK b \in TAgent : Stopping(b) /\ \A c \in TAgent \ {b} : ~Busy(c)
    BY <2>2, <2>3 DEF AllIdle, StopAlone
  <2>5. a = b
    BY <2>3, <2>4
  <2> QED
    BY <1>1, <1>a, <2>4, <2>5, StopSteps
<1>2. CASE KeepaliveRound
  <2>1. PICK op, plan : Launch(TKeeper, op, plan) /\ op # "stop" /\ (tEnabled \/ Alive)
    BY <1>2 DEF KeepaliveRound
  <2>2. ~tMet /\ ~tEnabled /\ TKeeper \in TAgent
    BY <1>2, <2>1 DEF KeepaliveRound, Launch, torStore, TAgent
  <2> QED
    BY <1>b, <1>c, <2>1, <2>2, NoLaunch
<1>3. ASSUME NEW a \in TPanel, TorAction(a) PROVE (AllIdle' /\ AllDown') \/ StopAlone'
  <2>1. Launch(a, "stop", <<"stop">>) /\ a \in TAgent
    BY <1>3 DEF TorAction, PanelOp, TAgent
  <2> QED
    BY <1>a, <2>1, StopLaunched
<1>4. ASSUME NEW a \in TPanel, NewIdentity(a) PROVE (AllIdle' /\ AllDown') \/ StopAlone'
  <2>1. PICK op, plan : Launch(a, op, plan) /\ op # "stop" /\ Alive
    BY <1>4 DEF NewIdentity, PanelOp
  <2>2. ~tMet /\ ~tEnabled /\ a \in TAgent
    BY <1>4, <2>1 DEF NewIdentity, Launch, TAgent
  <2> QED
    BY <1>b, <1>c, <2>1, <2>2, NoLaunch
<1>5. ASSUME UNCHANGED <<tEnabled, tMet, tTask, tHandle>>,
             \A p \in TPid : tProc[p] = "none" => tProc'[p] = "none"
      PROVE  (AllIdle' /\ AllDown') \/ StopAlone'
  BY <1>b, <1>5 DEF AllIdle, AllDown, StopAlone, Stopping, Busy
<1>6. ASSUME NEW a \in TPanel, NEW value \in Selection, ApplyExit(a, value)
      PROVE  (AllIdle' /\ AllDown') \/ StopAlone'
  <2>1. ~tEnabled
    BY <1>6 DEF ApplyExit
  <2> QED
    BY <1>5, <1>6, <2>1 DEF ApplyExit, torOs
<1>7. ASSUME NEW p \in TPid, TorBoots(p) \/ TorEnds(p) \/ TorCrashes(p)
      PROVE  (AllIdle' /\ AllDown') \/ StopAlone'
  <2>1. UNCHANGED <<tEnabled, tMet, tTask, tHandle>> /\ tProc[p] # "none"
    BY <1>7 DEF TorBoots, TorEnds, TorCrashes, torStore
  <2>2. \A q \in TPid \ {p} : tProc'[q] = tProc[q]
    BY <1>7, <1>a DEF TorBoots, TorEnds, TorCrashes, TTyped
  <2> QED
    BY <1>5, <2>1, <2>2
<1>8. CASE UNCHANGED torVars
  BY <1>5, <1>8 DEF torVars
<1>9. ASSUME NEW file \in TFile, Imported(file) PROVE (AllIdle' /\ AllDown') \/ StopAlone'
  <2>1. ~tMet /\ ~tEnabled /\ UNCHANGED <<tTask, tHandle, tProc>>
    BY <1>9 DEF Imported, torOs
  <2> QED
    BY <1>b, <2>1 DEF AllIdle, AllDown, StopAlone, Stopping, Busy
<1> QED
  BY <1>1, <1>2, <1>3, <1>4, <1>6, <1>7, <1>8, <1>9 DEF TorNext

LEMMA TorInvInit == TorInit => TorInv
<1> SUFFICES ASSUME TorInit PROVE TorInv
  OBVIOUS
<1>1. TPlans
  BY StepsArePlans DEF TorInit, TPlans, Planned, TIdle, TorOp, Selection
<1>2. TStore /\ TRest
  <2>1. TStore
    BY DEF TorInit, TStore
  <2>2. tRc \in Selection /\ tForeign \in BOOLEAN /\ tMet \in BOOLEAN
    BY DEF TorInit, Selection
  <2>3. tOps \in 0 .. TMaxOp /\ tFaults \in 0 .. TMaxFault
    BY TorAssumption DEF TorInit
  <2> QED
    BY <2>1, <2>2, <2>3 DEF TRest
<1>3. TOff
  BY DEF TorInit, TOff, AllIdle, AllDown, Busy
<1> QED
  BY <1>1, <1>2, <1>3, InitTInv DEF TorInv

LEMMA TorInvStep == TorInv /\ [TorNext]_torVars => TorInv'
<1> SUFFICES ASSUME TorInv, [TorNext]_torVars PROVE TorInv'
  OBVIOUS
<1>1. TInv'
  BY NextTInv DEF TorInv
<1>2. TPlans' /\ TStore' /\ TRest'
  BY TorPlansStep DEF TorInv
<1> QED
  BY <1>1, <1>2, TorOffStep DEF TorInv

LEMMA TorInvGives == TorInv => TorTypeOK /\ TorOffIsDown
<1> SUFFICES ASSUME TorInv PROVE TorTypeOK /\ TorOffIsDown
  OBVIOUS
<1>1. TorTypeOK
  BY TorTypeParts DEF TorInv
<1>2. ASSUME StopAlone, AllIdle PROVE FALSE
  BY <1>2, StoppingIsBusy DEF StopAlone, AllIdle
<1>3. TorOffIsDown
  BY <1>2 DEF TorInv, TOff, TorOffIsDown, AllIdle, AllDown
<1> QED
  BY <1>1, <1>3

-----------------------------------------------------------------------------
(* The two of them.                                                        *)

LEMMA OutboundInit == Init => WarpInv /\ TorInv
  BY WarpInvInit, TorInvInit DEF Init

LEMMA OutboundStep ==
    WarpInv /\ TorInv /\ [Next]_<<focus, warpVars, torVars>> => WarpInv' /\ TorInv'
<1> SUFFICES ASSUME WarpInv, TorInv, [Next]_<<focus, warpVars, torVars>> PROVE WarpInv' /\ TorInv'
  OBVIOUS
<1>1. [WarpNext]_warpVars /\ [TorNext]_torVars
  BY DEF Next
<1> QED
  BY <1>1, WarpInvStep, TorInvStep

\* The records of both stay well formed: counters within their bounds, every plan of a
\* Tor coroutine a sequence of its steps, and nobody inside _start or stop without _lock
\* (_warp_keepalive, _start, stop).
THEOREM OutboundTypes == Spec => []OutboundTypeOK
<1>1. WarpInv /\ TorInv => OutboundTypeOK
  BY WarpInvGives, TorInvGives DEF OutboundTypeOK
<1> QED
  BY <1>1, OutboundInit, OutboundStep, PTL DEF Spec

\* A WARP or Tor that its switch put off is down once nobody is at work, unless the
\* switch met another caller: no interleaving of the switch with restarts that are
\* refused, time-outs, crashes or flags stored by the panel's update and by imports
\* leaves it running.  A flag that only such a store puts off stops nothing
\* (handle_admin_api_warp_toggle, _stop_warp_proxy; handle_tor_action, stop).
THEOREM SwitchedOffGoesDown == Spec => []OffIsDown
<1>1. WarpInv /\ TorInv => OffIsDown
  BY WarpInvGives, TorInvGives DEF OffIsDown
<1> QED
  BY <1>1, OutboundInit, OutboundStep, PTL DEF Spec
=============================================================================
