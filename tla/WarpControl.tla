---------------------------- MODULE WarpControl ----------------------------
(***************************************************************************)
(* The Cloudflare WARP relay of EasyProxy: one wireproxy process behind    *)
(* 127.0.0.1:1080, the shell script that starts and stops it, and the four *)
(* callers of that script: the keepalive task, the idle recycle of the     *)
(* cleanup task, the admin panel and failed requests                       *)
(* (services/proxy_core.py, scripts/warp_userspace_ctl.sh,                 *)
(* services/proxy_pages.py).                                               *)
(*                                                                         *)
(* Python between two awaits is one action.  A script is a process: its    *)
(* progress is kept in the task that awaits it, and nothing serialises the *)
(* scripts of reconnect_warp, of the recycle and of the panel's switch.    *)
(***************************************************************************)
EXTENDS Integers, FiniteSets

CONSTANTS
    WPid,       \* pids the operating system hands out
    WKeeper,    \* the task running _warp_keepalive
    WSweeper,   \* the task running _cleanup_stale_sessions
    WTraffic,   \* requests routed through WARP
    WPanel,     \* admin requests
    WPatience,  \* failed probes before a reconnect (2 in the code)
    WMaxCall,   \* requests that probe, restart or switch together (bound)
    WMaxFault,  \* crashes and dead sessions of wireproxy (bound)
    WNil

ASSUME WarpAssumption ==
    /\ WNil \notin WPid
    /\ WKeeper # WSweeper
    /\ {WKeeper, WSweeper} \cap (WTraffic \cup WPanel) = {} /\ WTraffic \cap WPanel = {}
    /\ WPatience \in Nat \ {0} /\ WMaxCall \in Nat /\ WMaxFault \in Nat

WAgent == {WKeeper, WSweeper} \cup WTraffic \cup WPanel

WProcState == {"none", "booting", "serving", "stale", "dying"}
WHolding   == {"serving", "stale", "dying"}   \* owns port 1080
WScriptPc  == {"stop", "wait", "check", "launch"}
WPc == WScriptPc \cup {"idle", "use", "probe", "bind", "confirm"}
WOp == {"none", "keepalive", "traffic", "recycle", "on", "off", "reconnect"}

VARIABLES
    wEnabled,  \* enable_warp in the config store
    wFile,     \* the pid in wireproxy.pid, or WNil
    wProc,     \* wProc[p]: what runs under pid p
    wTask,     \* each caller: where it is, for which operation, about which pid
    wFails,    \* consecutive_failures of _warp_keepalive
    wCooling,  \* less than 60 s since _last_warp_reconnect_time
    wStamp,    \* whether WARP_LAST_ACTIVITY holds a time (of a use since the recycle)
    wFaults,   \* faults so far
    wMet       \* history: two "script"s have run beside each other; or, since the
               \* switch last put WARP off alone, a "probe" ran beside a script, or
               \* WARP was started, or left up, against its flag

warpVars == <<wEnabled, wFile, wProc, wTask, wFails, wCooling, wStamp, wFaults, wMet>>

WIdle == [pc |-> "idle", op |-> "none", pid |-> WNil]

WarpTypeOK ==
    /\ wEnabled \in BOOLEAN /\ wFile \in WPid \cup {WNil}
    /\ wProc \in [WPid -> WProcState]
    /\ wTask \in [WAgent -> [pc : WPc, op : WOp, pid : WPid \cup {WNil}]]
    /\ wFails \in 0 .. WPatience /\ wCooling \in BOOLEAN
    /\ wStamp \in BOOLEAN /\ wFaults \in 0 .. WMaxFault
    /\ wMet \in {"none", "probe", "script"}

\* The entrypoint starts wireproxy whatever the flag says, and start_tasks sets
\* the time of the last reconnect to the start of the server.
WarpInit ==
    /\ wEnabled \in BOOLEAN
    /\ \/ wFile = WNil /\ wProc = [p \in WPid |-> "none"]
       \/ \E q \in WPid : wFile = q /\ wProc = [p \in WPid |-> IF p = q THEN "serving" ELSE "none"]
    /\ wTask = [a \in WAgent |-> WIdle]
    /\ wFails = 0 /\ wCooling = TRUE /\ wStamp = FALSE /\ wFaults = 0
    /\ wMet = IF wEnabled \/ wFile = WNil THEN "none" ELSE "probe"

-----------------------------------------------------------------------------
(* What the script and the probe can see.                                  *)

WRunning(p) == p # WNil /\ wProc[p] # "none"         \* pid_is_wireproxy
Listening   == \E p \in WPid : wProc[p] \in WHolding
Tunnelled   == \E p \in WPid : wProc[p] = "serving"
WScripting(a) == wTask[a].pc \in WScriptPc

\* A caller holds _warp_reconnect_lock from reconnect_warp's first await on.
LockHeld ==
    \E a \in WAgent : /\ wTask[a].op \notin {"recycle", "off"}
                      /\ WScripting(a) \/ wTask[a].pc \in {"bind", "confirm"}

GoTo(a, pc) == wTask' = [wTask EXCEPT ![a].pc = pc]
Become(a, op, pc) == wTask' = [wTask EXCEPT ![a] = [pc |-> pc, op |-> op, pid |-> WNil]]
Finish(a) == wTask' = [wTask EXCEPT ![a] = WIdle]

\* Starting a script beside the script, or the unfinished probe, of another, or
\* a restart of what is switched off (the panel's reconnect has no guard).  The
\* switch that puts WARP off alone undoes what was started or left up before.
Beside(a, op) ==
    wMet' = CASE wMet = "script" \/ \E b \in WAgent \ {a} : WScripting(b) -> "script"
              [] OTHER -> IF \/ \E b \in WAgent \ {a} : wTask[b].pc = "probe"
                             \/ op = "reconnect" /\ ~wEnabled
                          THEN "probe"
                          ELSE IF op = "off" THEN "none" ELSE wMet

\* reconnect_warp: refused during the cooldown and while another one runs.
ReconnectWarp(a, op) ==
    IF wCooling \/ LockHeld
    THEN Finish(a) /\ UNCHANGED <<wCooling, wMet>>
    ELSE Become(a, op, "stop") /\ wCooling' = TRUE /\ Beside(a, op)

-----------------------------------------------------------------------------
(* warp_userspace_ctl.sh stop, restart.                                    *)

\* A script has ended with this code and _run_warp_control returns it.
ScriptEnded(a, ok) ==
    IF wTask[a].op # "off" /\ ok THEN GoTo(a, "bind") ELSE Finish(a)

AfterStop(a) == IF wTask[a].op = "off" THEN Finish(a) ELSE GoTo(a, "check")

WStop(a) ==
    /\ wTask[a].pc = "stop"
    /\ IF WRunning(wFile)
       THEN /\ wProc' = [wProc EXCEPT ![wFile] = "dying"]
            /\ wTask' = [wTask EXCEPT ![a].pc = "wait", ![a].pid = wFile]
            /\ UNCHANGED wFile
       ELSE wFile' = WNil /\ AfterStop(a) /\ UNCHANGED wProc
    /\ UNCHANGED <<wEnabled, wFails, wCooling, wStamp, wFaults, wMet>>

WStopped(a) ==
    /\ wTask[a].pc = "wait" /\ ~WRunning(wTask[a].pid)
    /\ wFile' = WNil /\ AfterStop(a)
    /\ UNCHANGED <<wEnabled, wProc, wFails, wCooling, wStamp, wFaults, wMet>>

\* Mutant of WStopGivesUp: the pid file goes although the process is alive.
WStopForgets(a) ==
    /\ wTask[a].pc = "wait" /\ WRunning(wTask[a].pid)
    /\ wFile' = WNil /\ ScriptEnded(a, FALSE)
    /\ UNCHANGED <<wEnabled, wProc, wFails, wCooling, wStamp, wFaults, wMet>>

\* Ten seconds were not enough: the pid file stays and set -e ends the script.
WStopGivesUp(a) ==
    /\ wTask[a].pc = "wait" /\ WRunning(wTask[a].pid)
    /\ ScriptEnded(a, FALSE)
    /\ UNCHANGED <<wEnabled, wFile, wProc, wFails, wCooling, wStamp, wFaults, wMet>>

WCheck(a) ==
    /\ wTask[a].pc = "check"
    /\ IF WRunning(wFile) THEN ScriptEnded(a, TRUE) /\ UNCHANGED wFile
                          ELSE wFile' = WNil /\ GoTo(a, "launch")
    /\ UNCHANGED <<wEnabled, wProc, wFails, wCooling, wStamp, wFaults, wMet>>

\* The profile was resolved and validated: the process starts (pids are interchangeable:
\* which one is left to CHOOSE), and its pid is kept.
WLaunch(a) ==
    /\ wTask[a].pc = "launch"
    /\ \E p \in WPid : /\ wProc[p] = "none" /\ p = CHOOSE q \in WPid : wProc[q] = "none"
                      /\ wFile' = p /\ wProc' = [wProc EXCEPT ![p] = "booting"]
    /\ ScriptEnded(a, TRUE)
    /\ UNCHANGED <<wEnabled, wFails, wCooling, wStamp, wFaults, wMet>>

\* _run_warp_control kills the shell after 20 s: while it waits for the old
\* process, or resolves the endpoint of the new one.
WScriptTimesOut(a) ==
    /\ wTask[a].pc \in {"wait", "launch"}
    /\ ScriptEnded(a, FALSE)
    /\ UNCHANGED <<wEnabled, wFile, wProc, wFails, wCooling, wStamp, wFaults, wMet>>

WScript(a) == WStop(a) \/ WStopped(a) \/ WStopGivesUp(a) \/ WCheck(a) \/ WLaunch(a)

-----------------------------------------------------------------------------
(* Probes.                                                                 *)

\* Mutant of ProbeFailed: the keepalive overlooks a listener without a tunnel.
ProbeFailedSocket(a, component) ==
    /\ wFails' = IF wTask[a].op = "keepalive" /\ wFails < WPatience THEN wFails + 1 ELSE wFails
    /\ IF component = "socket" /\ (wTask[a].op = "keepalive" => wFails + 1 >= WPatience)
       THEN ReconnectWarp(a, wTask[a].op)
       ELSE Finish(a) /\ UNCHANGED <<wCooling, wMet>>

\* What the caller of _probe_warp does with a failure: the keepalive counts it
\* and reconnects from the second on; a request reconnects only when the
\* process or the socket, not the tunnel behind it, is at fault.
ProbeFailed(a, component) ==
    IF wTask[a].op = "keepalive"
    THEN /\ wFails' = IF wFails < WPatience THEN wFails + 1 ELSE wFails
         /\ IF wFails + 1 < WPatience THEN Finish(a) /\ UNCHANGED <<wCooling, wMet>>
                                      ELSE ReconnectWarp(a, "keepalive")
    ELSE /\ IF component = "socket" THEN ReconnectWarp(a, "traffic")
                                    ELSE Finish(a) /\ UNCHANGED <<wCooling, wMet>>
         /\ UNCHANGED wFails

\* The answer of _probe_warp: process, listener and the trace through the tunnel.
ProbeWarp(a) ==
    /\ wTask[a].pc = "probe"
    /\ IF Tunnelled
       THEN /\ Finish(a)
            /\ wFails' = IF wTask[a].op = "keepalive" THEN 0 ELSE wFails
            /\ UNCHANGED <<wCooling, wMet>>
       ELSE ProbeFailed(a, IF Listening THEN "tunnel" ELSE "socket")
    /\ UNCHANGED <<wEnabled, wFile, wProc, wStamp, wFaults>>

\* _wait_for_warp_socket after a restart.  The recycle ends here and forgets
\* the last activity; a reconnect goes on to probe (in vain when WARP has been
\* switched off), whose socket step follows at once.
BindWait(a) ==
    /\ wTask[a].pc = "bind"
    /\ IF wTask[a].op = "recycle"
       THEN Finish(a) /\ wStamp' = (wStamp /\ ~Listening)
       ELSE /\ IF Listening /\ wEnabled THEN GoTo(a, "confirm") ELSE Finish(a)
            /\ UNCHANGED wStamp
    /\ UNCHANGED <<wEnabled, wFile, wProc, wFails, wCooling, wFaults, wMet>>

\* The end of a reconnect: only a restart whose probe went well lets the
\* keepalive count from zero again.
Confirm(a) ==
    /\ wTask[a].pc = "confirm"
    /\ Finish(a)
    /\ wFails' = IF wTask[a].op = "keepalive" /\ Tunnelled THEN 0 ELSE wFails
    /\ UNCHANGED <<wEnabled, wFile, wProc, wCooling, wStamp, wFaults, wMet>>

WProbing(a) == ProbeWarp(a) \/ BindWait(a) \/ Confirm(a)

-----------------------------------------------------------------------------
(* The callers.                                                            *)

WRoom == Cardinality({a \in WTraffic \cup WPanel : wTask[a].pc \notin {"idle", "use"}}) < WMaxCall

KeepaliveTick ==
    /\ wTask[WKeeper] = WIdle
    /\ IF wEnabled THEN Become(WKeeper, "keepalive", "probe") /\ UNCHANGED wFails
                   ELSE wFails' = 0 /\ UNCHANGED wTask
    /\ UNCHANGED <<wEnabled, wFile, wProc, wCooling, wStamp, wFaults, wMet>>

\* Clients counted by _warp_established_connections.
Established == {r \in WTraffic : wTask[r].pc = "use"}

\* 120 s without a use may have passed at any moment at which none is connected.
RecycleIdleWarp ==
    /\ wTask[WSweeper] = WIdle
    /\ wEnabled /\ wStamp /\ Established = {}
    /\ Become(WSweeper, "recycle", "stop") /\ Beside(WSweeper, "recycle")
    /\ UNCHANGED <<wEnabled, wFile, wProc, wFails, wCooling, wStamp, wFaults>>

\* The panel's switch stores the flag first; off stops the process at once, on
\* restarts it under reconnect_warp's conditions.
WarpToggle(a) ==
    /\ wTask[a] = WIdle /\ WRoom
    /\ \/ wEnabled' = TRUE /\ ReconnectWarp(a, "on")
       \/ wEnabled' = FALSE /\ Become(a, "off", "stop") /\ Beside(a, "off") /\ UNCHANGED wCooling
    /\ UNCHANGED <<wFile, wProc, wFails, wStamp, wFaults>>

\* The panel's update, or an imported configuration, stores any flag and leaves
\* wireproxy as it is.
ConfigStored ==
    /\ wEnabled' \in BOOLEAN
    /\ wMet' = IF wEnabled /\ ~wEnabled' /\ wMet = "none" THEN "probe" ELSE wMet
    /\ UNCHANGED <<wFile, wProc, wTask, wFails, wCooling, wStamp, wFaults>>

PanelReconnect(a) ==
    /\ wTask[a] = WIdle /\ WRoom
    /\ ReconnectWarp(a, "reconnect")
    /\ UNCHANGED <<wEnabled, wFile, wProc, wFails, wStamp, wFaults>>

\* A request takes a WARP session: every use refreshes the stamp.
UseWarp(r) ==
    /\ wTask[r] = WIdle /\ WRoom /\ wEnabled
    /\ wStamp' = TRUE
    /\ IF Tunnelled THEN Become(r, "traffic", "use") ELSE Become(r, "traffic", "probe")
    /\ UNCHANGED <<wEnabled, wFile, wProc, wFails, wCooling, wFaults, wMet>>

\* The answer has been relayed, or the connection broke and WARP is probed
\* (only while it is enabled).
UseEnds(r) ==
    /\ wTask[r].pc = "use"
    /\ IF Tunnelled \/ ~wEnabled THEN Finish(r) ELSE GoTo(r, "probe")
    /\ UNCHANGED <<wEnabled, wFile, wProc, wFails, wCooling, wStamp, wFaults, wMet>>

-----------------------------------------------------------------------------
(* The processes and the clock.                                            *)

\* wireproxy opens its listener, or exits because another one holds the port.
WBinds(p) ==
    /\ wProc[p] = "booting"
    /\ wProc' = [wProc EXCEPT ![p] = IF Listening THEN "none" ELSE "serving"]
    /\ UNCHANGED <<wEnabled, wFile, wTask, wFails, wCooling, wStamp, wFaults, wMet>>

WDies(p) ==
    /\ wProc[p] = "dying"
    /\ wProc' = [wProc EXCEPT ![p] = "none"]
    /\ UNCHANGED <<wEnabled, wFile, wTask, wFails, wCooling, wStamp, wFaults, wMet>>

WFault(p) ==
    /\ wFaults < WMaxFault /\ wProc[p] = "serving"
    /\ \E q \in {"none", "stale"} : wProc' = [wProc EXCEPT ![p] = q]
    /\ wFaults' = wFaults + 1
    /\ UNCHANGED <<wEnabled, wFile, wTask, wFails, wCooling, wStamp, wMet>>

CooldownOver ==
    /\ wCooling /\ wCooling' = FALSE
    /\ UNCHANGED <<wEnabled, wFile, wProc, wTask, wFails, wStamp, wFaults, wMet>>

WarpNext ==
    \/ \E a \in WAgent : WScript(a) \/ WScriptTimesOut(a) \/ WProbing(a)
    \/ KeepaliveTick \/ RecycleIdleWarp \/ ConfigStored
    \/ \E a \in WPanel : WarpToggle(a) \/ PanelReconnect(a)
    \/ \E r \in WTraffic : UseWarp(r) \/ UseEnds(r)
    \/ \E p \in WPid : WBinds(p) \/ WDies(p) \/ WFault(p)
    \/ CooldownOver

WarpSpec == WarpInit /\ [][WarpNext]_warpVars

\* The keepalive ticks for ever, scripts and probes end, time passes, a process
\* told to stop exits.  A name that resolves at times lets a start end (strong
\* fairness of WLaunch); a listener opens within milliseconds (WBinds).
WarpFairness ==
    /\ WF_warpVars(KeepaliveTick) /\ WF_warpVars(CooldownOver)
    /\ WF_warpVars(WScript(WKeeper) \/ WProbing(WKeeper))
    /\ WF_warpVars(WScript(WSweeper) \/ WProbing(WSweeper))
    /\ WF_warpVars(\E a \in WTraffic \cup WPanel : WScript(a) \/ WProbing(a))
    /\ SF_warpVars(\E a \in WAgent : WLaunch(a))
    /\ SF_warpVars(\E p \in WPid : WBinds(p)) /\ WF_warpVars(\E p \in WPid : WDies(p))

WarpFairSpec == WarpSpec /\ WarpFairness

-----------------------------------------------------------------------------
(* Properties.                                                             *)

\* While no two scripts have met, every live wireproxy is the one of the pid
\* file or the one a script is waiting for: the next stop finds it
\* (warp_userspace_ctl.sh, whatever gives up or is killed in between).
WarpNoOrphan ==
    wMet # "script" =>
        \A p \in WPid : wProc[p] # "none" => wFile = p

\* "Probe WARP periodically and reconnect after consecutive failures": as long
\* as it stays enabled WARP serves again and again, after any fault, although
\* reconnects are refused during the cooldown and the recycle restarts it too.
WarpRecovers ==
    (<>[]wEnabled /\ <>[](wMet # "script")) => []<>Tunnelled

\* WARP that was put off by its switch is down, or ends, once no caller is at
\* work, whatever ran before, unless the switch met the probe or the script of
\* another caller, or the panel asked for a reconnect in spite of the flag.  (A
\* flag put off by the panel's update or an import leaves wireproxy up until the
\* switch is used, and so does the entrypoint, which starts it whatever the flag.)
WarpOffIsDown ==
    (~wEnabled /\ wMet = "none" /\ \A a \in WAgent : wTask[a] = WIdle) =>
        \A p \in WPid : wProc[p] \in {"none", "dying"}
=============================================================================
