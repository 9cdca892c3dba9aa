------------------------------ MODULE WgTunnel ------------------------------
(***************************************************************************)
(* One userspace WireGuard tunnel ("slot") of EasyProxy: its wireproxy     *)
(* process, the shell script that starts and stops it, the keepalive loop, *)
(* the admin panel and the proxy requests that ask for a reconnect         *)
(* (services/wg_tunnels.py, scripts/wg_tunnel_ctl.sh, routes/wg_tunnels.py,*)
(* proxy_core._recover_tunnel_proxy).                                      *)
(*                                                                         *)
(* Python code between two awaits is one action.  A caller awaits its      *)
(* script, so the script's progress is kept in the caller's record; the    *)
(* scripts of different callers run as processes of their own and nothing  *)
(* serialises them.                                                        *)
(***************************************************************************)
EXTENDS Integers, FiniteSets

CONSTANTS
    Pid,          \* pids the operating system hands out
    Keeper,       \* the task running keepalive_loop
    Traffic,      \* proxy requests that failed through the tunnel
    Panel,        \* admin requests in flight
    HealthEvery,  \* HEALTH_CHECK_EVERY (10 in the code)
    Patience,     \* HEALTH_FAILURES_BEFORE_RESTART (2 in the code)
    MaxCall,      \* requests of both kinds in flight together (bound)
    MaxFault,     \* crashes and dead sessions of the wireproxy process (bound)
    Relay,        \* whether the Cloudflare WARP relay runs beside the slot
    Nil

ASSUME TunnelAssumption ==
    /\ Nil \notin Pid
    /\ Keeper \notin Traffic \cup Panel /\ Traffic \cap Panel = {}
    /\ HealthEvery \in Nat \ {0} /\ Patience \in Nat \ {0}
    /\ MaxFault \in Nat /\ MaxCall \in Nat /\ Relay \in BOOLEAN

Agent == {Keeper} \cup Traffic \cup Panel

\* A wireproxy of this slot is "booting" until it listens; "stale" is one that
\* listens but whose WireGuard session is dead.  "warp" is the wireproxy of
\* the Cloudflare WARP relay: same program name, another pid file.
Proc == {"none", "warp", "booting", "serving", "stale", "dying"}
Own  == {"booting", "serving", "stale", "dying"}
Holding == {"serving", "stale", "dying"}

Ops == {"ensure", "health", "reconnect", "apply", "panel", "clear", "disconnect"}
Pcs == {"idle", "health", "ping", "stop", "wait", "check", "launch", "record",
        "bind", "verify"}

VARIABLES
    enabled,   \* the slot's flag in the config store (durable)
    profile,   \* whether its profile file exists (durable)
    pidFile,   \* wireproxy.pid: a pid, or Nil when there is no such file
    conf,      \* whether wireproxy.conf exists
    proc,      \* proc[p]: what runs under pid p
    task,      \* the coroutine of each agent and the script it awaits
    tick,      \* keepalive rounds since the last health check
    failures,  \* _health_failures
    cooling,   \* less than RECONNECT_COOLDOWN since the last reconnect()
    faults,    \* faults so far
    met        \* history: what a script has run beside since the boot: "none",
               \* the "ping" of another caller, or its start or stop "script"

files == <<pidFile, conf>>
flags == <<enabled, profile>>
vars  == <<flags, files, proc, task, tick, failures, cooling, faults, met>>

Idle == [pc |-> "idle", op |-> "panel", pid |-> Nil]

TypeOK ==
    /\ enabled \in BOOLEAN /\ profile \in BOOLEAN
    /\ pidFile \in Pid \cup {Nil} /\ conf \in BOOLEAN
    /\ proc \in [Pid -> Proc]
    /\ task \in [Agent -> [pc : Pcs, op : Ops, pid : Pid \cup {Nil}]]
    /\ tick \in 0 .. HealthEvery - 1
    /\ failures \in 0 .. Patience - 1
    /\ cooling \in BOOLEAN
    /\ faults \in 0 .. MaxFault
    /\ met \in {"none", "ping", "script"}

\* The container has started, the first time or again: /data keeps the flag
\* and the profile, /tmp keeps the files of processes that are gone, and pids
\* are handed out from the beginning, so the entrypoint's WARP relay may have
\* got the very pid that the slot's pid file still names.  (When the relay
\* dies its own watchdog starts it under a new pid, which no file of the slot
\* names: that step is left out.)
Init ==
    /\ enabled \in BOOLEAN /\ profile \in BOOLEAN
    /\ pidFile \in Pid \cup {Nil} /\ conf \in BOOLEAN
    /\ \E w \in SUBSET Pid :
         /\ Cardinality(w) <= 1 /\ (w # {} => Relay)
         /\ proc = [p \in Pid |-> IF p \in w THEN "warp" ELSE "none"]
    /\ task = [a \in Agent |-> Idle]
    /\ tick = 0 /\ failures = 0 /\ cooling = FALSE
    /\ faults = 0 /\ met = "none"

-----------------------------------------------------------------------------
(* What the code reads.                                                    *)

\* process_running and pid_is_wireproxy: the pid file names a live process
\* whose program name is wireproxy.
Running == pidFile # Nil /\ proc[pidFile] # "none"

\* The pids for a new process.  They are handed out in order, so within one
\* boot that is not the pid some file still names; which one it is makes no
\* difference, and NewPid settles it.
Fresh  == {p \in Pid : proc[p] = "none" /\ p # pidFile}
NewPid == CHOOSE p \in Fresh : TRUE

\* A request begins on an idle agent.
Call(a) ==
    /\ task[a] = Idle
    /\ Cardinality({b \in Traffic \cup Panel : task[b] # Idle}) < MaxCall

\* The script that agent a awaits is one that starts or stops wireproxy.
ScriptPcs    == {"stop", "wait", "check", "launch", "record"}
Scripting(a) == task[a].pc \in ScriptPcs

\* Another agent is at one of these points.
Meets(a, pcs) == \E b \in Agent \ {a} : task[b].pc \in pcs

At(a, pc) == task' = [task EXCEPT ![a].pc = pc]

\* run_ctl: the script begins at pc, beside whatever other script is running.
RunCtl(a, op, pc) ==
    /\ task' = [task EXCEPT ![a] = [Idle EXCEPT !.op = op, !.pc = pc]]
    /\ met' = IF Meets(a, ScriptPcs) THEN "script"
              ELSE IF met = "none" /\ Meets(a, {"ping"}) THEN "ping" ELSE met

\* Where the keepalive loop goes on after ensure_running
Rest(op) == IF op = "ensure" /\ tick = 0 THEN "health" ELSE "idle"

\* The script has exited and its caller goes on to its next await or returns.
\* Of the callers that outlive their script, clear_custom_profile looks at
\* the process again and reconnect() waits for the listener.
Exit(a, ok) ==
    LET op == task[a].op
    IN task' = [task EXCEPT ![a] =
         CASE op = "clear"            -> [Idle EXCEPT !.pc = "verify", !.op = op]
           [] op = "reconnect" /\ ok  -> [Idle EXCEPT !.pc = "bind", !.op = op]
           [] OTHER                   -> [Idle EXCEPT !.pc = Rest(op)]]

-----------------------------------------------------------------------------
(* scripts/wg_tunnel_ctl.sh                                                *)

\* After stop_wireproxy a restart goes on to start_wireproxy.
AfterStop(a) ==
    IF task[a].op \in {"clear", "disconnect"} THEN Exit(a, TRUE) ELSE At(a, "check")

\* stop_wireproxy: nothing to stop, or SIGTERM to the pid in the file.
Stop(a) ==
    /\ task[a].pc = "stop"
    /\ \/ /\ ~Running
          /\ pidFile' = Nil /\ conf' = FALSE
          /\ AfterStop(a)
          /\ UNCHANGED proc
       \/ /\ Running
          /\ proc' = [proc EXCEPT ![pidFile] = "dying"]
          /\ task' = [task EXCEPT ![a].pc = "wait", ![a].pid = pidFile]
          /\ UNCHANGED files
    /\ UNCHANGED <<flags, tick, failures, cooling, faults, met>>

\* The process is gone: the files go too, whatever they hold by now.
Stopped(a) ==
    /\ task[a].pc = "wait" /\ proc[task[a].pid] = "none"
    /\ pidFile' = Nil /\ conf' = FALSE
    /\ AfterStop(a)
    /\ UNCHANGED <<flags, proc, tick, failures, cooling, faults, met>>

\* Mutant: the files are removed although the process is still there.
StopForgets(a) ==
    /\ task[a].pc = "wait" /\ proc[task[a].pid] # "none"
    /\ pidFile' = Nil /\ conf' = FALSE
    /\ Exit(a, FALSE)
    /\ UNCHANGED <<flags, proc, tick, failures, cooling, faults, met>>

\* "wireproxy did not stop within 10 seconds"
StopGivesUp(a) ==
    /\ task[a].pc = "wait" /\ proc[task[a].pid] # "none"
    /\ Exit(a, FALSE)
    /\ UNCHANGED <<flags, files, proc, tick, failures, cooling, faults, met>>

\* start_wireproxy up to the DNS lookup in write_wireproxy_config
Start(a) ==
    /\ task[a].pc = "check"
    /\ \/ /\ Running
          /\ Exit(a, TRUE)
          /\ UNCHANGED files
       \/ /\ ~Running
          /\ pidFile' = Nil
          /\ IF profile THEN conf' = TRUE /\ At(a, "launch")
                        ELSE UNCHANGED conf /\ Exit(a, FALSE)
    /\ UNCHANGED <<flags, proc, tick, failures, cooling, faults, met>>

\* The configuration is valid: wireproxy is started in the background.
Launch(a) ==
    /\ task[a].pc = "launch" /\ conf
    /\ Fresh # {}
    /\ proc' = [proc EXCEPT ![NewPid] = "booting"]
    /\ task' = [task EXCEPT ![a].pc = "record", ![a].pid = NewPid]
    /\ UNCHANGED <<flags, files, tick, failures, cooling, faults, met>>

\* Another script's stop removed wireproxy.conf meanwhile.
LaunchFails(a) ==
    /\ task[a].pc = "launch" /\ ~conf
    /\ Exit(a, FALSE)
    /\ UNCHANGED <<flags, files, proc, tick, failures, cooling, faults, met>>

\* run_ctl kills the shell after 30 s: the DNS lookup hangs.
ScriptTimesOut(a) ==
    /\ task[a].pc = "launch" /\ faults < MaxFault
    /\ faults' = faults + 1
    /\ Exit(a, FALSE)
    /\ UNCHANGED <<flags, files, proc, tick, failures, cooling, met>>

\* printf pid > wireproxy.pid, and the script ends.
Record(a) ==
    /\ task[a].pc = "record"
    /\ pidFile' = task[a].pid
    /\ Exit(a, TRUE)
    /\ UNCHANGED <<flags, conf, proc, tick, failures, cooling, faults, met>>

Script(a) ==
    \/ Stop(a) \/ Stopped(a) \/ Start(a) \/ Launch(a) \/ LaunchFails(a) \/ Record(a)

-----------------------------------------------------------------------------
(* keepalive_loop, once every 30 s.                                        *)

\* Mutant: a pid file is taken for a running tunnel.
EnsureByFile ==
    /\ task[Keeper] = Idle
    /\ tick' = (tick + 1) % HealthEvery
    /\ LET rest == IF tick' = 0 THEN "health" ELSE "idle"
       IN \/ /\ ~enabled \/ (profile /\ pidFile # Nil)
             /\ At(Keeper, rest)
             /\ UNCHANGED <<enabled, met>>
          \/ /\ enabled /\ ~profile
             /\ enabled' = FALSE
             /\ At(Keeper, rest)
             /\ UNCHANGED met
          \/ /\ enabled /\ profile /\ pidFile = Nil
             /\ RunCtl(Keeper, "ensure", "check")
             /\ UNCHANGED enabled
    /\ UNCHANGED <<profile, files, proc, failures, cooling, faults>>


\* ensure_running; a round counts when it is over, so the next one knows
\* whether the health check is due.
EnsureRunning ==
    /\ task[Keeper] = Idle
    /\ tick' = (tick + 1) % HealthEvery
    /\ LET rest == IF tick' = 0 THEN "health" ELSE "idle"
       IN \/ /\ ~enabled \/ (profile /\ Running)
             /\ At(Keeper, rest)
             /\ UNCHANGED <<enabled, met>>
          \/ /\ enabled /\ ~profile
             /\ enabled' = FALSE
             /\ At(Keeper, rest)
             /\ UNCHANGED met
          \/ /\ enabled /\ profile /\ ~Running
             /\ RunCtl(Keeper, "ensure", "check")
             /\ UNCHANGED enabled
    /\ UNCHANGED <<profile, files, proc, failures, cooling, faults>>

\* health_check_slot: a tunnel that should work is pinged.
HealthCheck ==
    /\ task[Keeper].pc = "health"
    /\ \/ /\ enabled /\ Running
          /\ task' = [task EXCEPT ![Keeper] = [Idle EXCEPT !.pc = "ping", !.op = "health"]]
          /\ UNCHANGED failures
       \/ /\ ~(enabled /\ Running)
          /\ failures' = 0
          /\ task' = [task EXCEPT ![Keeper] = Idle]
    /\ UNCHANGED <<flags, files, proc, tick, cooling, faults, met>>

\* The ping script came back.  A serving tunnel may fail it for reasons of
\* the probed site (a fault, bounded), a tunnel that serves nothing always does.
PingOk == Running /\ \E p \in Pid : proc[p] = "serving"

PingFailed == IF PingOk THEN faults < MaxFault /\ faults' = faults + 1
                        ELSE UNCHANGED faults

\* Mutant: the failure count is compared before it is raised.
HealthPingedLate ==
    /\ task[Keeper].pc = "ping"
    /\ \/ /\ PingOk
          /\ failures' = 0
          /\ task' = [task EXCEPT ![Keeper] = Idle]
          /\ UNCHANGED <<faults, met>>
       \/ /\ PingFailed /\ failures < Patience
          /\ failures' = failures + 1
          /\ task' = [task EXCEPT ![Keeper] = Idle]
          /\ UNCHANGED met
       \/ /\ PingFailed /\ failures = Patience
          /\ failures' = 0
          /\ RunCtl(Keeper, "health", "stop")
    /\ UNCHANGED <<flags, files, proc, tick, cooling>>

\* Mutant: every failure is taken for the first.
HealthPingedForgets ==
    /\ task[Keeper].pc = "ping"
    /\ PingOk \/ PingFailed
    /\ PingOk => UNCHANGED faults
    /\ failures' = 0
    /\ task' = [task EXCEPT ![Keeper] = Idle]
    /\ UNCHANGED <<flags, files, proc, tick, cooling, met>>

\* Health check: the last of "Patience" failures in a row restarts.
HealthPinged ==
    /\ task[Keeper].pc = "ping"
    /\ \/ /\ PingOk
          /\ failures' = 0
          /\ task' = [task EXCEPT ![Keeper] = Idle]
          /\ UNCHANGED <<faults, met>>
       \/ /\ PingFailed /\ failures + 1 < Patience
          /\ failures' = failures + 1
          /\ task' = [task EXCEPT ![Keeper] = Idle]
          /\ UNCHANGED met
       \/ /\ PingFailed /\ failures + 1 = Patience
          /\ failures' = 0
          /\ RunCtl(Keeper, "health", "stop")
    /\ UNCHANGED <<flags, files, proc, tick, cooling>>

-----------------------------------------------------------------------------
(* reconnect(), after a proxy request failed through the tunnel.  The lock  *)
(* is held by the request that is past its first line.                      *)

Locked == \E r \in Traffic : task[r] # Idle

Reconnect(r) ==
    /\ r \in Traffic /\ Call(r) /\ enabled /\ ~Locked /\ ~cooling
    /\ cooling' = TRUE
    /\ \/ /\ Running
          /\ task' = [task EXCEPT ![r] = [Idle EXCEPT !.pc = "ping", !.op = "reconnect"]]
          /\ UNCHANGED met
       \/ /\ ~Running /\ profile
          /\ RunCtl(r, "reconnect", "check")
       \/ /\ ~Running /\ ~profile
          /\ UNCHANGED <<task, met>>
    /\ UNCHANGED <<flags, files, proc, tick, failures, faults>>

\* A healthy tunnel is left alone, any other is restarted.
ReconnectPinged(r) ==
    /\ r \in Traffic /\ task[r].pc = "ping"
    /\ \/ /\ PingOk
          /\ task' = [task EXCEPT ![r] = Idle]
          /\ UNCHANGED <<faults, met>>
       \/ /\ PingFailed
          /\ RunCtl(r, "reconnect", "stop")
    /\ UNCHANGED <<flags, files, proc, tick, failures, cooling>>

\* _wait_for_bind: a listener accepted, or 8 s went by.
BindWaited(r) ==
    /\ r \in Traffic /\ task[r].pc = "bind"
    /\ task' = [task EXCEPT ![r] = Idle]
    /\ UNCHANGED <<flags, files, proc, tick, failures, cooling, faults, met>>

CooldownEnds ==
    /\ cooling /\ cooling' = FALSE
    /\ UNCHANGED <<flags, files, proc, task, tick, failures, faults, met>>

-----------------------------------------------------------------------------
(* The admin panel.                                                        *)

\* apply_custom_profile, connect_nordvpn once it has the server and the key
Apply(a) ==
    /\ a \in Panel /\ Call(a)
    /\ enabled' = TRUE /\ profile' = TRUE
    /\ RunCtl(a, "apply", "stop")
    /\ UNCHANGED <<files, proc, tick, failures, cooling, faults>>

\* handle_reconnect sets the flag, handle_bind goes by it.
PanelRestart(a) ==
    /\ a \in Panel /\ Call(a)
    /\ \/ enabled' = TRUE
       \/ enabled /\ UNCHANGED enabled
    /\ RunCtl(a, "panel", "stop")
    /\ UNCHANGED <<profile, files, proc, tick, failures, cooling, faults>>

\* disconnect, and clear_custom_profile up to the stop
SwitchOff(a) ==
    /\ a \in Panel /\ Call(a)
    /\ enabled' = FALSE
    /\ \E op \in {"clear", "disconnect"} : RunCtl(a, op, "stop")
    /\ UNCHANGED <<profile, files, proc, tick, failures, cooling, faults>>

\* clear_custom_profile after the stop: the profile goes unless the process
\* is still there.
ClearEnds(a) ==
    /\ a \in Panel /\ task[a].pc = "verify"
    /\ IF Running THEN UNCHANGED flags ELSE enabled' = FALSE /\ profile' = FALSE
    /\ task' = [task EXCEPT ![a] = Idle]
    /\ UNCHANGED <<files, proc, tick, failures, cooling, faults, met>>

-----------------------------------------------------------------------------
(* The processes.                                                          *)

\* wireproxy opens its listener, or exits when the address is in use.
Binds(p) ==
    /\ proc[p] = "booting"
    /\ proc' = [proc EXCEPT ![p] = IF \E q \in Pid : proc[q] \in Holding
                                   THEN "none" ELSE "serving"]
    /\ UNCHANGED <<flags, files, task, tick, failures, cooling, faults, met>>

\* After SIGTERM
Dies(p) ==
    /\ proc[p] = "dying"
    /\ proc' = [proc EXCEPT ![p] = "none"]
    /\ UNCHANGED <<flags, files, task, tick, failures, cooling, faults, met>>

\* A crash, or a session that carries no traffic any more
Fault(p) ==
    /\ faults < MaxFault /\ faults' = faults + 1
    /\ \/ /\ proc[p] \in {"booting", "serving", "stale"}
          /\ proc' = [proc EXCEPT ![p] = "none"]
       \/ /\ proc[p] = "serving"
          /\ proc' = [proc EXCEPT ![p] = "stale"]
    /\ UNCHANGED <<flags, files, task, tick, failures, cooling, met>>

-----------------------------------------------------------------------------
Next ==
    \/ EnsureRunning \/ HealthCheck \/ HealthPinged
    \/ \E a \in Agent : Script(a) \/ StopGivesUp(a) \/ ScriptTimesOut(a)
    \/ \E r \in Traffic : Reconnect(r) \/ ReconnectPinged(r) \/ BindWaited(r)
    \/ \E a \in Panel : Apply(a) \/ PanelRestart(a) \/ SwitchOff(a) \/ ClearEnds(a)
    \/ \E p \in Pid : Binds(p) \/ Dies(p) \/ Fault(p)
    \/ CooldownEnds

Spec == Init /\ [][Next]_vars

\* The loop ticks for ever, scripts and pings end (each has a timeout), and a
\* process told to stop exits.  A wireproxy opens its listener within
\* milliseconds while whatever restarts it comes seconds apart, so a slot that
\* is started again and again also binds: strong fairness.
Fairness ==
    /\ WF_vars(EnsureRunning) /\ WF_vars(HealthCheck) /\ WF_vars(HealthPinged)
    /\ \A a \in Agent : WF_vars(Script(a))
    /\ \A r \in Traffic : WF_vars(ReconnectPinged(r) \/ BindWaited(r))
    /\ \A a \in Panel : WF_vars(ClearEnds(a))
    /\ \A p \in Pid : SF_vars(Binds(p)) /\ WF_vars(Dies(p))

FairSpec == Spec /\ Fairness

-----------------------------------------------------------------------------
(* Properties.                                                             *)

\* The pid file names p, or the script that started p is about to write it, or
\* the script that stops p is waiting for it.
Known(p) ==
    \/ pidFile = p
    \/ \E a \in Agent : task[a].pc \in {"record", "wait"} /\ task[a].pid = p

\* The pid file is the only handle on a wireproxy: as long as no two scripts
\* run at once, no live wireproxy of the slot is without it, so the next stop
\* finds it (start_wireproxy, stop_wireproxy, whatever fails in between).
NoOrphanWithoutOverlap ==
    met # "script" => \A p \in Pid : proc[p] \in Own => Known(p)

\* "keep it running": an enabled tunnel with a profile has a listener again and
\* again, also after overlapping scripts, crashes and a reboot.
EnabledListens ==
    <>[](enabled /\ profile) => []<>(\E p \in Pid : proc[p] \in Holding)

\* Without overlapping scripts an enabled tunnel carries traffic again after
\* any fault: the health check restarts what listens and does not serve.
RecoversWithoutOverlap ==
    (<>[](enabled /\ profile) /\ <>[](met # "script")) => []<>(\E p \in Pid : proc[p] = "serving")

=============================================================================
