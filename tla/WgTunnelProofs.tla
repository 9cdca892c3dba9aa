--------------------------- MODULE WgTunnelProofs ---------------------------
(* Proofs about WgTunnel, for every value of its constants.                *)
EXTENDS WgTunnel, TLAPS

-----------------------------------------------------------------------------
(* The inductive invariant.                                                *)

Task == [pc : Pcs, op : Ops, pid : Pid \cup {Nil}]

\* A script that waits for a process, or has just started one, knows its pid.
PidsKnown == \A a \in Agent : task[a].pc \in {"wait", "record"} => task[a].pid \in Pid

\* As long as no two scripts have met, at most one is under way, and what it
\* holds agrees with the pid file.
OneScript ==
    /\ \A a, b \in Agent : Scripting(a) /\ Scripting(b) => a = b
    /\ \A a \in Agent : task[a].pc = "wait" => pidFile = task[a].pid
    /\ \A a \in Agent : task[a].pc \in {"launch", "record"} => pidFile = Nil

Sound == met # "script" => OneScript /\ \A p \in Pid : proc[p] \in Own => Known(p)

IInv == TypeOK /\ PidsKnown /\ Sound

LEMMA InitIInv == Init => IInv
<1> SUFFICES ASSUME Init PROVE IInv
  OBVIOUS
<1>1. task \in [Agent -> Task] /\ \A a \in Agent : task[a].pc = "idle"
  BY DEF Init, Idle, Task, Pcs, Ops
<1>2. proc \in [Pid -> Proc] /\ \A p \in Pid : proc[p] \notin Own
  BY DEF Init, Proc, Own
<1>3. TypeOK
  <2>1. 0 \in 0 .. HealthEvery - 1 /\ 0 \in 0 .. Patience - 1 /\ 0 \in 0 .. MaxFault
    BY TunnelAssumption
  <2> QED
    BY <1>1, <1>2, <2>1 DEF Init, TypeOK, Task
<1>4. PidsKnown /\ OneScript
  BY <1>1 DEF PidsKnown, OneScript, Scripting, ScriptPcs
<1> QED
  BY <1>2, <1>3, <1>4 DEF IInv, Sound

-----------------------------------------------------------------------------
(* How a task moves.                                                       *)

\* The records a script leaves behind when it ends
LEMMA ExitTask ==
    ASSUME IInv, NEW a \in Agent, NEW ok \in BOOLEAN, Exit(a, ok)
    PROVE  /\ task' \in [Agent -> Task]
           /\ \A b \in Agent \ {a} : task'[b] = task[b]
           /\ task'[a].pc \in {"idle", "health", "bind", "verify"}
BY DEF IInv, TypeOK, Exit, Rest, Idle, Task, Pcs, Ops

LEMMA AtTask ==
    ASSUME IInv, NEW a \in Agent, NEW pc \in Pcs, At(a, pc)
    PROVE  /\ task' \in [Agent -> Task]
           /\ \A b \in Agent \ {a} : task'[b] = task[b]
           /\ task'[a].pc = pc /\ task'[a].pid = task[a].pid
BY DEF IInv, TypeOK, At, Task, Pcs, Ops

LEMMA AfterStopTask ==
    ASSUME IInv, NEW a \in Agent, AfterStop(a)
    PROVE  /\ task' \in [Agent -> Task]
           /\ \A b \in Agent \ {a} : task'[b] = task[b]
           /\ task'[a].pc \in {"idle", "health", "bind", "verify", "check"}
<1>1. CASE Exit(a, TRUE)
  BY <1>1, ExitTask
<1>2. CASE At(a, "check")
  BY <1>2, AtTask DEF Pcs
<1> QED
  BY <1>1, <1>2 DEF AfterStop

\* A new script is met by those under way: when there is one, "met" says so.
LEMMA RunCtlTask ==
    ASSUME IInv, NEW a \in Agent, NEW op \in Ops, NEW pc \in {"stop", "check"},
           RunCtl(a, op, pc)
    PROVE  /\ task' \in [Agent -> Task]
           /\ \A b \in Agent \ {a} : task'[b] = task[b]
           /\ task'[a].pc = pc
           /\ met' \in {"none", "ping", "script"}
           /\ met' # "script" => /\ met # "script"
                                 /\ \A b \in Agent \ {a} : ~Scripting(b)
<1> DEFINE t == [Idle EXCEPT !.op = op, !.pc = pc]
<1>1. t \in Task /\ t.pc = pc
  BY DEF Idle, Task, Pcs
<1>2. task' = [task EXCEPT ![a] = t] /\ task \in [Agent -> Task]
  BY DEF RunCtl, IInv, TypeOK, Task
<1>3. /\ task' \in [Agent -> Task]
      /\ \A b \in Agent \ {a} : task'[b] = task[b]
      /\ task'[a].pc = pc
  BY <1>1, <1>2
<1>4. \A b \in Agent \ {a} : Scripting(b) => Meets(a, ScriptPcs)
  BY DEF Meets, Scripting
<1>5. CASE Meets(a, ScriptPcs)
  BY <1>3, <1>5 DEF RunCtl
<1>6. CASE ~Meets(a, ScriptPcs)
  <2>1. met' \in {"none", "ping", "script"} /\ (met = "script" => met' = "script")
    BY <1>6 DEF RunCtl, IInv, TypeOK
  <2> QED
    BY <1>3, <1>4, <1>6, <2>1
<1> QED
  BY <1>5, <1>6

-----------------------------------------------------------------------------
(* Steps that leave the scripts alone.                                     *)

\* A task that is not in a script moves to a point that is in none.
LEMMA QuietStep ==
    ASSUME IInv, TypeOK', NEW a \in Agent,
           task[a].pc \notin {"wait", "record"} \/ task'[a] = task[a],
           ~Scripting(a) \/ task'[a] = task[a],
           \A b \in Agent \ {a} : task'[b] = task[b],
           task'[a].pc \notin {"stop", "wait", "check", "launch", "record"}
             \/ task'[a] = task[a],
           UNCHANGED <<pidFile, met>>,
           \A p \in Pid : proc'[p] \in Own => proc[p] \in Own
    PROVE  IInv'
<1>1. PidsKnown'
  BY DEF IInv, PidsKnown
<1>2. OneScript => OneScript'
  BY DEF OneScript, Scripting, ScriptPcs
<1>3. \A p \in Pid : Known(p) => Known(p)'
  BY DEF Known
<1> QED
  BY <1>1, <1>2, <1>3 DEF IInv, Sound

\* A caller that is in no script begins one.
LEMMA ScriptBegins ==
    ASSUME IInv, TypeOK', NEW a \in Agent, ~Scripting(a), NEW op \in Ops,
           NEW pc \in {"stop", "check"}, RunCtl(a, op, pc),
           UNCHANGED <<pidFile, proc>>
    PROVE  IInv'
<1>1. PidsKnown'
  BY RunCtlTask DEF IInv, PidsKnown
<1>2. ASSUME met' # "script" PROVE OneScript'
  BY <1>2, RunCtlTask DEF IInv, Sound, OneScript, Scripting, ScriptPcs
<1>3. \A p \in Pid : Known(p) => Known(p)'
  BY RunCtlTask DEF Known, Scripting, ScriptPcs
<1>4. met' # "script" => met # "script"
  BY RunCtlTask
<1> QED
  BY <1>1, <1>2, <1>3, <1>4 DEF IInv, Sound

\* The only script under way ends or moves on to start_wireproxy, and every
\* live wireproxy of the slot is the one the pid file names.
LEMMA ScriptMoves ==
    ASSUME IInv, TypeOK', NEW a \in Agent, Scripting(a),
           \A b \in Agent \ {a} : task'[b] = task[b],
           task'[a].pc \notin {"stop", "wait", "launch", "record"},
           met' = met,
           met # "script" => \A p \in Pid : proc'[p] \in Own => pidFile' = p
    PROVE  IInv'
<1>1. PidsKnown'
  BY DEF IInv, PidsKnown
<1>2. ASSUME met # "script" PROVE OneScript'
  <2>1. \A b \in Agent \ {a} : ~Scripting(b)
    BY <1>2 DEF IInv, Sound, OneScript
  <2> QED
    BY <2>1 DEF OneScript, Scripting, ScriptPcs
<1>3. ASSUME met # "script" PROVE \A p \in Pid : proc'[p] \in Own => Known(p)'
  BY <1>3 DEF Known
<1> QED
  BY <1>1, <1>2, <1>3 DEF IInv, Sound

\* Between a stop and a start, and at the beginning of either, no script holds
\* a pid: a live wireproxy is the one in the pid file.
LEMMA NamedByFile ==
    ASSUME IInv, met # "script", NEW a \in Agent,
           task[a].pc \in {"stop", "check", "launch"},
           NEW p \in Pid, proc[p] \in Own
    PROVE  pidFile = p
BY DEF IInv, Sound, OneScript, Scripting, ScriptPcs, Known

-----------------------------------------------------------------------------
(* The scripts.                                                            *)

LEMMA StopInv == ASSUME IInv, NEW a \in Agent, Stop(a) PROVE IInv'
<1>1. CASE ~Running
  <2>1. TypeOK'
    BY <1>1, AfterStopTask DEF Stop, IInv, TypeOK, Task, flags
  <2>2. met # "script" => \A p \in Pid : proc[p] \notin Own
    BY <1>1, NamedByFile, TunnelAssumption DEF Stop, Running, Own
  <2> QED
    BY <1>1, <2>1, <2>2, AfterStopTask, ScriptMoves DEF Stop, Scripting, ScriptPcs
<1>2. CASE Running
  <2>1. pidFile \in Pid
    BY <1>2 DEF Running, IInv, TypeOK
  <2>2. /\ task' \in [Agent -> Task]
        /\ \A b \in Agent \ {a} : task'[b] = task[b]
        /\ task'[a].pc = "wait" /\ task'[a].pid = pidFile
    BY <1>2, <2>1 DEF Stop, IInv, TypeOK, Task, Pcs, Ops
  <2>3. TypeOK' /\ PidsKnown'
    BY <1>2, <2>1, <2>2 DEF Stop, IInv, TypeOK, PidsKnown, Task, Proc, flags, files
  <2>4. ASSUME met # "script" PROVE OneScript'
    <3>1. \A b \in Agent \ {a} : ~Scripting(b)
      BY <2>4 DEF IInv, Sound, OneScript, Stop, Scripting, ScriptPcs
    <3> QED
      BY <1>2, <2>2, <3>1 DEF Stop, files, OneScript, Scripting, ScriptPcs
  <2>5. ASSUME met # "script" PROVE \A p \in Pid : proc'[p] \in Own => pidFile = p
    BY <1>2, <2>5, NamedByFile DEF Stop, IInv, TypeOK
  <2> QED
    BY <1>2, <2>3, <2>4, <2>5 DEF IInv, Sound, Known, Stop, files
<1> QED
  BY <1>1, <1>2

LEMMA StoppedInv == ASSUME IInv, NEW a \in Agent, Stopped(a) PROVE IInv'
<1>1. TypeOK'
  BY AfterStopTask DEF Stopped, IInv, TypeOK, Task, flags
<1>2. ASSUME met # "script" PROVE \A p \in Pid : proc[p] \notin Own
  BY <1>2 DEF Stopped, IInv, Sound, OneScript, Scripting, ScriptPcs, Known, Own
<1> QED
  BY <1>1, <1>2, AfterStopTask, ScriptMoves DEF Stopped, Scripting, ScriptPcs

LEMMA StopGivesUpInv == ASSUME IInv, NEW a \in Agent, StopGivesUp(a) PROVE IInv'
<1>1. TypeOK'
  BY ExitTask DEF StopGivesUp, IInv, TypeOK, Task, flags, files
<1>2. ASSUME met # "script" PROVE \A p \in Pid : proc[p] \in Own => pidFile = p
  BY <1>2 DEF StopGivesUp, IInv, Sound, OneScript, Scripting, ScriptPcs, Known
<1> QED
  BY <1>1, <1>2, ExitTask, ScriptMoves DEF StopGivesUp, Scripting, ScriptPcs, files

LEMMA StartInv == ASSUME IInv, NEW a \in Agent, Start(a) PROVE IInv'
<1>1. CASE Running
  <2>1. TypeOK'
    BY <1>1, ExitTask DEF Start, IInv, TypeOK, Task, flags, files
  <2>2. met # "script" => \A p \in Pid : proc[p] \in Own => pidFile = p
    BY NamedByFile DEF Start
  <2> QED
    BY <1>1, <2>1, <2>2, ExitTask, ScriptMoves DEF Start, Scripting, ScriptPcs, files
<1>2. CASE ~Running
  <2>1. met # "script" => \A p \in Pid : proc[p] \notin Own
    BY <1>2, NamedByFile, TunnelAssumption DEF Start, Running, Own
  <2>2. CASE ~profile
    <3>1. TypeOK'
      BY <1>2, <2>2, ExitTask DEF Start, IInv, TypeOK, Task, flags
    <3> QED
      BY <1>2, <2>1, <2>2, <3>1, ExitTask, ScriptMoves DEF Start, Scripting, ScriptPcs
  <2>3. CASE profile
    <3>1. /\ task' \in [Agent -> Task]
          /\ \A b \in Agent \ {a} : task'[b] = task[b]
          /\ task'[a].pc = "launch"
      BY <1>2, <2>3, AtTask DEF Start, Pcs
    <3>2. TypeOK' /\ PidsKnown'
      BY <1>2, <2>3, <3>1 DEF Start, IInv, TypeOK, PidsKnown, Task, flags
    <3>3. ASSUME met # "script" PROVE OneScript'
      <4>1. \A b \in Agent \ {a} : ~Scripting(b)
        BY <3>3 DEF IInv, Sound, OneScript, Start, Scripting, ScriptPcs
      <4> QED
        BY <1>2, <3>1, <4>1 DEF Start, OneScript, Scripting, ScriptPcs
    <3> QED
      BY <2>1, <3>2, <3>3 DEF IInv, Sound, Start
  <2> QED
    BY <2>2, <2>3
<1> QED
  BY <1>1, <1>2

LEMMA LaunchInv == ASSUME IInv, NEW a \in Agent, Launch(a) PROVE IInv'
<1>1. NewPid \in Pid
  BY DEF Launch, NewPid, Fresh
<1>2. /\ task' \in [Agent -> Task]
      /\ \A b \in Agent \ {a} : task'[b] = task[b]
      /\ task'[a].pc = "record" /\ task'[a].pid = NewPid
  BY <1>1, ZenonT(60) DEF Launch, IInv, TypeOK, Task, Pcs, Ops
<1>3. TypeOK' /\ PidsKnown'
  BY <1>1, <1>2 DEF Launch, IInv, TypeOK, PidsKnown, Task, Proc, flags, files
<1>4. ASSUME met # "script" PROVE OneScript'
  <2>1. \A b \in Agent \ {a} : ~Scripting(b)
    BY <1>4 DEF IInv, Sound, OneScript, Launch, Scripting, ScriptPcs
  <2>2. pidFile = Nil
    BY <1>4 DEF IInv, Sound, OneScript, Launch
  <2> QED
    BY <1>2, <2>1, <2>2 DEF Launch, files, OneScript, Scripting, ScriptPcs
<1>5. ASSUME met # "script", NEW p \in Pid, proc'[p] \in Own PROVE Known(p)'
  <2>1. CASE p = NewPid
    BY <1>2, <2>1 DEF Known
  <2>2. CASE p # NewPid
    BY <1>1, <1>5, <2>2, NamedByFile DEF Launch, IInv, TypeOK, Known, files
  <2> QED
    BY <2>1, <2>2
<1> QED
  BY <1>3, <1>4, <1>5 DEF IInv, Sound, Launch

LEMMA LaunchEndsInv ==
    ASSUME IInv, NEW a \in Agent, LaunchFails(a) \/ ScriptTimesOut(a)
    PROVE  IInv'
<1>1. Exit(a, FALSE) /\ UNCHANGED <<flags, files, proc, tick, failures, cooling, met>>
  BY DEF LaunchFails, ScriptTimesOut
<1>2. faults' \in 0 .. MaxFault
  <2>1. faults \in 0 .. MaxFault
    BY DEF IInv, TypeOK
  <2>2. faults' = faults \/ (faults < MaxFault /\ faults' = faults + 1)
    BY DEF LaunchFails, ScriptTimesOut
  <2> QED
    BY <2>1, <2>2, TunnelAssumption
<1>3. TypeOK'
  BY <1>1, <1>2, ExitTask DEF IInv, TypeOK, Task, flags, files
<1>4. met # "script" => \A p \in Pid : proc[p] \in Own => pidFile = p
  BY NamedByFile DEF LaunchFails, ScriptTimesOut
<1> QED
  BY <1>1, <1>3, <1>4, ExitTask, ScriptMoves
     DEF LaunchFails, ScriptTimesOut, Scripting, ScriptPcs, files

LEMMA RecordInv == ASSUME IInv, NEW a \in Agent, Record(a) PROVE IInv'
<1>1. task[a].pid \in Pid
  BY DEF Record, IInv, PidsKnown
<1>2. TypeOK'
  BY <1>1, ExitTask DEF Record, IInv, TypeOK, Task, flags
<1>3. ASSUME met # "script" PROVE \A p \in Pid : proc[p] \in Own => task[a].pid = p
  BY <1>3, TunnelAssumption DEF Record, IInv, Sound, OneScript, Scripting, ScriptPcs, Known
<1> QED
  BY <1>2, <1>3, ExitTask, ScriptMoves DEF Record, Scripting, ScriptPcs

-----------------------------------------------------------------------------
(* The loop, the requests and the processes.                               *)


\* A ping that failed a serving tunnel counts as a fault.
LEMMA FaultsBounded ==
    ASSUME IInv, PingFailed
    PROVE  faults' \in 0 .. MaxFault
<1>1. faults \in 0 .. MaxFault
  BY DEF IInv, TypeOK
<1>2. faults' = faults \/ (faults < MaxFault /\ faults' = faults + 1)
  BY DEF PingFailed
<1> QED
  BY <1>1, <1>2, TunnelAssumption

\* A task that is not in a script begins none.
LEMMA RestTask ==
    ASSUME IInv, NEW a \in Agent, NEW op \in Ops,
           NEW pc \in {"idle", "health", "ping", "bind", "verify"},
           \/ task' = [task EXCEPT ![a] = Idle]
           \/ task' = [task EXCEPT ![a] = [Idle EXCEPT !.pc = pc, !.op = op]]
           \/ task' = [task EXCEPT ![a].pc = pc]
    PROVE  /\ task' \in [Agent -> Task]
           /\ \A b \in Agent \ {a} : task'[b] = task[b]
           /\ task'[a].pc \in {"idle", "health", "ping", "bind", "verify"}
<1> task \in [Agent -> Task]
  BY DEF IInv, TypeOK, Task
<1>1. CASE task' = [task EXCEPT ![a] = Idle]
  BY <1>1 DEF Idle, Task, Pcs, Ops
<1>2. CASE task' = [task EXCEPT ![a] = [Idle EXCEPT !.pc = pc, !.op = op]]
  <2> DEFINE t == [Idle EXCEPT !.pc = pc, !.op = op]
  <2>1. t \in Task /\ t.pc = pc
    BY DEF Idle, Task, Pcs
  <2> HIDE DEF t
  <2> QED
    BY <1>2, <2>1 DEF t
<1>3. CASE task' = [task EXCEPT ![a].pc = pc]
  BY <1>3 DEF Task, Pcs
<1> QED
  BY <1>1, <1>2, <1>3

LEMMA KeeperInAgent == Keeper \in Agent /\ Traffic \subseteq Agent /\ Panel \subseteq Agent
BY DEF Agent

LEMMA EnsureRunningInv == ASSUME IInv, EnsureRunning PROVE IInv'
<1>1. tick' \in 0 .. HealthEvery - 1
  BY TunnelAssumption DEF EnsureRunning, IInv, TypeOK
<1>2. ~Scripting(Keeper) /\ task[Keeper].pc \notin {"wait", "record"}
  BY DEF EnsureRunning, Scripting, ScriptPcs, Idle
<1>3. CASE RunCtl(Keeper, "ensure", "check") /\ UNCHANGED enabled
  <2>1. TypeOK'
    BY <1>1, <1>3, RunCtlTask, KeeperInAgent DEF EnsureRunning, IInv, TypeOK, Task, Ops, files
  <2> QED
    BY <1>2, <1>3, <2>1, ScriptBegins, KeeperInAgent DEF EnsureRunning, Ops, files
<1>4. CASE /\ At(Keeper, IF tick' = 0 THEN "health" ELSE "idle")
           /\ enabled' \in {enabled, FALSE} /\ met' = met
  <2>1. /\ task' \in [Agent -> Task]
        /\ \A b \in Agent \ {Keeper} : task'[b] = task[b]
        /\ task'[Keeper].pc \in {"idle", "health", "ping", "bind", "verify"}
    BY <1>4, RestTask, KeeperInAgent DEF At, Ops
  <2>2. TypeOK'
    BY <1>1, <1>4, <2>1 DEF EnsureRunning, IInv, TypeOK, Task, files
  <2> QED
    BY <1>2, <1>4, <2>1, <2>2, QuietStep, KeeperInAgent DEF EnsureRunning, files
<1> QED
  BY <1>3, <1>4 DEF EnsureRunning

LEMMA HealthCheckInv == ASSUME IInv, HealthCheck PROVE IInv'
<1>1. ~Scripting(Keeper) /\ task[Keeper].pc \notin {"wait", "record"}
  BY DEF HealthCheck, Scripting, ScriptPcs
<1>2. /\ task' \in [Agent -> Task]
      /\ \A b \in Agent \ {Keeper} : task'[b] = task[b]
      /\ task'[Keeper].pc \in {"idle", "health", "ping", "bind", "verify"}
  BY RestTask, KeeperInAgent DEF HealthCheck, Ops
<1>3. failures' \in 0 .. Patience - 1
  BY TunnelAssumption DEF HealthCheck, IInv, TypeOK
<1>4. TypeOK'
  BY <1>2, <1>3 DEF HealthCheck, IInv, TypeOK, Task, flags, files
<1> QED
  BY <1>1, <1>2, <1>4, QuietStep, KeeperInAgent DEF HealthCheck, files

LEMMA HealthPingedInv == ASSUME IInv, HealthPinged PROVE IInv'
<1>1. ~Scripting(Keeper) /\ task[Keeper].pc \notin {"wait", "record"}
  BY DEF HealthPinged, Scripting, ScriptPcs
<1>2. failures' \in 0 .. Patience - 1
  BY TunnelAssumption DEF HealthPinged, IInv, TypeOK
<1>3. faults' \in 0 .. MaxFault
  BY FaultsBounded DEF HealthPinged, IInv, TypeOK
<1>4. CASE RunCtl(Keeper, "health", "stop")
  <2>1. TypeOK'
    BY <1>2, <1>3, <1>4, RunCtlTask, KeeperInAgent
       DEF HealthPinged, IInv, TypeOK, Task, Ops, flags, files
  <2> QED
    BY <1>1, <1>4, <2>1, ScriptBegins, KeeperInAgent DEF HealthPinged, Ops, files
<1>5. CASE task' = [task EXCEPT ![Keeper] = Idle] /\ met' = met
  <2>1. /\ task' \in [Agent -> Task]
        /\ \A b \in Agent \ {Keeper} : task'[b] = task[b]
        /\ task'[Keeper].pc \in {"idle", "health", "ping", "bind", "verify"}
    BY <1>5, RestTask, KeeperInAgent DEF Ops
  <2>2. TypeOK'
    BY <1>2, <1>3, <1>5, <2>1 DEF HealthPinged, IInv, TypeOK, Task, flags, files
  <2> QED
    BY <1>1, <1>5, <2>1, <2>2, QuietStep, KeeperInAgent DEF HealthPinged, files
<1> QED
  BY <1>4, <1>5 DEF HealthPinged

LEMMA ReconnectInv == ASSUME IInv, NEW r \in Traffic, Reconnect(r) PROVE IInv'
<1> r \in Agent
  BY KeeperInAgent
<1>1. ~Scripting(r) /\ task[r].pc \notin {"wait", "record"}
  BY DEF Reconnect, Call, Scripting, ScriptPcs, Idle
<1>2. CASE RunCtl(r, "reconnect", "check")
  <2>1. TypeOK'
    BY <1>2, RunCtlTask DEF Reconnect, IInv, TypeOK, Task, Ops, flags, files
  <2> QED
    BY <1>1, <1>2, <2>1, ScriptBegins DEF Reconnect, Ops, files
<1>3. CASE /\ task' = [task EXCEPT ![r] = [Idle EXCEPT !.pc = "ping", !.op = "reconnect"]]
           /\ met' = met
  <2>1. /\ task' \in [Agent -> Task]
        /\ \A b \in Agent \ {r} : task'[b] = task[b]
        /\ task'[r].pc \in {"idle", "health", "ping", "bind", "verify"}
    BY <1>3, RestTask DEF Ops
  <2>2. TypeOK'
    BY <1>3, <2>1 DEF Reconnect, IInv, TypeOK, Task, flags, files
  <2> QED
    BY <1>1, <1>3, <2>1, <2>2, QuietStep DEF Reconnect, files
<1>4. CASE UNCHANGED <<task, met>>
  <2>1. TypeOK'
    BY <1>4 DEF Reconnect, IInv, TypeOK, flags, files
  <2> QED
    BY <1>1, <1>4, <2>1, QuietStep DEF Reconnect, files
<1> QED
  BY <1>2, <1>3, <1>4 DEF Reconnect

LEMMA ReconnectPingedInv == ASSUME IInv, NEW r \in Traffic, ReconnectPinged(r) PROVE IInv'
<1> r \in Agent
  BY KeeperInAgent
<1>1. ~Scripting(r) /\ task[r].pc \notin {"wait", "record"}
  BY DEF ReconnectPinged, Scripting, ScriptPcs
<1>2. faults' \in 0 .. MaxFault
  BY FaultsBounded DEF ReconnectPinged, IInv, TypeOK
<1>3. CASE RunCtl(r, "reconnect", "stop")
  <2>1. TypeOK'
    BY <1>2, <1>3, RunCtlTask DEF ReconnectPinged, IInv, TypeOK, Task, Ops, flags, files
  <2> QED
    BY <1>1, <1>3, <2>1, ScriptBegins DEF ReconnectPinged, Ops, files
<1>4. CASE task' = [task EXCEPT ![r] = Idle] /\ met' = met
  <2>1. /\ task' \in [Agent -> Task]
        /\ \A b \in Agent \ {r} : task'[b] = task[b]
        /\ task'[r].pc \in {"idle", "health", "ping", "bind", "verify"}
    BY <1>4, RestTask DEF Ops
  <2>2. TypeOK'
    BY <1>2, <1>4, <2>1 DEF ReconnectPinged, IInv, TypeOK, Task, flags, files
  <2> QED
    BY <1>1, <1>4, <2>1, <2>2, QuietStep DEF ReconnectPinged, files
<1> QED
  BY <1>3, <1>4 DEF ReconnectPinged

\* The last step of a request: of reconnect() and of clear_custom_profile
LEMMA RequestEndsInv ==
    ASSUME IInv, NEW a \in Agent, BindWaited(a) \/ ClearEnds(a)
    PROVE  IInv'
<1>1. ~Scripting(a) /\ task[a].pc \notin {"wait", "record"}
  BY DEF BindWaited, ClearEnds, Scripting, ScriptPcs
<1>2. /\ task' \in [Agent -> Task]
      /\ \A b \in Agent \ {a} : task'[b] = task[b]
      /\ task'[a].pc \in {"idle", "health", "ping", "bind", "verify"}
  BY RestTask DEF BindWaited, ClearEnds, Ops
<1>3. TypeOK'
  BY <1>2 DEF BindWaited, ClearEnds, IInv, TypeOK, Task, flags, files
<1> QED
  BY <1>1, <1>2, <1>3, QuietStep DEF BindWaited, ClearEnds, files

LEMMA PanelInv ==
    ASSUME IInv, NEW a \in Panel, Apply(a) \/ PanelRestart(a) \/ SwitchOff(a)
    PROVE  IInv'
<1> a \in Agent
  BY KeeperInAgent
<1>1. ~Scripting(a)
  BY DEF Apply, PanelRestart, SwitchOff, Call, Scripting, ScriptPcs, Idle
<1>2. PICK op \in Ops : RunCtl(a, op, "stop")
  BY DEF Apply, PanelRestart, SwitchOff, Ops
<1>3. TypeOK'
  BY <1>2, RunCtlTask DEF Apply, PanelRestart, SwitchOff, IInv, TypeOK, Task, files
<1> QED
  BY <1>1, <1>2, <1>3, ScriptBegins DEF Apply, PanelRestart, SwitchOff, files

\* A process of the slot comes from no other step than Launch.
LEMMA ProcessInv ==
    ASSUME IInv, NEW p \in Pid, Binds(p) \/ Dies(p) \/ Fault(p)
    PROVE  IInv'
<1>1. UNCHANGED <<flags, files, task, tick, failures, cooling, met>>
  BY DEF Binds, Dies, Fault
<1>2. faults' \in 0 .. MaxFault
  <2>1. faults \in 0 .. MaxFault
    BY DEF IInv, TypeOK
  <2>2. faults' = faults \/ (faults < MaxFault /\ faults' = faults + 1)
    BY DEF Binds, Dies, Fault
  <2> QED
    BY <2>1, <2>2, TunnelAssumption
<1>3. /\ proc' \in [Pid -> Proc]
      /\ \A q \in Pid : proc'[q] \in Own => proc[q] \in Own
  BY DEF Binds, Dies, Fault, IInv, TypeOK, Proc, Own
<1>4. TypeOK'
  BY <1>1, <1>2, <1>3 DEF IInv, TypeOK, flags, files
<1> QED
  BY <1>1, <1>3, <1>4, QuietStep, KeeperInAgent DEF files

LEMMA CooldownEndsInv == ASSUME IInv, CooldownEnds PROVE IInv'
<1>1. TypeOK'
  BY DEF CooldownEnds, IInv, TypeOK, flags, files
<1> QED
  BY <1>1, QuietStep, KeeperInAgent DEF CooldownEnds, files

LEMMA StutterInv == ASSUME IInv, UNCHANGED vars PROVE IInv'
<1>1. TypeOK'
  BY DEF vars, IInv, TypeOK, flags, files
<1> QED
  BY <1>1, QuietStep, KeeperInAgent DEF vars, files

LEMMA NextKeepsIInv == IInv /\ [Next]_vars => IInv'
<1> SUFFICES ASSUME IInv, [Next]_vars PROVE IInv'
  OBVIOUS
<1>1. ASSUME NEW a \in Agent, Script(a) \/ StopGivesUp(a) \/ ScriptTimesOut(a)
      PROVE  IInv'
  BY <1>1, StopInv, StoppedInv, StartInv, LaunchInv, LaunchEndsInv, RecordInv,
     StopGivesUpInv DEF Script
<1>2. ASSUME NEW r \in Traffic, Reconnect(r) \/ ReconnectPinged(r) \/ BindWaited(r)
      PROVE  IInv'
  BY <1>2, ReconnectInv, ReconnectPingedInv, RequestEndsInv, KeeperInAgent
<1>3. ASSUME NEW a \in Panel, Apply(a) \/ PanelRestart(a) \/ SwitchOff(a) \/ ClearEnds(a)
      PROVE  IInv'
  BY <1>3, PanelInv, RequestEndsInv, KeeperInAgent
<1> QED
  BY <1>1, <1>2, <1>3, EnsureRunningInv, HealthCheckInv, HealthPingedInv, ProcessInv,
     CooldownEndsInv, StutterInv DEF Next

-----------------------------------------------------------------------------
(* The theorems.                                                           *)

\* The inductive invariant: as long as no two scripts have run at once, what
\* the script under way believes agrees with the pid file.
THEOREM TunnelInvariant == Spec => []IInv
BY InitIInv, NextKeepsIInv, PTL DEF Spec

\* Type correctness for any number of pids, requests and faults
THEOREM TunnelTypes == Spec => []TypeOK
<1>1. IInv => TypeOK
  BY DEF IInv
<1> QED
  BY <1>1, TunnelInvariant, PTL

\* The pid file (or the script about to write it) finds every live wireproxy of
\* the slot, whatever crashes, time-outs and refusals to die come in between,
\* as long as no two scripts have run at once.
THEOREM NoOrphan == Spec => []NoOrphanWithoutOverlap
<1>1. IInv => NoOrphanWithoutOverlap
  BY DEF IInv, Sound, NoOrphanWithoutOverlap
<1> QED
  BY <1>1, TunnelInvariant, PTL
=============================================================================
