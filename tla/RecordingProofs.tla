--------------------------- MODULE RecordingProofs ---------------------------
(***************************************************************************)
(* What holds of the DVR for every value of the constants of Recording:    *)
(* the types and what a coroutine may rely on across an await (IInv), that *)
(* the handle on a running ffmpeg is never lost (RInv), and that the table *)
(* of recordings implements RecordingLedger.                               *)
(***************************************************************************)
EXTENDS Recording, TLAPS

-----------------------------------------------------------------------------
(* The first invariant: what a coroutine in the middle of an operation     *)
(* may rely on, and what is true of ids that were never claimed.           *)

Claimed == 1 .. started

\* The program counters at which a task is about one recording
AboutRec == Pcs \ {"idle", "lookup", "next"}

TaskOK(a) ==
    /\ task[a].pc \in AboutRec => task[a].rec \in Claimed
    /\ task[a].pc \in {"prepare", "fork", "spawn", "lookup", "again"} => a \in Client
    /\ task[a].pc \in {"lookup", "again"} => task[a].op \in {"record", "retry"}
    /\ task[a].op \in {"record", "retry"} => a \in Client /\ task[a].url \in Url
    /\ task[a].todo \subseteq Claimed

Unclaimed ==
    /\ tracked \subseteq Claimed
    /\ \A r \in Rec : r > started => status[r] = "none" /\ ff[r] = "none"

TasksOK == \A a \in Agent : TaskOK(a)

IInv == TypeOK /\ TasksOK /\ Unclaimed

LEMMA ClaimedInRec ==
    ASSUME started \in 0 .. MaxRec
    PROVE  Claimed \subseteq Rec
BY ConstantsAssumption DEF Claimed, Rec

\* A task record that is well typed stays so when its pc moves on.
LEMMA AtType ==
    ASSUME TypeOK, NEW a \in Agent, NEW pc \in Pcs
    PROVE  /\ At(a, pc) \in Task
           /\ At(a, pc).pc = pc /\ At(a, pc).op = task[a].op
           /\ At(a, pc).rec = task[a].rec /\ At(a, pc).url = task[a].url
           /\ At(a, pc).todo = task[a].todo
BY DEF TypeOK, At, Task

LEMMA IdleType ==
    /\ Idle \in Task /\ Idle.pc = "idle" /\ Idle.op = "stop" /\ Idle.todo = {}
    /\ Idle.rec = Nil /\ Idle.url = Nil
BY DEF Idle, Task, Pcs, Ops

LEMMA InitIInv == Init => IInv
BY ConstantsAssumption DEF Init, IInv, TypeOK, TasksOK, TaskOK, Unclaimed, Claimed, AboutRec,
   Idle, Task, Pcs, Ops, Status, Ffmpeg, Rec


-----------------------------------------------------------------------------
(* One task moves: what has to be shown of its new record is enough.       *)

GoodTask(a, t) ==
    /\ t \in Task
    /\ t.pc \in AboutRec => t.rec \in Claimed'
    /\ t.pc \in {"prepare", "fork", "spawn", "lookup", "again"} => a \in Client
    /\ t.pc \in {"lookup", "again"} => t.op \in {"record", "retry"}
    /\ t.op \in {"record", "retry"} => a \in Client /\ t.url \in Url
    /\ t.todo \subseteq Claimed'

LoopOK == task \in [Agent -> Task] /\ TasksOK /\ holder \in Agent \cup {Nil}

LEMMA OneTaskMoves ==
    ASSUME task \in [Agent -> Task], TasksOK, started \in Int, started' \in Int,
           started <= started',
           NEW a \in Agent, NEW t, GoodTask(a, t),
           NEW h \in Agent \cup {Nil},
           task' = [task EXCEPT ![a] = t], holder' = h
    PROVE  LoopOK'
<1>1. (task \in [Agent -> Task])'
  BY DEF GoodTask
<1>2. Claimed \subseteq Claimed'
  BY DEF Claimed
<1>3. ASSUME NEW b \in Agent PROVE TaskOK(b)'
  <2>1. CASE b = a
    BY <2>1 DEF TaskOK, GoodTask
  <2>2. CASE b # a
    <3>1. task'[b] = task[b]
      BY <2>2
    <3>2. TaskOK(b)
      BY DEF TasksOK
    <3> QED
      BY <3>1, <3>2, <1>2 DEF TaskOK
  <2> QED
    BY <2>1, <2>2
<1> QED
  BY <1>1, <1>3 DEF TasksOK, LoopOK

LEMMA IdleGood == ASSUME NEW a \in Agent PROVE GoodTask(a, Idle)
BY IdleType DEF GoodTask, AboutRec

LEMMA AwaitOK ==
    ASSUME IInv, NEW a \in Agent, NEW t, GoodTask(a, t), started' = started,
           Await(a, t) \/ Keep(a, t)
    PROVE  LoopOK'
BY OneTaskMoves, ConstantsAssumption DEF IInv, TypeOK, Await, Keep

LEMMA NotStartedOK ==
    ASSUME IInv, NEW a \in Client, NEW op \in Ops, NEW u \in Url,
           NotStarted(a, op, u), started' = started
    PROVE  LoopOK'
<1> a \in Agent
  BY DEF Agent
<1>1. CASE op = "record"
  <2> DEFINE t == [Idle EXCEPT !.pc = "lookup", !.op = op, !.url = u]
  <2>1. GoodTask(a, t)
    BY <1>1, IdleType DEF GoodTask, AboutRec, Task, Idle, Pcs, Ops
  <2>2. Keep(a, t)
    BY <1>1 DEF NotStarted
  <2> QED
    BY <2>1, <2>2, AwaitOK
<1>2. CASE op # "record"
  <2>1. Await(a, Idle)
    BY <1>2 DEF NotStarted, Done
  <2> QED
    BY <2>1, IdleGood, AwaitOK
<1> QED
  BY <1>1, <1>2

\* Moving on within an operation on the same recording
LEMMA AtGood ==
    ASSUME IInv, NEW a \in Agent, task[a].pc \in AboutRec, NEW pc \in Pcs,
           pc \in {"prepare", "fork", "spawn"} => a \in Client,
           pc \notin {"lookup", "again"}, started' = started
    PROVE  GoodTask(a, At(a, pc))
BY AtType DEF IInv, TasksOK, TaskOK, GoodTask, Claimed

LEMMA AfterStopOK ==
    ASSUME IInv, NEW a \in Agent, task[a].pc \in AboutRec, AfterStop(a),
           started' = started
    PROVE  LoopOK'
<1>1. CASE Done(a)
  BY <1>1, IdleGood, AwaitOK DEF Done
<1>2. CASE Keep(a, At(a, "remove"))
  BY <1>2, AtGood, AwaitOK DEF Pcs
<1>3. CASE Keep(a, At(a, "next"))
  BY <1>3, AtGood, AwaitOK DEF Pcs
<1> QED
  BY <1>1, <1>2, <1>3 DEF AfterStop

\* An exception ends the operation, or its round of a loop.
LEMMA RaisesOK ==
    ASSUME IInv, NEW a \in Agent, task[a].pc \in AboutRec, Raises(a),
           started' = started
    PROVE  LoopOK'
<1>1. CASE Done(a)
  BY <1>1, IdleGood, AwaitOK DEF Done
<1>2. CASE Keep(a, At(a, "next"))
  BY <1>2, AtGood, AwaitOK DEF Pcs
<1>3. CASE Keep(a, [At(a, "next") EXCEPT !.todo = {}])
  <2> DEFINE t == [At(a, "next") EXCEPT !.todo = {}]
  <2>1. GoodTask(a, At(a, "next"))
    BY AtGood DEF Pcs
  <2>2. GoodTask(a, t)
    BY <2>1, AtType DEF GoodTask, Task, Pcs, AboutRec, IInv
  <2> QED
    BY <1>3, <2>2, AwaitOK
<1> QED
  BY <1>1, <1>2, <1>3 DEF Raises

\* A step that leaves the unclaimed ids alone keeps the whole invariant.
DataOK ==
    /\ status \in [Rec -> Status] /\ urlOf \in [Rec -> Url \cup {Nil}]
    /\ filled \subseteq Rec /\ started \in 0 .. MaxRec
    /\ monitor \subseteq Rec /\ lost \subseteq Rec
    /\ ff \in [Rec -> Ffmpeg] /\ pidOf \in [Rec -> Pid \cup {Nil}]
    /\ foreign \subseteq Pid /\ file \in [Rec -> {"none", "present", "removed"}]
    /\ phase \in {"up", "stopping", "draining"}
    /\ restarts \in 0 .. MaxRestart /\ boot \in 0 .. MaxRec
    /\ Unclaimed

LEMMA IInvSplit ==
    /\ IInv => LoopOK /\ DataOK
    /\ LoopOK' /\ DataOK' => IInv'
BY ConstantsAssumption DEF IInv, LoopOK, DataOK, TypeOK, Unclaimed, Claimed, Rec

LEMMA BeginInv ==
    ASSUME IInv, NEW a \in Client, NEW op \in {"post", "record", "retry"},
           NEW u \in Url, Begin(a, op, u)
    PROVE  IInv'
<1> a \in Agent
  BY DEF Agent
<1>1. CASE Taken(u)
  <2>1. NotStarted(a, op, u) /\ UNCHANGED <<rowVars, memVars, osVars, lifeVars>>
    BY <1>1 DEF Begin
  <2>2. LoopOK'
    BY <2>1, NotStartedOK DEF rowVars, Ops
  <2>3. DataOK'
    BY <2>1, IInvSplit DEF DataOK, Unclaimed, Claimed, rowVars, memVars, osVars, lifeVars
  <2> QED
    BY <2>2, <2>3, IInvSplit
<1>2. CASE ~Taken(u)
  <2> DEFINE r == started + 1
             t == [Idle EXCEPT !.op = op, !.rec = r, !.url = u]
  <2>1. /\ started < MaxRec
        /\ status' = [status EXCEPT ![r] = "starting"]
        /\ urlOf' = [urlOf EXCEPT ![r] = u]
        /\ started' = r
        /\ UNCHANGED <<filled, memVars, osVars, lifeVars>>
        /\ \/ Await(a, [t EXCEPT !.pc = "prepare"])
           \/ Keep(a, [t EXCEPT !.pc = "fork"])
    BY <1>2 DEF Begin
  <2>2. r \in Rec /\ started \in Int /\ started' \in Int /\ started <= started'
        /\ r \in Claimed'
    BY <2>1, ConstantsAssumption DEF IInv, TypeOK, Rec, Claimed
  <2>3. GoodTask(a, [t EXCEPT !.pc = "prepare"]) /\ GoodTask(a, [t EXCEPT !.pc = "fork"])
    BY <2>2, IdleType DEF GoodTask, AboutRec, Task, Idle, Pcs, Ops
  <2>4. LoopOK'
    BY <2>1, <2>2, <2>3, OneTaskMoves, ConstantsAssumption DEF IInv, TypeOK, Await, Keep
  <2>5. DataOK'
    <3> DataOK
      BY IInvSplit
    <3> QED
      BY <2>1, <2>2, ConstantsAssumption
         DEF DataOK, Unclaimed, Claimed, memVars, osVars, lifeVars, Status, Rec
  <2> QED
    BY <2>4, <2>5, IInvSplit
<1> QED
  BY <1>1, <1>2

\* A step that writes the data of claimed recordings only
LEMMA DataStays ==
    ASSUME IInv, UNCHANGED <<urlOf, started, lifeVars>>,
           status' \in [Rec -> Status], \A r \in Rec : status[r] = "none" => status'[r] = "none",
           filled' \subseteq Rec, tracked' \subseteq Claimed, monitor' \subseteq Rec,
           lost' \subseteq Rec,
           ff' \in [Rec -> Ffmpeg], \A r \in Rec : r > started => ff'[r] = "none",
           pidOf' \in [Rec -> Pid \cup {Nil}], foreign' \subseteq Pid,
           file' \in [Rec -> {"none", "present", "removed"}]
    PROVE  DataOK'
BY IInvSplit DEF DataOK, Unclaimed, Claimed, lifeVars

LEMMA SetStatusType ==
    ASSUME status \in [Rec -> Status], NEW r, NEW s \in Finished, SetStatus(r, s)
    PROVE  /\ status' \in [Rec -> Status]
           /\ \A x \in Rec : status[x] = "none" => status'[x] = "none"
BY DEF SetStatus, Status, Finished

\* A final status is written, or the write raises.
LEMMA ClosingTypes ==
    ASSUME IInv, NEW r \in Rec, NEW s \in Finished, Written(r, s) \/ NotWritten(r)
    PROVE  /\ status' \in [Rec -> Status] /\ lost' \subseteq Rec
           /\ \A x \in Rec : status[x] = "none" => status'[x] = "none"
BY SetStatusType DEF Written, NotWritten, IInv, TypeOK

LEMMA SignalTypes ==
    ASSUME ff \in [Rec -> Ffmpeg], foreign \subseteq Pid, NEW r,
           NEW s \in {"asked", "killed"}
    PROVE  /\ SignalProcess(r, s) => /\ ff' \in [Rec -> Ffmpeg]
                                     /\ \A x \in Rec : ff[x] = "none" => ff'[x] = "none"
           /\ SignalPid(r, s) => /\ ff' \in [Rec -> Ffmpeg] /\ foreign' \subseteq Pid
                                 /\ \A x \in Rec : ff[x] = "none" => ff'[x] = "none"
BY DEF SignalProcess, SignalPid, Ffmpeg, Alive

-----------------------------------------------------------------------------
(* start_recording keeps the invariant.                                    *)

LEMMA ForkInv ==
    ASSUME IInv, NEW a \in Agent, NEW p \in Pid, Fork(a, p)
    PROVE  IInv'
<1>1. task[a].pc \in {"fork", "prepare"} /\ a \in Client /\ task[a].rec \in Claimed
  BY DEF Fork, Continues, Resumes, IInv, TasksOK, TaskOK, AboutRec, Pcs
<1>2. LoopOK'
  <2>1. GoodTask(a, At(a, "spawn"))
    BY <1>1, AtGood DEF Fork, rowVars, AboutRec, Pcs
  <2> QED
    BY <2>1, AwaitOK DEF Fork, rowVars
<1>3. DataOK'
  <2>1. ff' \in [Rec -> Ffmpeg] /\ \A r \in Rec : r > started => ff'[r] = "none"
    <3>1. ff' = [ff EXCEPT ![task[a].rec] = "running"]
      BY DEF Fork
    <3>2. ASSUME NEW r \in Rec, r > started PROVE r # task[a].rec
      BY <1>1, <3>2, ConstantsAssumption DEF IInv, TypeOK, Claimed, Rec
    <3> QED
      BY <3>1, <3>2 DEF IInv, TypeOK, Unclaimed, Ffmpeg
  <2>2. pidOf' \in [Rec -> Pid \cup {Nil}]
    BY DEF Fork, IInv, TypeOK
  <2> QED
    BY <2>1, <2>2, DataStays DEF Fork, IInv, TypeOK, Unclaimed, rowVars, memVars
<1> QED
  BY <1>2, <1>3, IInvSplit

LEMMA StartFailsOK ==
    ASSUME IInv, NEW a \in Agent, task[a].pc \in {"prepare", "fork", "spawn"},
           StartFails(a), started' = started
    PROVE  /\ LoopOK' /\ status' \in [Rec -> Status] /\ lost' \subseteq Rec
           /\ \A x \in Rec : status[x] = "none" => status'[x] = "none"
<1>1. a \in Client /\ task[a].pc \in AboutRec /\ task[a].rec \in Rec
  BY ClaimedInRec DEF IInv, TypeOK, TasksOK, TaskOK, AboutRec, Pcs
<1>2. Raises(a) => LoopOK'
  BY <1>1, RaisesOK
<1>3. ASSUME NotStarted(a, task[a].op, task[a].url) PROVE LoopOK'
  <2>1. CASE task[a].op = "record"
    <3>1. task[a].url \in Url
      BY <2>1 DEF IInv, TasksOK, TaskOK
    <3> QED
      BY <1>1, <1>3, <2>1, <3>1, NotStartedOK DEF Ops
  <2>2. CASE task[a].op # "record"
    <3>1. Await(a, Idle)
      BY <1>3, <2>2 DEF NotStarted, Done
    <3> QED
      BY <3>1, IdleGood, AwaitOK
  <2> QED
    BY <2>1, <2>2
<1>4. LoopOK'
  BY <1>2, <1>3 DEF StartFails
<1>5. Written(task[a].rec, "failed") \/ NotWritten(task[a].rec)
  BY DEF StartFails
<1> QED
  BY <1>1, <1>4, <1>5, ClosingTypes DEF Finished

LEMMA ForkFailsInv ==
    ASSUME IInv, NEW a \in Agent, ForkFails(a)
    PROVE  IInv'
<1>1. task[a].pc \in {"fork", "prepare"} /\ StartFails(a) /\ started' = started
  BY DEF ForkFails, Continues, Resumes
<1>2. DataOK'
  BY <1>1, StartFailsOK, DataStays DEF ForkFails, IInv, TypeOK, Unclaimed, osVars
<1> QED
  BY <1>1, <1>2, StartFailsOK, IInvSplit

LEMMA RegisterInv ==
    ASSUME IInv, NEW a \in Agent, Register(a)
    PROVE  IInv'
<1>1. task[a].rec \in Claimed /\ task[a].rec \in Rec
  BY ClaimedInRec DEF Register, Resumes, IInv, TypeOK, TasksOK, TaskOK, AboutRec, Pcs
<1>2. LoopOK'
  BY IdleGood, AwaitOK DEF Register, Done
<1>3. /\ status' \in [Rec -> Status] /\ filled' \subseteq Rec
      /\ \A r \in Rec : status[r] = "none" => status'[r] = "none"
  BY <1>1 DEF Register, MarkRecording, IInv, TypeOK, Status
<1>4. DataOK'
  BY <1>1, <1>3, DataStays DEF Register, IInv, TypeOK, Unclaimed, osVars
<1> QED
  BY <1>2, <1>4, IInvSplit

LEMMA RegisterDbFaultInv ==
    ASSUME IInv, NEW a \in Agent, RegisterDbFault(a)
    PROVE  IInv'
<1>1. task[a].pc = "spawn" /\ StartFails(a) /\ started' = started
  BY DEF RegisterDbFault, Resumes
<1>2. task[a].rec \in Claimed
  BY <1>1 DEF IInv, TasksOK, TaskOK, AboutRec, Pcs
<1>3. DataOK'
  BY <1>1, <1>2, StartFailsOK, DataStays
     DEF RegisterDbFault, IInv, TypeOK, Unclaimed, osVars
<1> QED
  BY <1>1, <1>3, StartFailsOK, IInvSplit

LEMMA StartInv ==
    ASSUME IInv, NEW a \in Client, NEW op \in {"post", "record"}, NEW u \in Url,
           Start(a, op, u)
    PROVE  IInv'
BY BeginInv DEF Start

LEMMA StutterData ==
    ASSUME IInv, UNCHANGED <<rowVars, memVars, osVars, lifeVars>>
    PROVE  DataOK'
BY IInvSplit DEF DataOK, Unclaimed, Claimed, rowVars, memVars, osVars, lifeVars

LEMMA StartAgainInv ==
    ASSUME IInv, NEW a \in Agent, StartAgain(a)
    PROVE  IInv'
<1>1. a \in Client /\ task[a].url \in Url
  BY DEF StartAgain, Continues, IInv, TasksOK, TaskOK
<1>2. CASE Begin(a, "retry", task[a].url)
  BY <1>1, <1>2, BeginInv
<1>3. CASE Done(a) /\ UNCHANGED <<rowVars, memVars, osVars, lifeVars>>
  BY <1>3, IdleGood, AwaitOK, StutterData, IInvSplit DEF Done, rowVars
<1> QED
  BY <1>2, <1>3 DEF StartAgain

LEMMA LookupInv ==
    ASSUME IInv, NEW a \in Agent, Lookup(a)
    PROVE  IInv'
<1>1. task[a].pc = "lookup" /\ a \in Client /\ UNCHANGED <<rowVars, memVars, osVars, lifeVars>>
  BY DEF Lookup, Continues, IInv, TasksOK, TaskOK
<1>2. CASE Done(a)
  BY <1>1, <1>2, IdleGood, AwaitOK, StutterData, IInvSplit DEF Done, rowVars
<1>3. CASE ~Done(a)
  <2>1. PICK r \in Present :
          Keep(a, [task[a] EXCEPT !.pc = "delete", !.op = "retry", !.rec = r])
    BY <1>3 DEF Lookup, Listed
  <2>2. r \in Rec /\ r \in Claimed
    BY ConstantsAssumption DEF Present, IInv, TypeOK, Unclaimed, Claimed, Rec
  <2>3. GoodTask(a, [task[a] EXCEPT !.pc = "delete", !.op = "retry", !.rec = r])
    BY <1>1, <2>2, ZenonT(60) DEF GoodTask, IInv, TypeOK, TasksOK, TaskOK, Task, Pcs, Ops, Claimed,
                      AboutRec, rowVars
  <2> QED
    BY <1>1, <2>1, <2>3, AwaitOK, StutterData, IInvSplit DEF rowVars
<1> QED
  BY <1>2, <1>3

-----------------------------------------------------------------------------
(* stop_recording and the monitor keep the invariant.                      *)

\* A request or a round of a loop that only moves its task
LEMMA TaskOnly ==
    ASSUME IInv, NEW a \in Agent, NEW t, GoodTask(a, t), Await(a, t) \/ Keep(a, t),
           UNCHANGED <<rowVars, memVars, osVars, lifeVars>>
    PROVE  IInv'
BY AwaitOK, StutterData, IInvSplit DEF rowVars

LEMMA RequestStopInv ==
    ASSUME IInv, NEW a \in Client, NEW r \in Rec, RequestStop(a, r) \/ RequestDelete(a, r)
    PROVE  IInv'
<1> a \in Agent
  BY DEF Agent
<1>1. r \in Claimed /\ UNCHANGED <<rowVars, memVars, osVars, lifeVars>>
  BY ConstantsAssumption DEF RequestStop, RequestDelete, Claimed, Rec, IInv, TypeOK
<1>2. \A pc \in {"stop", "delete"} :
        GoodTask(a, [Idle EXCEPT !.pc = pc, !.op = pc, !.rec = r])
  BY <1>1, IdleType DEF GoodTask, AboutRec, Task, Pcs, Ops, Idle, Claimed, rowVars
<1> QED
  BY <1>1, <1>2, TaskOnly DEF RequestStop, RequestDelete

\* The end of a stop, whether its writes come about or raise
LEMMA StopEndsOK ==
    ASSUME IInv, NEW a \in Agent, task[a].pc \in AboutRec, StopEnds(a),
           started' = started
    PROVE  /\ LoopOK' /\ status' \in [Rec -> Status] /\ lost' \subseteq Rec
           /\ \A x \in Rec : status[x] = "none" => status'[x] = "none"
<1>1. task[a].rec \in Rec
  BY ClaimedInRec DEF IInv, TypeOK, TasksOK, TaskOK
<1>2. LoopOK'
  BY AfterStopOK, RaisesOK DEF StopEnds
<1>3. Written(task[a].rec, "stopped") \/ NotWritten(task[a].rec)
  BY DEF StopEnds
<1> QED
  BY <1>1, <1>2, <1>3, ClosingTypes DEF Finished

LEMMA StopInv ==
    ASSUME IInv, NEW a \in Agent, Stop(a)
    PROVE  IInv'
<1> DEFINE r == task[a].rec
<1>1. task[a].pc = "stop" /\ task[a].pc \in AboutRec
  BY DEF Stop, Continues, AboutRec, Pcs
<1>2. UNCHANGED <<urlOf, filled, started, tracked, monitor, pidOf, file, lifeVars>>
  BY DEF Stop
<1>3. LoopOK'
  <2>0. CASE StopEnds(a)
    BY <1>1, <1>2, <2>0, StopEndsOK
  <2>1. CASE AfterStop(a)
    BY <1>1, <1>2, <2>1, AfterStopOK
  <2>2. CASE Await(a, At(a, "quit"))
    BY <1>1, <1>2, <2>2, AtGood, AwaitOK DEF Pcs
  <2>3. CASE Await(a, At(a, "kill"))
    BY <1>1, <1>2, <2>3, AtGood, AwaitOK DEF Pcs
  <2> QED
    BY <2>0, <2>1, <2>2, <2>3 DEF Stop
<1>4. /\ status' \in [Rec -> Status] /\ lost' \subseteq Rec
      /\ \A x \in Rec : status[x] = "none" => status'[x] = "none"
  <2>1. UNCHANGED <<status, lost>> \/ StopEnds(a)
    BY DEF Stop
  <2> QED
    BY <1>1, <1>2, <2>1, StopEndsOK DEF IInv, TypeOK
<1>5. /\ ff' \in [Rec -> Ffmpeg] /\ foreign' \subseteq Pid
      /\ \A x \in Rec : ff[x] = "none" => ff'[x] = "none"
  <2>1. \/ UNCHANGED <<ff, foreign>>
        \/ SignalProcess(r, "asked") /\ UNCHANGED foreign
        \/ SignalPid(r, "asked")
    BY DEF Stop
  <2> QED
    BY <2>1, SignalTypes DEF IInv, TypeOK
<1>6. DataOK'
  BY <1>2, <1>4, <1>5, DataStays DEF IInv, TypeOK, Unclaimed
<1> QED
  BY <1>3, <1>6, IInvSplit

LEMMA SettleInv ==
    ASSUME IInv, NEW a \in Agent, task[a].pc \in {"quit", "term"}, Settle(a),
           UNCHANGED ff \/ \E s \in {"asked", "killed"} : SignalProcess(task[a].rec, s)
    PROVE  IInv'
<1>1. UNCHANGED <<urlOf, filled, started, pidOf, foreign, file, lifeVars>>
  BY DEF Settle
<1>2. /\ LoopOK' /\ status' \in [Rec -> Status] /\ lost' \subseteq Rec
      /\ \A x \in Rec : status[x] = "none" => status'[x] = "none"
  BY <1>1, StopEndsOK DEF Settle, AboutRec, Pcs
<1>3. /\ ff' \in [Rec -> Ffmpeg]
      /\ \A x \in Rec : ff[x] = "none" => ff'[x] = "none"
  BY SignalTypes DEF IInv, TypeOK
<1>4. tracked' \subseteq Claimed /\ monitor' \subseteq Rec
  BY DEF Settle, IInv, TypeOK, Unclaimed
<1>5. DataOK'
  BY <1>1, <1>2, <1>3, <1>4, DataStays DEF IInv, TypeOK, Unclaimed
<1> QED
  BY <1>2, <1>5, IInvSplit

LEMMA StopWaitsInv ==
    ASSUME IInv, NEW a \in Agent, StopExited(a) \/ StopDrainFails(a) \/ StopKills(a)
    PROVE  IInv'
<1>1. task[a].pc \in {"quit", "term"} /\ Settle(a)
  BY DEF StopExited, StopDrainFails, StopKills, Resumes
<1>2. UNCHANGED ff \/ \E s \in {"asked", "killed"} : SignalProcess(task[a].rec, s)
  BY DEF StopExited, StopDrainFails, StopKills
<1> QED
  BY <1>1, <1>2, SettleInv

LEMMA StopEscalatesInv ==
    ASSUME IInv, NEW a \in Agent, StopEscalates(a)
    PROVE  IInv'
<1>1. UNCHANGED <<rowVars, memVars, pidOf, foreign, file, lifeVars>>
  BY DEF StopEscalates
<1>2. LoopOK'
  BY <1>1, AtGood, AwaitOK DEF StopEscalates, Resumes, AboutRec, Pcs, rowVars
<1>3. DataOK'
  BY <1>1, SignalTypes, DataStays
     DEF StopEscalates, IInv, TypeOK, Unclaimed, rowVars, memVars
<1> QED
  BY <1>2, <1>3, IInvSplit

LEMMA StopPidDoneInv ==
    ASSUME IInv, NEW a \in Agent, StopPidDone(a)
    PROVE  IInv'
<1>1. UNCHANGED <<urlOf, filled, started, tracked, monitor, pidOf, file, lifeVars>>
  BY DEF StopPidDone
<1>2. /\ LoopOK' /\ status' \in [Rec -> Status] /\ lost' \subseteq Rec
      /\ \A x \in Rec : status[x] = "none" => status'[x] = "none"
  BY <1>1, StopEndsOK DEF StopPidDone, Resumes, AboutRec, Pcs
<1>3. /\ ff' \in [Rec -> Ffmpeg] /\ foreign' \subseteq Pid
      /\ \A x \in Rec : ff[x] = "none" => ff'[x] = "none"
  BY SignalTypes DEF StopPidDone, IInv, TypeOK
<1>4. DataOK'
  BY <1>1, <1>2, <1>3, DataStays DEF IInv, TypeOK, Unclaimed
<1> QED
  BY <1>2, <1>4, IInvSplit

LEMMA MonitorInv ==
    ASSUME IInv, NEW r \in Rec, Monitor(r)
    PROVE  IInv'
<1>1. /\ status' \in [Rec -> Status] /\ lost' \subseteq Rec
      /\ \A x \in Rec : status[x] = "none" => status'[x] = "none"
  <2>1. UNCHANGED <<status, lost>> \/ \E s \in Finished : Written(r, s) \/ NotWritten(r)
    BY DEF Monitor, Finished
  <2> QED
    BY <2>1, ClosingTypes DEF IInv, TypeOK
<1>2. DataOK'
  BY <1>1, DataStays DEF Monitor, IInv, TypeOK, Unclaimed, osVars
<1>3. LoopOK'
  BY DEF Monitor, IInv, TypeOK, LoopOK, TasksOK, TaskOK, Claimed
<1> QED
  BY <1>2, <1>3, IInvSplit

-----------------------------------------------------------------------------
(* delete_recording, the loops, shutdown, restart and the system.          *)

LEMMA DeleteInv ==
    ASSUME IInv, NEW a \in Agent, Delete(a)
    PROVE  IInv'
BY AtGood, TaskOnly DEF Delete, Continues, AboutRec, Pcs, rowVars

LEMMA RemoveInv ==
    ASSUME IInv, NEW a \in Agent, Remove(a)
    PROVE  IInv'
<1>1. task[a].pc = "remove" /\ task[a].pc \in AboutRec
      /\ UNCHANGED <<urlOf, started, tracked, monitor, ff, pidOf, foreign, lifeVars>>
  BY DEF Remove, Continues, AboutRec, Pcs
<1>2. LoopOK'
  <2>1. CASE Raises(a)
    BY <1>1, <2>1, RaisesOK
  <2>2. CASE task[a].op = "retry" /\ Keep(a, At(a, "again"))
    <3>1. GoodTask(a, At(a, "again"))
      BY <1>1, <2>2, AtType DEF IInv, TasksOK, TaskOK, GoodTask, Claimed, Pcs
    <3> QED
      BY <1>1, <2>2, <3>1, AwaitOK
  <2>3. CASE Keep(a, At(a, "next"))
    BY <1>1, <2>3, AtGood, AwaitOK DEF Pcs
  <2>4. CASE Await(a, Idle)
    BY <1>1, <2>4, IdleGood, AwaitOK
  <2> QED
    BY <2>1, <2>2, <2>3, <2>4 DEF Remove, Done
<1>3. /\ status' \in [Rec -> Status]
      /\ \A x \in Rec : status[x] = "none" => status'[x] = "none"
      /\ filled' \subseteq Rec /\ file' \in [Rec -> {"none", "present", "removed"}]
      /\ lost' \subseteq Rec
  BY DEF Remove, IInv, TypeOK, Status
<1>4. DataOK'
  BY <1>1, <1>3, DataStays DEF IInv, TypeOK, Unclaimed
<1> QED
  BY <1>2, <1>4, IInvSplit

LEMMA PresentClaimed ==
    ASSUME IInv
    PROVE  Present \subseteq Claimed
BY ConstantsAssumption DEF Present, IInv, TypeOK, Unclaimed, Claimed, Rec

LEMMA SweepTaskGood ==
    ASSUME IInv, NEW a \in Agent, NEW T \in SUBSET Claimed, started' = started
    PROVE  GoodTask(a, [Idle EXCEPT !.pc = "next", !.op = "sweep", !.todo = T])
BY ClaimedInRec, IdleType
   DEF GoodTask, AboutRec, Task, Pcs, Ops, Idle, Claimed, IInv, TypeOK

LEMMA RequestDeleteAllInv ==
    ASSUME IInv, NEW a \in Client, RequestDeleteAll(a)
    PROVE  IInv'
<1> a \in Agent
  BY DEF Agent
<1>1. Listed \in SUBSET Claimed
  BY PresentClaimed DEF Listed
<1> QED
  BY <1>1, SweepTaskGood, TaskOnly DEF RequestDeleteAll, rowVars

LEMMA CleanupInv ==
    ASSUME IInv, NEW old, CleanupPass(old)
    PROVE  IInv'
<1> Janitor \in Agent
  BY DEF Agent
<1>1. old \in SUBSET Claimed
  BY PresentClaimed DEF CleanupPass
<1> QED
  BY <1>1, SweepTaskGood, TaskOnly DEF CleanupPass, rowVars

LEMMA NextInv ==
    ASSUME IInv, NEW a \in Agent, NextRound(a)
    PROVE  IInv'
<1>1. PICK r \in task[a].todo :
        Keep(a, [task[a] EXCEPT
                   !.pc = IF task[a].op = "sweep" THEN "delete" ELSE "stop",
                   !.rec = r, !.todo = @ \ {r}])
  BY DEF NextRound
<1>2. r \in Claimed /\ r \in Rec
  BY ClaimedInRec DEF IInv, TypeOK, TasksOK, TaskOK
<1>3. ASSUME NEW pc \in {"delete", "stop"}
      PROVE  GoodTask(a, [task[a] EXCEPT !.pc = pc, !.rec = r, !.todo = @ \ {r}])
  <2> DEFINE T == task[a].todo \ {r}
             t == [task[a] EXCEPT !.pc = pc, !.rec = r, !.todo = T]
  <2>1. T \in SUBSET Rec /\ T \subseteq Claimed /\ task[a] \in Task /\ TaskOK(a)
    BY DEF IInv, TypeOK, TasksOK, TaskOK, Task
  <2> HIDE DEF T
  <2>2. /\ t \in Task /\ t.pc = pc /\ t.rec = r /\ t.todo = T
        /\ t.op = task[a].op /\ t.url = task[a].url
    BY <1>2, <2>1 DEF Task, Pcs
  <2>3. Claimed' = Claimed
    BY DEF NextRound, Claimed, rowVars
  <2>4. GoodTask(a, t)
    BY <1>2, <2>1, <2>2, <2>3 DEF GoodTask, TaskOK
  <2> QED
    BY <2>4 DEF T
<1> QED
  BY <1>1, <1>3, TaskOnly DEF NextRound

LEMMA SweepDoneInv ==
    ASSUME IInv, NEW a \in Agent, SweepDone(a)
    PROVE  IInv'
BY IdleGood, TaskOnly DEF SweepDone, Done

LEMMA ShutdownBeginInv ==
    ASSUME IInv, ShutdownBegin
    PROVE  IInv'
<1> DEFINE gone == IF task[Janitor].pc \in {"quit", "term"} THEN {task[Janitor].rec} ELSE {}
           t    == [Idle EXCEPT !.pc = "next", !.op = "shutdown", !.todo = tracked \ gone]
<1>1. /\ tracked' = tracked \ gone /\ monitor' = monitor \ gone
      /\ task' = [task EXCEPT ![Janitor] = Idle, ![Closer] = t]
      /\ holder' = Closer /\ phase' = "stopping"
      /\ UNCHANGED <<rowVars, lost, osVars, restarts, boot>>
  BY DEF ShutdownBegin
<1>2. t \in Task /\ t.pc = "next" /\ t.op = "shutdown" /\ t.todo \subseteq Claimed
  BY IdleType DEF Task, Pcs, Ops, Idle, IInv, TypeOK, Unclaimed
<1>3. LoopOK'
  <2>1. task' \in [Agent -> Task] /\ Closer \in Agent
    BY <1>1, <1>2, IdleType DEF IInv, TypeOK, Agent
  <2>2. ASSUME NEW a \in Agent PROVE TaskOK(a)'
    <3>1. task'[a] \in {task[a], Idle, t} /\ TaskOK(a)
      BY <1>1 DEF IInv, TypeOK, TasksOK
    <3> QED
      BY <1>1, <1>2, <3>1, IdleType DEF TaskOK, AboutRec, Claimed, rowVars
  <2> QED
    BY <1>1, <2>1, <2>2 DEF LoopOK, TasksOK
<1>4. DataOK'
  BY <1>1, IInvSplit DEF DataOK, Unclaimed, Claimed, rowVars, osVars
<1> QED
  BY <1>3, <1>4, IInvSplit

LEMMA ShutdownDoneInv ==
    ASSUME IInv, ShutdownDone
    PROVE  IInv'
<1> Closer \in Agent
  BY DEF Agent
<1>1. LoopOK'
  BY IdleGood, AwaitOK DEF ShutdownDone, Done, rowVars
<1>2. DataOK'
  BY IInvSplit DEF ShutdownDone, DataOK, Unclaimed, Claimed, rowVars, osVars
<1> QED
  BY <1>1, <1>2, IInvSplit

LEMMA CancelHandlerInv ==
    ASSUME IInv, NEW a \in Client, CancelHandler(a)
    PROVE  IInv'
<1> a \in Agent
  BY DEF Agent
<1>1. UNCHANGED <<urlOf, filled, started, pidOf, foreign, file, lifeVars>>
  BY DEF CancelHandler
<1>2. LoopOK'
  BY <1>1, IdleGood, AwaitOK DEF CancelHandler, Done
<1>3. /\ status' \in [Rec -> Status] /\ lost' \subseteq Rec
      /\ \A x \in Rec : status[x] = "none" => status'[x] = "none"
  <2>1. \/ UNCHANGED <<status, lost>>
        \/ /\ task[a].pc \in AboutRec
           /\ Written(task[a].rec, "failed") \/ NotWritten(task[a].rec)
    BY DEF CancelHandler, AboutRec, Pcs
  <2>2. task[a].pc \in AboutRec => task[a].rec \in Rec
    BY ClaimedInRec DEF IInv, TypeOK, TasksOK, TaskOK
  <2> QED
    BY <2>1, <2>2, ClosingTypes DEF IInv, TypeOK, Finished
<1>4. ff' \in [Rec -> Ffmpeg] /\ \A x \in Rec : ff[x] = "none" => ff'[x] = "none"
  <2>1. UNCHANGED ff \/ SignalProcess(task[a].rec, "killed")
    BY DEF CancelHandler
  <2> QED
    BY <2>1, SignalTypes DEF IInv, TypeOK
<1>5. tracked' \subseteq Claimed /\ monitor' \subseteq Rec
  BY DEF CancelHandler, IInv, TypeOK, Unclaimed
<1>6. DataOK'
  BY <1>1, <1>3, <1>4, <1>5, DataStays DEF IInv, TypeOK, Unclaimed
<1> QED
  BY <1>2, <1>6, IInvSplit

LEMMA RestartInv ==
    ASSUME IInv, Restart
    PROVE  IInv'
<1>1. LoopOK'
  BY IdleType DEF Restart, LoopOK, TasksOK, TaskOK, AboutRec
<1>2. ff' \in [Rec -> Ffmpeg] /\ \A r \in Rec : ff[r] = "none" => ff'[r] = "none"
  BY DEF Restart, IInv, TypeOK, Ffmpeg, Alive
<1>3. restarts' \in 0 .. MaxRestart
  BY ConstantsAssumption DEF Restart, IInv, TypeOK
<1>4. DataOK'
  BY <1>2, <1>3, IInvSplit, ConstantsAssumption
     DEF Restart, DataOK, Unclaimed, Claimed, rowVars
<1> QED
  BY <1>1, <1>4, IInvSplit

LEMMA SystemInv ==
    ASSUME IInv, Environment
    PROVE  IInv'
<1>1. UNCHANGED <<rowVars, memVars, pidOf, task, holder, lifeVars>>
  BY DEF Environment, FfmpegWrites, FfmpegExits, ForeignProcess
<1>2. LoopOK'
  BY <1>1 DEF IInv, TypeOK, LoopOK, TasksOK, TaskOK, Claimed, rowVars
<1>3. /\ ff' \in [Rec -> Ffmpeg] /\ foreign' \subseteq Pid
      /\ \A r \in Rec : ff[r] = "none" => ff'[r] = "none"
      /\ file' \in [Rec -> {"none", "present", "removed"}]
  BY ConstantsAssumption
     DEF Environment, FfmpegWrites, FfmpegExits, ForeignProcess, IInv, TypeOK, Ffmpeg,
         Alive, FreePids
<1>4. DataOK'
  BY <1>1, <1>3, DataStays DEF IInv, TypeOK, Unclaimed, rowVars, memVars
<1> QED
  BY <1>2, <1>4, IInvSplit

LEMMA StutterInv == IInv /\ UNCHANGED vars => IInv'
BY DEF IInv, TypeOK, TasksOK, TaskOK, Unclaimed, Claimed, vars, rowVars, memVars,
       osVars, lifeVars

LEMMA NextKeepsIInv == IInv /\ [Next]_vars => IInv'
<1> SUFFICES ASSUME IInv, [Next]_vars PROVE IInv'
  OBVIOUS
<1>1. ASSUME NEW a \in Client, ClientStep(a) PROVE IInv'
  BY <1>1, StartInv, RequestStopInv, RequestDeleteAllInv DEF ClientStep
<1>2. ASSUME NEW a \in Agent, Step(a) PROVE IInv'
  BY <1>2, StartAgainInv, ForkInv, ForkFailsInv, RegisterInv, RegisterDbFaultInv,
     LookupInv, StopInv, StopWaitsInv, StopEscalatesInv, StopPidDoneInv, DeleteInv,
     RemoveInv, NextInv, SweepDoneInv DEF Step
<1> QED
  BY <1>1, <1>2, CancelHandlerInv, MonitorInv, CleanupInv, ShutdownBeginInv,
     ShutdownDoneInv, RestartInv, SystemInv, StutterInv DEF Next

-----------------------------------------------------------------------------
(* The theorems.                                                           *)

\* The inductive invariant holds throughout: whatever a coroutine holds across
\* an await is an id that was claimed, and ids are claimed in order.
THEOREM Invariant == Spec => []IInv
BY InitIInv, NextKeepsIInv, PTL DEF Spec

\* Type correctness of the DVR's table, dictionaries, processes and tasks, for
\* any number of recordings, URLs, requests and restarts.
THEOREM TypeCorrect == Spec => []TypeOK
<1>1. IInv => TypeOK
  BY DEF IInv
<1> QED
  BY <1>1, Invariant, PTL

-----------------------------------------------------------------------------
(* The handles.  A start owns its id alone until it registers the process; *)
(* a stop past its signal holds a process that was told to end; a removal  *)
(* that has the loop removes no file of a live recorder.                   *)

Launching == {"prepare", "fork", "spawn"}

\* The process of r was created and is past "running", for good.
Ended(r) == ff[r] \notin {"none", "running"}

Apart ==
    \A a, b \in Agent :
      /\ a # b /\ task[a].pc \in Launching /\ task[b].pc \in Launching
      => task[a].rec # task[b].rec

PlaceOK(a) ==
    /\ task[a].pc \in {"prepare", "fork"} => ff[task[a].rec] = "none"
    /\ task[a].pc = "spawn" => ff[task[a].rec] # "none" /\ task[a].rec \notin filled
    /\ task[a].pc \in {"quit", "term"} => Ended(task[a].rec)
    /\ task[a].pc = "kill" =>
         phase = "draining" \/ task[a].rec <= boot \/ Ended(task[a].rec)
    /\ task[a].pc = "remove" =>
         /\ holder = a
         /\ \/ phase = "draining"
            \/ task[a].rec <= boot \/ task[a].rec \notin filled
            \/ ff[task[a].rec] # "running"

PlacesOK == \A a \in Agent : PlaceOK(a)

\* What is tracked, or filled in, is a recording whose process was created.
Created == \A r \in tracked \cup filled : ff[r] # "none"

Handles == Apart /\ PlacesOK /\ Created /\ NoUntrackedRecorder

\* The end of the recorder of r will be noticed, or it could not be noted.
Watched(r) == r \in tracked \cap monitor \/ (r \in lost /\ ff[r] # "running")

RowsWatched ==
    \A r \in Rec : phase = "up" /\ status[r] = "recording" /\ r > boot => Watched(r)

\* A row says 'recording' only with its pid and file filled in.
RowsFilled == \A r \in Rec : status[r] = "recording" => r \in filled

Rows == filled \subseteq Present /\ RowsFilled /\ RowsWatched

RInv == IInv /\ Handles /\ Rows

\* The step belongs to the same server process, and is not before shutdown()
\* has returned when the one before it was after.
Onward == boot' = boot /\ (phase = "draining" => phase' = "draining")

\* A running process leaves self.processes at the end of shutdown() only.
HandlesHeld ==
    phase' # "draining" => \A r \in tracked \ tracked' : ff'[r] # "running"

\* No process is created by the step, and none runs again.
Calm == \A r \in Rec : /\ (ff'[r] = "none") <=> (ff[r] = "none")
                       /\ ff'[r] = "running" => ff[r] = "running"

-----------------------------------------------------------------------------
(* Facts about one state.                                                  *)

LEMMA RecOf ==
    ASSUME IInv, NEW a \in Agent, task[a].pc \in AboutRec
    PROVE  task[a].rec \in Rec /\ task[a].rec \in 1 .. started
BY ClaimedInRec DEF IInv, TypeOK, TasksOK, TaskOK, Claimed

LEMMA LaunchingClient ==
    ASSUME IInv, NEW a \in Agent, task[a].pc \in Launching
    PROVE  a \in Client
BY DEF IInv, TasksOK, TaskOK, Launching

LEMMA InitRInv == Init => RInv
<1> SUFFICES ASSUME Init PROVE RInv
  OBVIOUS
<1>1. IInv
  BY InitIInv
<1>2. Handles
  BY DEF Init, Handles, Apart, PlacesOK, PlaceOK, Created, NoUntrackedRecorder, Idle, Launching
<1>3. Rows
  BY DEF Init, Rows, RowsFilled, RowsWatched
<1> QED
  BY <1>1, <1>2, <1>3 DEF RInv

LEMMA SignalsCalm ==
    ASSUME IInv, NEW r, NEW s \in {"asked", "killed"},
           SignalProcess(r, s) \/ SignalPid(r, s) \/ UNCHANGED ff
    PROVE  Calm
BY DEF SignalProcess, SignalPid, Calm, Alive, IInv, TypeOK, Ffmpeg

-----------------------------------------------------------------------------
(* One task moves, no process is created: what has to be shown is enough.  *)

\* A new place of task a that needs nothing more from the other tasks
LEMMA HandlesMove ==
    ASSUME IInv, IInv', Handles, NEW a \in Agent, NEW t, Onward,
           task' = [task EXCEPT ![a] = t], holder \in {a, Nil}, Calm,
           PlaceOK(a)',
           t.pc \in Launching =>
             \A b \in Agent \ {a} : task[b].pc \in Launching => task[b].rec # t.rec,
           \A r \in filled' \ filled : task[a].pc = "spawn" /\ r = task[a].rec,
           \A r \in tracked' \ tracked : task[a].pc = "spawn" /\ r = task[a].rec,
           HandlesHeld,
           task[a].pc = "spawn" =>
             task[a].rec \in tracked' \/ ff'[task[a].rec] # "running"
    PROVE  Handles'
<1>1. \A b \in Agent \ {a} : task'[b] = task[b]
  BY DEF IInv, TypeOK
<1>2. task'[a] = t
  BY DEF IInv, TypeOK
<1>3. Apart'
  BY <1>1, <1>2 DEF Apart, Handles
<1>4. ASSUME NEW b \in Agent \ {a} PROVE PlaceOK(b)'
  <2>1. PlaceOK(b) /\ task'[b] = task[b]
    BY <1>1 DEF Handles, PlacesOK
  <2>2. task[b].pc \in AboutRec => task[b].rec \in Rec
    BY RecOf
  <2>3. task[b].pc # "remove"
    BY <2>1, ConstantsAssumption DEF PlaceOK, Agent
  <2>4. task[b].pc \in {"prepare", "fork"} => ff'[task[b].rec] = "none"
    BY <2>1, <2>2 DEF PlaceOK, Calm, AboutRec, Pcs
  <2>5. task[b].pc = "spawn" => ff'[task[b].rec] # "none" /\ task[b].rec \notin filled'
    <3> SUFFICES ASSUME task[b].pc = "spawn"
                 PROVE  ff'[task[b].rec] # "none" /\ task[b].rec \notin filled'
      OBVIOUS
    <3>1. ff'[task[b].rec] # "none"
      BY <2>1, <2>2 DEF PlaceOK, Calm, AboutRec, Pcs
    <3>2. task[a].pc = "spawn" => task[a].rec # task[b].rec
      BY DEF Handles, Apart, Launching
    <3> QED
      BY <2>1, <3>1, <3>2 DEF PlaceOK
  <2>6. /\ task[b].pc \in {"quit", "term"} => Ended(task[b].rec)'
        /\ task[b].pc = "kill" =>
             phase' = "draining" \/ task[b].rec <= boot' \/ Ended(task[b].rec)'
    BY <2>1, <2>2 DEF PlaceOK, Calm, Ended, AboutRec, Pcs, Onward
  <2> QED
    BY <2>1, <2>3, <2>4, <2>5, <2>6 DEF PlaceOK, Ended
<1>5. Created'
  <2>1. ASSUME NEW r \in (tracked \cup filled)' PROVE ff'[r] # "none"
    <3>1. r \in Rec
      BY DEF IInv, TypeOK
    <3>2. CASE r \in tracked \cup filled
      BY <3>1, <3>2 DEF Handles, Created, Calm
    <3>3. CASE task[a].pc = "spawn" /\ r = task[a].rec
      BY <3>1, <3>3 DEF Handles, PlacesOK, PlaceOK, Calm
    <3> QED
      BY <3>2, <3>3
  <2> QED
    BY <2>1 DEF Created
<1>6. NoUntrackedRecorder'
  <2> SUFFICES ASSUME NEW r \in Rec, phase' # "draining", ff'[r] = "running", r > boot',
                      r \notin tracked'
               PROVE  Spawning(r)'
    BY DEF NoUntrackedRecorder
  <2>1. ff[r] = "running" /\ r \notin tracked /\ phase # "draining" /\ r > boot
    BY DEF Calm, HandlesHeld, Onward
  <2>2. PICK b \in Client : task[b].pc = "spawn" /\ task[b].rec = r
    BY <2>1 DEF Handles, NoUntrackedRecorder, Spawning
  <2>3. b # a /\ b \in Agent
    BY <2>2 DEF Agent
  <2> QED
    BY <1>1, <2>2, <2>3 DEF Spawning
<1> QED
  BY <1>2, <1>3, <1>4, <1>5, <1>6 DEF Handles, PlacesOK

\* The usual case: nothing that is filled in or tracked is added, and the
\* task is not in the middle of a start.
LEMMA HandlesQuiet ==
    ASSUME IInv, IInv', Handles, NEW a \in Agent, NEW t, Onward,
           Await(a, t) \/ Keep(a, t), holder \in {a, Nil}, Calm,
           task[a].pc # "spawn", t.pc \notin Launching, PlaceOK(a)',
           filled' \subseteq filled, tracked' \subseteq tracked,
           HandlesHeld
    PROVE  Handles'
BY HandlesMove DEF Await, Keep

\* Places at which nothing is asked of a task
Free == {"idle", "lookup", "again", "delete", "stop", "next"}

LEMMA HandlesFree ==
    ASSUME IInv, IInv', Handles, NEW a \in Agent, NEW t, Onward,
           Await(a, t) \/ Keep(a, t), holder \in {a, Nil}, Calm,
           task[a].pc # "spawn", t.pc \in Free,
           filled' \subseteq filled, tracked' \subseteq tracked,
           HandlesHeld
    PROVE  Handles'
<1>1. task'[a] = t
  BY DEF Await, Keep, IInv, TypeOK
<1>2. PlaceOK(a)' /\ t.pc \notin Launching
  BY <1>1 DEF PlaceOK, Free, Launching
<1> QED
  BY <1>2, HandlesQuiet

\* The end of a stop: what the task has stopped is not running.
LEMMA HandlesAfterStop ==
    ASSUME IInv, IInv', Handles, NEW a \in Agent, Onward,
           task[a].pc \in {"stop", "quit", "term", "kill"}, AfterStop(a),
           holder \in {a, Nil}, Calm,
           filled' \subseteq filled, tracked' \subseteq tracked,
           HandlesHeld,
           \/ phase' = "draining" \/ task[a].rec <= boot \/ task[a].rec \notin filled
           \/ ff'[task[a].rec] # "running"
    PROVE  Handles'
<1>1. CASE Done(a)
  BY <1>1, HandlesFree, IdleType DEF Done, Free
<1>2. CASE Keep(a, At(a, "next"))
  BY <1>2, HandlesFree, AtType DEF Free, Pcs, IInv
<1>3. CASE Keep(a, At(a, "remove"))
  <2>1. At(a, "remove").pc = "remove" /\ At(a, "remove").rec = task[a].rec
    BY AtType DEF Pcs, IInv
  <2>2. task'[a] = At(a, "remove") /\ holder' = a
    BY <1>3 DEF Keep, IInv, TypeOK
  <2>3. PlaceOK(a)'
    BY <2>1, <2>2 DEF PlaceOK, Onward
  <2> QED
    BY <1>3, <2>1, <2>3, HandlesQuiet DEF Launching
<1> QED
  BY <1>1, <1>2, <1>3 DEF AfterStop

\* However an operation ends by an exception, nothing is asked of its task.
MovesFree(a, t) == t.pc \in Free /\ (Await(a, t) \/ Keep(a, t))

LEMMA RaisesFree ==
    ASSUME IInv, NEW a \in Agent, Raises(a)
    PROVE  \E t : MovesFree(a, t)
<1>1. CASE Done(a)
  <2>1. MovesFree(a, Idle)
    BY <1>1, IdleType DEF MovesFree, Done, Free
  <2> QED
    BY <2>1
<1>2. CASE Keep(a, At(a, "next"))
  <2>1. MovesFree(a, At(a, "next"))
    BY <1>2, AtType DEF MovesFree, Free, Pcs, IInv
  <2> QED
    BY <2>1
<1>3. CASE Keep(a, [At(a, "next") EXCEPT !.todo = {}])
  <2> DEFINE t == [At(a, "next") EXCEPT !.todo = {}]
  <2>1. t.pc = "next"
    BY AtType DEF Task, Pcs, IInv
  <2>2. Keep(a, t)
    BY <1>3
  <2> HIDE DEF t
  <2>3. MovesFree(a, t)
    BY <2>1, <2>2 DEF MovesFree, Free
  <2> QED
    BY <2>3
<1> QED
  BY <1>1, <1>2, <1>3 DEF Raises

LEMMA HandlesStopEnds ==
    ASSUME IInv, IInv', Handles, NEW a \in Agent, Onward,
           task[a].pc \in {"stop", "quit", "term", "kill"}, StopEnds(a),
           holder \in {a, Nil}, Calm,
           filled' \subseteq filled, tracked' \subseteq tracked,
           HandlesHeld,
           \/ phase' = "draining" \/ task[a].rec <= boot \/ task[a].rec \notin filled
           \/ ff'[task[a].rec] # "running"
    PROVE  Handles'
<1>1. CASE AfterStop(a)
  BY <1>1, HandlesAfterStop
<1>2. CASE Raises(a)
  <2>1. PICK t : MovesFree(a, t)
    BY <1>2, RaisesFree
  <2> QED
    BY <2>1, HandlesFree DEF MovesFree
<1> QED
  BY <1>1, <1>2 DEF StopEnds

-----------------------------------------------------------------------------
(* start_recording keeps the handles.                                      *)

LEMMA BeginHandles ==
    ASSUME RInv, IInv', NEW a \in Client, NEW op \in {"post", "record", "retry"},
           NEW u \in Url, Begin(a, op, u), holder \in {a, Nil},
           task[a].pc # "spawn"
    PROVE  Handles'
<1> a \in Agent
  BY DEF Agent
<1>1. UNCHANGED <<filled, memVars, osVars, lifeVars>>
  BY DEF Begin, rowVars
<1>2. Calm /\ Onward /\ HandlesHeld /\ tracked' = tracked /\ filled' = filled /\ ff' = ff
  BY <1>1 DEF Calm, Onward, HandlesHeld, memVars, osVars, lifeVars
<1>3. CASE Taken(u)
  <2>1. NotStarted(a, op, u)
    BY <1>3 DEF Begin
  <2>2. CASE op = "record"
    <3> DEFINE t == [Idle EXCEPT !.pc = "lookup", !.op = op, !.url = u]
    <3>1. Keep(a, t) /\ t.pc = "lookup"
      BY <2>1, <2>2 DEF NotStarted, Idle
    <3> QED
      BY <1>2, <3>1, HandlesFree DEF RInv, Free
  <2>3. CASE op # "record"
    BY <1>2, <2>1, <2>3, HandlesFree, IdleType DEF RInv, Free, NotStarted, Done
  <2> QED
    BY <2>2, <2>3
<1>4. CASE ~Taken(u)
  <2> DEFINE r == started + 1
             i == [Idle EXCEPT !.op = op, !.rec = r, !.url = u]
  <2>1. PICK t \in {[i EXCEPT !.pc = "prepare"], [i EXCEPT !.pc = "fork"]} :
             task' = [task EXCEPT ![a] = t]
    BY <1>4 DEF Begin, Await, Keep
  <2>2. t.pc \in {"prepare", "fork"} /\ t.rec = r
    BY <2>1 DEF Idle
  <2>3. r \in Rec /\ ff[r] = "none" /\ r > started
    BY <1>4, ConstantsAssumption DEF Begin, Rec, RInv, IInv, TypeOK, Unclaimed
  <2>4. PlaceOK(a)'
    BY <1>2, <2>1, <2>2, <2>3 DEF PlaceOK, RInv, IInv, TypeOK
  <2>5. \A b \in Agent \ {a} : task[b].pc \in Launching => task[b].rec # t.rec
    <3> SUFFICES ASSUME NEW b \in Agent, task[b].pc \in Launching
                 PROVE  task[b].rec # r
      BY <2>2
    <3>1. task[b].rec \in 1 .. started
      BY RecOf DEF RInv, AboutRec, Pcs, Launching
    <3> QED
      BY <2>3, <3>1 DEF RInv, IInv, TypeOK
  <2> HIDE DEF i, r
  <2> QED
    BY <1>2, <2>1, <2>4, <2>5, HandlesMove DEF RInv
<1> QED
  BY <1>3, <1>4

LEMMA StartHandles ==
    ASSUME RInv, IInv', NEW a \in Client, NEW op \in {"post", "record"}, NEW u \in Url,
           Start(a, op, u)
    PROVE  Handles'
BY BeginHandles DEF Start, Request, Idle

LEMMA StartAgainHandles ==
    ASSUME RInv, IInv', NEW a \in Agent, StartAgain(a)
    PROVE  Handles'
<1>1. a \in Client /\ task[a].url \in Url /\ task[a].pc = "again" /\ holder = a
  BY DEF StartAgain, Continues, RInv, IInv, TasksOK, TaskOK
<1>2. CASE Begin(a, "retry", task[a].url)
  BY <1>1, <1>2, BeginHandles
<1>3. CASE Done(a) /\ UNCHANGED <<rowVars, memVars, osVars, lifeVars>>
  BY <1>1, <1>3, HandlesFree, IdleType
     DEF Done, Calm, Onward, HandlesHeld, Free, RInv, rowVars, memVars, osVars, lifeVars
<1> QED
  BY <1>2, <1>3 DEF StartAgain

LEMMA ForkHandles ==
    ASSUME RInv, IInv', NEW a \in Agent, NEW p \in Pid, Fork(a, p)
    PROVE  Handles'
<1> DEFINE r == task[a].rec
           t == At(a, "spawn")
<1>1. task[a].pc \in {"fork", "prepare"} /\ holder \in {a, Nil} /\ a \in Client
  BY LaunchingClient DEF Fork, Continues, Resumes, RInv, Launching
<1>2. r \in Rec /\ ff[r] = "none"
  BY <1>1, RecOf DEF RInv, Handles, PlacesOK, PlaceOK, AboutRec, Pcs
<1>3. /\ ff' = [ff EXCEPT ![r] = "running"] /\ task' = [task EXCEPT ![a] = t]
      /\ UNCHANGED <<filled, tracked>> /\ Onward /\ HandlesHeld
  BY DEF Onward, HandlesHeld, Fork, Await, rowVars, memVars, lifeVars
<1>4. t.pc = "spawn" /\ t.rec = r
  BY AtType DEF RInv, IInv, Pcs
<1>5. /\ ff'[r] = "running" /\ \A x \in Rec \ {r} : ff'[x] = ff[x]
      /\ task'[a] = t /\ \A b \in Agent \ {a} : task'[b] = task[b]
  BY <1>2, <1>3 DEF RInv, IInv, TypeOK
<1> HIDE DEF t
<1>6. r \notin tracked \cup filled
  BY <1>2 DEF RInv, Handles, Created
<1>7. Apart'
  BY <1>1, <1>4, <1>5 DEF RInv, Handles, Apart, Launching
<1>8. ASSUME NEW b \in Agent PROVE PlaceOK(b)'
  <2>1. CASE b = a
    BY <1>3, <1>4, <1>5, <1>6, <2>1 DEF PlaceOK
  <2>2. CASE b # a
    <3>1. PlaceOK(b) /\ task'[b] = task[b]
      BY <1>5, <2>2 DEF RInv, Handles, PlacesOK
    <3>2. task[b].pc # "remove"
      BY <1>1, <2>2, <3>1, ConstantsAssumption DEF PlaceOK, Agent
    <3>3. task[b].pc \in Launching => task[b].rec \in Rec \ {r}
      BY <1>1, <2>2, RecOf DEF RInv, Handles, Apart, Launching, AboutRec, Pcs
    <3>4. task[b].pc \in {"quit", "term", "kill"} => task[b].rec \in Rec
      BY RecOf DEF RInv, AboutRec, Pcs
    <3>5. /\ task[b].pc \in {"prepare", "fork"} => ff'[task[b].rec] = "none"
          /\ task[b].pc = "spawn" =>
               ff'[task[b].rec] # "none" /\ task[b].rec \notin filled'
      BY <1>3, <1>5, <3>1, <3>3 DEF PlaceOK, Launching
    <3>6. /\ task[b].pc \in {"quit", "term"} => Ended(task[b].rec)'
          /\ task[b].pc = "kill" =>
               phase' = "draining" \/ task[b].rec <= boot' \/ Ended(task[b].rec)'
      BY <1>2, <1>3, <1>5, <3>1, <3>4 DEF PlaceOK, Ended, Onward
    <3> QED
      BY <3>1, <3>2, <3>5, <3>6 DEF PlaceOK, Ended
  <2> QED
    BY <2>1, <2>2
<1>9. Created'
  BY <1>3, <1>5, <1>6 DEF RInv, Handles, Created, IInv, TypeOK
<1>10. NoUntrackedRecorder'
  <2> SUFFICES ASSUME NEW x \in Rec, phase' # "draining", ff'[x] = "running", x > boot',
                      x \notin tracked'
               PROVE  Spawning(x)'
    BY DEF NoUntrackedRecorder
  <2>1. CASE x = r
    BY <1>1, <1>4, <1>5, <2>1 DEF Spawning
  <2>2. CASE x # r
    <3>1. ff[x] = "running" /\ x > boot /\ x \notin tracked /\ phase # "draining"
      BY <1>3, <1>5, <2>2 DEF Onward
    <3>2. PICK b \in Client : task[b].pc = "spawn" /\ task[b].rec = x
      BY <3>1 DEF RInv, Handles, NoUntrackedRecorder, Spawning
    <3>3. b # a /\ b \in Agent
      BY <1>1, <3>2 DEF Agent
    <3> QED
      BY <1>5, <3>2, <3>3 DEF Spawning
  <2> QED
    BY <2>1, <2>2
<1> QED
  BY <1>7, <1>8, <1>9, <1>10 DEF Handles, PlacesOK

LEMMA StartFailsFree ==
    ASSUME IInv, NEW a \in Agent, StartFails(a)
    PROVE  \E t : MovesFree(a, t)
<1>1. CASE Raises(a)
  BY <1>1, RaisesFree
<1>2. CASE NotStarted(a, task[a].op, task[a].url)
  <2>1. CASE task[a].op = "record"
    <3> DEFINE t == [Idle EXCEPT !.pc = "lookup", !.op = task[a].op, !.url = task[a].url]
    <3>1. Keep(a, t) /\ t.pc = "lookup"
      BY <1>2, <2>1 DEF NotStarted, Idle
    <3> HIDE DEF t
    <3>2. MovesFree(a, t)
      BY <3>1 DEF MovesFree, Free
    <3> QED
      BY <3>2
  <2>2. CASE task[a].op # "record"
    <3>1. MovesFree(a, Idle)
      BY <1>2, <2>2, IdleType DEF MovesFree, NotStarted, Done, Free
    <3> QED
      BY <3>1
  <2> QED
    BY <2>1, <2>2
<1> QED
  BY <1>1, <1>2 DEF StartFails

LEMMA ForkFailsHandles ==
    ASSUME RInv, IInv', NEW a \in Agent, ForkFails(a)
    PROVE  Handles'
<1>1. /\ task[a].pc \in {"fork", "prepare"} /\ holder \in {a, Nil}
      /\ Calm /\ UNCHANGED <<filled, tracked>> /\ Onward /\ HandlesHeld
  BY DEF Onward, HandlesHeld, ForkFails, Continues, Resumes, Calm, memVars, osVars, lifeVars
<1>2. PICK t : MovesFree(a, t)
  BY StartFailsFree DEF ForkFails, RInv
<1> QED
  BY <1>1, <1>2, HandlesFree DEF RInv, MovesFree

\* The start ends here: the process is in self.processes from now on.
LEMMA HandlesRegistered ==
    ASSUME RInv, IInv', NEW a \in Agent, Register(a) \/ RegisterDbFault(a),
           NEW t, t.pc \in Free, Await(a, t) \/ Keep(a, t)
    PROVE  Handles'
<1>1. task[a].pc = "spawn" /\ holder = Nil /\ Onward /\ HandlesHeld /\ ff' = ff
      /\ tracked' = tracked \cup {task[a].rec}
  BY DEF Register, RegisterDbFault, Resumes, Onward, HandlesHeld, osVars, lifeVars
<1>2. filled' \subseteq filled \cup {task[a].rec}
  BY DEF Register, RegisterDbFault, MarkRecording
<1>3. task' = [task EXCEPT ![a] = t]
  BY DEF Await, Keep
<1>4. PlaceOK(a)' /\ t.pc \notin Launching
  BY <1>3 DEF PlaceOK, Free, Launching, RInv, IInv, TypeOK
<1>5. Calm
  BY <1>1 DEF Calm
<1> QED
  BY <1>1, <1>2, <1>3, <1>4, <1>5, HandlesMove DEF RInv

LEMMA RegisterHandles ==
    ASSUME RInv, IInv', NEW a \in Agent, Register(a) \/ RegisterDbFault(a)
    PROVE  Handles'
<1>1. (\E t : MovesFree(a, t)) \/ MovesFree(a, Idle)
  BY IdleType, StartFailsFree DEF MovesFree, Register, RegisterDbFault, Done, Free, RInv
<1>2. PICK t : MovesFree(a, t)
  BY <1>1
<1> QED
  BY <1>2, HandlesRegistered DEF MovesFree

LEMMA LookupHandles ==
    ASSUME RInv, IInv', NEW a \in Agent, Lookup(a)
    PROVE  Handles'
<1>1. /\ task[a].pc = "lookup" /\ holder = a
      /\ Calm /\ UNCHANGED <<filled, tracked>> /\ Onward /\ HandlesHeld
  BY DEF Onward, HandlesHeld, Lookup, Continues, Calm, rowVars, memVars, osVars, lifeVars
<1>2. CASE Done(a)
  BY <1>1, <1>2, HandlesFree, IdleType DEF Done, RInv, Free
<1>3. CASE ~Done(a)
  <2>1. PICK r : Keep(a, [task[a] EXCEPT !.pc = "delete", !.op = "retry", !.rec = r])
    BY <1>3 DEF Lookup
  <2> DEFINE t == [task[a] EXCEPT !.pc = "delete", !.op = "retry", !.rec = r]
  <2>2. t.pc = "delete"
    BY DEF RInv, IInv, TypeOK, Task
  <2> HIDE DEF t
  <2> QED
    BY <1>1, <2>1, <2>2, HandlesFree DEF RInv, Free, t
<1> QED
  BY <1>2, <1>3

-----------------------------------------------------------------------------
(* stop_recording and the monitor keep the handles.                        *)

LEMMA StopHandles ==
    ASSUME RInv, IInv', NEW a \in Agent, Stop(a)
    PROVE  Handles'
<1> DEFINE r == task[a].rec
<1>1. /\ task[a].pc = "stop" /\ holder = a
      /\ UNCHANGED <<filled, tracked>> /\ Onward /\ HandlesHeld
  BY DEF Onward, HandlesHeld, Stop, Continues, memVars, lifeVars
<1>2. r \in Rec
  BY <1>1, RecOf DEF RInv, AboutRec, Pcs
<1>3. Calm
  <2>1. \/ SignalProcess(r, "asked") \/ SignalPid(r, "asked") \/ UNCHANGED ff
    BY DEF Stop
  <2> QED
    BY <2>1, SignalsCalm DEF RInv
\* A row of this server that is filled in and not tracked has ended.
<1>4. r \notin tracked /\ r \in filled => phase = "draining" \/ r <= boot \/ Ended(r)
  <2> SUFFICES ASSUME r \notin tracked, r \in filled, ~(r <= boot), phase # "draining"
               PROVE  Ended(r)
    OBVIOUS
  <2>1. ff[r] # "none"
    BY DEF RInv, Handles, Created
  <2>2. ~Spawning(r)
    BY DEF Spawning, RInv, Handles, PlacesOK, PlaceOK, Agent
  <2>3. ff[r] # "running"
    BY <1>2, <2>2 DEF RInv, Handles, NoUntrackedRecorder, IInv, TypeOK, Rec
  <2> QED
    BY <2>1, <2>3 DEF Ended
<1>5. CASE status[r] = "none" /\ AfterStop(a)
  <2>1. r \notin filled
    BY <1>5 DEF RInv, Rows, Present
  <2> QED
    BY <1>1, <1>3, <1>5, <2>1, HandlesAfterStop DEF RInv
<1>6. CASE r \in tracked /\ SignalProcess(r, "asked") /\ Await(a, At(a, "quit"))
  <2>0. ff[r] # "none"
    BY <1>6 DEF RInv, Handles, Created
  <2>1. ff'[r] \notin {"none", "running"}
    BY <1>2, <1>6, <2>0 DEF SignalProcess, Alive, RInv, IInv, TypeOK, Ffmpeg
  <2>2. At(a, "quit").pc = "quit" /\ At(a, "quit").rec = r
    BY AtType DEF Pcs, RInv, IInv
  <2>3. task'[a] = At(a, "quit")
    BY <1>6 DEF Await, RInv, IInv, TypeOK
  <2>4. PlaceOK(a)'
    BY <2>1, <2>2, <2>3 DEF PlaceOK, Ended
  <2> QED
    BY <1>1, <1>3, <1>6, <2>2, <2>4, HandlesQuiet DEF RInv, Launching
<1>7. CASE r \notin tracked /\ r \in filled /\ Await(a, At(a, "kill"))
  <2>1. phase' = "draining" \/ r <= boot \/ ff'[r] \notin {"none", "running"}
    BY <1>1, <1>2, <1>3, <1>4, <1>7 DEF Calm, Ended, Onward
  <2>2. At(a, "kill").pc = "kill" /\ At(a, "kill").rec = r
    BY AtType DEF Pcs, RInv, IInv
  <2>3. task'[a] = At(a, "kill")
    BY <1>7 DEF Await, RInv, IInv, TypeOK
  <2>4. PlaceOK(a)'
    BY <1>1, <2>1, <2>2, <2>3 DEF PlaceOK, Ended, Onward
  <2> QED
    BY <1>1, <1>3, <1>7, <2>2, <2>4, HandlesQuiet DEF RInv, Launching
<1>8. CASE r \notin tracked /\ StopEnds(a)
  <2>1. phase' = "draining" \/ r <= boot \/ r \notin filled \/ ff'[r] # "running"
    BY <1>1, <1>2, <1>3, <1>4, <1>8 DEF Calm, Ended, Onward
  <2> QED
    BY <1>1, <1>3, <1>8, <2>1, HandlesStopEnds DEF RInv
<1> QED
  BY <1>5, <1>6, <1>7, <1>8 DEF Stop

\* The three ends of a stop that waited for its process
LEMMA StopWaitsHandles ==
    ASSUME RInv, IInv', NEW a \in Agent, StopExited(a) \/ StopDrainFails(a) \/ StopKills(a)
    PROVE  Handles'
<1> DEFINE r == task[a].rec
<1>1. /\ task[a].pc \in {"quit", "term"} /\ holder = Nil /\ Settle(a)
      /\ UNCHANGED ff \/ \E s \in {"asked", "killed"} : SignalProcess(r, s)
  BY DEF StopExited, StopDrainFails, StopKills, Resumes
<1>2. /\ tracked' = tracked \ {r} /\ UNCHANGED filled /\ Onward /\ StopEnds(a)
  BY <1>1 DEF Settle, Onward, lifeVars
<1>3. r \in Rec /\ Ended(r)
  BY <1>1, RecOf DEF RInv, AboutRec, Pcs, Handles, PlacesOK, PlaceOK
<1>4. Calm
  BY <1>1, SignalsCalm DEF RInv
<1>5. ff'[r] # "running" /\ HandlesHeld
  BY <1>2, <1>3, <1>4 DEF Calm, Ended, HandlesHeld
<1> QED
  BY <1>1, <1>2, <1>4, <1>5, HandlesStopEnds DEF RInv

LEMMA StopEscalatesHandles ==
    ASSUME RInv, IInv', NEW a \in Agent, StopEscalates(a)
    PROVE  Handles'
<1> DEFINE r == task[a].rec
<1>1. /\ task[a].pc = "quit" /\ holder = Nil /\ SignalProcess(r, "asked")
      /\ Await(a, At(a, "term")) /\ UNCHANGED <<filled, tracked>> /\ Onward /\ HandlesHeld
  BY DEF Onward, HandlesHeld, StopEscalates, Resumes, rowVars, memVars, lifeVars
<1>2. r \in Rec /\ Ended(r)
  BY <1>1, RecOf DEF RInv, AboutRec, Pcs, Handles, PlacesOK, PlaceOK
<1>3. Calm
  BY <1>1, SignalsCalm DEF RInv
<1>4. At(a, "term").pc = "term" /\ At(a, "term").rec = r
  BY AtType DEF Pcs, RInv, IInv
<1>5. task'[a] = At(a, "term")
  BY <1>1 DEF Await, RInv, IInv, TypeOK
<1>6. PlaceOK(a)'
  BY <1>2, <1>3, <1>4, <1>5 DEF PlaceOK, Calm, Ended
<1> QED
  BY <1>1, <1>3, <1>4, <1>6, HandlesQuiet DEF RInv, Launching

LEMMA StopPidDoneHandles ==
    ASSUME RInv, IInv', NEW a \in Agent, StopPidDone(a)
    PROVE  Handles'
<1> DEFINE r == task[a].rec
<1>1. /\ task[a].pc = "kill" /\ holder = Nil /\ StopEnds(a)
      /\ UNCHANGED ff \/ SignalPid(r, "killed")
      /\ UNCHANGED <<filled, tracked>> /\ Onward /\ HandlesHeld
  BY DEF Onward, HandlesHeld, StopPidDone, Resumes, memVars, lifeVars
<1>2. r \in Rec /\ (phase = "draining" \/ r <= boot \/ Ended(r))
  BY <1>1, RecOf DEF RInv, AboutRec, Pcs, Handles, PlacesOK, PlaceOK
<1>3. Calm
  BY <1>1, SignalsCalm DEF RInv
<1>4. phase' = "draining" \/ r <= boot \/ ff'[r] # "running"
  BY <1>1, <1>2, <1>3 DEF Calm, Ended, Onward
<1> QED
  BY <1>1, <1>3, <1>4, HandlesStopEnds DEF RInv

\* No task moves: the monitor, and the operating system
LEMMA HandlesNoTask ==
    ASSUME IInv, IInv', Handles, UNCHANGED <<task, holder, filled>>, Onward, Calm,
           tracked' \subseteq tracked, \A r \in tracked \ tracked' : ff'[r] # "running"
    PROVE  Handles'
<1>1. Apart'
  BY DEF Handles, Apart
<1>2. PlacesOK'
  <2> SUFFICES ASSUME NEW b \in Agent PROVE PlaceOK(b)'
    BY DEF PlacesOK
  <2>1. PlaceOK(b) /\ (task[b].pc \in AboutRec => task[b].rec \in Rec)
    BY RecOf DEF Handles, PlacesOK
  <2> QED
    BY <2>1 DEF PlaceOK, Calm, Ended, AboutRec, Pcs, Onward
<1>3. Created'
  BY DEF Handles, Created, Calm, IInv, TypeOK
<1>4. NoUntrackedRecorder'
  BY DEF Handles, NoUntrackedRecorder, Spawning, Calm, Onward, HandlesHeld
<1> QED
  BY <1>1, <1>2, <1>3, <1>4 DEF Handles

LEMMA MonitorHandles ==
    ASSUME RInv, IInv', NEW r \in Rec, Monitor(r)
    PROVE  Handles'
<1>1. UNCHANGED <<task, holder, filled>> /\ Onward /\ Calm /\ tracked' = tracked \ {r}
  BY DEF Monitor, Onward, Calm, osVars, lifeVars
<1>2. ff'[r] # "running"
  BY DEF Monitor, osVars
<1>3. tracked' \subseteq tracked /\ \A x \in tracked \ tracked' : ff'[x] # "running"
  BY <1>1, <1>2
<1> QED
  BY <1>1, <1>3, HandlesNoTask DEF RInv

LEMMA SystemHandles ==
    ASSUME RInv, IInv', Environment
    PROVE  Handles'
<1>1. UNCHANGED <<task, holder, filled, tracked>> /\ Onward /\ HandlesHeld
  BY DEF Onward, HandlesHeld, Environment, FfmpegWrites, FfmpegExits, ForeignProcess, rowVars, memVars, lifeVars
<1>2. Calm
  BY DEF Environment, FfmpegWrites, FfmpegExits, ForeignProcess, Calm, Alive, RInv, IInv,
         TypeOK, Ffmpeg
<1> QED
  BY <1>1, <1>2, HandlesNoTask DEF RInv

-----------------------------------------------------------------------------
(* delete_recording, the loops, shutdown and restart keep the handles.     *)

\* A deletion goes straight to the removal only when nothing is running.
LEMMA DeleteHandles ==
    ASSUME RInv, IInv', NEW a \in Agent, Delete(a)
    PROVE  Handles'
<1> DEFINE r == task[a].rec
<1>1. /\ task[a].pc = "delete" /\ holder = a /\ Calm
      /\ UNCHANGED <<filled, tracked>> /\ Onward /\ HandlesHeld /\ ff' = ff
  BY DEF Onward, HandlesHeld, Delete, Continues, Calm, rowVars, memVars, osVars, lifeVars
<1>2. CASE r \in tracked
  <2>1. Keep(a, At(a, "stop")) /\ At(a, "stop").pc = "stop"
    BY <1>2, AtType DEF Delete, Pcs, RInv, IInv
  <2> QED
    BY <1>1, <2>1, HandlesFree DEF RInv, Free
<1>3. CASE r \notin tracked
  <2>1. Keep(a, At(a, "remove")) /\ At(a, "remove").pc = "remove" /\ At(a, "remove").rec = r
    BY <1>3, AtType DEF Delete, Pcs, RInv, IInv
  <2>2. r \in Rec
    BY <1>1, RecOf DEF RInv, AboutRec, Pcs
  <2>3. phase = "draining" \/ r <= boot \/ r \notin filled \/ ff[r] # "running"
    <3> SUFFICES ASSUME ~(r <= boot), r \in filled, phase # "draining"
                 PROVE  ff[r] # "running"
      OBVIOUS
    <3>1. ~Spawning(r)
      BY DEF Spawning, RInv, Handles, PlacesOK, PlaceOK, Agent
    <3> QED
      BY <1>3, <2>2, <3>1 DEF RInv, Handles, NoUntrackedRecorder, IInv, TypeOK, Rec
  <2>4. task'[a] = At(a, "remove") /\ holder' = a
    BY <2>1 DEF Keep, RInv, IInv, TypeOK
  <2>5. PlaceOK(a)'
    BY <1>1, <2>1, <2>3, <2>4 DEF PlaceOK, Onward
  <2> QED
    BY <1>1, <2>1, <2>5, HandlesQuiet DEF RInv, Launching
<1> QED
  BY <1>2, <1>3

LEMMA RemoveHandles ==
    ASSUME RInv, IInv', NEW a \in Agent, Remove(a)
    PROVE  Handles'
<1>1. /\ task[a].pc = "remove" /\ holder = a /\ Calm
      /\ UNCHANGED tracked /\ Onward /\ HandlesHeld /\ filled' \subseteq filled
  BY DEF Onward, HandlesHeld, Remove, Continues, Calm, memVars, lifeVars
<1>2. \/ Raises(a) \/ Done(a)
      \/ Keep(a, At(a, "again")) \/ Keep(a, At(a, "next"))
  BY DEF Remove
<1>3. \/ \E t : MovesFree(a, t)
      \/ MovesFree(a, Idle) \/ MovesFree(a, At(a, "again")) \/ MovesFree(a, At(a, "next"))
  BY <1>2, AtType, IdleType, RaisesFree DEF MovesFree, Done, Free, RInv, IInv, Pcs
<1>4. PICK t : MovesFree(a, t)
  BY <1>3
<1> QED
  BY <1>1, <1>4, HandlesFree DEF RInv, MovesFree

\* A request, a round of a loop or its end: one task moves, nothing else.
LEMMA TaskOnlyHandles ==
    ASSUME RInv, IInv', NEW a \in Agent, NEW t, Await(a, t) \/ Keep(a, t),
           t.pc \in Free, task[a].pc # "spawn", holder \in {a, Nil},
           UNCHANGED <<rowVars, memVars, osVars, lifeVars>>
    PROVE  Handles'
<1>1. Calm /\ UNCHANGED <<filled, tracked>> /\ Onward /\ HandlesHeld
  BY DEF Onward, HandlesHeld, Calm, rowVars, memVars, osVars, lifeVars
<1> QED
  BY <1>1, HandlesFree DEF RInv

LEMMA RequestHandles ==
    ASSUME RInv, IInv', NEW a \in Client,
           (\E r \in Rec : RequestStop(a, r) \/ RequestDelete(a, r)) \/ RequestDeleteAll(a)
    PROVE  Handles'
<1>1. /\ Request(a) /\ UNCHANGED <<rowVars, memVars, osVars, lifeVars>>
      /\ \/ \E r \in Rec, op \in {"stop", "delete"} :
               Keep(a, [Idle EXCEPT !.pc = op, !.op = op, !.rec = r])
         \/ Keep(a, [Idle EXCEPT !.pc = "next", !.op = "sweep", !.todo = Listed])
  BY DEF RequestStop, RequestDelete, RequestDeleteAll
<1>2. task[a].pc # "spawn" /\ holder = Nil /\ a \in Agent
  BY <1>1, IdleType DEF Request, Agent
<1>3. \E t : t.pc \in Free /\ (Await(a, t) \/ Keep(a, t))
  <2>1. ASSUME NEW r \in Rec, NEW op \in {"stop", "delete"},
               Keep(a, [Idle EXCEPT !.pc = op, !.op = op, !.rec = r])
        PROVE  \E t : t.pc \in Free /\ Keep(a, t)
    <3> DEFINE t == [Idle EXCEPT !.pc = op, !.op = op, !.rec = r]
    <3>1. Keep(a, t) /\ t.pc \in Free
      BY <2>1 DEF Idle, Free
    <3> HIDE DEF t
    <3> QED
      BY <3>1
  <2>2. ASSUME Keep(a, [Idle EXCEPT !.pc = "next", !.op = "sweep", !.todo = Listed])
        PROVE  \E t : t.pc \in Free /\ Keep(a, t)
    <3> DEFINE t == [Idle EXCEPT !.pc = "next", !.op = "sweep", !.todo = Listed]
    <3>1. Keep(a, t) /\ t.pc \in Free
      BY <2>2 DEF Idle, Free
    <3> HIDE DEF t
    <3> QED
      BY <3>1
  <2> QED
    BY <1>1, <2>1, <2>2
<1> QED
  BY <1>1, <1>2, <1>3, TaskOnlyHandles

LEMMA CleanupHandles ==
    ASSUME RInv, IInv', NEW old, CleanupPass(old)
    PROVE  Handles'
<1>1. task[Janitor].pc # "spawn" /\ holder = Nil /\ Janitor \in Agent
      /\ UNCHANGED <<rowVars, memVars, osVars, lifeVars>>
  BY DEF CleanupPass, Idle, Agent
<1>2. \E t : t.pc \in Free /\ (Await(Janitor, t) \/ Keep(Janitor, t))
  <2> DEFINE t == [Idle EXCEPT !.pc = "next", !.op = "sweep", !.todo = old]
  <2>1. Keep(Janitor, t) /\ t.pc \in Free
    BY DEF CleanupPass, Idle, Free
  <2> HIDE DEF t
  <2> QED
    BY <2>1
<1> QED
  BY <1>1, <1>2, TaskOnlyHandles

LEMMA LoopHandles ==
    ASSUME RInv, IInv', NEW a \in Agent, NextRound(a) \/ SweepDone(a)
    PROVE  Handles'
<1>1. task[a].pc = "next" /\ holder = a
      /\ UNCHANGED <<rowVars, memVars, osVars, lifeVars>>
  BY DEF NextRound, SweepDone, Continues
<1>2. \E t : t.pc \in Free /\ (Await(a, t) \/ Keep(a, t))
  <2>1. CASE NextRound(a)
    <3>1. PICK r \in task[a].todo :
            Keep(a, [task[a] EXCEPT
                       !.pc = IF task[a].op = "sweep" THEN "delete" ELSE "stop",
                       !.rec = r, !.todo = @ \ {r}])
      BY <2>1 DEF NextRound
    <3> DEFINE t == [task[a] EXCEPT
                       !.pc = IF task[a].op = "sweep" THEN "delete" ELSE "stop",
                       !.rec = r, !.todo = @ \ {r}]
    <3>2. Keep(a, t) /\ t.pc \in {"delete", "stop"}
      BY <3>1 DEF RInv, IInv, TypeOK, Task
    <3> HIDE DEF t
    <3> QED
      BY <3>2 DEF Free
  <2>2. CASE SweepDone(a)
    BY <2>2, IdleType DEF SweepDone, Done, Free
  <2> QED
    BY <2>1, <2>2
<1> QED
  BY <1>1, <1>2, TaskOnlyHandles

LEMMA ShutdownBeginHandles ==
    ASSUME RInv, IInv', ShutdownBegin
    PROVE  Handles'
<1> DEFINE gone == IF task[Janitor].pc \in {"quit", "term"} THEN {task[Janitor].rec} ELSE {}
           t    == [Idle EXCEPT !.pc = "next", !.op = "shutdown", !.todo = tracked \ gone]
<1>1. /\ tracked' = tracked \ gone /\ ff' = ff /\ boot' = boot /\ filled' = filled
      /\ task' = [task EXCEPT ![Janitor] = Idle, ![Closer] = t] /\ holder = Nil
      /\ phase = "up"
  BY DEF ShutdownBegin, rowVars, osVars
<1>2. t.pc = "next" /\ Idle.pc = "idle"
  BY DEF Idle
<1>3. \A r \in gone : ff[r] # "running"
  BY DEF RInv, Handles, PlacesOK, PlaceOK, Ended, Agent
<1> HIDE DEF t, gone
<1>4. \A b \in Agent : task'[b] = task[b] \/ task'[b].pc \in {"next", "idle"}
  BY <1>1, <1>2 DEF RInv, IInv, TypeOK
<1>5. \A b \in Client : task'[b] = task[b]
  BY <1>1, ConstantsAssumption DEF RInv, IInv, TypeOK, Agent
<1>6. Apart'
  BY <1>4 DEF RInv, Handles, Apart, Launching
<1>7. PlacesOK'
  <2> SUFFICES ASSUME NEW b \in Agent PROVE PlaceOK(b)'
    BY DEF PlacesOK
  <2>1. PlaceOK(b) /\ task[b].pc # "remove"
    BY <1>1, ConstantsAssumption DEF RInv, Handles, PlacesOK, PlaceOK, Agent
  <2>2. CASE task'[b] = task[b]
    BY <1>1, <2>1, <2>2 DEF PlaceOK, Ended
  <2>3. CASE task'[b].pc \in {"next", "idle"}
    BY <2>3 DEF PlaceOK
  <2> QED
    BY <1>4, <2>2, <2>3
<1>8. Created'
  BY <1>1 DEF RInv, Handles, Created
<1>9. NoUntrackedRecorder'
  <2> SUFFICES ASSUME NEW r \in Rec, ff'[r] = "running", r > boot', r \notin tracked'
               PROVE  Spawning(r)'
    BY DEF NoUntrackedRecorder
  <2>1. r \notin tracked
    BY <1>1, <1>3
  <2>2. Spawning(r)
    BY <1>1, <2>1 DEF RInv, Handles, NoUntrackedRecorder
  <2> QED
    BY <1>5, <2>2 DEF Spawning
<1> QED
  BY <1>6, <1>7, <1>8, <1>9 DEF Handles

LEMMA ShutdownDoneHandles ==
    ASSUME RInv, IInv', ShutdownDone
    PROVE  Handles'
<1>1. /\ task[Closer].pc = "next" /\ holder = Closer /\ Closer \in Agent
      /\ Await(Closer, Idle) /\ Calm /\ UNCHANGED filled /\ Onward /\ HandlesHeld
      /\ tracked' \subseteq tracked
  BY DEF Onward, HandlesHeld, ShutdownDone, Continues, Done, Calm, rowVars, osVars, Agent
<1> QED
  BY <1>1, IdleType, HandlesFree DEF RInv, Free

\* A start that is cancelled takes its process with it.
LEMMA CancelHandlerHandles ==
    ASSUME RInv, IInv', NEW a \in Client, CancelHandler(a)
    PROVE  Handles'
<1> DEFINE r == task[a].rec
<1> a \in Agent
  BY DEF Agent
<1>1. /\ task[a].pc \in AboutRec /\ holder = Nil /\ task' = [task EXCEPT ![a] = Idle]
      /\ UNCHANGED filled /\ Onward
  BY DEF CancelHandler, Done, Await, Onward, lifeVars, AboutRec, Pcs
<1>2. r \in Rec /\ PlaceOK(a)
  BY <1>1, RecOf DEF RInv, Handles, PlacesOK
<1>3. Calm
  <2>1. UNCHANGED ff \/ SignalProcess(r, "killed")
    BY DEF CancelHandler
  <2> QED
    BY <2>1, SignalsCalm DEF RInv
<1>4. task[a].pc = "spawn" => ff'[r] # "running"
  <2> SUFFICES ASSUME task[a].pc = "spawn" PROVE ff'[r] # "running"
    OBVIOUS
  <2>1. SignalProcess(r, "killed")
    BY DEF CancelHandler
  <2> QED
    BY <1>2, <2>1 DEF SignalProcess, Alive, RInv, IInv, TypeOK, Ffmpeg
<1>5. tracked' \subseteq tracked /\ HandlesHeld
  <2>1. CASE UNCHANGED <<tracked, monitor>>
    BY <2>1 DEF HandlesHeld
  <2>2. CASE task[a].pc \in {"quit", "term"} /\ tracked' = tracked \ {r}
    BY <1>2, <1>3, <2>2 DEF PlaceOK, Ended, Calm, HandlesHeld
  <2> QED
    BY <2>1, <2>2 DEF CancelHandler
<1>6. PlaceOK(a)' /\ Idle.pc \notin Launching
  BY <1>1, IdleType DEF PlaceOK, Launching, RInv, IInv, TypeOK
<1> QED
  BY <1>1, <1>3, <1>4, <1>5, <1>6, HandlesMove DEF RInv

\* What ran before the restart belongs to an earlier server.
LEMMA RestartHandles ==
    ASSUME RInv, IInv', Restart
    PROVE  Handles'
<1>1. /\ \A a \in Agent : task'[a].pc = "idle"
      /\ tracked' = {} /\ boot' = started /\ filled' = filled
  BY IdleType DEF Restart, rowVars
<1>2. Calm
  BY DEF Restart, Calm, Alive, RInv, IInv, TypeOK
<1>3. Apart' /\ PlacesOK'
  BY <1>1 DEF Apart, PlacesOK, PlaceOK, Launching
<1>4. Created'
  BY <1>1, <1>2 DEF RInv, Handles, Created, Calm, IInv, TypeOK
<1>5. NoUntrackedRecorder'
  BY <1>1, <1>2 DEF NoUntrackedRecorder, Calm, RInv, IInv, Unclaimed
<1> QED
  BY <1>3, <1>4, <1>5 DEF Handles

LEMMA StutterHandles ==
    ASSUME RInv, IInv', UNCHANGED vars
    PROVE  Handles'
<1>1. UNCHANGED <<task, holder, filled, tracked>> /\ Onward /\ HandlesHeld /\ Calm
  BY DEF Onward, HandlesHeld, vars, rowVars, memVars, osVars, lifeVars, Calm
<1> QED
  BY <1>1, HandlesNoTask DEF RInv

-----------------------------------------------------------------------------
(* The table and the dictionaries.                                         *)

\* A step that marks no row 'recording' and leaves those that are watched so
\* keeps the rows in order.
LEMMA RowsStay ==
    ASSUME IInv, IInv', Rows, boot' = boot, phase' = "up" => phase = "up",
           filled' \subseteq filled, \A r \in filled' : status'[r] # "none",
           \A r \in Rec : status'[r] = "recording" =>
             status[r] = "recording" /\ (r \in filled => r \in filled'),
           \A r \in Rec : status'[r] = "recording" /\ phase' = "up" /\ Watched(r) => Watched(r)'
    PROVE  Rows'
<1>1. (filled \subseteq Present)'
  BY DEF Present, IInv, TypeOK
<1>2. RowsFilled'
  BY DEF Rows, RowsFilled
<1>3. RowsWatched'
  BY DEF Rows, RowsWatched
<1> QED
  BY <1>1, <1>2, <1>3 DEF Rows

LEMMA FinalStatus ==
    ASSUME IInv, NEW r, NEW s \in Finished, SetStatus(r, s)
    PROVE  \A x \in Rec : /\ status'[x] = "recording" => status[x] = "recording" /\ x # r
                          /\ status[x] # "none" => status'[x] # "none"
BY DEF SetStatus, Finished, IInv, TypeOK

\* The final status of r was written, or the write raised.
Closes(r) == (\E s \in Finished : Written(r, s)) \/ NotWritten(r)

LEMMA ClosesRow ==
    ASSUME IInv, NEW r, Closes(r)
    PROVE  \A x \in Rec : /\ status'[x] = "recording" => status[x] = "recording"
                          /\ status[x] # "none" => status'[x] # "none"
                          /\ status'[x] = "recording" /\ x = r => x \in lost'
                          /\ x # r => (x \in lost' <=> x \in lost)
<1>1. CASE NotWritten(r)
  BY <1>1 DEF NotWritten
<1>2. ASSUME NEW s \in Finished, Written(r, s)
      PROVE  \A x \in Rec : /\ status'[x] = "recording" => status[x] = "recording" /\ x # r
                            /\ status[x] # "none" => status'[x] # "none"
                            /\ x # r => (x \in lost' <=> x \in lost)
  BY <1>2, FinalStatus DEF Written
<1> QED
  BY <1>1, <1>2 DEF Closes

\* The row r is closed, or its closing was lost; the dictionaries may lose r
\* when its process has been told to end.
LEMMA RowsClose ==
    ASSUME RInv, IInv', NEW r, UNCHANGED <<filled, boot, phase>>, Calm, Closes(r),
           tracked \ {r} \subseteq tracked', monitor \ {r} \subseteq monitor',
           \/ r \in tracked \cap monitor => r \in tracked' \cap monitor'
           \/ ff'[r] # "running"
    PROVE  Rows'
<1>1. \A x \in filled' : status'[x] # "none"
  BY ClosesRow DEF RInv, Rows, Present
<1>2. ASSUME NEW x \in Rec, status'[x] = "recording", Watched(x)
      PROVE  Watched(x)'
  <2>1. CASE x = r
    BY <1>2, <2>1, ClosesRow DEF RInv, Watched, Calm
  <2>2. CASE x # r
    BY <1>2, <2>2, ClosesRow DEF RInv, Watched, Calm
  <2> QED
    BY <2>1, <2>2
<1>3. \A x \in Rec : status'[x] = "recording" => status[x] = "recording"
  BY ClosesRow DEF RInv
<1> QED
  BY <1>1, <1>2, <1>3, RowsStay DEF RInv

LEMMA RowsIdle ==
    ASSUME RInv, IInv', UNCHANGED <<rowVars, memVars, boot>>, phase' = "up" => phase = "up",
           \A r \in filled : ff'[r] = "running" => ff[r] = "running"
    PROVE  Rows'
<1>1. UNCHANGED <<filled, status, tracked, monitor, lost>>
  BY DEF rowVars, memVars
<1>2. \A r \in filled' : status'[r] # "none"
  BY <1>1 DEF RInv, Rows, Present
<1>3. ASSUME NEW r \in Rec, status'[r] = "recording", Watched(r)
      PROVE  Watched(r)'
  <2>1. r \in filled
    BY <1>1, <1>3 DEF RInv, Rows, RowsFilled
  <2> QED
    BY <1>1, <1>3, <2>1 DEF Watched
<1> QED
  BY <1>1, <1>2, <1>3, RowsStay DEF RInv

\* Calm is more than RowsIdle asks.
LEMMA RowsCalm ==
    ASSUME RInv, IInv', UNCHANGED <<rowVars, memVars, boot>>, phase' = "up" => phase = "up",
           Calm
    PROVE  Rows'
BY RowsIdle DEF Calm, RInv, IInv, TypeOK

LEMMA BeginRows ==
    ASSUME RInv, IInv', NEW a, NEW op, NEW u, Begin(a, op, u)
    PROVE  Rows'
<1>1. CASE UNCHANGED <<rowVars, memVars, osVars, lifeVars>>
  BY <1>1, RowsCalm DEF lifeVars, osVars, Calm
<1>2. CASE /\ status' = [status EXCEPT ![started + 1] = "starting"]
           /\ UNCHANGED <<filled, memVars, osVars, lifeVars>>
  <2>1. /\ UNCHANGED <<filled, tracked, monitor, lost, ff, boot, phase>>
        /\ \A r \in Rec : status'[r] \in {status[r], "starting"}
    BY <1>2 DEF memVars, osVars, lifeVars, RInv, IInv, TypeOK
  <2>2. \A r \in filled' : status'[r] # "none"
    BY <2>1 DEF RInv, Rows, Present
  <2>3. \A r \in Rec : Watched(r) => Watched(r)'
    BY <2>1 DEF Watched
  <2> QED
    BY <2>1, <2>2, <2>3, RowsStay DEF RInv
<1> QED
  BY <1>1, <1>2 DEF Begin

LEMMA StartAgainRows ==
    ASSUME RInv, IInv', NEW a, StartAgain(a)
    PROVE  Rows'
<1>1. CASE Begin(a, "retry", task[a].url)
  BY <1>1, BeginRows
<1>2. CASE UNCHANGED <<rowVars, memVars, osVars, lifeVars>>
  BY <1>2, RowsCalm DEF lifeVars, osVars, Calm
<1> QED
  BY <1>1, <1>2 DEF StartAgain

\* The row of a process that is only being created has no pid yet, so it does
\* not say 'recording'.
LEMMA ForkRows ==
    ASSUME RInv, IInv', NEW a \in Agent, NEW p \in Pid, Fork(a, p)
    PROVE  Rows'
<1> DEFINE q == task[a].rec
<1>1. task[a].pc \in {"fork", "prepare"} /\ ff' = [ff EXCEPT ![q] = "running"]
      /\ UNCHANGED <<rowVars, memVars, lifeVars>>
  BY DEF Fork, Continues, Resumes
<1>2. ff[q] = "none"
  BY <1>1 DEF RInv, Handles, PlacesOK, PlaceOK
<1>3. q \notin filled
  BY <1>2 DEF RInv, Handles, Created
<1>4. \A r \in filled : ff'[r] = "running" => ff[r] = "running"
  BY <1>1, <1>3 DEF RInv, IInv, TypeOK
<1> QED
  BY <1>1, <1>4, RowsIdle DEF lifeVars

\* The row and both dictionaries change together, with no await between.
LEMMA RegisterRows ==
    ASSUME RInv, IInv', NEW a \in Agent, Register(a)
    PROVE  Rows'
<1> DEFINE r == task[a].rec
<1>1. /\ tracked' = tracked \cup {r} /\ monitor' = monitor \cup {r}
      /\ MarkRecording(r) /\ UNCHANGED <<boot, phase, lost, ff>>
  BY DEF Register, lifeVars, osVars
<1>2. \A x \in Rec \ {r} : status'[x] = status[x]
  BY <1>1 DEF MarkRecording, RInv, IInv, TypeOK
<1>3. r \in filled' => status'[r] # "none"
  BY <1>1 DEF MarkRecording, RInv, IInv, TypeOK, Rows, Present
<1>4. filled \subseteq filled' /\ filled' \subseteq filled \cup {r}
  BY <1>1 DEF MarkRecording
<1>5. (filled \subseteq Present)'
  BY <1>2, <1>3, <1>4 DEF RInv, Rows, Present, IInv, TypeOK
<1>6. RowsFilled'
  BY <1>1, <1>2, <1>4 DEF RInv, Rows, RowsFilled, MarkRecording
<1>7. RowsWatched'
  <2>0. r \in tracked' \cap monitor' /\ UNCHANGED <<lost, ff>>
        /\ tracked \subseteq tracked' /\ monitor \subseteq monitor'
    BY <1>1
  <2> HIDE DEF r
  <2>1. ASSUME NEW x \in Rec, x = r PROVE Watched(x)'
    BY <2>0, <2>1 DEF Watched
  <2>2. ASSUME NEW x \in Rec, Watched(x) PROVE Watched(x)'
    BY <2>0, <2>2 DEF Watched
  <2>3. \A x \in Rec : status'[x] = status[x] \/ x = r
    BY <1>2
  <2>4. boot' = boot /\ phase' = phase
    BY <1>1
  <2>5. RowsWatched
    BY DEF RInv, Rows
  <2>6. ASSUME NEW x \in Rec, phase' = "up", status'[x] = "recording", x > boot'
        PROVE  Watched(x)'
    <3>1. CASE x = r
      BY <2>1, <3>1
    <3>2. CASE x # r
      <4>1. status[x] = "recording" /\ phase = "up" /\ x > boot
        BY <2>3, <2>4, <2>6, <3>2
      <4>2. Watched(x)
        BY <2>5, <4>1 DEF RowsWatched
      <4> QED
        BY <2>2, <4>2
    <3> QED
      BY <3>1, <3>2
  <2> QED
    BY <2>6 DEF RowsWatched
<1> QED
  BY <1>5, <1>6, <1>7 DEF Rows

\* A stop holds a process that was told to end, so the dictionaries may lose it.
LEMMA SettleRows ==
    ASSUME RInv, IInv', NEW a \in Agent, StopExited(a) \/ StopDrainFails(a) \/ StopKills(a)
    PROVE  Rows'
<1> DEFINE r == task[a].rec
<1>1. /\ task[a].pc \in {"quit", "term"} /\ Settle(a)
      /\ UNCHANGED ff \/ \E s \in {"asked", "killed"} : SignalProcess(r, s)
  BY DEF StopExited, StopDrainFails, StopKills, Resumes
<1>2. /\ tracked' = tracked \ {r} /\ monitor' = monitor \ {r}
      /\ UNCHANGED <<filled, boot, phase>> /\ Closes(r)
  BY <1>1 DEF Settle, lifeVars, StopEnds, Closes, Finished
<1>3. r \in Rec /\ Ended(r)
  BY <1>1, RecOf DEF RInv, AboutRec, Pcs, Handles, PlacesOK, PlaceOK
<1>4. Calm
  BY <1>1, SignalsCalm DEF RInv
<1>5. ff'[r] # "running"
  BY <1>3, <1>4 DEF Calm, Ended
<1> HIDE DEF r
<1> QED
  BY <1>2, <1>4, <1>5, RowsClose

\* The other ends of a stop lose nothing from the dictionaries.
LEMMA StopRows ==
    ASSUME RInv, IInv', NEW a \in Agent, Stop(a) \/ StopPidDone(a)
    PROVE  Rows'
<1> DEFINE r == task[a].rec
<1>1. UNCHANGED <<filled, tracked, monitor, boot, phase>>
  BY DEF Stop, StopPidDone, lifeVars
<1>2. Calm
  <2>1. \/ UNCHANGED ff
        \/ \E s \in {"asked", "killed"} : SignalProcess(r, s) \/ SignalPid(r, s)
    BY DEF Stop, StopPidDone
  <2> QED
    BY <2>1, SignalsCalm DEF RInv
<1>3. CASE StopEnds(a)
  <2>1. Closes(r)
    BY <1>3 DEF StopEnds, Closes, Finished
  <2> HIDE DEF r
  <2> QED
    BY <1>1, <1>2, <2>1, RowsClose
<1>4. CASE UNCHANGED <<status, lost>>
  <2>1. \A x \in filled' : status'[x] # "none"
    BY <1>1, <1>4 DEF RInv, Rows, Present
  <2>2. \A x \in Rec : Watched(x) => Watched(x)'
    BY <1>1, <1>2, <1>4 DEF Watched, Calm
  <2> QED
    BY <1>1, <1>4, <2>1, <2>2, RowsStay DEF RInv
<1> QED
  BY <1>3, <1>4 DEF Stop, StopPidDone

LEMMA RemoveRows ==
    ASSUME RInv, IInv', NEW a \in Agent, Remove(a)
    PROVE  Rows'
<1> DEFINE r == task[a].rec
<1>1. UNCHANGED <<tracked, monitor, ff, boot, phase>>
  BY DEF Remove, lifeVars
<1>2. CASE /\ status' = [status EXCEPT ![r] = "none"] /\ filled' = filled \ {r}
           /\ lost' = lost \ {r}
  <2>1. /\ \A x \in Rec \ {r} : status'[x] = status[x]
        /\ \A x \in Rec : status'[x] = "recording" => status[x] = "recording" /\ x # r
    BY <1>2 DEF RInv, IInv, TypeOK
  <2>2. \A x \in filled' : status'[x] # "none"
    BY <1>2, <2>1 DEF RInv, Rows, Present
  <2>3. \A x \in Rec \ {r} : Watched(x) => Watched(x)'
    BY <1>1, <1>2 DEF Watched
  <2> QED
    BY <1>1, <1>2, <2>1, <2>2, <2>3, RowsStay DEF RInv
<1>3. CASE UNCHANGED <<status, filled, lost>>
  <2>1. \A x \in filled' : status'[x] # "none"
    BY <1>3 DEF RInv, Rows, Present
  <2>2. \A x \in Rec : Watched(x) => Watched(x)'
    BY <1>1, <1>3 DEF Watched
  <2> QED
    BY <1>1, <1>3, <2>1, <2>2, RowsStay DEF RInv
<1> QED
  BY <1>2, <1>3 DEF Remove

\* A start that fails closes its row; only its process may be tracked anew.
LEMMA StartFailsRows ==
    ASSUME RInv, IInv', NEW a \in Agent, ForkFails(a) \/ RegisterDbFault(a)
    PROVE  Rows'
<1> DEFINE r == task[a].rec
<1>1. /\ UNCHANGED <<filled, monitor, boot, phase, ff>> /\ tracked \subseteq tracked'
      /\ StartFails(a)
  BY DEF ForkFails, RegisterDbFault, lifeVars, osVars
<1>2. Closes(r) /\ Calm
  BY <1>1 DEF StartFails, Closes, Finished, Calm
<1> HIDE DEF r
<1> QED
  BY <1>1, <1>2, RowsClose

LEMMA StepRows ==
    ASSUME RInv, IInv', NEW a \in Agent, Step(a)
    PROVE  Rows'
<1>1. CASE StartAgain(a)
  BY <1>1, StartAgainRows
<1>2. CASE Lookup(a) \/ Delete(a) \/ NextRound(a) \/ SweepDone(a)
  BY <1>2, RowsCalm DEF Lookup, Delete, NextRound, SweepDone, lifeVars, osVars, Calm
<1>3. CASE StopEscalates(a)
  <2>1. Calm /\ UNCHANGED <<rowVars, memVars, lifeVars>>
    BY <1>3, SignalsCalm DEF StopEscalates, RInv
  <2> QED
    BY <2>1, RowsCalm DEF lifeVars
<1> QED
  BY <1>1, <1>2, <1>3, ForkRows, RegisterRows, StartFailsRows, SettleRows, StopRows,
     RemoveRows DEF Step

\* The monitor of a process that has ended drops it, noted or not.
LEMMA MonitorRows ==
    ASSUME RInv, IInv', NEW r \in Rec, Monitor(r)
    PROVE  Rows'
<1>1. /\ UNCHANGED <<filled, boot, phase, ff>> /\ tracked' = tracked \ {r}
      /\ monitor' = monitor \ {r} /\ ff'[r] # "running" /\ Calm
  BY DEF Monitor, lifeVars, osVars, Calm
<1>2. CASE r \in tracked
  <2>1. Closes(r)
    BY <1>2 DEF Monitor, Closes, Finished
  <2> QED
    BY <1>1, <2>1, RowsClose
<1>3. CASE r \notin tracked
  <2>1. status' = status /\ lost' = lost
    BY <1>3 DEF Monitor
  <2>2. \A x \in filled' : status'[x] # "none"
    BY <1>1, <2>1 DEF RInv, Rows, Present
  <2>3. \A x \in Rec : Watched(x) => Watched(x)'
    BY <1>1, <1>3, <2>1 DEF Watched
  <2> QED
    BY <1>1, <2>1, <2>2, <2>3, RowsStay DEF RInv
<1> QED
  BY <1>2, <1>3

LEMMA CancelHandlerRows ==
    ASSUME RInv, IInv', NEW a \in Client, CancelHandler(a)
    PROVE  Rows'
<1>1. UNCHANGED <<filled, boot, phase>> /\ phase = "draining"
  BY DEF CancelHandler, lifeVars
<1>2. Closes(task[a].rec) \/ UNCHANGED status
  BY DEF CancelHandler, Closes, Finished
<1>3. \A x \in Rec : /\ status[x] # "none" => status'[x] # "none"
                     /\ status'[x] = "recording" => status[x] = "recording"
  BY <1>2, ClosesRow DEF RInv
<1>4. \A x \in filled' : status'[x] # "none"
  BY <1>1, <1>3 DEF RInv, Rows, Present
<1> QED
  BY <1>1, <1>3, <1>4, RowsStay DEF RInv

LEMMA ShutdownRows ==
    ASSUME RInv, IInv', ShutdownBegin \/ ShutdownDone
    PROVE  Rows'
<1>1. UNCHANGED <<filled, status, boot>> /\ phase' # "up"
  BY DEF ShutdownBegin, ShutdownDone, rowVars
<1>2. \A x \in filled' : status'[x] # "none"
  BY <1>1 DEF RInv, Rows, Present
<1> QED
  BY <1>1, <1>2, RowsStay DEF RInv

LEMMA RestartRows ==
    ASSUME RInv, IInv', Restart
    PROVE  Rows'
<1>1. UNCHANGED <<filled, status>> /\ boot' = started
  BY DEF Restart, rowVars
<1>2. (filled \subseteq Present)' /\ RowsFilled'
  BY <1>1 DEF RInv, Rows, Present, RowsFilled
<1>3. RowsWatched'
  BY <1>1 DEF RowsWatched, RInv, IInv, Unclaimed
<1> QED
  BY <1>2, <1>3 DEF Rows

LEMMA RequestRows ==
    ASSUME RInv, IInv', NEW a \in Client, ClientStep(a)
    PROVE  Rows'
<1>1. CASE \E u \in Url, op \in {"post", "record"} : Start(a, op, u)
  BY <1>1, BeginRows DEF Start
<1>2. CASE (\E r \in Rec : RequestStop(a, r) \/ RequestDelete(a, r)) \/ RequestDeleteAll(a)
  BY <1>2, RowsCalm
     DEF RequestStop, RequestDelete, RequestDeleteAll, lifeVars, osVars, Calm
<1> QED
  BY <1>1, <1>2 DEF ClientStep

LEMMA SystemRows ==
    ASSUME RInv, IInv',
           (\E old \in SUBSET Aging : CleanupPass(old)) \/ Environment \/ UNCHANGED vars
    PROVE  Rows'
<1>1. UNCHANGED <<rowVars, memVars, boot, phase>>
  BY DEF CleanupPass, Environment, FfmpegWrites, FfmpegExits, ForeignProcess, vars, lifeVars
<1>2. \A r \in Rec : ff'[r] = "running" => ff[r] = "running"
  BY DEF CleanupPass, Environment, FfmpegWrites, FfmpegExits, ForeignProcess, vars, osVars,
         RInv, IInv, TypeOK
<1> QED
  BY <1>1, <1>2, RowsIdle DEF RInv, IInv, TypeOK

LEMMA NextKeepsRInv == RInv /\ [Next]_vars => RInv'
<1> SUFFICES ASSUME RInv, [Next]_vars PROVE RInv'
  OBVIOUS
<1>1. IInv'
  BY NextKeepsIInv DEF RInv
<1>2. ASSUME NEW a \in Client, ClientStep(a) PROVE Handles' /\ Rows'
  BY <1>1, <1>2, StartHandles, RequestHandles, RequestRows DEF ClientStep
<1>3. ASSUME NEW a \in Agent, Step(a) PROVE Handles' /\ Rows'
  BY <1>1, <1>3, StepRows, StartAgainHandles, ForkHandles, ForkFailsHandles,
     RegisterHandles, LookupHandles, StopHandles, StopWaitsHandles,
     StopEscalatesHandles, StopPidDoneHandles, DeleteHandles, RemoveHandles,
     LoopHandles DEF Step
<1>4. ASSUME NEW a \in Client, CancelHandler(a) PROVE Handles' /\ Rows'
  BY <1>1, <1>4, CancelHandlerHandles, CancelHandlerRows
<1>5. ASSUME NEW r \in Rec, Monitor(r) PROVE Handles' /\ Rows'
  BY <1>1, <1>5, MonitorHandles, MonitorRows
<1>6. ASSUME ShutdownBegin \/ ShutdownDone \/ Restart PROVE Handles' /\ Rows'
  BY <1>1, <1>6, ShutdownBeginHandles, ShutdownDoneHandles, RestartHandles, ShutdownRows,
     RestartRows
<1>7. ASSUME (\E old \in SUBSET Aging : CleanupPass(old)) \/ Environment \/ UNCHANGED vars
      PROVE  Handles' /\ Rows'
  BY <1>1, <1>7, CleanupHandles, SystemHandles, StutterHandles, SystemRows
<1>8. Handles' /\ Rows'
  BY <1>2, <1>3, <1>4, <1>5, <1>6, <1>7 DEF Next
<1> QED
  BY <1>1, <1>8 DEF RInv

-----------------------------------------------------------------------------
(* No recorder is lost.                                                    *)

\* What a coroutine holds across an await stays a handle: starts own their ids, stops
\* hold processes that end, removals touch no file of a live one.
THEOREM RecorderInvariant == Spec => []RInv
BY InitRInv, NextKeepsRInv, PTL DEF Spec

\* No path of start, stop, monitor, delete or shutdown loses the handle on an
\* ffmpeg that this server started and nobody has told to stop.
THEOREM NoRecorderLost == Spec => []NoUntrackedRecorder
<1>1. RInv => NoUntrackedRecorder
  BY DEF RInv, Handles
<1> QED
  BY <1>1, RecorderInvariant, PTL

\* While the server is up every row it marked 'recording' has its process and
\* its monitor, whatever stops, deletions and cancellations come between; and
\* when the write that was to end the row raised instead, its recorder has
\* ended or been told to, so no failed write leaves a live one unwatched.
THEOREM RecordingsAreMonitored == Spec => []RecordingRowMonitored
<1>1. RInv => RecordingRowMonitored
  BY DEF RInv, Rows, RowsWatched, Watched, RecordingRowMonitored
<1> QED
  BY <1>1, RecorderInvariant, PTL

LEMMA OnlyRemoveRemoves ==
    ASSUME RInv, [Next]_vars, NEW r \in Rec, file[r] = "present", file'[r] = "removed"
    PROVE  \E a \in Agent : Remove(a)
<1>1. file' # file
  OBVIOUS
<1>2. ASSUME NEW a \in Client, ClientStep(a) PROVE FALSE
  BY <1>1, <1>2 DEF ClientStep, Start, Begin, RequestStop, RequestDelete, RequestDeleteAll,
     osVars
<1>3. ASSUME NEW a \in Agent, Step(a), ~Remove(a) PROVE FALSE
  BY <1>1, <1>3 DEF Step, StartAgain, Begin, Fork, ForkFails, Register, RegisterDbFault,
     Lookup, Stop, StopExited, StopDrainFails, StopEscalates, StopKills, StopPidDone,
     Settle, Delete, NextRound, SweepDone, osVars
<1>4. ASSUME NEW a \in Client, CancelHandler(a) PROVE FALSE
  BY <1>1, <1>4 DEF CancelHandler
<1>5. ASSUME NEW x \in Rec, Monitor(x) PROVE FALSE
  BY <1>1, <1>5 DEF Monitor, osVars
<1>6. ~(\E old \in SUBSET Aging : CleanupPass(old))
  BY <1>1 DEF CleanupPass, osVars
<1>7. ~ShutdownBegin /\ ~ShutdownDone /\ ~Restart /\ ~UNCHANGED vars
  BY <1>1 DEF ShutdownBegin, ShutdownDone, Restart, vars, osVars
<1>8. ~Environment
  <2>1. ASSUME NEW x \in Rec, FfmpegWrites(x) PROVE FALSE
    BY <2>1 DEF FfmpegWrites, RInv, IInv, TypeOK
  <2>2. ~(\E x \in Rec : FfmpegExits(x)) /\ ~(\E p \in ForeignPid : ForeignProcess(p))
    BY <1>1 DEF FfmpegExits, ForeignProcess
  <2> QED
    BY <2>1, <2>2 DEF Environment
<1> QED
  BY <1>2, <1>3, <1>4, <1>5, <1>6, <1>7, <1>8 DEF Next

\* Deletion, the retry of /record and the cleanup loop never pull the file
\* from under a recorder this server still runs.
THEOREM FilesOutliveRecorders == Spec => NoRemovalUnderRecorder
<1>1. ASSUME RInv, [Next]_vars, NEW r \in Rec, file[r] = "present", file'[r] = "removed",
             r > boot, phase # "draining"
      PROVE  ff[r] # "running"
  <2>1. PICK a \in Agent : Remove(a)
    BY <1>1, OnlyRemoveRemoves
  <2>2. r = task[a].rec /\ r \in filled /\ task[a].pc = "remove"
    BY <1>1, <2>1 DEF Remove, Continues, RInv, IInv, TypeOK
  <2>3. phase = "draining" \/ r <= boot \/ r \notin filled \/ ff[r] # "running"
    BY <1>1, <2>2 DEF RInv, Handles, PlacesOK, PlaceOK
  <2> QED
    BY <1>1, <2>2, <2>3 DEF RInv, IInv, TypeOK, Rec
<1>2. RInv /\ [Next]_vars =>
        [\A r \in Rec : /\ file[r] = "present" /\ file'[r] = "removed" /\ r > boot
                        /\ phase # "draining"
                        => ff[r] # "running"]_vars
  BY <1>1
<1> QED
  BY <1>2, RecorderInvariant, PTL DEF Spec, NoRemovalUnderRecorder

-----------------------------------------------------------------------------
(* Every step of the server is one of five steps of the table.             *)

TableStays == UNCHANGED <<status, urlOf, started>>

RowClaimed(u) ==
    /\ u \in Url /\ ~Taken(u) /\ started + 1 \in Rec
    /\ status' = [status EXCEPT ![started + 1] = "starting"]
    /\ urlOf' = [urlOf EXCEPT ![started + 1] = u]
    /\ started' = started + 1

RowMoves(r, from, to) ==
    /\ status[r] \in from
    /\ status' = [status EXCEPT ![r] = to]
    /\ UNCHANGED <<urlOf, started>>

RowStep ==
    \/ TableStays
    \/ \E u \in Url : RowClaimed(u)
    \/ \E r \in Claimed :
         \/ RowMoves(r, {"starting"}, "recording")
         \/ \E s \in Finished : RowMoves(r, Status \ {"none"}, s)
         \/ RowMoves(r, Status, "none")

LEMMA SetStatusIsRowStep ==
    ASSUME IInv, NEW r \in Claimed, NEW s \in Finished, SetStatus(r, s),
           UNCHANGED <<urlOf, started>>
    PROVE  RowStep
BY ClaimedInRec DEF IInv, TypeOK, SetStatus, RowStep, TableStays, RowMoves

\* A final status that is written, or not
LEMMA ClosingIsRowStep ==
    ASSUME IInv, NEW r \in Claimed, NEW s \in Finished, Written(r, s) \/ NotWritten(r),
           UNCHANGED <<urlOf, started>>
    PROVE  RowStep
BY SetStatusIsRowStep DEF Written, NotWritten, RowStep, TableStays

LEMMA BeginIsRowStep ==
    ASSUME IInv, NEW a, NEW op, NEW u \in Url, Begin(a, op, u)
    PROVE  RowStep
<1>1. CASE Taken(u)
  BY <1>1 DEF Begin, RowStep, TableStays, rowVars
<1>2. CASE ~Taken(u)
  <2>1. started + 1 \in Rec
    BY <1>2, ConstantsAssumption DEF Begin, IInv, TypeOK, Rec
  <2> QED
    BY <1>2, <2>1 DEF Begin, RowStep, RowClaimed
<1> QED
  BY <1>1, <1>2

LEMMA StepIsRowStep ==
    ASSUME IInv, NEW a \in Agent, Step(a)
    PROVE  RowStep
<1> DEFINE r == task[a].rec
<1>1. task[a].pc \in AboutRec => r \in Claimed
  BY DEF IInv, TasksOK, TaskOK
<1>2. CASE StartAgain(a)
  <2>1. task[a].url \in Url
    BY <1>2 DEF StartAgain, Continues, IInv, TasksOK, TaskOK
  <2> QED
    BY <1>2, <2>1, BeginIsRowStep DEF StartAgain, RowStep, TableStays, rowVars
<1>3. CASE (\E p \in Pid : Fork(a, p)) \/ Lookup(a) \/ StopEscalates(a) \/ Delete(a)
           \/ NextRound(a) \/ SweepDone(a)
  BY <1>3 DEF Fork, Lookup, StopEscalates, Delete, NextRound, SweepDone, RowStep, TableStays,
              rowVars
<1>4. CASE ForkFails(a) \/ RegisterDbFault(a)
  BY <1>1, <1>4, ClosingIsRowStep
     DEF ForkFails, RegisterDbFault, StartFails, Continues, Resumes, AboutRec, Pcs, Finished
<1>5. CASE Register(a)
  BY <1>1, <1>5 DEF Register, Resumes, MarkRecording, AboutRec, Pcs, RowStep, TableStays,
                    RowMoves
<1>6. CASE Stop(a)
  <2>1. r \in Claimed /\ UNCHANGED <<urlOf, started>>
    BY <1>1, <1>6 DEF Stop, Continues, AboutRec, Pcs
  <2>2. CASE StopEnds(a)
    BY <2>1, <2>2, ClosingIsRowStep DEF StopEnds, Finished
  <2>3. CASE UNCHANGED status
    BY <2>1, <2>3 DEF RowStep, TableStays
  <2> QED
    BY <1>6, <2>2, <2>3 DEF Stop
<1>7. CASE StopExited(a) \/ StopDrainFails(a) \/ StopKills(a) \/ StopPidDone(a)
  <2>1. r \in Claimed
    BY <1>1, <1>7 DEF StopExited, StopDrainFails, StopKills, StopPidDone, Resumes,
                      AboutRec, Pcs
  <2>2. /\ Written(r, "stopped") \/ NotWritten(r)
        /\ UNCHANGED <<urlOf, started>>
    BY <1>7 DEF StopExited, StopDrainFails, StopKills, StopPidDone, Settle, StopEnds
  <2> QED
    BY <2>1, <2>2, ClosingIsRowStep DEF Finished
<1>8. CASE Remove(a)
  <2>1. r \in Claimed /\ r \in Rec
    BY <1>1, <1>8, ClaimedInRec DEF Remove, Continues, AboutRec, Pcs, IInv, TypeOK
  <2>2. status[r] \in Status
    BY <2>1 DEF IInv, TypeOK
  <2>3. RowMoves(r, Status, "none") \/ TableStays
    BY <1>8, <2>2 DEF Remove, RowMoves, TableStays
  <2> QED
    BY <2>1, <2>3 DEF RowStep
<1> QED
  BY <1>2, <1>3, <1>4, <1>5, <1>6, <1>7, <1>8 DEF Step

LEMMA NextIsRowStep ==
    ASSUME IInv, [Next]_vars
    PROVE  RowStep
<1>1. ASSUME NEW a \in Client, ClientStep(a) PROVE RowStep
  BY <1>1, BeginIsRowStep
     DEF ClientStep, Start, RequestStop, RequestDelete, RequestDeleteAll, RowStep,
         TableStays, rowVars
<1>2. ASSUME NEW a \in Client, CancelHandler(a) PROVE RowStep
  <2>1. a \in Agent /\ UNCHANGED <<urlOf, started>>
    BY <1>2 DEF Agent, CancelHandler
  <2>2. CASE UNCHANGED status
    BY <2>1, <2>2 DEF RowStep, TableStays
  <2>3. CASE /\ task[a].pc \in {"prepare", "spawn"}
             /\ Written(task[a].rec, "failed") \/ NotWritten(task[a].rec)
    <3>1. task[a].rec \in Claimed
      BY <2>1, <2>3 DEF IInv, TasksOK, TaskOK, AboutRec, Pcs
    <3> QED
      BY <2>1, <2>3, <3>1, ClosingIsRowStep DEF Finished
  <2> QED
    BY <1>2, <2>2, <2>3 DEF CancelHandler
<1>3. ASSUME NEW r \in Rec, Monitor(r) PROVE RowStep
  <2>1. UNCHANGED <<urlOf, started>>
    BY <1>3 DEF Monitor
  <2>2. CASE r \in tracked
    <3>1. r \in Claimed /\ \E s \in Finished : Written(r, s) \/ NotWritten(r)
      BY <1>3, <2>2 DEF Monitor, IInv, Unclaimed, Finished
    <3> QED
      BY <2>1, <3>1, ClosingIsRowStep
  <2>3. CASE r \notin tracked
    BY <1>3, <2>1, <2>3 DEF Monitor, RowStep, TableStays
  <2> QED
    BY <2>2, <2>3
<1>4. CASE (\E old \in SUBSET Aging : CleanupPass(old)) \/ ShutdownBegin \/ ShutdownDone
           \/ Restart \/ Environment \/ UNCHANGED vars
  BY <1>4 DEF CleanupPass, ShutdownBegin, ShutdownDone, Restart, Environment,
              FfmpegWrites, FfmpegExits, ForeignProcess, RowStep, TableStays, rowVars, vars
<1> QED
  BY <1>1, <1>2, <1>3, <1>4, StepIsRowStep DEF Next

-----------------------------------------------------------------------------
(* A row that has ended stays ended.                                       *)

\* No late write of a start, a stop or a monitor makes a finished or deleted
\* recording active again.
THEOREM FinishedIsFinal == Spec => FinishedStaysFinished
<1>1. ASSUME IInv, RowStep, NEW r \in Rec, r <= started, status[r] \notin Active
      PROVE  status'[r] \notin Active
  <2>1. CASE TableStays
    BY <1>1, <2>1 DEF TableStays
  <2>2. ASSUME NEW u \in Url, RowClaimed(u) PROVE status'[r] = status[r]
    BY <1>1, <2>2, ConstantsAssumption DEF RowClaimed, IInv, TypeOK, Rec
  <2>3. ASSUME NEW q \in Claimed, NEW from, NEW s, RowMoves(q, from, s),
               from = {"starting"} \/ s \in Finished \cup {"none"}
        PROVE  status'[r] \notin Active
    BY <1>1, <2>3 DEF RowMoves, Active, Finished, IInv, TypeOK
  <2> QED
    BY <1>1, <2>1, <2>2, <2>3 DEF RowStep
<1>2. IInv /\ [Next]_vars =>
        [\A r \in Rec : r <= started /\ status[r] \notin Active
                        => status'[r] \notin Active]_vars
  BY <1>1, NextIsRowStep
<1> QED
  BY <1>2, Invariant, PTL DEF Spec, FinishedStaysFinished

-----------------------------------------------------------------------------
(* The table implements the ledger.                                        *)

LEMMA LifeOf ==
    ASSUME NEW r
    PROVE  /\ status[r] = "none" => Life(r) = IF r > started THEN "none" ELSE "gone"
           /\ status[r] = "starting" => Life(r) = "claimed"
           /\ status[r] = "recording" => Life(r) = "live"
           /\ status[r] \in Finished => Life(r) = "over"
BY DEF Life, Finished

Lives == [r \in Rec |-> Life(r)]

LEMMA LifeHeld ==
    ASSUME IInv, NEW r \in Rec
    PROVE  Life(r) \in {"claimed", "live"} <=> status[r] \in Active
BY LifeOf DEF IInv, TypeOK, Status, Active, Finished

\* One row changes: the lives of the others do not.
LEMMA OneLifeChanges ==
    ASSUME IInv, NEW r \in Rec, NEW s \in Status, status' = [status EXCEPT ![r] = s],
           started' = started \/ (r = started + 1 /\ started' = r)
    PROVE  Lives' = [Lives EXCEPT ![r] = Life(r)']
<1>1. ASSUME NEW x \in Rec, x # r PROVE Life(x)' = Life(x)
  <2>1. status'[x] = status[x] /\ (x > started' <=> x > started)
    BY <1>1, ConstantsAssumption DEF IInv, TypeOK, Rec
  <2> QED
    BY <2>1 DEF Life
<1> QED
  BY <1>1 DEF Lives

LEMMA RowStepIsLedgerStep ==
    ASSUME IInv, IInv', RowStep
    PROVE  [Ledger!Next]_(Ledger!vars)
<1>1. CASE TableStays
  <2>1. Lives' = Lives
    BY <1>1 DEF TableStays, Lives, Life
  <2> QED
    BY <1>1, <2>1 DEF TableStays, Ledger!vars, Lives
<1>2. ASSUME NEW u \in Url, RowClaimed(u) PROVE Ledger!Next
  <2>1. PICK r \in Rec : r = started + 1
    BY <1>2 DEF RowClaimed
  <2>2. status[r] = "none" /\ r > started
    BY <2>1, ConstantsAssumption DEF IInv, TypeOK, Unclaimed, Rec
  <2>3. Lives[r] = "none"
    BY <2>2, LifeOf DEF Lives
  <2>4. \A s \in Rec : ~(Lives[s] \in {"claimed", "live"} /\ urlOf[s] = u)
    BY <1>2, LifeHeld DEF RowClaimed, Taken, Lives
  <2>5. /\ status' = [status EXCEPT ![r] = "starting"] /\ started' = r
        /\ urlOf' = [urlOf EXCEPT ![r] = u]
    BY <1>2, <2>1 DEF RowClaimed
  <2>6. Life(r)' = "claimed"
    BY <2>5 DEF Life, IInv, TypeOK
  <2>7. Lives' = [Lives EXCEPT ![r] = "claimed"]
    BY <2>1, <2>5, <2>6, OneLifeChanges DEF Status
  <2>8. Ledger!Claim(r, u)
    BY <2>3, <2>4, <2>5, <2>7 DEF Lives, Ledger!Claim, Ledger!Held
  <2> QED
    BY <2>8 DEF Ledger!Next
<1>3. ASSUME NEW r \in Claimed, NEW from, NEW s \in Status, RowMoves(r, from, s)
      PROVE  /\ r \in Rec /\ UNCHANGED urlOf
             /\ Lives[r] = Life(r)
             /\ Lives' = [Lives EXCEPT ![r] = Life(r)']
             /\ (status[r])' = s /\ r <= started'
  <2>1. r \in Rec /\ r <= started
    BY <1>3, ConstantsAssumption DEF Claimed, Rec, IInv, TypeOK
  <2> QED
    BY <1>3, <2>1, OneLifeChanges DEF RowMoves, Lives, IInv, TypeOK
<1>4. ASSUME NEW r \in Claimed, RowMoves(r, {"starting"}, "recording")
      PROVE  Ledger!Next
  <2>1. Lives[r] = "claimed" /\ Life(r)' = "live"
    BY <1>3, <1>4, LifeOf DEF RowMoves, Life, Status
  <2>2. Ledger!GoLive(r) /\ r \in Rec
    BY <1>3, <1>4, <2>1 DEF Ledger!GoLive, Ledger!Advance, Lives, Status
  <2> QED
    BY <2>2 DEF Ledger!Next
<1>5. ASSUME NEW r \in Claimed, NEW s \in Finished, RowMoves(r, Status \ {"none"}, s)
      PROVE  [Ledger!Next]_(Ledger!vars)
  <2>1. Life(r)' = "over" /\ Lives[r] \in {"claimed", "live", "over"}
    BY <1>3, <1>5, LifeOf DEF RowMoves, Life, Status, Finished
  <2>2. r \in Rec /\ UNCHANGED urlOf /\ Lives' = [Lives EXCEPT ![r] = "over"]
    BY <1>3, <1>5, <2>1 DEF Status, Finished
  <2>3. CASE Lives[r] = "over"
    BY <2>2, <2>3 DEF Ledger!vars, Lives
  <2>4. CASE Lives[r] \in {"claimed", "live"}
    <3>1. Ledger!End(r)
      BY <2>2, <2>4 DEF Ledger!End, Ledger!Advance, Ledger!Held, Lives
    <3> QED
      BY <2>2, <3>1 DEF Ledger!Next
  <2> QED
    BY <2>1, <2>3, <2>4
<1>6. ASSUME NEW r \in Claimed, RowMoves(r, Status, "none")
      PROVE  [Ledger!Next]_(Ledger!vars)
  <2>1. r \in Rec /\ r <= started /\ started' = started
    BY <1>3, <1>6 DEF RowMoves, Status
  <2>2. Life(r)' = "gone"
    <3>1. status'[r] = "none" /\ ~(r > started')
      BY <1>3, <1>6, <2>1, ConstantsAssumption DEF Status, Claimed, Rec, IInv, TypeOK
    <3> QED
      BY <3>1 DEF Life
  <2>3. UNCHANGED urlOf /\ Lives' = [Lives EXCEPT ![r] = "gone"]
    BY <1>3, <1>6, <2>2 DEF Status
  <2>4. Lives[r] \in {"claimed", "live", "over", "gone"}
    <3>1. status[r] \in Status /\ ~(r > started)
      BY <2>1, ConstantsAssumption DEF IInv, TypeOK, Rec
    <3>2. Life(r) \in {"claimed", "live", "over", "gone"}
      BY <3>1, LifeOf DEF Status, Finished
    <3> QED
      BY <1>3, <1>6, <3>2 DEF Status
  <2>5. CASE Lives[r] = "gone"
    BY <2>1, <2>3, <2>5 DEF Ledger!vars, Lives
  <2>6. CASE Lives[r] # "gone"
    <3>1. Ledger!Erase(r)
      BY <2>1, <2>3, <2>4, <2>6 DEF Ledger!Erase, Ledger!Advance, Lives
    <3> QED
      BY <2>1, <3>1 DEF Ledger!Next
  <2> QED
    BY <2>5, <2>6
<1> QED
  BY <1>1, <1>2, <1>4, <1>5, <1>6 DEF RowStep

\* The table, with all its writers and through every restart, implements the
\* ledger: one life per id, and one holder per URL.
THEOREM Refinement == Spec => ImplementsLedger
<1>1. Init => Ledger!Init
  <2> SUFFICES ASSUME Init PROVE Ledger!Init
    OBVIOUS
  <2>1. ASSUME NEW r \in Rec PROVE Life(r) = "none"
    BY LifeOf, ConstantsAssumption DEF Init, Rec
  <2> QED
    BY <2>1 DEF Init, Ledger!Init
<1>2. IInv /\ IInv' /\ [Next]_vars => [Ledger!Next]_(Ledger!vars)
  BY NextIsRowStep, RowStepIsLedgerStep
<1> QED
  BY <1>1, <1>2, Invariant, PTL DEF Spec, ImplementsLedger, Ledger!Spec
=============================================================================
