------------------------------ MODULE Recording ------------------------------
(***************************************************************************)
(* The DVR of EasyProxy: RecordingManager, its SQLite table, the HTTP      *)
(* handlers and the cleanup loop that call it, and the ffmpeg processes it *)
(* starts (services/recording_manager.py, services/recording_db.py,        *)
(* routes/recordings.py).                                                  *)
(*                                                                         *)
(* Everything in the server runs on one asyncio event loop: a coroutine    *)
(* keeps the loop from one await that really suspends to the next.         *)
(* "holder" names the coroutine that has the loop in the middle of such a  *)
(* stretch; another coroutine moves only when it is Nil.  A crash of the   *)
(* server may come at any point of it.  What the operating system does     *)
(* meanwhile is placed before or after the stretch: no stretch reads the   *)
(* same process or file twice, so it cannot tell.                          *)
(***************************************************************************)
EXTENDS Integers, FiniteSets

CONSTANTS
    MaxRec,      \* recording ids ever generated (bound)
    Url,         \* source URLs
    Mpd,         \* the URLs recorded as MPD: their start awaits a playlist
    Pid,         \* process ids the operating system hands out
    ForeignPid,  \* those a process that is none of ours may get (bound)
    Client,      \* HTTP requests that may be in flight together
    Janitor,     \* the task running cleanup_loop
    Closer,      \* the coroutine running shutdown()
    Delivering,  \* recordings whose source delivers, so a file appears (bound)
    Aging,       \* recordings that may outlive the retention period (bound)
    PageSize,    \* LIMIT of get_all_recordings (100 in the code)
    MaxRestart,  \* restarts of the server (bound)
    DbFaults,    \* whether a write to the table may raise sqlite3.Error (and what
                 \* the monitor does just before its write: stderr.decode())
    Nil

ASSUME ConstantsAssumption ==
    /\ MaxRec \in Nat /\ MaxRestart \in Nat /\ PageSize \in Nat
    /\ Mpd \subseteq Url /\ ForeignPid \subseteq Pid
    /\ Nil \notin Url /\ Nil \notin Pid
    /\ Janitor # Closer /\ Janitor \notin Client /\ Closer \notin Client
    /\ Nil \notin Client \cup {Janitor, Closer}
    /\ Delivering \subseteq 1 .. MaxRec /\ Aging \subseteq 1 .. MaxRec
    /\ DbFaults \in BOOLEAN

\* Ids are numbered in the order in which they are claimed, which is the
\* order of the column started_at.
Rec   == 1 .. MaxRec
Agent == Client \cup {Janitor, Closer}

Status   == {"none", "starting", "recording", "completed", "failed", "stopped"}
Active   == {"starting", "recording"}
Finished == {"completed", "failed", "stopped"}
Ffmpeg   == {"none", "running", "asked", "killed", "exit0", "exitErr"}
Alive    == {"running", "asked", "killed"}
Ops      == {"post", "record", "retry", "stop", "delete", "sweep", "shutdown"}
Pcs      == {"idle", "prepare", "fork", "spawn", "lookup", "again", "delete",
             "stop", "quit", "term", "kill", "remove", "next"}

VARIABLES
    \* the table "recordings" (durable)
    status,      \* status[r]: the column, "none" when there is no such row
    urlOf,       \* urlOf[r]: the URL the id was claimed for
    filled,      \* rows whose columns file_path and pid are set
    started,     \* the ids 1 .. started have been claimed
    \* the manager's dictionaries (volatile)
    tracked,     \* keys of self.processes
    monitor,     \* keys of self._monitor_tasks: live monitor tasks
    lost,        \* history: rows whose final status this server process could
                 \* not write when it last tried
    \* the operating system
    ff,          \* the ffmpeg process of a recording
    pidOf,       \* the pid it was given
    foreign,     \* pids held by processes that are none of ours
    file,        \* the recording's file
    \* control
    task,        \* the coroutine of each agent
    holder,      \* the agent that has the event loop between two awaits
    phase,       \* "up", "stopping" (in shutdown()), "draining" (after it)
    restarts,    \* restarts so far
    boot         \* value of "started" when this server process began

rowVars  == <<status, urlOf, filled, started>>
memVars  == <<tracked, monitor, lost>>
osVars   == <<ff, pidOf, foreign, file>>
lifeVars == <<phase, restarts, boot>>
vars     == <<rowVars, memVars, osVars, task, holder, lifeVars>>

Idle == [pc |-> "idle", op |-> "stop", rec |-> Nil, url |-> Nil, todo |-> {}]
Task == [pc : Pcs, op : Ops, rec : Rec \cup {Nil}, url : Url \cup {Nil},
         todo : SUBSET Rec]

TypeOK ==
    /\ status \in [Rec -> Status]
    /\ urlOf \in [Rec -> Url \cup {Nil}]
    /\ filled \subseteq Rec
    /\ started \in 0 .. MaxRec
    /\ tracked \subseteq Rec
    /\ monitor \subseteq Rec /\ lost \subseteq Rec
    /\ ff \in [Rec -> Ffmpeg]
    /\ pidOf \in [Rec -> Pid \cup {Nil}]
    /\ foreign \subseteq Pid
    /\ file \in [Rec -> {"none", "present", "removed"}]
    /\ task \in [Agent -> Task]
    /\ holder \in Agent \cup {Nil}
    /\ phase \in {"up", "stopping", "draining"}
    /\ restarts \in 0 .. MaxRestart
    /\ boot \in 0 .. MaxRec

Init ==
    /\ status = [r \in Rec |-> "none"]
    /\ urlOf = [r \in Rec |-> Nil]
    /\ filled = {} /\ started = 0
    /\ tracked = {} /\ monitor = {} /\ lost = {}
    /\ ff = [r \in Rec |-> "none"]
    /\ pidOf = [r \in Rec |-> Nil]
    /\ foreign = {}
    /\ file = [r \in Rec |-> "none"]
    /\ task = [a \in Agent |-> Idle]
    /\ holder = Nil
    /\ phase = "up" /\ restarts = 0 /\ boot = 0

-----------------------------------------------------------------------------
(* What the code reads.                                                    *)

Present == {r \in Rec : status[r] # "none"}

\* get_all_recordings: the newest PageSize rows
Listed == {r \in Present : Cardinality({s \in Present : s > r}) < PageSize}

\* Mutant: the index covers the status 'recording' only.
TakenByRecording(u) == \E r \in Rec : status[r] = "recording" /\ urlOf[r] = u

\* The unique index idx_recordings_active_url refuses the INSERT.
Taken(u) == \E r \in Rec : status[r] \in Active /\ urlOf[r] = u

\* psutil.pid_exists, for the pid of a row
PidRunning(r) ==
    \/ pidOf[r] \in foreign
    \/ \E s \in Rec : ff[s] \in Alive /\ pidOf[s] = pidOf[r]

FreePids == Pid \ (foreign \cup {pidOf[r] : r \in {s \in Rec : ff[s] \in Alive}})

\* _is_recording_active
IsActive(r) ==
    /\ status[r] \in Active
    /\ IF r \in filled THEN PidRunning(r)
                       ELSE status[r] = "starting" \/ r \in tracked

-----------------------------------------------------------------------------
(* The event loop.                                                         *)

\* Agent a is at pc: resumed from an await, or still holding the loop.
Resumes(a, pc)   == task[a].pc = pc /\ holder = Nil
Continues(a, pc) == task[a].pc = pc /\ holder = a

Await(a, t) == task' = [task EXCEPT ![a] = t] /\ holder' = Nil
Keep(a, t)  == task' = [task EXCEPT ![a] = t] /\ holder' = a
Done(a)     == Await(a, Idle)
At(a, pc)   == [task[a] EXCEPT !.pc = pc]

\* The server accepts a new request on an idle client slot.
Request(a) == a \in Client /\ task[a] = Idle /\ holder = Nil /\ phase = "up"

\* start_recording returned None: /record looks for the pending entry.
NotStarted(a, op, u) ==
    IF op = "record"
    THEN Keep(a, [Idle EXCEPT !.pc = "lookup", !.op = op, !.url = u])
    ELSE Done(a)

\* An exception leaves the operation: delete-all goes on with the next row,
\* shutdown() breaks off (the monitors are then cancelled with the other tasks
\* of the loop), and the rest ends (500, or cleanup_loop's except).
Raises(a) ==
    CASE a = Closer                               -> Keep(a, [At(a, "next") EXCEPT !.todo = {}])
      [] a \in Client /\ task[a].op = "sweep"      -> Keep(a, At(a, "next"))
      [] OTHER                                    -> Done(a)

\* The line after "await stop_recording(...)" in each of its callers.
AfterStop(a) ==
    CASE task[a].op = "stop"                          -> Done(a)
      [] task[a].op \in {"delete", "retry", "sweep"}  -> Keep(a, At(a, "remove"))
      [] OTHER                                        -> Keep(a, At(a, "next"))

-----------------------------------------------------------------------------
(* start_recording.                                                        *)

\* create_starting_entry, then everything up to the first suspension: an MPD
\* awaits its master playlist, any other stream goes straight to the fork.
Begin(a, op, u) ==
    \/ /\ Taken(u)
       /\ NotStarted(a, op, u)
       /\ UNCHANGED <<rowVars, memVars, osVars, lifeVars>>
    \/ /\ ~Taken(u) /\ started < MaxRec
       /\ LET r == started + 1
              t == [Idle EXCEPT !.op = op, !.rec = r, !.url = u]
          IN /\ status' = [status EXCEPT ![r] = "starting"]
             /\ urlOf' = [urlOf EXCEPT ![r] = u]
             /\ started' = r
             /\ IF u \in Mpd THEN Await(a, [t EXCEPT !.pc = "prepare"])
                             ELSE Keep(a, [t EXCEPT !.pc = "fork"])
       /\ UNCHANGED <<filled, memVars, osVars, lifeVars>>

\* POST /api/recordings/start and GET /record
Start(a, op, u) == Request(a) /\ op \in {"post", "record"} /\ Begin(a, op, u)

\* The second start_recording of GET /record, after the clean-up
StartAgain(a) ==
    /\ Continues(a, "again")
    /\ \/ Begin(a, "retry", task[a].url)
       \/ /\ started = MaxRec  \* no id left under the bound: given up
          /\ Done(a)
          /\ UNCHANGED <<rowVars, memVars, osVars, lifeVars>>

\* create_subprocess_exec: the process exists before the call suspends.
Fork(a, p) ==
    /\ Continues(a, "fork") \/ Resumes(a, "prepare")
    /\ p \in FreePids
    /\ ff' = [ff EXCEPT ![task[a].rec] = "running"]
    /\ pidOf' = [pidOf EXCEPT ![task[a].rec] = p]
    /\ Await(a, At(a, "spawn"))
    /\ UNCHANGED <<rowVars, memVars, foreign, file, lifeVars>>

\* Mutant: a failed start is marked with a word the table does not know.
SetStatusError(r, s) ==
    status' = IF status[r] = "none" THEN status
              ELSE [status EXCEPT ![r] = IF s = "failed" THEN "error" ELSE s]

\* A row that exists gets a final status whatever its status was.
SetStatus(r, s) ==
    status' = IF status[r] = "none" THEN status ELSE [status EXCEPT ![r] = s]

\* update_recording_status returned, or raised
Written(r, s) == SetStatus(r, s) /\ lost' = lost \ {r}
NotWritten(r) == DbFaults /\ UNCHANGED status /\ lost' = lost \cup {r}

\* Mutant: the exception is logged and the row is left as it was.
ForkFailsQuietly(a) ==
    /\ Continues(a, "fork") \/ Resumes(a, "prepare")
    /\ NotStarted(a, task[a].op, task[a].url)
    /\ UNCHANGED <<rowVars, memVars, osVars, lifeVars>>

\* "except Exception" of start_recording: the row is marked failed and None
\* returned, or the mark itself raises.
StartFails(a) ==
    \/ Written(task[a].rec, "failed") /\ NotStarted(a, task[a].op, task[a].url)
    \/ NotWritten(task[a].rec) /\ Raises(a)

\* Anything raised before the process exists (no ffmpeg, no such directory)
ForkFails(a) ==
    /\ Continues(a, "fork") \/ Resumes(a, "prepare")
    /\ StartFails(a)
    /\ UNCHANGED <<urlOf, filled, started, tracked, monitor, osVars, lifeVars>>

\* Mutant: UPDATE ... WHERE id = ? only
MarkAnyRow(r) ==
    IF status[r] # "none"
    THEN /\ status' = [status EXCEPT ![r] = "recording"]
         /\ filled' = filled \cup {r}
    ELSE UNCHANGED <<status, filled>>

\* create_subprocess_exec returned: UPDATE ... WHERE status = 'starting', and
\* the monitor is created whether or not a row was updated.
MarkRecording(r) ==
    IF status[r] = "starting"
    THEN /\ status' = [status EXCEPT ![r] = "recording"]
         /\ filled' = filled \cup {r}
    ELSE UNCHANGED <<status, filled>>

\* Mutant: when the row is no longer 'starting' the start returns without
\* recording the process it has just created.
RegisterIfClaimed(a) ==
    /\ Resumes(a, "spawn")
    /\ MarkRecording(task[a].rec)
    /\ IF status[task[a].rec] = "starting"
       THEN /\ tracked' = tracked \cup {task[a].rec}
            /\ monitor' = monitor \cup {task[a].rec}
       ELSE UNCHANGED <<tracked, monitor>>
    /\ Done(a)
    /\ UNCHANGED <<urlOf, started, lost, osVars, lifeVars>>

Register(a) ==
    /\ Resumes(a, "spawn")
    /\ MarkRecording(task[a].rec)
    /\ tracked' = tracked \cup {task[a].rec}
    /\ monitor' = monitor \cup {task[a].rec}
    /\ Done(a)
    /\ UNCHANGED <<urlOf, started, lost, osVars, lifeVars>>

\* The UPDATE raised (locked database): the process stays in self.processes
\* with no monitor and the row is marked failed.
RegisterDbFault(a) ==
    /\ DbFaults /\ Resumes(a, "spawn")
    /\ tracked' = tracked \cup {task[a].rec}
    /\ StartFails(a)
    /\ UNCHANGED <<urlOf, filled, started, monitor, osVars, lifeVars>>

\* GET /record after a failed start: the pending entry of the URL is deleted
\* and the start tried once more, unless the entry is active.
Lookup(a) ==
    /\ Continues(a, "lookup")
    /\ LET pending == {r \in Listed : status[r] \in Active /\ urlOf[r] = task[a].url}
       IN \/ /\ \A r \in pending : IsActive(r)
             /\ Done(a)
          \/ \E r \in pending :
               /\ ~IsActive(r)
               /\ Keep(a, [task[a] EXCEPT !.pc = "delete", !.op = "retry", !.rec = r])
    /\ UNCHANGED <<rowVars, memVars, osVars, lifeVars>>

-----------------------------------------------------------------------------
(* stop_recording.                                                         *)

\* POST .../stop, and GET /record/stop when the entry is active
RequestStop(a, r) ==
    /\ Request(a) /\ r <= started
    /\ Keep(a, [Idle EXCEPT !.pc = "stop", !.op = "stop", !.rec = r])
    /\ UNCHANGED <<rowVars, memVars, osVars, lifeVars>>

\* A signal to the process that now has the pid of r, whoever it is.
SignalPid(r, s) ==
    /\ ff' = [x \in Rec |-> IF ff[x] \in Alive \ {"killed"} /\ pidOf[x] = pidOf[r]
                            THEN s ELSE ff[x]]
    /\ foreign' = foreign \ {pidOf[r]}

\* process.write(b'q') / terminate / kill on the process object itself
SignalProcess(r, s) ==
    ff' = IF ff[r] \in Alive \ {"killed"} THEN [ff EXCEPT ![r] = s] ELSE ff

\* The end of stop_recording: the final status, then the duration and size of
\* the file; each of the two UPDATEs may raise.
StopEnds(a) ==
    \/ Written(task[a].rec, "stopped") /\ AfterStop(a)
    \/ DbFaults /\ Written(task[a].rec, "stopped") /\ Raises(a)
    \/ NotWritten(task[a].rec) /\ Raises(a)

\* The four ways into stop_recording: no row, a process of this server, a
\* live pid of an earlier server, and none of these.
Stop(a) ==
    LET r == task[a].rec
    IN /\ Continues(a, "stop")
       /\ \/ /\ status[r] = "none"
             /\ AfterStop(a)
             /\ UNCHANGED <<status, lost, ff, foreign>>
          \/ /\ status[r] # "none" /\ r \in tracked
             /\ SignalProcess(r, "asked")
             /\ Await(a, At(a, "quit"))
             /\ UNCHANGED <<status, lost, foreign>>
          \/ /\ status[r] # "none" /\ r \notin tracked
             /\ r \in filled /\ PidRunning(r)
             /\ SignalPid(r, "asked")
             /\ Await(a, At(a, "kill"))
             /\ UNCHANGED <<status, lost>>
          \/ /\ status[r] # "none" /\ r \notin tracked
             /\ ~(r \in filled /\ PidRunning(r))
             /\ StopEnds(a)
             /\ UNCHANGED <<ff, foreign>>
       /\ UNCHANGED <<urlOf, filled, started, tracked, monitor, pidOf, file, lifeVars>>

\* The finally block and what follows it
Settle(a) ==
    /\ tracked' = tracked \ {task[a].rec}
    /\ monitor' = monitor \ {task[a].rec}
    /\ StopEnds(a)
    /\ UNCHANGED <<urlOf, filled, started, pidOf, foreign, file, lifeVars>>

\* process.wait() returned within its timeout
StopExited(a) ==
    /\ Resumes(a, "quit") \/ Resumes(a, "term")
    /\ ff[task[a].rec] \notin Alive
    /\ Settle(a) /\ UNCHANGED ff

\* stdin.drain() raised (the monitor's communicate() closes stdin): SIGTERM,
\* and no wait for the exit
StopDrainFails(a) ==
    /\ Resumes(a, "quit")
    /\ SignalProcess(task[a].rec, "asked")
    /\ Settle(a)

\* 10 s without an exit: SIGTERM and 5 s more
StopEscalates(a) ==
    /\ Resumes(a, "quit") /\ ff[task[a].rec] \in Alive
    /\ SignalProcess(task[a].rec, "asked")
    /\ Await(a, At(a, "term"))
    /\ UNCHANGED <<rowVars, memVars, pidOf, foreign, file, lifeVars>>

\* 5 s more without an exit: SIGKILL, and no wait for the exit
StopKills(a) ==
    /\ Resumes(a, "term") /\ ff[task[a].rec] \in Alive
    /\ SignalProcess(task[a].rec, "killed")
    /\ Settle(a)

\* 2 s after the SIGTERM to a pid: SIGKILL if the pid is still in use
StopPidDone(a) ==
    /\ Resumes(a, "kill")
    /\ IF PidRunning(task[a].rec) THEN SignalPid(task[a].rec, "killed")
                                  ELSE UNCHANGED <<ff, foreign>>
    /\ StopEnds(a)
    /\ UNCHANGED <<urlOf, filled, started, tracked, monitor, pidOf, file, lifeVars>>

\* Mutant: the status is written for exit code 0 only.
MonitorSuccess(r) ==
    /\ r \in monitor /\ holder = Nil
    /\ ff[r] \in {"exit0", "exitErr"}
    /\ IF r \in tracked /\ ff[r] = "exit0"
       THEN Written(r, "completed") ELSE UNCHANGED <<status, lost>>
    /\ tracked' = tracked \ {r}
    /\ monitor' = monitor \ {r}
    /\ UNCHANGED <<urlOf, filled, started, osVars, task, holder, lifeVars>>

\* _monitor_recording: communicate() returned.  The final status is written,
\* or decoding stderr or the UPDATE raises; the exception is only logged and
\* the finally block drops the process and the monitor all the same.
Monitor(r) ==
    /\ r \in monitor /\ holder = Nil
    /\ ff[r] \in {"exit0", "exitErr"}
    /\ IF r \in tracked
       THEN \/ Written(r, IF ff[r] = "exit0" THEN "completed" ELSE "failed")
            \/ NotWritten(r)
       ELSE UNCHANGED <<status, lost>>
    /\ tracked' = tracked \ {r}
    /\ monitor' = monitor \ {r}
    /\ UNCHANGED <<urlOf, filled, started, osVars, task, holder, lifeVars>>

-----------------------------------------------------------------------------
(* delete_recording and the loops over several recordings.                 *)

\* DELETE /api/recordings/{id} and GET .../delete
RequestDelete(a, r) ==
    /\ Request(a) /\ r <= started
    /\ Keep(a, [Idle EXCEPT !.pc = "delete", !.op = "delete", !.rec = r])
    /\ UNCHANGED <<rowVars, memVars, osVars, lifeVars>>

\* Mutant: nothing is stopped before the row and the file are removed.
DeleteOutright(a) ==
    /\ Continues(a, "delete")
    /\ Keep(a, At(a, "remove"))
    /\ UNCHANGED <<rowVars, memVars, osVars, lifeVars>>

\* A recording of this server is stopped first, any other is not.
Delete(a) ==
    /\ Continues(a, "delete")
    /\ Keep(a, At(a, IF task[a].rec \in tracked THEN "stop" ELSE "remove"))
    /\ UNCHANGED <<rowVars, memVars, osVars, lifeVars>>

\* os.remove of the file the row names, then DELETE FROM recordings, which may
\* raise
Remove(a) ==
    LET r == task[a].rec
    IN /\ Continues(a, "remove")
       /\ file' = IF r \in filled /\ file[r] = "present"
                  THEN [file EXCEPT ![r] = "removed"] ELSE file
       /\ \/ /\ status' = [status EXCEPT ![r] = "none"]
             /\ filled' = filled \ {r} /\ lost' = lost \ {r}
             /\ CASE task[a].op = "retry" -> Keep(a, At(a, "again"))
                  [] task[a].op = "sweep" -> Keep(a, At(a, "next"))
                  [] OTHER                -> Done(a)
          \/ /\ DbFaults /\ Raises(a)
             /\ UNCHANGED <<status, filled, lost>>
       /\ UNCHANGED <<urlOf, started, tracked, monitor, ff, pidOf, foreign, lifeVars>>

\* DELETE /api/recordings/all: the rows of one page, read once
RequestDeleteAll(a) ==
    /\ Request(a) /\ Listed # {}
    /\ Keep(a, [Idle EXCEPT !.pc = "next", !.op = "sweep", !.todo = Listed])
    /\ UNCHANGED <<rowVars, memVars, osVars, lifeVars>>

\* A start of r is between its claim and its last line.
InFlight(r) == \E a \in Client : /\ task[a].pc \in {"prepare", "fork", "spawn"}
                                 /\ task[a].rec = r

\* cleanup_old_recordings: rows past the retention period that are not
\* 'recording'.  Days pass between a claim and the end of the retention, so
\* any set of such rows may be old but those whose start is still running.
CleanupPass(old) ==
    /\ task[Janitor] = Idle /\ holder = Nil /\ phase = "up"
    /\ old # {}
    /\ old \subseteq {r \in Present \cap Aging : status[r] # "recording" /\ ~InFlight(r)}
    /\ Keep(Janitor, [Idle EXCEPT !.pc = "next", !.op = "sweep", !.todo = old])
    /\ UNCHANGED <<rowVars, memVars, osVars, lifeVars>>

\* Mutant: the loop runs until nothing is left, on a list it never shortens.
NextRoundAgain(a) ==
    /\ Continues(a, "next")
    /\ \E r \in task[a].todo :
         Keep(a, [task[a] EXCEPT !.pc = IF task[a].op = "sweep" THEN "delete" ELSE "stop",
                                 !.rec = r])
    /\ UNCHANGED <<rowVars, memVars, osVars, lifeVars>>

\* The for loops of delete-all, cleanup and shutdown, one round
NextRound(a) ==
    /\ Continues(a, "next")
    /\ \E r \in task[a].todo :
         Keep(a, [task[a] EXCEPT !.pc = IF task[a].op = "sweep" THEN "delete" ELSE "stop",
                                 !.rec = r, !.todo = @ \ {r}])
    /\ UNCHANGED <<rowVars, memVars, osVars, lifeVars>>

SweepDone(a) ==
    /\ Continues(a, "next") /\ task[a].todo = {} /\ task[a].op = "sweep"
    /\ Done(a)
    /\ UNCHANGED <<rowVars, memVars, osVars, lifeVars>>

-----------------------------------------------------------------------------
(* Shutdown, crash and restart.                                            *)

\* on_shutdown: cleanup_loop is cancelled wherever it waits (a stop it was in
\* runs its finally block), and the processes to stop are listed.
ShutdownBegin ==
    /\ phase = "up" /\ holder = Nil
    /\ LET gone == IF task[Janitor].pc \in {"quit", "term"}
                   THEN {task[Janitor].rec} ELSE {}
       IN /\ tracked' = tracked \ gone
          /\ monitor' = monitor \ gone
          /\ task' = [task EXCEPT
               ![Janitor] = Idle,
               ![Closer] = [Idle EXCEPT !.pc = "next", !.op = "shutdown",
                                        !.todo = tracked \ gone]]
    /\ holder' = Closer
    /\ phase' = "stopping"
    /\ UNCHANGED <<rowVars, lost, osVars, restarts, boot>>

\* The remaining monitors are cancelled, and each drops its process in its
\* finally block; shutdown() returns.
ShutdownDone ==
    /\ Continues(Closer, "next") /\ task[Closer].todo = {}
    /\ tracked' = tracked \ monitor
    /\ monitor' = {}
    /\ phase' = "draining"
    /\ Done(Closer)
    /\ UNCHANGED <<rowVars, lost, osVars, restarts, boot>>

\* The server gives the handlers still running a while, then cancels them: a
\* start marks its row failed (asyncio kills a process it was still
\* creating), a stop runs its finally block and writes no status.
CancelHandler(a) ==
    /\ phase = "draining" /\ holder = Nil /\ a \in Client
    /\ \/ /\ task[a].pc \in {"prepare", "spawn"}
          /\ Written(task[a].rec, "failed") \/ NotWritten(task[a].rec)
          /\ IF task[a].pc = "spawn" THEN SignalProcess(task[a].rec, "killed")
                                     ELSE UNCHANGED ff
          /\ UNCHANGED <<tracked, monitor>>
       \/ /\ task[a].pc \in {"quit", "term", "kill"}
          /\ IF task[a].pc = "kill" THEN UNCHANGED <<tracked, monitor>>
             ELSE /\ tracked' = tracked \ {task[a].rec}
                  /\ monitor' = monitor \ {task[a].rec}
          /\ UNCHANGED <<status, lost, ff>>
    /\ Done(a)
    /\ UNCHANGED <<urlOf, filled, started, pidOf, foreign, file, lifeVars>>

\* The server process is gone (a crash at any point, or the end of an orderly
\* shutdown) and a new one starts: memory is lost, the table is not, and each
\* ffmpeg may survive or die with the pipes it had.
Restart ==
    /\ restarts < MaxRestart
    /\ \E dead \in SUBSET {r \in Rec : ff[r] \in Alive} :
         ff' = [r \in Rec |-> IF r \in dead THEN "exitErr" ELSE ff[r]]
    /\ tracked' = {} /\ monitor' = {} /\ lost' = {}
    /\ task' = [a \in Agent |-> Idle]
    /\ holder' = Nil
    /\ phase' = "up"
    /\ restarts' = restarts + 1
    /\ boot' = started
    /\ UNCHANGED <<rowVars, pidOf, foreign, file>>

-----------------------------------------------------------------------------
(* The operating system.                                                   *)

\* ffmpeg opens its output file once.
FfmpegWrites(r) ==
    /\ r \in Delivering
    /\ ff[r] \in {"running", "asked"} /\ file[r] = "none"
    /\ file' = [file EXCEPT ![r] = "present"]
    /\ UNCHANGED <<rowVars, memVars, ff, pidOf, foreign, task, holder, lifeVars>>

\* The duration limit or the end of the stream (0), an error or a signal
FfmpegExits(r) ==
    /\ ff[r] \in Alive
    /\ \E code \in {"exit0", "exitErr"} :
         /\ ff[r] = "killed" => code = "exitErr"
         /\ ff' = [ff EXCEPT ![r] = code]
    /\ UNCHANGED <<rowVars, memVars, pidOf, foreign, file, task, holder, lifeVars>>

ForeignProcess(p) ==
    /\ \/ p \in FreePids /\ foreign' = foreign \cup {p}
       \/ p \in foreign /\ foreign' = foreign \ {p}
    /\ UNCHANGED <<rowVars, memVars, ff, pidOf, file, task, holder, lifeVars>>

-----------------------------------------------------------------------------
ClientStep(a) ==
    \/ \E u \in Url, op \in {"post", "record"} : Start(a, op, u)
    \/ \E r \in Rec : RequestStop(a, r) \/ RequestDelete(a, r)
    \/ RequestDeleteAll(a)

\* What a coroutine does once it has begun
Step(a) ==
    \/ StartAgain(a) \/ (\E p \in Pid : Fork(a, p)) \/ ForkFails(a)
    \/ Register(a) \/ RegisterDbFault(a) \/ Lookup(a)
    \/ Stop(a) \/ StopExited(a) \/ StopDrainFails(a) \/ StopEscalates(a)
    \/ StopKills(a) \/ StopPidDone(a)
    \/ Delete(a) \/ Remove(a) \/ NextRound(a) \/ SweepDone(a)

Environment ==
    /\ holder = Nil
    /\ \/ \E r \in Rec : FfmpegWrites(r) \/ FfmpegExits(r)
       \/ \E p \in ForeignPid : ForeignProcess(p)

Next ==
    \/ \E a \in Client : ClientStep(a) \/ CancelHandler(a)
    \/ \E a \in Agent : Step(a)
    \/ \E r \in Rec : Monitor(r)
    \/ \E old \in SUBSET Aging : CleanupPass(old)
    \/ ShutdownBegin \/ ShutdownDone \/ Restart
    \/ Environment

Spec == Init /\ [][Next]_vars

\* The ready queue of the event loop is first in, first out: a coroutine that
\* can run gets its turn although others take theirs first, so its step is
\* strongly fair (between two turns "holder" disables it).  The timeouts of
\* stop_recording and of the playlist request fire.  An ffmpeg ends: at its
\* duration limit (-t is always given) if nothing else ends it.
Fairness ==
    /\ \A a \in Agent : SF_vars(Step(a))
    /\ \A r \in Rec : SF_vars(Monitor(r)) /\ SF_vars(holder = Nil /\ FfmpegExits(r))
    /\ WF_vars(ShutdownDone)

FairSpec == Spec /\ Fairness

-----------------------------------------------------------------------------
(* Properties.                                                             *)

\* The start of r has forked ffmpeg and has not registered it yet.
Spawning(r) == \E a \in Client : task[a].pc = "spawn" /\ task[a].rec = r

\* Until shutdown() has returned, an ffmpeg this server started, and that
\* nobody has told to stop, is in self.processes or about to be: no path of
\* start, stop, monitor or delete, and no failing write to the table, loses
\* the only handle on a process that still records.
NoUntrackedRecorder ==
    \A r \in Rec : phase # "draining" /\ ff[r] = "running" /\ r > boot
                   => r \in tracked \/ Spawning(r)

\* While the server is up, a row this server marked 'recording' has its
\* process and its monitor, so its end will be noticed; the one exception is
\* a row whose final status could not be written, and then its recorder has
\* ended or been told to: a failed write never leaves a live recorder
\* unwatched (start_recording, stop_recording, _monitor_recording).
RecordingRowMonitored ==
    \A r \in Rec : phase = "up" /\ status[r] = "recording" /\ r > boot
                   => \/ r \in tracked \cap monitor
                      \/ r \in lost /\ ff[r] # "running"

\* A finished or deleted recording never becomes active again, however late
\* the start, the monitor or the stop that still holds its id writes.
FinishedStaysFinished ==
    [][\A r \in Rec : r <= started /\ status[r] \notin Active
                      => status'[r] \notin Active]_vars

\* A file this program removed belonged to a recording whose recorder had
\* been told to stop, unless an earlier server process started it or shutdown()
\* has returned: deletion never pulls the file from under a recorder this
\* server still runs.
NoRemovalUnderRecorder ==
    [][\A r \in Rec : /\ file[r] = "present" /\ file'[r] = "removed" /\ r > boot
                      /\ phase # "draining"
                      => ff[r] # "running"]_vars

\* stop_recording comes back: its waits are bounded by timeouts.
StopReturns ==
    \A a \in Agent : task[a].pc \in {"quit", "term", "kill"} ~> task[a] = Idle

\* Without a restart every claimed row leaves 'starting', unless the write
\* that was to end it raised.
StartsSettle ==
    \A r \in Rec : status[r] = "starting" ~> status[r] # "starting" \/ r \in lost

\* While the server stays up every row leaves 'recording' (a start that
\* registers after shutdown() has listed its processes keeps it for good),
\* unless a write of its final status raised: nobody writes it again then.
RecordingsEnd ==
    \A r \in Rec : status[r] = "recording" ~>
                   status[r] # "recording" \/ r \in lost \/ phase # "up"

-----------------------------------------------------------------------------
(* The table implements the ledger: each row is in one stage of its life.  *)

Life(r) ==
    CASE status[r] = "none"      -> IF r > started THEN "none" ELSE "gone"
      [] status[r] = "starting"  -> "claimed"
      [] status[r] = "recording" -> "live"
      [] OTHER                   -> "over"

Ledger == INSTANCE RecordingLedger WITH life <- [r \in Rec |-> Life(r)],
                                        src <- urlOf

\* Every step of the server, of its requests and of its restarts is one step
\* of the ledger or leaves it alone: no interleaving of the writers of the
\* table takes a row back, or claims a URL that is held.
ImplementsLedger == Ledger!Spec
=============================================================================
