----------------------------- MODULE TorClient -----------------------------
(***************************************************************************)
(* The local Tor client of EasyProxy (services/tor_proxy.py,               *)
(* routes/tor_proxy.py): one tor process, its torrc, the stored exit       *)
(* selection, the keepalive loop and the panel.  Only _start and stop take *)
(* the lock; restart, the pinning of an exit and its roll back are built   *)
(* from them, with the lock free in between.                               *)
(*                                                                         *)
(* A coroutine is the sequence of steps it still has to run ("plan"): the  *)
(* calls of restart and of the pinning are laid out flat, and "swallow",   *)
(* "rollback" mark the end of a try block.  A TorError drops the steps up  *)
(* to the nearest mark.                                                    *)
(***************************************************************************)
EXTENDS Integers, FiniteSets, Sequences

CONSTANTS
    TPid,     \* pids for tor processes
    TKeeper,  \* the task running keepalive_loop
    TPanel,   \* admin requests
    TMaxOp,   \* admin operations in a run (bound)
    TMaxFault,\* crashes and failures of tor (bound)
    TFile,    \* what imported configurations say of Tor (a sample of all of them)
    TNil

ASSUME TorAssumption ==
    /\ TNil \notin TPid \cup TPanel \cup {TKeeper} /\ TKeeper \notin TPanel
    /\ TMaxOp \in Nat /\ TMaxFault \in Nat

TAgent == {TKeeper} \cup TPanel

\* What ExitNodes holds: nothing, a country set, or the fingerprint of a relay.
Selection == {"none", "country", "relay"}

ASSUME FileAssumption == TFile \subseteq [enabled : BOOLEAN, nodes : Selection, country : BOOLEAN]

TorStep == {"stop", "start", "autopin", "keep", "pin", "lookup", "swallow", "rollback"}
Restart == <<"stop", "start", "autopin">>
Start   == <<"start", "autopin">>

VARIABLES
    tEnabled,   \* tor_enabled in the config store
    tNodes,     \* tor_exit_nodes
    tCountry,   \* whether tor_exit_country holds a preference
    tExclude,   \* whether _exclude_nodes names a relay
    tProc,      \* tProc[p]: "none", "booting", "up" or "ending"
    tRc,        \* the ExitNodes written to torrc, as the last tor started read it
    tHandle,    \* _process: a pid (perhaps of a process that has died), or TNil
    tLock,      \* who holds _lock
    tTask,      \* each coroutine
    tForeign,   \* a tor of an earlier container still holds ports or data
    tOps,       \* operations so far
    tFaults,    \* faults so far
    tMet        \* history, since the panel last stopped Tor alone: a stop met
                \* another coroutine, or an import put the flag off and left Tor up

torVars == <<tEnabled, tNodes, tCountry, tExclude, tProc, tRc, tHandle, tLock, tTask,
             tForeign, tOps, tFaults, tMet>>
torStore == <<tEnabled, tNodes, tCountry, tExclude>>
torOs    == <<tProc, tRc, tForeign>>

\* at is "" between steps, "boot" or "stale" inside _start, "term" while it or
\* stop waits for the end of process pid; fail: a TorError follows that wait.
TIdle == [op |-> "none", plan |-> <<>>, at |-> "", pid |-> TNil, fail |-> FALSE,
          nodes |-> "none", country |-> FALSE]

TorOp == {"none", "keep", "start", "stop", "restart", "bind", "apply", "newid"}

\* Types, and: only who holds the lock is inside _start or stop.
TorTypeOK ==
    /\ tEnabled \in BOOLEAN /\ tNodes \in Selection
    /\ tCountry \in BOOLEAN /\ tExclude \in BOOLEAN
    /\ tProc \in [TPid -> {"none", "booting", "up", "ending"}] /\ tRc \in Selection
    /\ tHandle \in TPid \cup {TNil} /\ tLock \in TAgent \cup {TNil}
    /\ \A a \in TAgent :
         /\ tTask[a].op \in TorOp /\ tTask[a].at \in {"", "boot", "stale", "term"}
         /\ tTask[a].plan \in Seq(TorStep) /\ tTask[a].pid \in TPid \cup {TNil}
         /\ tTask[a].fail \in BOOLEAN
         /\ tTask[a].nodes \in Selection /\ tTask[a].country \in BOOLEAN
         /\ tTask[a].at # "" => tLock = a
    /\ tForeign \in BOOLEAN /\ tMet \in BOOLEAN
    /\ tOps \in 0 .. TMaxOp /\ tFaults \in 0 .. TMaxFault

TorInit ==
    /\ tEnabled \in BOOLEAN /\ tNodes \in Selection /\ tCountry \in BOOLEAN
    /\ tExclude = FALSE
    /\ tProc = [p \in TPid |-> "none"] /\ tRc = "none"
    /\ tHandle = TNil /\ tLock = TNil /\ tTask = [a \in TAgent |-> TIdle]
    /\ tForeign \in BOOLEAN /\ tOps = 0 /\ tFaults = 0 /\ tMet = FALSE

-----------------------------------------------------------------------------
(* Coroutines.                                                             *)

Alive == tHandle # TNil /\ tProc[tHandle] # "none"        \* _pid() is not None
Busy(a) == tTask[a] # TIdle
Ready(a, step) == tTask[a].at = "" /\ tTask[a].plan # <<>> /\ Head(tTask[a].plan) = step

\* The coroutine's record with this plan; with none left it has ended.
Left(t, plan) == IF plan = <<>> THEN TIdle ELSE [t EXCEPT !.plan = plan, !.at = "", !.pid = TNil, !.fail = FALSE]
Proceed(a) == tTask' = [tTask EXCEPT ![a] = Left(@, Tail(@.plan))]

\* A TorError: the steps before the nearest mark are dropped.  The "finally"
\* of _pin_country_exit ("lookup" not reached) clears the excluded relay.
Marks(plan) == {i \in DOMAIN plan : plan[i] \in {"swallow", "rollback"}}
Nearest(plan) == CHOOSE i \in Marks(plan) : \A j \in Marks(plan) : i <= j
Dropped(plan) == IF Marks(plan) = {} THEN plan ELSE SubSeq(plan, 1, Nearest(plan) - 1)
Unexcludes(plan) == \E i \in DOMAIN Dropped(plan) : Dropped(plan)[i] = "lookup"

Raise(a) ==
    LET plan == tTask[a].plan
        rest == IF Marks(plan) = {} THEN <<>> ELSE SubSeq(plan, Nearest(plan) + 1, Len(plan))
        rolls == Marks(plan) # {} /\ plan[Nearest(plan)] = "rollback"
    IN  /\ tExclude' = (tExclude /\ ~Unexcludes(plan))
        /\ IF rolls
           THEN /\ tNodes' = tTask[a].nodes /\ tCountry' = tTask[a].country
                /\ tTask' = [tTask EXCEPT ![a] = Left(@, Start)]
           ELSE /\ tTask' = [tTask EXCEPT ![a] = Left(@, rest)]
                /\ UNCHANGED <<tNodes, tCountry>>
        /\ UNCHANGED tEnabled

\* _pin_country_exit(exclude): the country goes to the store and the torrc, tor
\* picks a relay there, and "lookup" pins it.  _pin_current_exit looks up first.
PinCountry(a, exclude, rest) ==
    /\ tNodes' = "country" /\ tExclude' = exclude
    /\ tTask' = [tTask EXCEPT ![a].plan = Restart \o <<"lookup">> \o Restart \o rest]
    /\ UNCHANGED <<tEnabled, tCountry>>

PinDefault(a, rest) ==
    IF tCountry THEN PinCountry(a, FALSE, rest)
    ELSE /\ tTask' = [tTask EXCEPT ![a].plan = <<"pin">> \o Restart \o rest]
         /\ UNCHANGED torStore

-----------------------------------------------------------------------------
(* _start and stop, under the lock.                                        *)

\* (Pids are interchangeable: which one a new tor gets is left to CHOOSE.)
Spawn(a) ==
    \E p \in TPid :
        /\ tProc[p] = "none" /\ p = CHOOSE q \in TPid : tProc[q] = "none"
        /\ tProc' = [tProc EXCEPT ![p] = "booting"]
        /\ tHandle' = p
        /\ tTask' = [tTask EXCEPT ![a].at = "boot", ![a].pid = p]

\* A process that is alive is taken as started; otherwise torrc is written from
\* the store and verified, and tor is launched.
StartBegins(a) ==
    /\ Ready(a, "start") /\ tLock = TNil
    /\ IF Alive THEN Proceed(a) /\ UNCHANGED <<tProc, tRc, tHandle, tLock>>
                ELSE Spawn(a) /\ tRc' = tNodes /\ tLock' = a
    /\ UNCHANGED <<torStore, tForeign, tOps, tFaults, tMet>>

\* tor is missing, or torrc cannot be written or verified.
StartRefused(a) ==
    /\ Ready(a, "start") /\ tLock = TNil /\ ~Alive /\ tFaults < TMaxFault
    /\ tHandle' = TNil /\ tFaults' = tFaults + 1
    /\ Raise(a)
    /\ UNCHANGED <<torOs, tLock, tOps, tMet>>

\* Bootstrapped, and the control port answers with our pid.
StartReady(a) ==
    /\ tTask[a].at = "boot" /\ tProc[tTask[a].pid] = "up"
    /\ tLock' = TNil
    /\ Proceed(a)
    /\ UNCHANGED <<torStore, torOs, tHandle, tOps, tFaults, tMet>>

\* tor exited: because an earlier instance holds the ports or the data, which
\* _terminate_stale_tor then ends, or for a reason of its own.
StartExited(a) ==
    /\ tTask[a].at = "boot" /\ tProc[tTask[a].pid] = "none"
    /\ tHandle' = TNil
    /\ IF tForeign
       THEN /\ tTask' = [tTask EXCEPT ![a].at = "stale", ![a].pid = TNil]
            /\ UNCHANGED <<torStore, tLock>>
       ELSE Raise(a) /\ tLock' = TNil
    /\ UNCHANGED <<torOs, tOps, tFaults, tMet>>

StaleTerminated(a) ==
    /\ tTask[a].at = "stale"
    /\ tForeign' = FALSE
    /\ Spawn(a)
    /\ UNCHANGED <<torStore, tRc, tLock, tOps, tFaults, tMet>>

\* Mutants of StartTimesOut: the lock is given up before the process has ended;
\* the process is left to itself.
StartTimesOutUnlocks(a) ==
    /\ tTask[a].at = "boot" /\ tProc[tTask[a].pid] = "booting" /\ tFaults < TMaxFault
    /\ tFaults' = tFaults + 1
    /\ tHandle' = TNil /\ tLock' = TNil
    /\ tProc' = [tProc EXCEPT ![tTask[a].pid] = "ending"]
    /\ tTask' = [tTask EXCEPT ![a].at = "term", ![a].fail = TRUE]
    /\ UNCHANGED <<torStore, tRc, tForeign, tOps, tMet>>
StartTimesOutLeaks(a) ==
    /\ tTask[a].at = "boot" /\ tProc[tTask[a].pid] = "booting" /\ tFaults < TMaxFault
    /\ tFaults' = tFaults + 1
    /\ tHandle' = TNil /\ tLock' = TNil
    /\ Raise(a)
    /\ UNCHANGED <<torOs, tOps, tMet>>

\* TOR_BOOTSTRAP_TIMEOUT: the half started process is ended before the error.
StartTimesOut(a) ==
    /\ tTask[a].at = "boot" /\ tProc[tTask[a].pid] = "booting" /\ tFaults < TMaxFault
    /\ tFaults' = tFaults + 1
    /\ tHandle' = TNil
    /\ tProc' = [tProc EXCEPT ![tTask[a].pid] = "ending"]
    /\ tTask' = [tTask EXCEPT ![a].at = "term", ![a].fail = TRUE]
    /\ UNCHANGED <<torStore, tRc, tForeign, tLock, tOps, tMet>>

StopBegins(a) ==
    /\ Ready(a, "stop") /\ tLock = TNil
    /\ tHandle' = TNil
    /\ IF Alive
       THEN /\ tProc' = [tProc EXCEPT ![tHandle] = "ending"]
            /\ tTask' = [tTask EXCEPT ![a].at = "term", ![a].pid = tHandle]
            /\ tLock' = a
       ELSE Proceed(a) /\ UNCHANGED <<tProc, tLock>>
    /\ UNCHANGED <<torStore, tRc, tForeign, tOps, tFaults, tMet>>

\* _terminate waits for the process, killed after ten seconds.
Terminated(a) ==
    /\ tTask[a].at = "term" /\ tProc[tTask[a].pid] = "none"
    /\ tLock' = TNil
    /\ IF tTask[a].fail THEN Raise(a) ELSE Proceed(a) /\ UNCHANGED torStore
    /\ UNCHANGED <<torOs, tHandle, tOps, tFaults, tMet>>

-----------------------------------------------------------------------------
(* The other steps.                                                        *)

\* The end of start(): an exit is pinned when none is, and a failure of that
\* is only logged ("swallow").
AutoPin(a) ==
    /\ Ready(a, "autopin")
    /\ IF tNodes = "none" THEN PinDefault(a, <<"swallow">> \o Tail(tTask[a].plan))
                          ELSE Proceed(a) /\ UNCHANGED torStore
    /\ UNCHANGED <<torOs, tHandle, tLock, tOps, tFaults, tMet>>

\* The second half of ensure_running.
Keep(a) ==
    /\ Ready(a, "keep")
    /\ IF Alive /\ tNodes = "none" THEN PinDefault(a, <<"swallow">>)
                                   ELSE Proceed(a) /\ UNCHANGED torStore
    /\ UNCHANGED <<torOs, tHandle, tLock, tOps, tFaults, tMet>>

\* current_exit_fingerprint, for a country ("lookup") or as it stands ("pin"):
\* it asks the network and the control port, and fails when tor does not serve.
LookUp(a) ==
    /\ Ready(a, "lookup") \/ Ready(a, "pin")
    /\ Alive /\ tProc[tHandle] = "up"
    /\ tNodes' = "relay"
    /\ tExclude' = (tExclude /\ ~Ready(a, "lookup"))
    /\ Proceed(a)
    /\ UNCHANGED <<tEnabled, tCountry, torOs, tHandle, tLock, tOps, tFaults, tMet>>

LookUpFails(a) ==
    /\ Ready(a, "lookup") \/ Ready(a, "pin")
    /\ IF Alive /\ tProc[tHandle] = "up"
       THEN tFaults < TMaxFault /\ tFaults' = tFaults + 1
       ELSE UNCHANGED tFaults
    /\ Raise(a)
    /\ UNCHANGED <<torOs, tHandle, tLock, tOps, tMet>>

\* The end of a try block that raised nothing.
PassMark(a) ==
    /\ Ready(a, "swallow") \/ Ready(a, "rollback")
    /\ Proceed(a)
    /\ UNCHANGED <<torStore, torOs, tHandle, tLock, tOps, tFaults, tMet>>

TStep(a) ==
    \/ StartBegins(a) \/ StartReady(a) \/ StartExited(a) \/ StaleTerminated(a)
    \/ StopBegins(a) \/ Terminated(a)
    \/ AutoPin(a) \/ Keep(a) \/ LookUp(a) \/ PassMark(a)

-----------------------------------------------------------------------------
(* The callers.                                                            *)

Launch(a, op, plan) ==
    /\ tTask[a] = TIdle
    /\ tTask' = [tTask EXCEPT ![a] =
                   IF op = "apply" THEN [TIdle EXCEPT !.op = op, !.plan = plan,
                                         !.nodes = tNodes, !.country = tCountry]
                   ELSE [TIdle EXCEPT !.op = op, !.plan = plan]]
    /\ tMet' = IF op = "stop" THEN \E b \in TAgent \ {a} : Busy(b)
               ELSE tMet \/ \E b \in TAgent \ {a} : tTask[b].op = "stop"

\* Mutant of KeepaliveRound: the flag is not looked at.
KeepaliveAnyway ==
    /\ \/ ~Alive /\ Launch(TKeeper, "keep", Start \o <<"keep">>)
       \/ Alive /\ tNodes = "none" /\ Launch(TKeeper, "keep", <<"keep">>)
    /\ UNCHANGED <<torStore, torOs, tHandle, tLock, tOps, tFaults>>

KeepaliveRound ==
    /\ \/ /\ tEnabled /\ ~Alive
          /\ Launch(TKeeper, "keep", Start \o <<"keep">>)
       \/ /\ Alive /\ tNodes = "none"
          /\ Launch(TKeeper, "keep", <<"keep">>)
    /\ UNCHANGED <<torStore, torOs, tHandle, tLock, tOps, tFaults>>

PanelOp(a, op, plan) ==
    /\ tOps < TMaxOp /\ tOps' = tOps + 1
    /\ Launch(a, op, plan)
    /\ UNCHANGED <<torOs, tHandle, tLock, tFaults>>

\* The buttons start, stop and restart; a new bind address restarts an enabled
\* Tor and leaves the flag alone.
TorAction(a) ==
    /\ \/ tEnabled' = TRUE /\ PanelOp(a, "start", Start)
       \/ tEnabled' = TRUE /\ PanelOp(a, "restart", Restart)
       \/ tEnabled' = FALSE /\ PanelOp(a, "stop", <<"stop">>)
       \/ tEnabled /\ UNCHANGED tEnabled /\ PanelOp(a, "bind", Restart)
    /\ UNCHANGED <<tNodes, tCountry, tExclude>>

\* An imported configuration stores its flag and its selection and leaves tor and
\* its coroutines as they are.
Imported(file) ==
    /\ tOps < TMaxOp /\ tOps' = tOps + 1
    /\ tEnabled' = file.enabled /\ tNodes' = file.nodes /\ tCountry' = file.country
    /\ tMet' = (tMet \/ (tEnabled /\ ~file.enabled))
    /\ UNCHANGED <<tExclude, torOs, tHandle, tLock, tTask, tFaults>>

\* apply_exit_nodes of an enabled Tor: a country is pinned to a relay, anything
\* else is stored as it is; each failure rolls back.  A disabled Tor only
\* stores the selection.
ApplyExit(a, value) ==
    /\ IF tEnabled
       THEN /\ tCountry' = (value = "country")
            /\ tNodes' = value
            /\ tExclude' = IF value = "country" THEN FALSE ELSE tExclude
            /\ PanelOp(a, "apply", Restart \o (IF value = "country" THEN <<"lookup">> \o Restart ELSE <<>>)
                                            \o <<"rollback">>)
       ELSE /\ tNodes' = value /\ tOps < TMaxOp /\ tOps' = tOps + 1
            /\ UNCHANGED <<tCountry, tExclude, torOs, tHandle, tLock, tTask, tFaults, tMet>>
    /\ UNCHANGED tEnabled

\* new_identity: another relay of the country (the pinned one excluded), or the
\* release of a pinned relay.
NewIdentity(a) ==
    /\ Alive
    /\ IF tCountry
       THEN /\ tNodes' = "country" /\ tExclude' = (tNodes = "relay")
            /\ PanelOp(a, "newid", Restart \o <<"lookup">> \o Restart)
       ELSE /\ tNodes' = IF tNodes = "relay" THEN "none" ELSE tNodes
            /\ PanelOp(a, "newid", Restart) /\ UNCHANGED tExclude
    /\ UNCHANGED <<tEnabled, tCountry>>

-----------------------------------------------------------------------------
(* The tor processes.                                                      *)

TorBoots(p) ==
    /\ tProc[p] = "booting"
    /\ tProc' = [tProc EXCEPT ![p] = IF tForeign THEN "none" ELSE "up"]
    /\ UNCHANGED <<torStore, tRc, tHandle, tLock, tTask, tForeign, tOps, tFaults, tMet>>

TorEnds(p) ==
    /\ tProc[p] = "ending"
    /\ tProc' = [tProc EXCEPT ![p] = "none"]
    /\ UNCHANGED <<torStore, tRc, tHandle, tLock, tTask, tForeign, tOps, tFaults, tMet>>

TorCrashes(p) ==
    /\ tProc[p] \in {"booting", "up"} /\ tFaults < TMaxFault
    /\ tProc' = [tProc EXCEPT ![p] = "none"] /\ tFaults' = tFaults + 1
    /\ UNCHANGED <<torStore, tRc, tHandle, tLock, tTask, tForeign, tOps, tMet>>

TorNext ==
    \/ \E a \in TAgent : TStep(a) \/ StartRefused(a) \/ StartTimesOut(a) \/ LookUpFails(a)
    \/ KeepaliveRound \/ \E file \in TFile : Imported(file)
    \/ \E a \in TPanel : \/ TorAction(a) \/ NewIdentity(a)
                         \/ \E value \in Selection : ApplyExit(a, value)
    \/ \E p \in TPid : TorBoots(p) \/ TorEnds(p) \/ TorCrashes(p)

TorSpec == TorInit /\ [][TorNext]_torVars

\* Every coroutine runs on (each await has a timeout, asyncio.Lock is fair),
\* the keepalive comes round, tor boots and processes told to end do.
TorFairness ==
    /\ WF_torVars(KeepaliveRound)
    /\ \A a \in TAgent : SF_torVars(TStep(a) \/ LookUpFails(a))
    /\ WF_torVars(\E p \in TPid : TorBoots(p) \/ TorEnds(p))

TorFairSpec == TorSpec /\ TorFairness

-----------------------------------------------------------------------------
(* Properties.                                                             *)

\* _process, or the wait of the coroutine that holds the lock, is a handle on
\* every live tor, so no sequence of starts, time-outs and stops leaks one
\* (_start, stop, _terminate).
TorOneProcess ==
    \A p \in TPid : tProc[p] # "none" =>
        \/ tHandle = p
        \/ tLock # TNil /\ tTask[tLock].pid = p

\* Tor that was stopped by the panel is down once no coroutine is left, whatever
\* ran before, unless the stop met a restart or a pinning of another one, which
\* starts it again.  (A flag put off by an imported configuration leaves tor up.)
TorOffIsDown ==
    (~tEnabled /\ ~tMet /\ \A a \in TAgent : ~Busy(a)) => \A p \in TPid : tProc[p] = "none"

\* The relay excluded for a new identity is forgotten whatever fails on the way
\* (the finally of _pin_country_exit).
TorExcludeCleared == (\A a \in TAgent : ~Busy(a)) => ~tExclude

\* "keep it running": an enabled Tor comes up again after refusals, crashes,
\* time-outs and a stale instance (ensure_running).
TorRecovers == <>[]tEnabled => []<>(Alive /\ tProc[tHandle] = "up")

\* "pin its exit automatically when no pin exists yet": with Tor enabled, an
\* empty selection does not last, also when looking the relay up failed
\* before (start, ensure_running).
TorPins == (tEnabled /\ tNodes = "none") ~> (~tEnabled \/ tNodes # "none")
=============================================================================
