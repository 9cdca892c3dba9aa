---------------------------- MODULE DualResolve ----------------------------
(***************************************************************************)
(* Resolving the two sources of a DUAL playback (services/proxy_dual.py):  *)
(* each request resolves its video and its audio concurrently, and players *)
(* that poll share the resolution under way for the same source.  A request *)
(* that fails or goes away cancels what nobody else waits for.             *)
(***************************************************************************)
EXTENDS Integers, FiniteSets

CONSTANTS
    VReq,   \* requests
    VKey,   \* sources: specification and required resolution
    VTask,  \* tasks that resolve one (identities are reused)
    VNil

ASSUME ResolveAssumption == VNil \notin VTask \cup VKey /\ IsFiniteSet(VReq)

Sides == {"video", "audio"}
Caller == VReq \X Sides

VARIABLES
    vTable,  \* vTable[k]: the task in _dual_resolve_inflight, or VNil
    vTask,   \* each task: its key, state, waiter count and its done callback
    vCall,   \* each caller of _resolve_dual_spec_coalesced
    vReq     \* each request (_gather_dual_pair)

resolveVars == <<vTable, vTask, vCall, vReq>>

VFree == [k |-> VNil, pc |-> "free", count |-> 0, called |-> TRUE]
VOut  == [pc |-> "out", k |-> VNil, task |-> VNil]

Ended == {"done", "failed", "cancelled"}

\* Types, and: a caller waits for a task that exists.
ResolveTypeOK ==
    /\ vTable \in [VKey -> VTask \cup {VNil}]
    /\ vTask \in [VTask -> [k : VKey \cup {VNil}, pc : Ended \cup {"free", "run", "cancelling"},
                            count : Int, called : BOOLEAN]]
    /\ vCall \in [Caller -> [pc : {"out", "wait", "drain", "ok", "failed"},
                             k : VKey \cup {VNil}, task : VTask \cup {VNil}]]
    /\ vReq \in [VReq -> {"idle", "pair", "cancelling", "ok", "failed"}]
    /\ \A c \in Caller : vCall[c].pc \in {"wait", "drain"} =>
         vCall[c].task # VNil /\ vTask[vCall[c].task].pc # "free"

ResolveInit ==
    /\ vTable = [k \in VKey |-> VNil] /\ vTask = [t \in VTask |-> VFree]
    /\ vCall = [c \in Caller |-> VOut] /\ vReq = [q \in VReq |-> "idle"]

Waiters(t) == {c \in Caller : vCall[c].pc = "wait" /\ vCall[c].task = t}
Unused     == {t \in VTask : vTask[t].pc = "free"}

\* The tasks, without those that ended and that nobody refers to any more.
Collected(tasks, calls) ==
    [t \in VTask |->
        IF /\ tasks[t].pc \in Ended /\ tasks[t].called
           /\ \A c \in Caller : calls[c].pc \in {"wait", "drain"} => calls[c].task # t
        THEN VFree ELSE tasks[t]]

-----------------------------------------------------------------------------
(* _resolve_dual_spec_coalesced.                                           *)

\* entry is None or entry[0].done().
Joinable(k) == vTable[k] # VNil /\ vTask[vTable[k]].pc \notin Ended

\* A caller starts, in the order of the gather: it joins, or starts a task.
Join(c) ==
    /\ vReq[c[1]] = "pair" /\ vCall[c].pc = "out" /\ vCall[c].k # VNil
    /\ c[2] = "audio" => vCall[<<c[1], "video">>].pc # "out"
    /\ LET k == vCall[c].k
       IN \/ /\ Joinable(k)
             /\ vTask' = [vTask EXCEPT ![vTable[k]].count = @ + 1]
             /\ vCall' = [vCall EXCEPT ![c].pc = "wait", ![c].task = vTable[k]]
             /\ UNCHANGED vTable
          \/ /\ ~Joinable(k)
             /\ Unused # {}
             /\ LET t == CHOOSE t \in Unused : TRUE IN
                  /\ vTask' = [vTask EXCEPT ![t] = [k |-> k, pc |-> "run", count |-> 1,
                                                    called |-> FALSE]]
                  /\ vTable' = [vTable EXCEPT ![k] = t]
                  /\ vCall' = [vCall EXCEPT ![c].pc = "wait", ![c].task = t]
    /\ UNCHANGED vReq

\* _resolve_dual_spec: the extractor, the checks of its result, or an error; a
\* cancelled task ends in its next step.
TaskEnds(t) ==
    /\ \/ vTask[t].pc = "run" /\ \E pc \in {"done", "failed"} : vTask' = [vTask EXCEPT ![t].pc = pc]
       \/ vTask[t].pc = "cancelling" /\ vTask' = [vTask EXCEPT ![t].pc = "cancelled"]
    /\ UNCHANGED <<vTable, vCall, vReq>>

\* Mutant of Forgotten: whatever task is in the table is removed.
ForgottenAny(t) == [vTable EXCEPT ![vTask[t].k] = VNil]

\* _cleanup: the table forgets the task unless a newer one took its place.
Forgotten(t) == [vTable EXCEPT ![vTask[t].k] = IF @ = t THEN VNil ELSE @]

\* The done callback runs in an iteration of its own.
DoneCallback(t) ==
    /\ vTask[t].pc \in Ended /\ ~vTask[t].called
    /\ vTable' = Forgotten(t)
    /\ vTask' = Collected([vTask EXCEPT ![t].called = TRUE], vCall)
    /\ UNCHANGED <<vCall, vReq>>

\* The waiters that are left when one goes.
Leaving(t) == vTask[t].count - 1

\* The shielded task ended: its result, or its error, for every waiter.
CallerWakes(c) ==
    LET t == vCall[c].task
    IN  /\ vCall[c].pc = "wait" /\ vTask[t].pc \in Ended
        /\ vCall' = [vCall EXCEPT ![c] = [VOut EXCEPT !.pc =
                        IF vTask[t].pc = "done" THEN "ok" ELSE "failed"]]
        /\ vTask' = Collected([vTask EXCEPT ![t].count = Leaving(t)], vCall')
        /\ UNCHANGED <<vTable, vReq>>

\* entry[1] <= 0 and not shared.done(), after the decrement.
LastOne(t) == Leaving(t) <= 0 /\ vTask[t].pc \notin Ended

\* A waiting caller is cancelled: the last one removes and cancels the task and
\* waits for it, before its own cancellation goes on.
CallerCancelled(c) ==
    LET t == vCall[c].task
    IN  /\ vReq[c[1]] = "cancelling" /\ vCall[c].pc = "wait"
        /\ IF LastOne(t)
           THEN /\ vTable' = Forgotten(t)
                /\ vTask' = [vTask EXCEPT ![t].count = Leaving(t), ![t].pc = "cancelling"]
                /\ vCall' = [vCall EXCEPT ![c].pc = "drain"]
           ELSE /\ vCall' = [vCall EXCEPT ![c] = [VOut EXCEPT !.pc = "failed"]]
                /\ vTask' = Collected([vTask EXCEPT ![t].count = Leaving(t)], vCall')
                /\ UNCHANGED vTable
        /\ UNCHANGED vReq

Drained(c) ==
    /\ vCall[c].pc = "drain" /\ vTask[vCall[c].task].pc \in Ended
    /\ vCall' = [vCall EXCEPT ![c] = [VOut EXCEPT !.pc = "failed"]]
    /\ vTask' = Collected(vTask, vCall')
    /\ UNCHANGED <<vTable, vReq>>

-----------------------------------------------------------------------------
(* _gather_dual_pair.                                                      *)

PairStarts(q, kv, ka) ==
    /\ vReq[q] = "idle" /\ vReq' = [vReq EXCEPT ![q] = "pair"]
    /\ vCall' = [c \in Caller |-> IF c[1] # q THEN vCall[c]
                                  ELSE [VOut EXCEPT !.k = IF c[2] = "video" THEN kv ELSE ka]]
    /\ UNCHANGED <<vTable, vTask>>

Pair(q) == {vCall[<<q, s>>].pc : s \in Sides}

\* gather returns both results, or the first error: then the sibling is cancelled.
PairEnds(q) ==
    /\ vReq[q] = "pair"
    /\ \/ Pair(q) = {"ok"} /\ vReq' = [vReq EXCEPT ![q] = "ok"]
       \/ "failed" \in Pair(q) /\ vReq' = [vReq EXCEPT ![q] = "cancelling"]
    /\ UNCHANGED <<vTable, vTask, vCall>>

\* The request is cancelled.
PairCancelled(q) ==
    /\ vReq[q] = "pair" /\ vReq' = [vReq EXCEPT ![q] = "cancelling"]
    /\ UNCHANGED <<vTable, vTask, vCall>>

\* The sibling is awaited; one cancelled before its first step never joined.
PairDrained(q) ==
    /\ vReq[q] = "cancelling" /\ Pair(q) \cap {"wait", "drain"} = {}
    /\ vReq' = [vReq EXCEPT ![q] = "failed"]
    /\ UNCHANGED <<vTable, vTask, vCall>>

\* The request has been answered; the client may ask again.
PairForgotten(q) ==
    /\ vReq[q] \in {"ok", "failed"} /\ vReq' = [vReq EXCEPT ![q] = "idle"]
    /\ vCall' = [c \in Caller |-> IF c[1] = q THEN VOut ELSE vCall[c]]
    /\ UNCHANGED <<vTable, vTask>>

CallerStep(c) == Join(c) \/ CallerWakes(c) \/ CallerCancelled(c) \/ Drained(c)
TaskStep(t)   == TaskEnds(t) \/ DoneCallback(t)

ResolveNext ==
    \/ \E q \in VReq : \/ \E kv, ka \in VKey : PairStarts(q, kv, ka)
                       \/ PairEnds(q) \/ PairCancelled(q) \/ PairDrained(q) \/ PairForgotten(q)
    \/ \E c \in Caller : CallerStep(c)
    \/ \E t \in VTask : TaskStep(t)

ResolveSpec == ResolveInit /\ [][ResolveNext]_resolveVars

-----------------------------------------------------------------------------
(* Properties.                                                             *)

\* The waiter count of a task is the number of callers that wait for it: neither
\* of two exits counts twice, and a late joiner is counted.
CountIsWaiters ==
    \A t \in VTask : vTask[t].count = Cardinality(Waiters(t))

\* A player that goes away never takes the resolution of another one with it.
WantedNotCancelled ==
    \A t \in VTask : Waiters(t) # {} => vTask[t].pc \notin {"cancelling", "cancelled"}

\* One resolution at a time for a source that somebody wants, however requests
\* come and go; and none runs that nobody waits for.
OneResolution ==
    \A t, u \in VTask : vTask[t].pc = "run" =>
        /\ Waiters(t) # {}
        /\ (vTask[u].pc = "run" /\ vTask[u].k = vTask[t].k => t = u)

\* The table never hands out a resolution that was cancelled.
TableIsLive ==
    \A k \in VKey : vTable[k] # VNil =>
        vTask[vTable[k]].k = k /\ vTask[vTable[k]].pc \in {"run", "done", "failed"}

\* A shared resolution belongs to its waiters: counted exactly, alone for its source, in
\* the table only while it is usable, cancelled only when nobody waits.
ResolutionsShared == ResolveTypeOK /\ CountIsWaiters /\ WantedNotCancelled /\ OneResolution /\ TableIsLive
=============================================================================
