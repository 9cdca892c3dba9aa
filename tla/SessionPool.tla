---------------------------- MODULE SessionPool ----------------------------
(***************************************************************************)
(* The upstream HTTP sessions of EasyProxy (services/proxy_core.py,        *)
(* services/session_lifetime.py): one pooled aiohttp session per proxy,    *)
(* one per playback and route, one per address family for direct requests. *)
(* A session leaves its pool when it is idle, evicted or invalidated, and  *)
(* is closed by a drain task once 30 s have passed and no connection of it *)
(* is in use.  A request keeps the session it looked up in a local         *)
(* variable, across as many fetches as it makes.                           *)
(*                                                                         *)
(* _get_proxy_session, the sweep and the invalidations never suspend, so   *)
(* each is one action.  Time passes in steps of 31 s.                      *)
(***************************************************************************)
EXTENDS Integers, FiniteSets

CONSTANTS
    PSess,      \* identities of aiohttp sessions
    PProxy,     \* proxies other than WARP
    PTunnel,    \* those of them that are local WireGuard tunnels
    PWarp,      \* the WARP proxy
    PFamily,    \* address families of direct sessions (IPv4 only, any)
    PStream,    \* playbacks (session keys)
    PReq,       \* requests
    PLimit,     \* pooled proxies (10 in the code)
    PMaxFetch,  \* fetches a request makes with one lookup (bound)
    PShared,    \* the scope of a session that belongs to no playback
    PNil

ASSUME PoolAssumption ==
    /\ PTunnel \subseteq PProxy /\ PWarp \notin PProxy \cup PFamily
    /\ PProxy \cap PFamily = {} /\ PShared \notin PStream /\ PNil \notin PSess
    /\ PLimit \in Nat /\ PLimit >= 2 /\ PMaxFetch \in Nat \ {0}

PScope   == PStream \cup {PShared}
ProxyKey == (PProxy \cup {PWarp}) \X {PShared}      \* _proxy_sessions
DirectKey == PFamily \X {PShared}                   \* session, flex_session
StreamKey == (PProxy \cup {PWarp} \cup PFamily) \X PStream  \* _stream_proxy_sessions
PoolKey  == ProxyKey \cup DirectKey \cup StreamKey

VARIABLES
    pPool,   \* pPool[key]: the pooled session, or PNil
    pAge,    \* steps since the last lookup of key (2 = "longer")
    pOpen,   \* the sessions that are open
    pDrain,  \* pDrain[s]: steps since s was retired (0, 1 = "longer"), -1 if it is not
    pReq,    \* each request: what it looked up and what it does with it
    pDown    \* cleanup() has run

poolVars == <<pPool, pAge, pOpen, pDrain, pReq, pDown>>

PIdle == [pc |-> "idle", key |-> PNil, sess |-> PNil, fresh |-> FALSE, left |-> 0]

\* Types, and: no session is pooled twice.
PoolTypeOK ==
    /\ pPool \in [PoolKey -> PSess \cup {PNil}] /\ pAge \in [PoolKey -> 0 .. 2]
    /\ pOpen \subseteq PSess /\ pDrain \in [PSess -> -1 .. 1] /\ pDown \in BOOLEAN
    /\ pReq \in [PReq -> [pc : {"idle", "held", "busy"}, key : PoolKey \cup {PNil},
                          sess : PSess \cup {PNil}, fresh : BOOLEAN, left : 0 .. PMaxFetch]]
    /\ \A k, l \in PoolKey : k # l /\ pPool[k] # PNil => pPool[k] # pPool[l]

PoolInit ==
    /\ pPool = [k \in PoolKey |-> PNil] /\ pAge = [k \in PoolKey |-> 0]
    /\ pOpen = {} /\ pDrain = [s \in PSess |-> -1]
    /\ pReq = [r \in PReq |-> PIdle] /\ pDown = FALSE

-----------------------------------------------------------------------------
(* Retirement.                                                             *)

Pooled(keys) == {k \in keys : pPool[k] # PNil}
BusyOn(s) == \E r \in PReq : pReq[r].pc = "busy" /\ pReq[r].sess = s
Unused(s) == s \notin pOpen /\ \A r \in PReq : pReq[r].sess # s

\* retire_session for the sessions of these keys: a drain task for each.
Drained(keys) == [s \in PSess |-> IF \E k \in keys : pPool[k] = s THEN 0 ELSE pDrain[s]]

\* Mutant of DrainEnds: no grace.
DrainEndsAtOnce(s) ==
    /\ pDrain[s] >= 0 /\ ~BusyOn(s)
    /\ pOpen' = pOpen \ {s} /\ pDrain' = [pDrain EXCEPT ![s] = -1]
    /\ UNCHANGED <<pPool, pAge, pReq, pDown>>

\* The drain task: 30 s for borrowers to start, then as long as a connection is
\* in use when it looks.
DrainEnds(s) ==
    /\ pDrain[s] = 1 /\ ~BusyOn(s)
    /\ pOpen' = pOpen \ {s} /\ pDrain' = [pDrain EXCEPT ![s] = -1]
    /\ UNCHANGED <<pPool, pAge, pReq, pDown>>

-----------------------------------------------------------------------------
(* Lookups.                                                                *)

IdleProxies == {k \in Pooled(ProxyKey) : pAge[k] >= 2 /\ k[1] # PWarp}

\* The eviction of _get_proxy_session: with PLimit proxies pooled, the one that
\* was looked up longest ago (the sets are the choices within one time step).
Evicted(key, stale) ==
    LET kept == Pooled(ProxyKey) \ stale
        candidates == {k \in kept : k[1] # PWarp}
    IN  IF key \in ProxyKey /\ key \notin kept /\ Cardinality(kept) >= PLimit /\ candidates # {}
        THEN {{k} : k \in {c \in candidates : \A d \in candidates : pAge[d] <= pAge[c]}}
        ELSE {{}}

\* session and flex_session share one time of last use.
Touched(key) == IF key \in DirectKey THEN DirectKey ELSE {key}

\* The pooled session of key, or a new one.
Lent(key, gone) ==
    IF pPool[key] # PNil /\ key \notin gone THEN {pPool[key]} ELSE {s \in PSess : Unused(s)}

\* _get_proxy_session, _get_session: drop the idle proxies, make room, reuse or
\* create, and lend the session to the request.
LookUpSession(r, key) ==
    /\ ~pDown /\ pReq[r].pc = "idle"
    /\ \E out \in Evicted(key, IdleProxies) :
       LET gone == IdleProxies \cup out
       IN  \E s \in Lent(key, gone) :
             /\ pPool' = [k \in PoolKey |-> IF k = key THEN s ELSE IF k \in gone THEN PNil ELSE pPool[k]]
             /\ pAge' = [k \in PoolKey |-> IF k \in gone \cup Touched(key) THEN 0 ELSE pAge[k]]
             /\ pOpen' = pOpen \cup {s}
             /\ pDrain' = Drained(gone)
             /\ pReq' = [pReq EXCEPT ![r] = [pc |-> "held", key |-> key, sess |-> s,
                                             fresh |-> TRUE, left |-> PMaxFetch]]
    /\ UNCHANGED pDown

-----------------------------------------------------------------------------
(* A request at work.                                                      *)

FetchStarts(r) ==
    /\ pReq[r].pc = "held" /\ pReq[r].sess \in pOpen /\ pReq[r].left > 0
    /\ pReq' = [pReq EXCEPT ![r].pc = "busy", ![r].left = @ - 1]
    /\ UNCHANGED <<pPool, pAge, pOpen, pDrain, pDown>>

\* The answer has been read; the request may go on with the same session.
FetchEnds(r) ==
    /\ pReq[r].pc = "busy"
    /\ pReq' = [pReq EXCEPT ![r].pc = "held"]
    /\ UNCHANGED <<pPool, pAge, pOpen, pDrain, pDown>>

RequestEnds(r) ==
    /\ pReq[r].pc = "held"
    /\ pReq' = [pReq EXCEPT ![r] = PIdle]
    /\ UNCHANGED <<pPool, pAge, pOpen, pDrain, pDown>>

\* Mutant of Invalidated: the playbacks are not told apart.
InvalidatedAll(proxy, scope) == {k \in PoolKey : k[1] = proxy}

\* What _invalidate_proxy_session detaches: the session of this playback, and,
\* unless a playback of WARP is named, the shared one of the proxy.
Invalidated(proxy, scope) ==
    {k \in ProxyKey \cup StreamKey :
        k[1] = proxy /\ (k[2] = scope \/ (k[2] = PShared /\ proxy # PWarp))}

\* _recover_tunnel_proxy: every session through the tunnel, all playbacks'.
ThroughTunnel(r) == {k \in PoolKey : k[1] = pReq[r].key[1] /\ k[1] \in PTunnel}

Detach(keys) ==
    /\ pPool' = [k \in PoolKey |-> IF k \in keys THEN PNil ELSE pPool[k]]
    /\ pAge' = [k \in PoolKey |-> IF k \in keys THEN 0 ELSE pAge[k]]
    /\ pDrain' = Drained(keys)

\* A fetch fails.  An MPD's names no playback, although its lookup did; an
\* encrypted segment's names its own, or drops its direct session
\* (_invalidate_direct_session); through a tunnel all its sessions go.
FetchFails(r) ==
    /\ pReq[r].pc = "busy"
    /\ LET key == pReq[r].key
       IN  \/ key[1] \notin PFamily /\ Detach(Invalidated(key[1], PShared))
           \/ key[1] = PWarp /\ Detach(Invalidated(PWarp, key[2]))
           \/ key[1] \in PFamily /\ Detach({key})
           \/ key[1] \in PTunnel /\ Detach(ThroughTunnel(r))
    /\ pReq' = [pReq EXCEPT ![r] = PIdle]
    /\ UNCHANGED <<pOpen, pDown>>

-----------------------------------------------------------------------------
(* The cleanup task, the clock and shutdown.                               *)

\* The sweep of _cleanup_stale_sessions: idle proxies but WARP, idle playbacks,
\* and both direct sessions after 30 s.
IdleSessions ==
    IdleProxies \cup {k \in Pooled(StreamKey) : pAge[k] >= 2}
                \cup {k \in Pooled(DirectKey) : pAge[k] >= 1}

SweepSessions ==
    /\ IdleSessions # {} /\ ~pDown
    /\ Detach(IdleSessions)
    /\ UNCHANGED <<pOpen, pReq, pDown>>

\* The WARP sessions, shared and of playbacks; and who uses one, or did lately.
OverWarp == {k \in PoolKey : k[1] = PWarp}
OnWarp   == {r \in PReq : pReq[r].key \in OverWarp /\ (pReq[r].pc = "busy" \/ pReq[r].fresh)}

\* _recycle_idle_warp, before it restarts wireproxy: 120 s (more than two steps)
\* after the last lookup, and with no connection to WARP in use.
RecycleWarp ==
    /\ ~pDown /\ Pooled(OverWarp) # {}
    /\ \A k \in Pooled(OverWarp) : pAge[k] >= 2
    /\ OnWarp = {}
    /\ Detach(OverWarp)
    /\ UNCHANGED <<pOpen, pReq, pDown>>

PoolTick ==
    /\ pAge' = [k \in PoolKey |-> IF pPool[k] # PNil /\ pAge[k] < 2 THEN pAge[k] + 1 ELSE pAge[k]]
    /\ pDrain' = [s \in PSess |-> IF pDrain[s] = 0 THEN 1 ELSE pDrain[s]]
    /\ pReq' = [r \in PReq |-> [pReq[r] EXCEPT !.fresh = FALSE]]
    /\ <<pAge, pDrain, pReq>>' # <<pAge, pDrain, pReq>>
    /\ UNCHANGED <<pPool, pOpen, pDown>>

\* cleanup(), after the server has ended its requests: the drain tasks are
\* cancelled, which closes their sessions, then every pooled session is closed.
CleanUp ==
    /\ ~pDown /\ \A r \in PReq : pReq[r] = PIdle
    /\ pOpen' = {s \in pOpen : pDrain[s] = -1} \ {pPool[k] : k \in PoolKey}
    /\ pDrain' = [s \in PSess |-> -1]
    /\ pPool' = [k \in PoolKey |-> PNil] /\ pAge' = [k \in PoolKey |-> 0]
    /\ pDown' = TRUE
    /\ UNCHANGED pReq

PoolNext ==
    \/ \E r \in PReq : \/ \E key \in PoolKey : LookUpSession(r, key)
                       \/ FetchStarts(r) \/ FetchEnds(r) \/ FetchFails(r) \/ RequestEnds(r)
    \/ \E s \in PSess : DrainEnds(s)
    \/ SweepSessions \/ RecycleWarp \/ PoolTick \/ CleanUp

PoolSpec == PoolInit /\ [][PoolNext]_poolVars

-----------------------------------------------------------------------------
(* Properties.                                                             *)

\* No session is lost and none is closed while it is pooled: at any time, also
\* after evictions, invalidations of several requests and cleanup(), the open
\* sessions are exactly those of the pools and those with a drain task.
NoSessionLost ==
    /\ pOpen = {pPool[k] : k \in Pooled(PoolKey)} \cup {s \in PSess : pDrain[s] >= 0}
    /\ \A k \in Pooled(PoolKey) : pDrain[pPool[k]] = -1

\* "let requests already using the connector drain": a connection in use is not
\* cut by what another request, the sweep or an eviction does to its session
\* (retire_session), and "Allow borrowers between session lookup and request
\* startup to run": within 30 s of its lookup a request finds its session open.
BorrowersAreServed ==
    \A r \in PReq : \/ pReq[r].pc = "busy"
                    \/ pReq[r].pc = "held" /\ pReq[r].fresh
                    => pReq[r].sess \in pOpen

\* "Evict oldest session if cache gets too large": never more than PLimit pooled
\* proxies, although WARP is never evicted.
PoolBounded == Cardinality(Pooled(ProxyKey)) <= PLimit

\* A request that fails in this step may take the session of key k with it: its
\* own, one through the same tunnel, and the shared one of WARP, which an MPD
\* fetched over WARP drops whichever playback it is of.
FailsWith(k) ==
    \E r \in PReq : /\ pReq[r].pc = "busy" /\ pReq'[r].pc = "idle"
                    /\ \/ pReq[r].key = k
                       \/ pReq[r].key[1] = k[1] /\ k[1] \in PTunnel
                       \/ pReq[r].key[1] = PWarp /\ k = <<PWarp, PShared>>

\* "Media requests get an isolated pool for every playback": the pool of a
\* playback goes only when it is idle, or by a failure of that playback or of a
\* tunnel it uses; the shared WARP session, which is neither swept nor evicted,
\* only by a failure over WARP, or when nobody is on WARP.
PlaybacksIsolated ==
    [][~pDown' =>
       \A k \in Pooled(StreamKey) \cup Pooled({<<PWarp, PShared>>}) :
         pPool'[k] # pPool[k] =>
           FailsWith(k) \/ (pAge[k] >= 2 /\ (k[2] = PShared => OnWarp = {}))]_poolVars

\* Together, with the types (no session has two pools): the bookkeeping of the pools, by
\* which a request that was lent a session finds it open although their number is bounded.
SessionsKept == PoolTypeOK /\ NoSessionLost /\ BorrowersAreServed /\ PoolBounded
=============================================================================
