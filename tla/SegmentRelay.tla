---------------------------- MODULE SegmentRelay ----------------------------
(***************************************************************************)
(* How EasyProxy relays the segments of an HLS stream: _proxy_stream of    *)
(* services/proxy_streaming.py with the retries it makes, the coalescing   *)
(* of equal segment requests, the CDN bases renewed by re-extraction and   *)
(* the dead marks of config.py that choose the route.                      *)
(*                                                                         *)
(* One segment of one source is modelled.  Its URL is abstracted to the    *)
(* base directory it is under: the source renews its base (a signed path)  *)
(* and then answers 403 under the older ones.  A handler keeps the event   *)
(* loop from one suspension to the next, so an action is such a stretch;   *)
(* aiohttp does not cancel a handler whose client has gone.                *)
(***************************************************************************)
EXTENDS Integers, Sequences

CONSTANTS
    Slot,      \* requests that may be in flight together
    Play,      \* playbacks (values of stream_key)
    Of,        \* the playback of each slot
    Proxy,     \* the configured proxies
    Chain,     \* the routing chain of get_ordered_proxies_for_url
    Forced,    \* proxies that segment URLs may carry; Nil when they carry none
    Tunnel,    \* local WireGuard tunnels, which can be reconnected
    Managed,   \* WARP, Tor and the tunnels: never kept in DEAD_PROXIES
    Warp,      \* the WARP relay, or Nil: a rotation leaves it out
    Sole,      \* proxies never marked: the only one configured, or an
               \* extractor's only one
    MaxBase,   \* renewals of the source's base (bound)
    Nil

ASSUME RelayAssumption ==
    /\ Of \in [Slot -> Play]
    /\ Chain \in Seq(Proxy)
    /\ Tunnel \subseteq Managed /\ Managed \subseteq Proxy /\ Sole \subseteq Proxy
    /\ Warp \in (Managed \ Tunnel) \cup {Nil}
    /\ Forced \subseteq Proxy \cup {Nil}
    /\ MaxBase \in Nat \ {0}
    /\ Nil \notin Proxy /\ Nil \notin Slot \X {1, 2} /\ Nil \notin Nat

\* The base directories of the segment; 0 is the playlist's own URL, which a
\* re-extraction inside a segment request relays in place of the segment.
Base  == 0 .. MaxBase
Frame == Slot \X {1, 2}   \* _proxy_stream of a request, and its tunnel retry

VARIABLES
    req,       \* the request in each slot
    inflight,  \* _segment_inflight: the frame whose future is under a URL
    tokens,    \* _renewed_cdn_tokens: the pair (old base, new base) of a playback
    held,      \* the base in the playlist a playback holds
    live,      \* the base the source accepts
    dead       \* DEAD_PROXIES

vars == <<req, inflight, tokens, held, live, dead>>

Pcs == {"idle", "wait", "woken", "parallel", "fetch", "quick", "rotate",
        "extract", "refetch", "save", "body", "again", "recover", "reprobe", "restart",
        "serve"}

Idle == [pc |-> "idle", kind |-> "segment", whole |-> FALSE, url |-> 0, dir |-> 0,
         depth |-> 1, leads |-> {}, waitOn |-> Nil, got |-> "none",
         forced |-> Nil, route |-> Nil, fresh |-> 0, status |-> 200,
         retried |-> FALSE, renewed |-> FALSE]

Request ==
    [pc : Pcs, kind : {"segment", "playlist"},
     whole : BOOLEAN,             \* _segment_coalesce_eligible
     url : Base, dir : Base,      \* stream_url, and the directory it is in
     depth : {1, 2},              \* 2 in the frame of the tunnel retry
     leads : SUBSET {1, 2},       \* the frames that registered a future
     waitOn : Frame \cup {Nil},   \* the future it awaits
     got : {"none", "whole", "part"},  \* that future's result
     forced : Proxy \cup {Nil}, route : Proxy \cup {Nil},
     fresh : Base, status : {200, 206},
     retried : BOOLEAN,           \* _ps_retried
     renewed : BOOLEAN]           \* _manifest_reextracted

TypeOK ==
    /\ req \in [Slot -> Request]
    /\ inflight \in [Base -> Frame \cup {Nil}]
    /\ tokens \in [Play -> (Base \X Base) \cup {Nil}]
    /\ held \in [Play -> Base]
    /\ live \in 1 .. MaxBase
    /\ dead \subseteq Proxy

Init ==
    /\ req = [v \in Slot |-> Idle]
    /\ inflight = [b \in Base |-> Nil]
    /\ tokens = [k \in Play |-> Nil]
    /\ held = [k \in Play |-> 1]
    /\ live = 1
    /\ dead = {}

-----------------------------------------------------------------------------
(* Routes.                                                                 *)

\* get_proxy_for_url: the first proxy of the chain that is not in "down" and
\* answers its socket check (any of them may), or else the first of all.
Choices(down) ==
    {Chain[i] : i \in {j \in 1 .. Len(Chain) : j = 1 \/ Chain[j] \notin down}}

Routes == IF Chain = <<>> THEN {Nil} ELSE Choices(dead)

RoutesFor(forced) == IF forced # Nil THEN {forced} ELSE Routes

\* _mark_proxy_dead_if_allowed, mark_proxy_dead
Marked(p) ==
    IF p \in Managed THEN dead \ {p}
    ELSE IF p = Nil \/ p \in Sole THEN dead ELSE dead \cup {p}

-----------------------------------------------------------------------------
(* Coalescing.                                                             *)

\* The base a URL gets once the renewed CDN base of its playback is put in.
Substituted(k, b) ==
    IF tokens[k] # Nil /\ tokens[k][1] = b THEN tokens[k][2] ELSE b

Futures(v) == {<<v, d>> : d \in req[v].leads}

\* A follower whose awaited future got a result
Woken(r, result) == [r EXCEPT !.pc = "woken", !.waitOn = Nil, !.got = result]

\* Mutant: only a body that was read whole resolves the future.
ReleaseQuietly(v, result, next) ==
    /\ req' = [w \in Slot |->
         IF w = v THEN next
         ELSE IF result # "none" /\ req[w].waitOn \in Futures(v)
         THEN Woken(req[w], result)
         ELSE req[w]]
    /\ inflight' = [b \in Base |->
         IF inflight[b] \in Futures(v) THEN Nil ELSE inflight[b]]

\* Mutant: the map is cleared only beside a result.
ReleaseKeeps(v, result, next) ==
    /\ req' = [w \in Slot |->
         IF w = v THEN next
         ELSE IF req[w].waitOn \in Futures(v)
         THEN Woken(req[w], result)
         ELSE req[w]]
    /\ inflight' = [b \in Base |->
         IF result # "none" /\ inflight[b] \in Futures(v) THEN Nil ELSE inflight[b]]

\* Mutant: whatever future is under the URL is taken off the map.
ReleasePops(v, result, next) ==
    /\ req' = [w \in Slot |->
         IF w = v THEN next
         ELSE IF req[w].waitOn \in Futures(v)
         THEN Woken(req[w], result)
         ELSE req[w]]
    /\ inflight' = [b \in Base |->
         IF req[v].leads # {} /\ b = req[v].url THEN Nil ELSE inflight[b]]

\* The frames of v end: the innermost future has "result", an outer one gets
\* None in its finally block, and each leaves the map if it is still there.
Release(v, result, next) ==
    /\ req' = [w \in Slot |->
         IF w = v THEN next
         ELSE IF req[w].waitOn \in Futures(v)
         THEN Woken(req[w], IF req[w].waitOn = <<v, req[v].depth>> THEN result ELSE "none")
         ELSE req[w]]
    /\ inflight' = [b \in Base |->
         IF inflight[b] \in Futures(v) THEN Nil ELSE inflight[b]]

\* The handler returns its response.
Answer(v, result) == Release(v, result, Idle)

Goto(v, r) == req' = [req EXCEPT ![v] = r] /\ UNCHANGED inflight
At(v, pc)  == [req[v] EXCEPT !.pc = pc]

\* Frame r of slot v becomes the fetch that others wait for (when it may be
\* shared), takes a session and asks upstream.
Lead(v, r) ==
    \E p \in RoutesFor(r.forced) :
      /\ req' = [req EXCEPT ![v] =
           [r EXCEPT !.pc = IF r.kind = "segment" THEN "parallel" ELSE "fetch",
                     !.route = p,
                     !.leads = IF r.whole THEN @ \cup {r.depth} ELSE @]]
      /\ inflight' = IF r.whole THEN [inflight EXCEPT ![r.url] = <<v, r.depth>>]
                                ELSE inflight

\* _proxy_stream up to its first suspension
Begin(v, r) ==
    IF r.whole /\ inflight[r.url] # Nil
    THEN Goto(v, [r EXCEPT !.pc = "wait", !.waitOn = inflight[r.url]])
    ELSE Lead(v, r)

Enter(v) ==
    /\ req[v] = Idle
    /\ \E kind \in {"segment", "playlist"}, whole \in BOOLEAN, f \in Forced :
         /\ whole => kind = "segment"
         /\ LET b == Substituted(Of[v], held[Of[v]])
            IN Begin(v, [Idle EXCEPT !.kind = kind, !.whole = whole,
                                     !.forced = f, !.url = b, !.dir = b])
    /\ UNCHANGED <<tokens, held, live, dead>>

\* The awaited future has a result: it is the answer, or, when it is None,
\* this request fetches for itself without another look at the map.
Wake(v) ==
    /\ req[v].pc = "woken"
    /\ IF req[v].got # "none" THEN Answer(v, "none")
                              ELSE Lead(v, req[v])
    /\ UNCHANGED <<tokens, held, live, dead>>

-----------------------------------------------------------------------------
(* The fetch.                                                              *)

Accepted(v) == req[v].dir = live

\* _proxy_segment_parallel assembled the segment and streams it to the client,
\* or it falls back to the single connection (at once for what is not a .ts).
Parallel(v) ==
    /\ req[v].pc = "parallel"
    /\ \/ Accepted(v) /\ Goto(v, At(v, "serve"))
       \/ Goto(v, At(v, "fetch"))
    /\ UNCHANGED <<tokens, held, live, dead>>

\* 200 or 206: a segment is streamed to the client chunk by chunk, a playlist
\* (also one that takes a segment's place) is read, rewritten and returned.
Relayed(v) ==
    /\ req[v].pc = "fetch" /\ Accepted(v)
    /\ held' = IF req[v].kind = "playlist"
               THEN [held EXCEPT ![Of[v]] = req[v].dir] ELSE held
    /\ IF req[v].kind = "segment" /\ req[v].url # 0
       THEN Goto(v, At(v, "serve")) ELSE Answer(v, "none")
    /\ UNCHANGED <<tokens, live, dead>>

\* The client took the last chunk, or writing to it or reading on failed: the
\* response ends as it is.  The writes have no timeout.
Served(v) ==
    /\ req[v].pc = "serve"
    /\ Answer(v, "none")
    /\ UNCHANGED <<tokens, held, live, dead>>

\* 200 or 206 with a payload that has to be read whole (image-wrapped)
Buffers(v) ==
    /\ req[v].pc = "fetch" /\ Accepted(v)
    /\ req[v].kind = "segment" /\ req[v].url # 0
    /\ \E s \in {200, 206} : Goto(v, [At(v, "body") EXCEPT !.status = s])
    /\ UNCHANGED <<tokens, held, live, dead>>

\* Mutant: the status that decides is the one of the fetch that broke off.
ResultOfFirst(first, last) ==
    IF first # 200 THEN "none" ELSE IF last = 200 THEN "whole" ELSE "part"

\* A body is shared when the answer it was read from is a 200.
Result(first, last) == IF last = 200 THEN "whole" ELSE "none"

\* The body is read: it is the answer, shared when it may be, or (an image
\* that holds no transport stream) it is dropped with a 204.
Read(v) ==
    /\ req[v].pc = "body"
    /\ \/ Answer(v, Result(req[v].status, req[v].status))
       \/ Answer(v, "none")
       \/ Goto(v, At(v, "again"))  \* the connection broke off
    /\ UNCHANGED <<tokens, held, live, dead>>

\* retry_same_segment_after_payload_error, and the error raised after it
ReadAgain(v) ==
    /\ req[v].pc = "again"
    /\ \/ \E s \in {200, 206} : Accepted(v) /\ Answer(v, Result(req[v].status, s))
       \/ Answer(v, "none")
    /\ UNCHANGED <<tokens, held, live, dead>>

\* Any other status is passed on; a lost connection is a 499, an exception
\* nothing else handles a 500.
Fails(v) ==
    /\ req[v].pc \in {"fetch", "body"}
    /\ Answer(v, "none")
    /\ UNCHANGED <<tokens, held, live, dead>>

\* A connection error or timeout of the route: it is marked, a tunnel gets
\* the chance to reconnect (WARP is probed), or else the answer is a 502.
RouteFails(v) ==
    /\ req[v].pc \in {"fetch", "body", "again"}
    /\ dead' = Marked(req[v].route)
    /\ IF req[v].route # Nil /\ req[v].route \in Tunnel \cup {Warp}
       THEN Goto(v, At(v, "recover")) ELSE Answer(v, "none")
    /\ UNCHANGED <<tokens, held, live>>

\* _proxy_stream called again inside the frame that failed
Again(v) ==
    LET b == IF req[v].url = 0 THEN 0 ELSE Substituted(Of[v], req[v].url)
    IN Begin(v, [At(v, "fetch") EXCEPT
         !.retried = TRUE, !.depth = @ + 1, !.url = b, !.dir = IF b = 0 THEN @ ELSE b])

\* Mutant: the request forgets that it has already been retried.
RecoverForgets(v) ==
    /\ req[v].pc = "recover"
    /\ \/ Answer(v, "none") /\ UNCHANGED dead
       \/ /\ req[v].route \in Tunnel
          /\ dead' = dead \ {req[v].route}
          /\ Again(v)
    /\ UNCHANGED <<tokens, held, live>>

\* _recover_tunnel_proxy: True only when the tunnel was restarted, which
\* leads to one retry.
Recover(v) ==
    /\ req[v].pc = "recover"
    /\ \/ Answer(v, "none") /\ UNCHANGED dead
       \/ /\ req[v].route \in Tunnel
          /\ dead' = dead \ {req[v].route}
          /\ IF req[v].retried THEN Answer(v, "none") ELSE Again(v)
    /\ UNCHANGED <<tokens, held, live>>

-----------------------------------------------------------------------------
(* 403: rotation of the proxy, and re-extraction of the source.            *)

Forbidden(v) ==
    /\ req[v].pc = "fetch"
    /\ Goto(v, At(v, "quick"))
    /\ UNCHANGED <<tokens, held, live, dead>>

\* Where a 403 leads when no other proxy helps
Renewal(v) ==
    CASE req[v].kind = "segment"                    -> Goto(v, At(v, "extract"))
      [] req[v].kind = "playlist" /\ ~req[v].renewed ->
           Goto(v, [At(v, "extract") EXCEPT !.renewed = TRUE])
      [] OTHER                                      -> Answer(v, "none")

\* The routes retry_with_different_proxy can find: WARP, which comes last in
\* the chain, is bypassed.
Alternatives(v) == Choices(Marked(req[v].route)) \ {Warp, req[v].route}

\* A transient 403 goes away in the two quick retries; otherwise the proxy is
\* marked and another one of the chain tried, if there is one.
Quick(v) ==
    /\ req[v].pc = "quick"
    /\ \/ req[v].kind = "segment" /\ Accepted(v) /\ Answer(v, "none") /\ UNCHANGED dead
       \/ /\ req[v].forced # Nil \/ req[v].route = Nil
          /\ Renewal(v) /\ UNCHANGED dead
       \/ /\ req[v].forced = Nil /\ req[v].route # Nil
          /\ dead' = Marked(req[v].route)
          /\ \/ Alternatives(v) # {} /\ Goto(v, At(v, "rotate"))
             \/ Renewal(v)
    /\ UNCHANGED <<tokens, held, live>>

Rotate(v) ==
    /\ req[v].pc = "rotate"
    /\ \/ Accepted(v) /\ Answer(v, "none")
       \/ Renewal(v)
    /\ UNCHANGED <<tokens, held, live, dead>>

\* _reextract_and_retry_manifest saves the pair and relays the new playlist.
RenewPlaylist(v) ==
    /\ req[v].pc = "extract" /\ req[v].kind = "playlist"
    /\ tokens' = [tokens EXCEPT ![Of[v]] = <<req[v].dir, live>>]
    /\ Begin(v, [At(v, "fetch") EXCEPT !.url = live, !.dir = live])
    /\ UNCHANGED <<held, live, dead>>

\* _reextract_and_retry_segment found the segment under the source's base.
RenewSegment(v) ==
    /\ req[v].pc = "extract" /\ req[v].kind = "segment"
    /\ Goto(v, [At(v, "refetch") EXCEPT !.fresh = live])
    /\ UNCHANGED <<tokens, held, live, dead>>

Refetched(v) ==
    /\ req[v].pc = "refetch" /\ req[v].fresh = live
    /\ Goto(v, At(v, "save"))
    /\ UNCHANGED <<tokens, held, live, dead>>

\* Once its body is read, the fresh segment is the answer and its base is
\* saved for the playback.
Save(v) ==
    /\ req[v].pc = "save"
    /\ tokens' = [tokens EXCEPT ![Of[v]] = <<req[v].dir, req[v].fresh>>]
    /\ Answer(v, "none")
    /\ UNCHANGED <<held, live, dead>>

\* Nothing found: the 403 is passed on.
RenewalFails(v) ==
    /\ req[v].pc \in {"extract", "refetch", "save"}
    /\ Answer(v, "none")
    /\ UNCHANGED <<tokens, held, live, dead>>

-----------------------------------------------------------------------------
(* A forced proxy that fails in a way of its own: ProxyDeadRetryError.     *)

ForcedFails(v) ==
    /\ req[v].pc \in {"fetch", "body"}
    /\ req[v].forced # Nil /\ ~req[v].retried
    /\ dead' = Marked(req[v].forced)
    /\ Goto(v, [At(v, "reprobe") EXCEPT !.retried = TRUE])
    /\ UNCHANGED <<tokens, held, live>>

\* The error ends the frames; raised inside a playlist's re-extraction it is
\* swallowed there.
Raised(v) ==
    IF req[v].renewed THEN Answer(v, "none")
    ELSE Release(v, "none", [At(v, "restart") EXCEPT !.leads = {}])

\* Recovered or not alive, the error is raised out of _proxy_stream and
\* handle_proxy_request extracts again; alive after all, it is a 500.
Reprobe(v) ==
    /\ req[v].pc = "reprobe"
    /\ \/ Answer(v, "none") /\ UNCHANGED dead
       \/ Raised(v) /\ UNCHANGED dead
       \/ /\ req[v].forced \in Tunnel
          /\ dead' = dead \ {req[v].forced}
          /\ Raised(v)
    /\ UNCHANGED <<tokens, held, live>>

\* The fresh extraction gives a playlist, relayed as the answer.
Restart(v) ==
    /\ req[v].pc = "restart"
    /\ \/ Answer(v, "none")
       \/ \E f \in Forced \cup Routes :
            Begin(v, [At(v, "fetch") EXCEPT !.url = 0, !.dir = live, !.forced = f])
    /\ UNCHANGED <<tokens, held, live, dead>>

-----------------------------------------------------------------------------
\* What a handler does without its client
Step(v) ==
    \/ Wake(v) \/ Parallel(v) \/ Relayed(v) \/ Buffers(v) \/ Read(v) \/ ReadAgain(v)
    \/ Fails(v) \/ RouteFails(v) \/ Recover(v)
    \/ Forbidden(v) \/ Quick(v) \/ Rotate(v)
    \/ RenewPlaylist(v) \/ RenewSegment(v) \/ Refetched(v) \/ Save(v)
    \/ RenewalFails(v)
    \/ ForcedFails(v) \/ Reprobe(v) \/ Restart(v)

SourceRenews ==
    /\ live < MaxBase
    /\ live' = live + 1
    /\ UNCHANGED <<req, inflight, tokens, held, dead>>

\* 300 s without use
TokenExpires(k) ==
    /\ tokens[k] # Nil
    /\ tokens' = [tokens EXCEPT ![k] = Nil]
    /\ UNCHANGED <<req, inflight, held, live, dead>>

DeadExpires(p) ==
    /\ p \in dead
    /\ dead' = dead \ {p}
    /\ UNCHANGED <<req, inflight, tokens, held, live>>

Next ==
    \/ \E v \in Slot : Enter(v) \/ Step(v) \/ Served(v)
    \/ SourceRenews
    \/ \E k \in Play : TokenExpires(k)
    \/ \E p \in Proxy : DeadExpires(p)

Spec == Init /\ [][Next]_vars

\* Upstream requests, probes and re-extractions have timeouts, and the event
\* loop resumes each handler that can run.  Two waits have none and no fairness:
\* the one for another's fetch, and the writes to the client (Served).
FairSpec == Spec /\ \A v \in Slot : WF_vars(Step(v))

-----------------------------------------------------------------------------
(* Properties.                                                             *)

\* A future that is registered or awaited belongs to a request still under
\* way, which will resolve it: a fetch that fails, is retried or answers by
\* another path leaves nobody waiting and nothing in the map.
FuturesAreOwned ==
    /\ \A b \in Base : inflight[b] # Nil => inflight[b][2] \in req[inflight[b][1]].leads
    /\ \A v \in Slot : req[v].pc = "wait" =>
          /\ req[v].waitOn # Nil
          /\ req[v].waitOn[2] \in req[req[v].waitOn[1]].leads

\* The body a request answers with from another's fetch is whole, and is what
\* that fetch read under the very URL the request asked for: not the body of
\* its retry under a renewed base, nor the part a 206 brought.
SharedIsExact ==
    [][\A w \in Slot :
         req[w].pc = "wait" /\ req'[w].pc = "woken" /\ req'[w].got # "none" =>
           /\ req'[w].got = "whole"
           /\ req[req[w].waitOn[1]].url = req[w].url]_vars

\* A fetch that ends takes only its own future out of the map, although a
\* request whose leader brought no body has put a newer one there.
EntryLeavesWithOwner ==
    [][\A b \in Base : inflight[b] # Nil /\ inflight'[b] = Nil =>
         inflight[b][2] \notin req'[inflight[b][1]].leads]_vars

WaitsForItself(w) == req[w].pc = "wait" /\ req[w].waitOn[1] = w

\* No client stops reading for ever while its segment is streamed to it.
ClientsRead == \A w \in Slot : []<>(req[w].pc # "serve")

\* As long as the clients read on, every request is answered, whatever fails on
\* its way and whoever it follows, unless some request waits for itself (see
\* NoSelfWait).  A client that stalls holds up those that follow its fetch.
Answered ==
    ClientsRead => \A v \in Slot :
      req[v].pc # "idle" ~> (req[v].pc = "idle" \/ \E w \in Slot : WaitsForItself(w))

\* A viewer waits for the fetch of the first viewer of a segment: of another.
NoSelfWait == \A v \in Slot : ~WaitsForItself(v)
=============================================================================
