------------------------------ MODULE Routing ------------------------------
(***************************************************************************)
(* Which way a request goes (config.py, and the handlers that call it).  A *)
(* playback begins with a request of the client to the extractor or the    *)
(* proxy endpoint; the page or stream is extracted, and the way it took is *)
(* written into the URLs the player requests next.  Meanwhile the panel may *)
(* change the configuration and proxies fail: a proxy that failed is passed *)
(* over for a while.  Whether a proxy answers its health check is open at   *)
(* every check.                                                            *)
(***************************************************************************)
EXTENDS Naturals, Sequences, FiniteSets, SequencesExt

CONSTANTS
    RProxy,    \* proxies but WARP
    RTunnel,   \* ... of them the local tunnels (Tor, WireGuard)
    RWarp,     \* the WARP endpoint
    RHost,     \* hosts of the upstream
    RNoWarp,   \* ... on the list of WARP exclusions
    RNoProxy,  \* ... on the list of proxy exclusions
    RLists,    \* proxy lists the panel may hold (global, extractor), less WARP, which
               \* does not count in them
    RRoutes,   \* ... transport routes
    RNames,    \* what a client may name as proxy=
    RPolicies, \* what it may say of the extractor: subsets of {"warp_off", "proxy_off"}
    ROff,      \* "off" as the value of proxy=
    RNil

Routes == RProxy \cup {RWarp}

\* What a URL asks for, of the routing, and a playback.
Query   == [warpOff : BOOLEAN, proxy : Routes \cup {RNil, ROff}, direct : BOOLEAN, keyed : BOOLEAN]
Playing == [host : RHost, q : Query]

ASSUME RoutingAssumption ==
    /\ RTunnel \subseteq RProxy /\ RWarp \notin RProxy /\ RNoWarp \cup RNoProxy \subseteq RHost
    /\ RNil \notin RProxy \cup {RWarp} /\ ROff \notin RProxy \cup {RWarp, RNil}
    /\ RLists \subseteq Seq(RProxy)
    /\ RRoutes \subseteq RProxy \cup {RWarp, RNil} /\ RNames \subseteq RProxy \cup {RWarp, RNil, ROff}
    /\ RPolicies \subseteq SUBSET {"warp_off", "proxy_off"} /\ RNil \notin Playing

VARIABLES
    rCfg,   \* the configuration: WARP, lists, the route of the hosts, the policy
    rDead,  \* DEAD_PROXIES
    rReq,   \* the request under way
    rUrl,   \* what the URLs of the playback carry, or RNil
    rPlay,  \* history: what the client asked for, and of which host
    rConn   \* history: the connection of the last step, if it made one

routingVars == <<rCfg, rDead, rReq, rUrl, rPlay, rConn>>

RNoCtx == [warpOff |-> FALSE, proxyOff |-> FALSE, selected |-> RNil, strict |-> FALSE,
           source |-> {}]
RIdle == [pc |-> "idle", q |-> RNil, ctx |-> RNoCtx, warpOff |-> FALSE, selected |-> RNil,
          direct |-> FALSE, got |-> RNil, again |-> FALSE]
RNoConn == [by |-> "none", proxy |-> RNil, direct |-> FALSE, had |-> FALSE]

RoutingInit ==
    /\ \E warp \in BOOLEAN, global, ext \in RLists, route \in RRoutes,
          policy \in RPolicies :
         rCfg = [warp |-> warp, global |-> global, ext |-> ext, route |-> route,
                 policy |-> policy]
    /\ rDead = {} /\ rReq = RIdle /\ rUrl = RNil /\ rPlay = RNil /\ rConn = RNoConn

-----------------------------------------------------------------------------
(* config.py: the routing chain.                                           *)

\* A named WARP endpoint is dropped while WARP is off for the request or at all.
Usable(p, warpOff) == IF p = RWarp /\ (warpOff \/ ~rCfg.warp) THEN RNil ELSE p

\* effective_forced_proxy.
Effective(h, p) == IF p # RNil /\ p # RWarp /\ h \in RNoProxy THEN RNil ELSE p

WarpApplies(h, warpOff) == rCfg.warp /\ ~warpOff /\ h \notin RNoWarp
One(p)    == IF p = RNil THEN <<>> ELSE <<p>>
Custom(p) == IF p = RWarp THEN RNil ELSE p

StrictOnly(ctx, warpOff) == ctx.strict /\ Usable(ctx.selected, warpOff) # RNil

\* get_extractor_proxies: none for a call that names no extractor.  The extraction names
\* its own, DUAL the one its options know; the requests for streams and keys name none.
Own(known) == IF known THEN rCfg.ext ELSE <<>>

\* get_ordered_proxies_for_url.  A proxy that is there already is not added again; as its
\* callers look at the members of the list and at the first, it may come twice here.
Chain(h, known, fallback, ctx, warpOff) ==
    LET warp   == One(IF WarpApplies(h, warpOff) THEN RWarp ELSE RNil)
        others == One(Usable(rCfg.route, warpOff)) \o Own(known) \o One(Custom(ctx.selected))
                  \o fallback \o rCfg.global
    IN  IF ctx.proxyOff \/ h \in RNoProxy THEN [list |-> warp, strict |-> FALSE]
        ELSE IF StrictOnly(ctx, warpOff) THEN [list |-> <<ctx.selected>>, strict |-> TRUE]
        ELSE [list |-> others \o warp, strict |-> FALSE]

\* The first of a list that is not marked dead and answers its check, or none.
Answering(list) == (ToSet(list) \ rDead) \cup {RNil}

Way(p, ctx) == [proxy |-> p, ctx |-> ctx]

\* "Keep the route non-direct even when health probing says every candidate is down."
LastResort(list) == list[1]

\* get_proxy_for_url: when nothing answers, the first of the chain all the same.
StreamWays(h, known, ctx, warpOff) ==
    LET chain == Chain(h, known, <<>>, ctx, warpOff)
        Seen(p) == Way(p, [ctx EXCEPT !.source = ToSet(chain.list), !.selected = p,
                                      !.strict = chain.strict])
    IN  IF chain.list = <<>> THEN {Way(RNil, ctx)}
        ELSE {Seen(IF up = RNil THEN LastResort(chain.list) ELSE up) : up \in Answering(chain.list)}

\* get_preferred_proxy_for_url, for the extractors: when nothing answers, a named
\* proxy, or WARP, or none.
PreferredWays(h, ctx, warpOff) ==
    LET chain == Chain(h, TRUE, rCfg.global, ctx, warpOff)
        seen  == [ctx EXCEPT !.source = ToSet(chain.list)]
        last  == IF chain.strict THEN chain.list[1]
                 ELSE IF WarpApplies(h, warpOff) THEN RWarp ELSE RNil
    IN  IF chain.list = <<>> THEN {Way(RNil, ctx)}
        ELSE {IF up = RNil THEN Way(last, seen) ELSE Way(up, [seen EXCEPT !.selected = up]) :
                up \in Answering(chain.list)}

\* Mutant of Spared: only WARP is looked after.
SparedWarp(p, ctx, keyed) == p = RWarp

\* mark_proxy_dead, _mark_proxy_dead_if_allowed: the local endpoints, the only proxy of
\* the request's extractor and the only proxy there is are not passed over.
Spared(p, ctx, keyed) ==
    \/ p \in RTunnel \cup {RWarp}
    \/ keyed /\ rCfg.ext = <<p>>
    \/ Cardinality(ToSet(rCfg.global) \cup ToSet(rCfg.ext) \cup ToSet(One(rCfg.route))
                   \cup ctx.source) <= 1

MarkedDead(p, ctx, keyed) ==
    IF p = RNil \/ (Spared(p, ctx, keyed) /\ p \notin RTunnel \cup {RWarp}) THEN rDead
    ELSE IF Spared(p, ctx, keyed) THEN rDead \ {p} ELSE rDead \cup {p}

\* Its 300 (or 120) seconds are over; or a tunnel was recovered.
DeadExpires(p) ==
    /\ p \in rDead /\ rDead' = rDead \ {p} /\ rConn' = RNoConn /\ UNCHANGED <<rCfg, rReq, rUrl, rPlay>>

Policy(what) == what \in rCfg.policy
Named(q)     == IF q.proxy \in Routes THEN q.proxy ELSE RNil

\* What is recorded of a connection: its way, whether it is direct by request, and
\* whether the configuration has WARP or a proxy for it, an extractor's if that is known.
Configured(h, known, ctx, warpOff) ==
    \/ WarpApplies(h, warpOff)
    \/ /\ ~ctx.proxyOff /\ h \notin RNoProxy
       /\ ToSet(rCfg.global) \cup ToSet(Own(known)) \cup ({rCfg.route} \ {RWarp, RNil}) # {}
Connected(by, p, direct, ctx) ==
    rConn' = [by |-> by, proxy |-> p, direct |-> direct,
              had |-> Configured(rPlay.host, by = "extract", ctx, rReq.warpOff)]

-----------------------------------------------------------------------------
(* A request: handle_extractor_request, handle_proxy_request.              *)

\* The contexts of the request, from its query and from the policy of the extractor
\* its URL names.
Enters(kind, q) ==
    LET selected == Usable(Named(q), q.warpOff)
        keyed    == kind = "proxy" /\ q.keyed
        warpOff  == q.warpOff \/ (keyed /\ Policy("warp_off"))
    IN  /\ rReq.pc = "idle"
        /\ rReq' = [RIdle EXCEPT !.pc = kind, !.q = q, !.warpOff = warpOff,
                      !.selected = selected, !.direct = (kind = "proxy" /\ q.direct),
                      !.ctx = [RNoCtx EXCEPT !.warpOff = warpOff,
                                 !.proxyOff = q.proxy = ROff \/ (keyed /\ Policy("proxy_off")),
                                 !.selected = selected, !.strict = selected # RNil]]
        /\ rConn' = RNoConn /\ UNCHANGED <<rCfg, rDead, rUrl>>

\* The client begins a playback.
Begins(kind, h, warpOff, proxy, direct) ==
    LET q == [warpOff |-> warpOff, proxy |-> proxy, direct |-> direct, keyed |-> FALSE]
    IN  /\ rPlay = RNil
        /\ rPlay' = [host |-> h, q |-> q] /\ Enters(kind, q)

\* The player requests what the last answer named.
Continues == rUrl # RNil /\ Enters("proxy", rUrl) /\ UNCHANGED rPlay

\* get_extractor has told which extractor it is, whose policy now holds; at the proxy
\* endpoint a policy that changes the route drops the named proxy.
PolicyApplied ==
    LET w       == Policy("warp_off")
        p       == Policy("proxy_off")
        changed == rReq.pc = "proxy" /\ ((w /\ ~rReq.warpOff) \/ (p /\ ~rReq.ctx.proxyOff))
        ctx     == [rReq.ctx EXCEPT !.warpOff = @ \/ w, !.proxyOff = @ \/ p,
                      !.selected = IF changed THEN RNil ELSE @, !.strict = @ /\ ~changed]
    IN  /\ rReq.pc \in {"proxy", "extractor"}
        /\ rReq' = [rReq EXCEPT
                      !.pc = IF rReq.pc = "proxy" THEN "extract" ELSE "resolve",
                      !.warpOff = @ \/ w, !.selected = IF changed THEN RNil ELSE @, !.ctx = ctx]
        /\ rConn' = RNoConn /\ UNCHANGED <<rCfg, rDead, rUrl, rPlay>>

\* direct_hls=1, and the segments of a rewritten playlist: nothing to extract.
Relayed ==
    /\ rReq.pc = "proxy" /\ rReq' = [rReq EXCEPT !.pc = "relay"]
    /\ rConn' = RNoConn /\ UNCHANGED <<rCfg, rDead, rUrl, rPlay>>

\* BaseExtractor: what the call and the contexts make of its routing.  The extractor
\* endpoint passes its whole query, and so what it dropped itself.
DirectFlag(r)   == r.pc = "resolve" /\ r.q.direct
ForcedDirect(r) == DirectFlag(r) \/ (r.ctx.proxyOff /\ (r.warpOff \/ ~rCfg.warp))
Passed(r) == IF r.again THEN RNil
             ELSE IF r.pc = "resolve" /\ r.selected = RNil THEN Named(r.q) ELSE r.selected
ForcedProxy(r)  ==
    IF r.ctx.proxyOff THEN IF rCfg.warp /\ ~r.warpOff THEN RWarp ELSE RNil
    ELSE Effective(rPlay.host, Passed(r))
ExtractWays ==
    LET h    == rPlay.host
        ways == IF ForcedDirect(rReq) THEN {Way(RNil, rReq.ctx)}
                ELSE IF ForcedProxy(rReq) # RNil THEN {Way(ForcedProxy(rReq), rReq.ctx)}
                ELSE PreferredWays(h, rReq.ctx, rReq.warpOff)
    IN  {IF rReq.warpOff /\ w.proxy = RWarp THEN Way(RNil, w.ctx) ELSE w : w \in ways}

Extracting == rReq.pc \in {"extract", "resolve"}

\* A fetch of the extraction; it is refused when no way is left and direct is not
\* allowed.  Failing through a proxy it chose itself, the extractor tries again.
ExtractFetch(works) ==
    /\ Extracting
    /\ \E w \in ExtractWays :
        /\ w.proxy # RNil \/ ForcedDirect(rReq) \/ rReq.warpOff \/ ~rCfg.warp
        /\ Connected("extract", w.proxy, ForcedDirect(rReq), w.ctx)
        /\ IF works
           THEN /\ rReq' = [rReq EXCEPT !.got = w.proxy, !.ctx = w.ctx,
                              !.direct = @ \/ ForcedDirect(rReq),
                              !.warpOff = @ \/ DirectFlag(rReq),
                              !.pc = IF rReq.pc = "extract" THEN "route" ELSE "answer"]
                /\ UNCHANGED rDead
           ELSE /\ w.ctx.selected # RNil /\ ~w.ctx.strict
                /\ rDead' = MarkedDead(w.ctx.selected, w.ctx, FALSE)
                /\ rReq' = [rReq EXCEPT !.ctx = [w.ctx EXCEPT !.selected = RNil]]
        /\ UNCHANGED <<rCfg, rUrl, rPlay>>

Fails == rReq' = RIdle /\ rConn' = RNoConn /\ UNCHANGED <<rCfg, rDead, rUrl, rPlay>>

\* It gives up, or was refused.
ExtractFails == Extracting /\ Fails

\* The policies of the panel hold after the extraction too, and the route becomes the
\* one of the query or the one the extractor took.
Chosen ==
    LET warpOff == rReq.warpOff \/ Policy("warp_off")
        raw     == IF rReq.pc = "route" /\ Named(rReq.q) # RNil THEN Named(rReq.q)
                   ELSE IF rReq.got # RNil THEN rReq.got ELSE rReq.selected
        chosen  == Usable(raw, warpOff)
        ctx     == [rReq.ctx EXCEPT !.warpOff = @ \/ Policy("warp_off"),
                      !.proxyOff = @ \/ Policy("proxy_off"), !.selected = chosen]
    IN  [rReq EXCEPT !.warpOff = warpOff, !.selected = chosen, !.ctx = ctx]

\* What the URLs of an answer carry.
UrlOf(r) == [warpOff |-> r.warpOff, direct |-> r.direct, keyed |-> TRUE,
             proxy |-> IF r.ctx.proxyOff THEN ROff ELSE r.selected]

\* The proxy endpoint goes on to the stream.
RouteChosen ==
    /\ rReq.pc = "route" /\ ~rReq.again /\ rReq' = [Chosen EXCEPT !.pc = "relay"]
    /\ rConn' = RNoConn /\ UNCHANGED <<rCfg, rDead, rUrl, rPlay>>

\* After the second extraction: its route, or else another one than the named proxy,
\* or that again.
RouteRechosen ==
    /\ rReq.pc = "route" /\ rReq.again
    /\ IF rReq.got # RNil \/ Named(rReq.q) = RNil
       THEN rReq' = [rReq EXCEPT !.pc = "relay", !.selected = rReq.got]
       ELSE \E w \in StreamWays(rPlay.host, FALSE, rReq.ctx, rReq.warpOff) :
              rReq' = [rReq EXCEPT !.pc = "relay", !.ctx = w.ctx, !.direct = rReq.q.direct,
                         !.selected = IF w.proxy # RNil THEN w.proxy ELSE Named(rReq.q)]
    /\ rConn' = RNoConn /\ UNCHANGED <<rCfg, rDead, rUrl, rPlay>>

\* The extractor endpoint answers with a URL of the proxy endpoint; the parameters of its
\* JSON answer do not say direct=1.
ExtractorAnswers ==
    /\ rReq.pc = "answer" /\ rReq' = RIdle
    /\ rUrl' \in {UrlOf(Chosen), UrlOf([Chosen EXCEPT !.direct = FALSE])}
    /\ rConn' = RNoConn /\ UNCHANGED <<rCfg, rDead, rPlay>>

\* Mutant of StaleDropped: what the URL says is taken as it is.
StaleKept(h, p, ctx, warpOff) == p

\* _get_proxy_session: what is left of the proxy a URL or the extraction named.
StaleDropped(h, p, ctx, warpOff) ==
    IF ctx.proxyOff THEN RNil ELSE Effective(h, Usable(p, warpOff))

\* _proxy_stream: the proxy it is to use, if any; _get_proxy_session.
Forced(r) ==
    IF r.direct \/ r.ctx.proxyOff THEN RNil
    ELSE Usable(IF r.selected # RNil THEN r.selected ELSE Named(r.q), r.warpOff)
RelayWays ==
    LET left == StaleDropped(rPlay.host, Forced(rReq), rReq.ctx, rReq.warpOff)
    IN  IF rReq.direct THEN {Way(RNil, rReq.ctx)}
        ELSE IF left # RNil THEN {Way(left, rReq.ctx)}
        ELSE StreamWays(rPlay.host, FALSE, rReq.ctx, rReq.warpOff)

\* "No proxy route available; direct fallback disabled".
Refused(p) ==
    /\ p = RNil /\ ~rReq.direct
    /\ ~(rReq.warpOff \/ ~rCfg.warp \/ rPlay.host \in RNoWarp)

\* The stream is fetched and answered, with URLs for what follows.
RelayFetch ==
    /\ rReq.pc = "relay"
    /\ \E w \in RelayWays :
        /\ ~Refused(w.proxy)
        /\ Connected("stream", w.proxy, rReq.direct, w.ctx)
        /\ rUrl' = UrlOf(rReq) /\ rReq' = RIdle
        /\ UNCHANGED <<rCfg, rDead, rPlay>>

RelayRefused ==
    /\ rReq.pc = "relay" /\ \E w \in RelayWays : Refused(w.proxy)
    /\ Fails

\* It fails through a proxy: 502; the same once more through a tunnel that was brought
\* back; or, once, a second extraction without the name.
RelayFails ==
    /\ rReq.pc = "relay"
    /\ \E w \in RelayWays :
        /\ w.proxy # RNil
        /\ Connected("stream", w.proxy, rReq.direct, w.ctx)
        /\ \/ /\ rDead' = MarkedDead(w.proxy, w.ctx, rReq.q.keyed)
              /\ rReq' = RIdle \/ (w.proxy \in RTunnel /\ rReq' = rReq)
           \/ /\ ~rReq.again /\ Forced(rReq) # RNil
              /\ rDead' = MarkedDead(Forced(rReq), w.ctx, rReq.q.keyed)
              /\ rReq' = [rReq EXCEPT !.again = TRUE, !.pc = "extract", !.ctx = w.ctx]
        /\ UNCHANGED <<rCfg, rUrl, rPlay>>

\* retry_with_different_proxy: the upstream refused, and the route was not named.  The
\* next proxy of the chain, never WARP, and not direct.
Rotated(next) ==
    /\ rReq.pc = "relay" /\ Forced(rReq) = RNil
    /\ \E w \in RelayWays :
        LET dead == MarkedDead(w.proxy, w.ctx, rReq.q.keyed)
            list == Chain(rPlay.host, FALSE, <<>>, w.ctx, TRUE).list
        IN  /\ w.proxy # RNil /\ next \in ToSet(list) \ {w.proxy}
            /\ next \notin dead \/ next = list[1]
            /\ rDead' = dead /\ Connected("stream", next, FALSE, w.ctx)
            /\ rReq' = RIdle /\ rUrl' = UrlOf(rReq)
            /\ UNCHANGED <<rCfg, rPlay>>

\* A player that has the URLs also asks for the key of its segments, or for a segment of
\* native DASH: handle_key_request, handle_dash_segment.  The name in the URL is not set
\* as the selected proxy of the context; DASH does not look at direct=1.
PieceRequested(kind) ==
    LET warpOff  == rUrl.warpOff \/ Policy("warp_off")
        proxyOff == rUrl.proxy = ROff \/ Policy("proxy_off")
    IN  /\ rUrl # RNil /\ rReq.pc = "idle"
        /\ rReq' = [RIdle EXCEPT !.pc = kind, !.q = rUrl, !.warpOff = warpOff,
                      !.selected = IF proxyOff THEN RNil ELSE Named(rUrl),
                      !.direct = (kind = "key" /\ rUrl.direct),
                      !.ctx = [RNoCtx EXCEPT !.warpOff = warpOff, !.proxyOff = proxyOff]]
        /\ rConn' = RNoConn /\ UNCHANGED <<rCfg, rDead, rUrl, rPlay>>

\* It is fetched, or refused; a key that fails through a proxy nobody named is asked for
\* once more.
PieceFetch ==
    /\ rReq.pc \in {"key", "dash"}
    /\ \E w \in RelayWays :
        \/ Refused(w.proxy) /\ Fails
        \/ /\ ~Refused(w.proxy) /\ Connected(rReq.pc, w.proxy, rReq.direct, w.ctx)
           /\ \/ rReq' = RIdle /\ UNCHANGED rDead
              \/ /\ rReq.pc = "key" /\ w.proxy # RNil /\ Forced(rReq) = RNil
                 /\ rDead' = MarkedDead(w.proxy, w.ctx, TRUE)
                 /\ rReq' = [rReq EXCEPT !.pc = "rekey", !.got = w.proxy, !.ctx = w.ctx]
           /\ UNCHANGED <<rCfg, rUrl, rPlay>>

\* ... by what is next in the chain, if that is another one.
KeyRetried ==
    /\ rReq.pc = "rekey"
    /\ \E w \in StreamWays(rPlay.host, FALSE, rReq.ctx, rReq.warpOff) :
         LET named == StaleDropped(rPlay.host, w.proxy, rReq.ctx, rReq.warpOff)
         IN  IF w.proxy \in {RNil, rReq.got} \/ named = RNil THEN Fails
             ELSE /\ Connected("key", named, FALSE, w.ctx) /\ rReq' = RIdle
                  /\ UNCHANGED <<rCfg, rDead, rUrl, rPlay>>

\* DUAL plays the same source by options of its own, made from the same query, which may
\* name the extractor.
DualOptions(q, known) ==
    [RNoCtx EXCEPT !.warpOff = q.warpOff \/ (known /\ Policy("warp_off")),
                   !.proxyOff = q.proxy = ROff \/ (known /\ Policy("proxy_off"))]

\* RoutingOptions.proxy_for, and the fetch.
DualFetch(known) ==
    /\ rReq.pc = "idle" /\ rPlay # RNil
    /\ LET h     == rPlay.host
           opt   == DualOptions(rPlay.q, known)
           named == Effective(h, Named(rPlay.q))
           left  == IF named = RWarp /\ ~WarpApplies(h, opt.warpOff) THEN RNil ELSE named
       IN  \E w \in IF left # RNil /\ ~opt.proxyOff THEN {Way(left, opt)}
                     ELSE StreamWays(h, known, opt, opt.warpOff) :
             rConn' = [by |-> "dual", proxy |-> w.proxy, direct |-> FALSE,
                       had |-> Configured(h, known, opt, opt.warpOff)]
    /\ UNCHANGED <<rCfg, rDead, rReq, rUrl, rPlay>>

\* The next playback.
Stops ==
    /\ rReq.pc = "idle" /\ rPlay # RNil /\ rUrl' = RNil /\ rPlay' = RNil /\ rConn' = RNoConn
    /\ UNCHANGED <<rCfg, rDead, rReq>>

-----------------------------------------------------------------------------
(* The panel.  (Its extractors are retired then: module ExtractorCache.)   *)

Configures(c) == rCfg' = c /\ rConn' = RNoConn /\ UNCHANGED <<rDead, rReq, rUrl, rPlay>>

WarpToggled == Configures([rCfg EXCEPT !.warp = ~@])
ListChanges(list) == rCfg.global # list /\ Configures([rCfg EXCEPT !.global = list])

RoutingNext ==
    \/ \E kind \in {"extractor", "proxy"}, h \in RHost, w, d \in BOOLEAN,
          p \in RNames : Begins(kind, h, w, p, d)
    \/ Continues \/ PolicyApplied \/ Relayed \/ ExtractFails \/ RouteChosen
    \/ ExtractorAnswers \/ RelayRefused \/ Stops \/ WarpToggled
    \/ \E kind \in {"key", "dash"} : PieceRequested(kind)
    \/ PieceFetch \/ KeyRetried \/ RouteRechosen \/ RelayFetch \/ RelayFails
    \/ \E b \in BOOLEAN : ExtractFetch(b) \/ DualFetch(b)
    \/ \E p \in Routes : Rotated(p)
    \/ \E list \in RLists : ListChanges(list)
    \/ \E p \in RProxy : DeadExpires(p)

-----------------------------------------------------------------------------
(* Properties.                                                             *)

\* Types; and the local endpoints are never passed over for a failure, in any order of
\* failing requests: their health is the socket's.
RoutingTypeOK ==
    /\ rReq.pc \in {"idle", "proxy", "extractor", "extract", "resolve", "route", "answer", "relay",
                    "key", "dash", "rekey"}
    /\ rReq.selected \in Routes \cup {RNil} /\ rReq.got \in Routes \cup {RNil}
    /\ rConn.proxy \in Routes \cup {RNil} /\ rDead \subseteq RProxy \ RTunnel
    /\ rUrl # RNil => rUrl.proxy \in Routes \cup {RNil, ROff}

\* A playback that asked for warp=off never goes through WARP, in any of its requests,
\* whatever the URLs and the extractor say; and once WARP is off in the panel, no stream,
\* key or segment goes there by what was decided or written before.
WarpOffKept ==
    rConn.proxy = RWarp => ~rPlay.q.warpOff /\ (rConn.by # "extract" => rCfg.warp)

\* A stream, a key and a segment go through the proxy the client named, and no other: not
\* by another one that answers sooner, not after a failure, not when the configuration
\* changes; the exceptions are excluded hosts and extractors with a policy.
NamedKept ==
    (rConn.by \notin {"none", "extract"} /\ Named(rPlay.q) \in RProxy /\ ~rConn.direct
     /\ rPlay.host \notin RNoProxy /\ rCfg.policy = {}) =>
        rConn.proxy = Named(rPlay.q)

\* They are fetched direct only by request, or when there is neither WARP nor a proxy in
\* the global list or the host's route (for DUAL, nor one of the extractor it names): not
\* because those there are fail.  The proxies of an extractor alone do not keep its
\* streams from going direct: get_proxy_for_url is not told the extractor.
NotSilentlyDirect ==
    (rConn.by \notin {"none", "extract"} /\ rConn.proxy = RNil) => rConn.direct \/ ~rConn.had

\* A host on the exclusion list, and a playback that asked for proxy=off, are fetched
\* direct or by WARP: no proxy named by an old URL, by the extractor or by the source of
\* the last answer comes back.
ExcludedKept ==
    (rConn.by # "none" /\ (rPlay.host \in RNoProxy \/ rPlay.q.proxy = ROff)) =>
        rConn.proxy \in {RWarp, RNil}

\* What a request asked for, or the configuration, is what it gets.
RoutesKept == WarpOffKept /\ NamedKept /\ NotSilentlyDirect /\ ExcludedKept
=============================================================================
