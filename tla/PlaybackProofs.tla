--------------------------- MODULE PlaybackProofs --------------------------
(* Routes, configuration, timelines and decryption, for any proxies, hosts, *)
(* lists, policies, renditions and segments.                               *)
(*                                                                         *)
(* A connection is as it was asked for (RoutesKept) because everything      *)
(* between the request of the client and the connection carries the        *)
(* request along: the routing context and the options of the call          *)
(* (CallOK), and the URLs the player gets (UrlOK).  The chain of a host    *)
(* holds only what the context allows (Holds), and so does the way each    *)
(* kind of request takes from it (WayOK).  Then one lemma for each action. *)
(*                                                                         *)
(* The configuration in memory, in the file and in the module names agree. *)
(*                                                                         *)
(* The expansion of a timeline and the decryption of a fragment are folds. *)
(* A fold is the value a recursion reaches after all entries (FoldExists),  *)
(* so both go entry by entry: after k entries there are the first k        *)
(* segments (OneByOne), or the first k samples, in the clear               *)
(* (EntriesDecrypt).                                                       *)
EXTENDS MCPlayback, ListProofs

-----------------------------------------------------------------------------
(* The routing.                                                            *)

Route == Routes \cup {RNil}
Ctx   == [warpOff : BOOLEAN, proxyOff : BOOLEAN, selected : Route, strict : BOOLEAN,
          source : SUBSET Routes]
Config == [warp : BOOLEAN, global : RLists, ext : RLists, route : RRoutes, policy : RPolicies]
Places == {"idle", "proxy", "extractor", "extract", "resolve", "route", "answer", "relay",
           "key", "dash", "rekey"}
Call  == [pc : Places, q : Query \cup {RNil}, ctx : Ctx, warpOff : BOOLEAN, selected : Route,
          direct : BOOLEAN, got : Route, again : BOOLEAN]

RouteTypes ==
    /\ rCfg \in Config /\ rDead \subseteq RProxy \ RTunnel
    /\ rReq \in Call /\ rUrl \in Query \cup {RNil} /\ rPlay \in Playing \cup {RNil}
    /\ rConn.proxy \in Route
    /\ rReq.pc # "idle" => rReq.q \in Query /\ rPlay # RNil
    /\ rUrl # RNil => rPlay # RNil

\* The client named a proxy, and nothing is said against it.
Fixed == Named(rPlay.q) \in RProxy /\ rPlay.host \notin RNoProxy /\ rCfg.policy = {}

CallOK(r) ==
    /\ rPlay.q.warpOff => r.warpOff
    /\ rPlay.q.proxy = ROff => r.ctx.proxyOff
    /\ Fixed => /\ r.selected = rPlay.q.proxy /\ r.q.proxy = rPlay.q.proxy /\ ~r.ctx.proxyOff
                /\ r.got \in {RNil, rPlay.q.proxy} /\ r.pc # "rekey"
                /\ r.pc \notin {"key", "dash"} => r.ctx.strict /\ r.ctx.selected = rPlay.q.proxy

UrlOK(u) ==
    /\ rPlay.q.warpOff => u.warpOff
    /\ rPlay.q.proxy = ROff => u.proxy = ROff
    /\ Fixed => u.proxy = rPlay.q.proxy

RouteInv ==
    /\ RouteTypes
    /\ rReq.pc # "idle" => CallOK(rReq)
    /\ rUrl # RNil => UrlOK(rUrl)
    /\ RoutesKept

-----------------------------------------------------------------------------
(* The chain and what is chosen from it.                                   *)

LEMMA Members ==
  ASSUME NEW S, NEW s \in Seq(S)
  PROVE  /\ ToSet(s) \subseteq S
         /\ s # <<>> => s[1] \in ToSet(s)
         /\ s = <<>> => ToSet(s) = {}
  <1>1. Len(s) \in Nat /\ DOMAIN s = 1 .. Len(s) /\ (s # <<>> => Len(s) # 0)
        /\ \A i \in 1 .. Len(s) : s[i] \in S
    BY LenProperties, EmptySeq
  <1>2. s = <<>> => DOMAIN s = {}
    OBVIOUS
  <1> QED BY <1>1, <1>2 DEF ToSet

LEMMA Joined ==
  ASSUME NEW S, NEW s \in Seq(S), NEW t \in Seq(S)
  PROVE  /\ s \o t \in Seq(S)
         /\ ToSet(s \o t) = ToSet(s) \cup ToSet(t)
         /\ s \o t = <<>> <=> s = <<>> /\ t = <<>>
  <1> DEFINE c == s \o t
             m == Len(s)
             n == Len(t)
  <1>1. /\ c \in Seq(S) /\ m \in Nat /\ n \in Nat /\ DOMAIN s = 1 .. m /\ DOMAIN t = 1 .. n
        /\ Len(c) = m + n /\ DOMAIN c = 1 .. m + n
        /\ \A i \in 1 .. m + n : c[i] = IF i <= m THEN s[i] ELSE t[i - m]
    BY ConcatProperties, LenProperties
  <1>2. /\ c = <<>> <=> m + n = 0
        /\ s = <<>> <=> m = 0
        /\ t = <<>> <=> n = 0
    BY <1>1, EmptySeq
  <1>3. ToSet(c) = ToSet(s) \cup ToSet(t)
    <2> HIDE DEF c, m, n
    <2>1. \A i \in 1 .. m : i \in 1 .. m + n /\ c[i] = s[i]
      BY <1>1
    <2>2. \A i \in 1 .. n : m + i \in 1 .. m + n /\ c[m + i] = t[i]
      BY <1>1
    <2>3. \A i \in 1 .. m + n : (i \in 1 .. m /\ c[i] = s[i]) \/ (i - m \in 1 .. n /\ c[i] = t[i - m])
      BY <1>1
    <2>4. /\ ToSet(c) = {c[i] : i \in 1 .. m + n}
          /\ ToSet(s) = {s[i] : i \in 1 .. m} /\ ToSet(t) = {t[i] : i \in 1 .. n}
      BY <1>1 DEF ToSet
    <2>5. ToSet(c) \subseteq ToSet(s) \cup ToSet(t)
      BY <2>3, <2>4
    <2>6. ToSet(s) \subseteq ToSet(c) /\ ToSet(t) \subseteq ToSet(c)
      BY <2>1, <2>2, <2>4
    <2> QED BY <2>5, <2>6
  <1> QED BY <1>1, <1>2, <1>3

LEMMA OneList ==
  ASSUME NEW S, NEW p \in S \cup {RNil}, RNil \notin S
  PROVE  One(p) \in Seq(S) /\ ToSet(One(p)) = {p} \ {RNil} /\ (One(p) = <<>> <=> p = RNil)
  BY DEF One, ToSet

\* What the chain holds: WARP only where it applies, nothing else for an excluded host, and
\* the named proxy alone when it is strict; it is empty only if there is nothing to hold.
Holds(c, h, known, ctx, warpOff) ==
    /\ c.list \in Seq(Routes) /\ c.strict \in BOOLEAN
    /\ RWarp \in ToSet(c.list) => rCfg.warp /\ ~warpOff
    /\ ctx.proxyOff \/ h \in RNoProxy => ToSet(c.list) \subseteq {RWarp}
    /\ c.list = <<>> => ~Configured(h, known, ctx, warpOff)
    /\ c.strict => ctx.strict
    /\ ~ctx.proxyOff /\ h \notin RNoProxy /\ ctx.strict /\ ctx.selected \in RProxy =>
         c.strict /\ c.list = <<ctx.selected>>

LEMMA ChainHolds ==
  ASSUME RouteTypes, NEW h, NEW known \in BOOLEAN, NEW fallback \in RLists \cup {<<>>},
         NEW ctx \in Ctx, NEW warpOff \in BOOLEAN
  PROVE  Holds(Chain(h, known, fallback, ctx, warpOff), h, known, ctx, warpOff)
  <1> DEFINE wp == IF WarpApplies(h, warpOff) THEN RWarp ELSE RNil
             rt == Usable(rCfg.route, warpOff)
             cs == Custom(ctx.selected)
             ow == Own(known)
             c  == Chain(h, known, fallback, ctx, warpOff)
  <1>1. /\ rCfg.warp \in BOOLEAN /\ rCfg.global \in RLists /\ rCfg.ext \in RLists
        /\ rCfg.route \in RRoutes
    BY DEF RouteTypes, Config
  <1>2. /\ ctx.selected \in Route /\ ctx.strict \in BOOLEAN /\ ctx.proxyOff \in BOOLEAN
    BY DEF Ctx
  <1>3. /\ rCfg.global \in Seq(RProxy) /\ ow \in Seq(RProxy) /\ fallback \in Seq(RProxy)
    <2>1. <<>> \in Seq(RProxy)
      BY EmptySeq
    <2>2. rCfg.global \in Seq(RProxy) /\ rCfg.ext \in Seq(RProxy) /\ fallback \in Seq(RProxy)
      BY <1>1, <2>1, RoutingAssumption
    <2>3. ow \in Seq(RProxy)
      BY <2>1, <2>2 DEF Own
    <2> QED BY <2>2, <2>3
  <1>4. RProxy \subseteq Routes /\ RNil \notin Routes /\ RNil \notin RProxy /\ RWarp \notin RProxy
        /\ RWarp \in Routes /\ rCfg.route \in Route
    BY <1>1, RoutingAssumption DEF Routes, Route
  <1>5. wp \in {RWarp, RNil} /\ (wp = RWarp => rCfg.warp /\ ~warpOff)
        /\ (wp = RNil => ~WarpApplies(h, warpOff))
    BY <1>4 DEF WarpApplies
  <1>6. /\ rt \in Route /\ (rt = RWarp => rCfg.warp /\ ~warpOff)
        /\ rt = RNil => rCfg.route \in {RNil, RWarp}
    BY <1>1, <1>4 DEF Usable, Route
  <1>7. cs \in RProxy \cup {RNil}
    BY <1>2 DEF Custom, Route, Routes
  <1> HIDE DEF wp, rt, cs, ow
  <1> DEFINE w1 == One(wp)
             o1 == One(rt)
             o2 == o1 \o ow
             o3 == o2 \o One(cs)
             o4 == o3 \o fallback
             o5 == o4 \o rCfg.global
             o6 == o5 \o w1
  <1>8. /\ w1 \in Seq(Routes) /\ ToSet(w1) = {wp} \ {RNil} /\ (w1 = <<>> <=> wp = RNil)
    BY <1>4, <1>5, OneList
  <1>9. /\ rCfg.global \in Seq(Routes) /\ ow \in Seq(Routes) /\ fallback \in Seq(Routes)
        /\ RWarp \notin ToSet(rCfg.global) /\ RWarp \notin ToSet(ow)
        /\ RWarp \notin ToSet(fallback)
        /\ (rCfg.global = <<>> => ToSet(rCfg.global) = {})
        /\ (ow = <<>> => ToSet(ow) = {})
    <2>1. \A l \in Seq(RProxy) : l \in Seq(Routes)
      BY <1>4, SeqDef
    <2> QED BY <1>3, <1>4, <2>1, Members
  <1>10. /\ o1 \in Seq(Routes) /\ ToSet(o1) = {rt} \ {RNil} /\ (o1 = <<>> <=> rt = RNil)
    BY <1>4, <1>6, OneList DEF Route
  <1>11. One(cs) \in Seq(Routes) /\ RWarp \notin ToSet(One(cs))
    <2>1. cs \in Routes \cup {RNil}
      BY <1>4, <1>7
    <2>2. ToSet(One(cs)) = {cs} \ {RNil} /\ One(cs) \in Seq(Routes)
      BY <1>4, <2>1, OneList
    <2> QED BY <1>4, <1>7, <2>2
  <1> HIDE DEF w1, o1
  <1>12. /\ o2 \in Seq(Routes) /\ ToSet(o2) = ToSet(o1) \cup ToSet(ow)
         /\ o2 = <<>> <=> o1 = <<>> /\ ow = <<>>
    BY <1>9, <1>10, Joined
  <1> HIDE DEF o2
  <1>13. /\ o3 \in Seq(Routes) /\ ToSet(o3) = ToSet(o2) \cup ToSet(One(cs))
         /\ o3 = <<>> => o2 = <<>>
    BY <1>11, <1>12, Joined
  <1> HIDE DEF o3
  <1>14. /\ o4 \in Seq(Routes) /\ ToSet(o4) = ToSet(o3) \cup ToSet(fallback)
         /\ o4 = <<>> => o3 = <<>>
    BY <1>9, <1>13, Joined
  <1> HIDE DEF o4
  <1>15. /\ o5 \in Seq(Routes) /\ ToSet(o5) = ToSet(o4) \cup ToSet(rCfg.global)
         /\ o5 = <<>> => o4 = <<>> /\ rCfg.global = <<>>
    BY <1>9, <1>14, Joined
  <1> HIDE DEF o5
  <1>16. /\ o6 \in Seq(Routes) /\ ToSet(o6) = ToSet(o5) \cup ToSet(w1)
         /\ o6 = <<>> => o5 = <<>> /\ w1 = <<>>
    BY <1>8, <1>15, Joined
  <1> HIDE DEF o6
  <1>17. c = IF ctx.proxyOff \/ h \in RNoProxy THEN [list |-> w1, strict |-> FALSE]
             ELSE IF StrictOnly(ctx, warpOff) THEN [list |-> <<ctx.selected>>, strict |-> TRUE]
             ELSE [list |-> o6, strict |-> FALSE]
    BY DEF Chain, w1, o1, o2, o3, o4, o5, o6, wp, rt, cs, ow
  <1> HIDE DEF c
  <1>18. StrictOnly(ctx, warpOff) =>
           /\ ctx.strict /\ ctx.selected \in Routes
           /\ ctx.selected = RWarp => rCfg.warp /\ ~warpOff
    BY <1>2, <1>4 DEF StrictOnly, Usable, Route
  <1>19. ctx.strict /\ ctx.selected \in RProxy => StrictOnly(ctx, warpOff)
    BY <1>4 DEF StrictOnly, Usable
  <1>20. WarpApplies(h, warpOff) <=> wp = RWarp
    BY <1>4, <1>5 DEF wp
  <1>21. ASSUME ctx.proxyOff \/ h \in RNoProxy PROVE Holds(c, h, known, ctx, warpOff)
    <2>1. c.list = w1 /\ c.strict = FALSE
      BY <1>17, <1>21
    <2>2. ToSet(w1) \subseteq {RWarp} /\ (RWarp \in ToSet(w1) => wp = RWarp)
      BY <1>4, <1>5, <1>8
    <2>3. w1 = <<>> => ~Configured(h, known, ctx, warpOff)
      BY <1>4, <1>8, <1>20, <1>21 DEF Configured
    <2> QED BY <1>5, <1>8, <1>21, <2>1, <2>2, <2>3 DEF Holds
  <1>22. ASSUME ~(ctx.proxyOff \/ h \in RNoProxy) /\ StrictOnly(ctx, warpOff) PROVE Holds(c, h, known, ctx, warpOff)
    <2>1. c.list = <<ctx.selected>> /\ c.strict = TRUE
      BY <1>17, <1>22
    <2>2. ToSet(c.list) = {ctx.selected} /\ c.list # <<>> /\ c.list \in Seq(Routes)
      BY <1>18, <1>22, <2>1 DEF ToSet
    <2> QED BY <1>18, <1>22, <2>1, <2>2 DEF Holds
  <1>23. ASSUME ~(ctx.proxyOff \/ h \in RNoProxy) /\ ~StrictOnly(ctx, warpOff) PROVE Holds(c, h, known, ctx, warpOff)
    <2>1. c.list = o6 /\ c.strict = FALSE
      BY <1>17, <1>23
    <2>2. RWarp \in ToSet(o6) => RWarp \in ToSet(o1) \cup ToSet(w1)
      BY <1>9, <1>11, <1>12, <1>13, <1>14, <1>15, <1>16
    <2>3. RWarp \in ToSet(o6) => rCfg.warp /\ ~warpOff
      BY <1>4, <1>5, <1>6, <1>8, <1>10, <2>2
    <2>4. o6 = <<>> => ~Configured(h, known, ctx, warpOff)
      <3> SUFFICES ASSUME o6 = <<>> PROVE ~Configured(h, known, ctx, warpOff)
        OBVIOUS
      <3>1. w1 = <<>> /\ o1 = <<>> /\ ow = <<>> /\ rCfg.global = <<>>
        BY <1>12, <1>13, <1>14, <1>15, <1>16
      <3>2. wp = RNil /\ rt = RNil
        BY <1>8, <1>10, <3>1
      <3>3. ToSet(ow) = {} /\ ToSet(rCfg.global) = {} /\ {rCfg.route} \ {RWarp, RNil} = {}
        BY <1>6, <1>9, <3>1, <3>2
      <3> QED BY <1>4, <1>20, <3>2, <3>3 DEF Configured, ow
    <2> QED BY <1>16, <1>19, <1>23, <2>1, <2>3, <2>4 DEF Holds
  <1>24. Holds(c, h, known, ctx, warpOff)
    BY <1>21, <1>22, <1>23
  <1> QED BY <1>24 DEF c

Seen(ctx, s, p, b)  == [ctx EXCEPT !.source = s, !.selected = p, !.strict = b]
WithSource(ctx, s)   == [ctx EXCEPT !.source = s]
WithSelected(ctx, p) == [ctx EXCEPT !.selected = p]

LEMMA SeenFields ==
  ASSUME NEW ctx \in Ctx, NEW s \in SUBSET Routes, NEW p \in Route, NEW b \in BOOLEAN
  PROVE  /\ Seen(ctx, s, p, b) \in Ctx /\ Seen(ctx, s, p, b).proxyOff = ctx.proxyOff
         /\ Seen(ctx, s, p, b).selected = p /\ Seen(ctx, s, p, b).strict = b
  <1> DEFINE x == Seen(ctx, s, p, b)
  <1>1. x \in Ctx
    BY ZenonT(60) DEF Ctx, Seen
  <1>2. x.proxyOff = ctx.proxyOff /\ x.selected = p /\ x.strict = b
    BY ZenonT(60) DEF Ctx, Seen
  <1> QED BY <1>1, <1>2

LEMMA SourceFields ==
  ASSUME NEW ctx \in Ctx, NEW s \in SUBSET Routes
  PROVE  /\ WithSource(ctx, s) \in Ctx /\ WithSource(ctx, s).proxyOff = ctx.proxyOff
         /\ WithSource(ctx, s).selected = ctx.selected
         /\ WithSource(ctx, s).strict = ctx.strict
  <1> DEFINE x == WithSource(ctx, s)
  <1>1. x \in Ctx
    BY ZenonT(60) DEF Ctx, WithSource
  <1>2. x.proxyOff = ctx.proxyOff /\ x.selected = ctx.selected /\ x.strict = ctx.strict
    BY ZenonT(60) DEF Ctx, WithSource
  <1> QED BY <1>1, <1>2

LEMMA SelectedFields ==
  ASSUME NEW ctx \in Ctx, NEW p \in Route
  PROVE  /\ WithSelected(ctx, p) \in Ctx /\ WithSelected(ctx, p).proxyOff = ctx.proxyOff
         /\ WithSelected(ctx, p).selected = p /\ WithSelected(ctx, p).strict = ctx.strict
  <1> DEFINE x == WithSelected(ctx, p)
  <1>1. x \in Ctx
    BY ZenonT(60) DEF Ctx, WithSelected
  <1>2. x.proxyOff = ctx.proxyOff /\ x.selected = p /\ x.strict = ctx.strict
    BY ZenonT(60) DEF Ctx, WithSelected
  <1> QED BY <1>1, <1>2

\* What a way to h is worth.
WayOK(w, h, ctx, warpOff) ==
    /\ w.proxy \in Route /\ w.ctx \in Ctx /\ w.ctx.proxyOff = ctx.proxyOff
    /\ w.proxy = RWarp => rCfg.warp /\ ~warpOff
    /\ ctx.proxyOff \/ h \in RNoProxy => w.proxy \in {RWarp, RNil}
    /\ ~ctx.proxyOff /\ h \notin RNoProxy /\ ctx.strict /\ ctx.selected \in RProxy =>
         w.proxy = ctx.selected /\ w.ctx.strict /\ w.ctx.selected = ctx.selected

LEMMA RouteFacts ==
  RProxy \subseteq Routes /\ RNil \notin Routes /\ RWarp \in Routes /\ RWarp \notin RProxy
  /\ RNil \in Route /\ Routes \subseteq Route /\ RTunnel \subseteq RProxy /\ ROff \notin Route
  BY RoutingAssumption DEF Routes, Route

LEMMA AnsweringOf ==
  ASSUME NEW list \in Seq(Routes), list # <<>>, NEW up \in Answering(list)
  PROVE  /\ up = RNil \/ up \in ToSet(list)
         /\ (IF up = RNil THEN LastResort(list) ELSE up) \in ToSet(list)
         /\ ToSet(list) \subseteq Routes
  BY Members, RouteFacts DEF Answering, LastResort

LEMMA StreamWaysOK ==
  ASSUME RouteTypes, NEW h, NEW known \in BOOLEAN, NEW ctx \in Ctx, NEW warpOff \in BOOLEAN,
         NEW w \in StreamWays(h, known, ctx, warpOff)
  PROVE  /\ WayOK(w, h, ctx, warpOff)
         /\ w.proxy = RNil => ~Configured(h, known, w.ctx, warpOff)
  <1> DEFINE c == Chain(h, known, <<>>, ctx, warpOff)
  <1>1. Holds(c, h, known, ctx, warpOff)
    BY ChainHolds
  <1>2. CASE c.list = <<>>
    <2>1. w = Way(RNil, ctx)
      BY <1>2 DEF StreamWays
    <2>2. w.proxy = RNil /\ w.ctx = ctx
      BY <2>1 DEF Way
    <2> HIDE DEF c
    <2>3. ~(~ctx.proxyOff /\ h \notin RNoProxy /\ ctx.strict /\ ctx.selected \in RProxy)
      <3>1. <<ctx.selected>> # <<>>
        OBVIOUS
      <3> QED BY <1>1, <1>2, <3>1 DEF Holds
    <2> QED BY <1>1, <1>2, <2>2, <2>3, RouteFacts DEF Holds, WayOK
  <1>3. CASE c.list # <<>>
    <2>1. PICK up \in Answering(c.list) :
             w = LET p == IF up = RNil THEN LastResort(c.list) ELSE up
                 IN  Way(p, [ctx EXCEPT !.source = ToSet(c.list), !.selected = p,
                                        !.strict = c.strict])
      BY <1>3 DEF StreamWays
    <2> HIDE DEF c
    <2> DEFINE p == IF up = RNil THEN LastResort(c.list) ELSE up
               x == Seen(ctx, ToSet(c.list), p, c.strict)
    <2>2. p \in ToSet(c.list) /\ ToSet(c.list) \subseteq Routes
      BY <1>1, <1>3, AnsweringOf DEF Holds
    <2>3. w.proxy = p /\ w.ctx = x
      BY <2>1 DEF Way, Seen
    <2>4. c.strict \in BOOLEAN /\ p \in Route /\ p # RNil
      BY <1>1, <2>2, RouteFacts DEF Holds
    <2> HIDE DEF p
    <2>5. x \in Ctx /\ x.proxyOff = ctx.proxyOff /\ x.selected = p /\ x.strict = c.strict
      BY <2>2, <2>4, SeenFields
    <2> HIDE DEF x
    <2>6. c.list = <<ctx.selected>> => p = ctx.selected
      BY <2>2 DEF ToSet
    <2> QED BY <1>1, <2>2, <2>3, <2>4, <2>5, <2>6 DEF Holds, WayOK
  <1> QED BY <1>2, <1>3

LEMMA PreferredWaysOK ==
  ASSUME RouteTypes, NEW h, NEW ctx \in Ctx, NEW warpOff \in BOOLEAN,
         NEW w \in PreferredWays(h, ctx, warpOff)
  PROVE  WayOK(w, h, ctx, warpOff)
  <1> DEFINE c == Chain(h, TRUE, rCfg.global, ctx, warpOff)
  <1>1. Holds(c, h, TRUE, ctx, warpOff)
    <2>1. TRUE \in BOOLEAN /\ rCfg.global \in RLists
      BY DEF RouteTypes, Config
    <2> QED BY <2>1, ChainHolds
  <1>2. CASE c.list = <<>>
    <2>1. w = Way(RNil, ctx)
      BY <1>2 DEF PreferredWays
    <2>2. w.proxy = RNil /\ w.ctx = ctx
      BY <2>1 DEF Way
    <2> HIDE DEF c
    <2>3. ~(~ctx.proxyOff /\ h \notin RNoProxy /\ ctx.strict /\ ctx.selected \in RProxy)
      <3>1. <<ctx.selected>> # <<>>
        OBVIOUS
      <3> QED BY <1>1, <1>2, <3>1 DEF Holds
    <2> QED BY <2>2, <2>3, RouteFacts DEF WayOK
  <1>3. CASE c.list # <<>>
    <2> DEFINE last == IF c.strict THEN c.list[1]
                       ELSE IF WarpApplies(h, warpOff) THEN RWarp ELSE RNil
               y == WithSource(ctx, ToSet(c.list))
    <2>1. PICK up \in Answering(c.list) :
             w = IF up = RNil THEN Way(last, y) ELSE Way(up, WithSelected(y, up))
      BY <1>3 DEF PreferredWays, WithSource, WithSelected
    <2> HIDE DEF c
    <2>2. /\ up = RNil \/ up \in ToSet(c.list)
          /\ ToSet(c.list) \subseteq Routes
      BY <1>1, <1>3, AnsweringOf DEF Holds
    <2>3. y \in Ctx /\ y.proxyOff = ctx.proxyOff /\ y.selected = ctx.selected
          /\ y.strict = ctx.strict
      BY <2>2, SourceFields
    <2> HIDE DEF y
    <2>4. CASE up = RNil
      <3>1. w.proxy = last /\ w.ctx = y
        BY <2>1, <2>4 DEF Way
      <3>2. c.strict => c.list[1] \in ToSet(c.list)
        BY <1>1, <1>3, Members DEF Holds
      <3>3. WarpApplies(h, warpOff) => rCfg.warp /\ ~warpOff
        BY DEF WarpApplies
      <3>4. c.list = <<ctx.selected>> => c.list[1] = ctx.selected
        OBVIOUS
      <3>5. last \in Route /\ (last = RWarp => rCfg.warp /\ ~warpOff)
        BY <1>1, <2>2, <3>2, <3>3, RouteFacts DEF Holds
      <3>6. ctx.proxyOff \/ h \in RNoProxy => last \in {RWarp, RNil}
        BY <1>1, <2>2, <3>2, RouteFacts DEF Holds
      <3>7. c.strict => last = c.list[1]
        OBVIOUS
      <3> HIDE DEF last
      <3> QED BY <1>1, <2>3, <3>1, <3>4, <3>5, <3>6, <3>7 DEF Holds, WayOK
    <2>5. CASE up # RNil
      <3> DEFINE z == WithSelected(y, up)
      <3>1. w.proxy = up /\ w.ctx = z
        BY <2>1, <2>5 DEF Way
      <3>2. up \in ToSet(c.list) /\ up \in Route
        BY <2>2, <2>5, RouteFacts
      <3>3. z \in Ctx /\ z.proxyOff = y.proxyOff /\ z.selected = up /\ z.strict = y.strict
        BY <2>3, <3>2, SelectedFields
      <3> HIDE DEF z
      <3>4. c.list = <<ctx.selected>> => up = ctx.selected
        BY <3>2 DEF ToSet
      <3> QED BY <1>1, <2>3, <3>1, <3>2, <3>3, <3>4 DEF Holds, WayOK
    <2> QED BY <2>4, <2>5
  <1> QED BY <1>2, <1>3

LEMMA UsableIs ==
  ASSUME NEW p \in Route, NEW warpOff \in BOOLEAN
  PROVE  /\ Usable(p, warpOff) \in {p, RNil} /\ Usable(p, warpOff) \in Route
         /\ Usable(p, warpOff) = RWarp => rCfg.warp /\ ~warpOff
         /\ p # RWarp => Usable(p, warpOff) = p
  BY RouteFacts DEF Usable

LEMMA EffectiveIs ==
  ASSUME NEW p \in Route, NEW h
  PROVE  /\ Effective(h, p) \in {p, RNil} /\ Effective(h, p) \in Route
         /\ h \notin RNoProxy => Effective(h, p) = p
         /\ h \in RNoProxy => Effective(h, p) \in {RWarp, RNil}
  BY RouteFacts DEF Effective

LEMMA NamedIs ==
  ASSUME NEW q \in Query
  PROVE  /\ Named(q) \in Route
         /\ Named(q) \in RProxy => q.proxy = Named(q) /\ q.proxy # ROff
         /\ q.proxy \in RProxy => Named(q) = q.proxy
  BY RouteFacts DEF Named

LEMMA CallFields ==
  ASSUME NEW r \in Call
  PROVE  /\ r.pc \in Places /\ r.q \in Query \cup {RNil} /\ r.ctx \in Ctx /\ r.warpOff \in BOOLEAN
         /\ r.selected \in Route /\ r.direct \in BOOLEAN /\ r.got \in Route /\ r.again \in BOOLEAN
         /\ r.ctx.proxyOff \in BOOLEAN /\ r.ctx.selected \in Route /\ r.ctx.strict \in BOOLEAN
         /\ r.ctx.source \subseteq Routes
  BY DEF Call, Ctx

LEMMA StaleDroppedIs ==
  ASSUME NEW h, NEW p \in Route, NEW ctx \in Ctx, NEW warpOff \in BOOLEAN
  PROVE  LET left == StaleDropped(h, p, ctx, warpOff)
         IN  /\ left \in {p, RNil} /\ left \in Route
             /\ left = RWarp => rCfg.warp /\ ~warpOff
             /\ ctx.proxyOff => left = RNil
             /\ h \in RNoProxy => left \in {RWarp, RNil}
             /\ ~ctx.proxyOff /\ h \notin RNoProxy /\ p \in RProxy => left = p
  BY UsableIs, EffectiveIs, RouteFacts DEF StaleDropped, Ctx

\* The proxy the relay is told to use.
LEMMA ForcedIs ==
  ASSUME RouteTypes, rReq.pc # "idle", CallOK(rReq)
  PROVE  /\ Forced(rReq) \in Route
         /\ rReq.direct => Forced(rReq) = RNil
         /\ Fixed /\ ~rReq.direct => Forced(rReq) = rPlay.q.proxy
  <1>1. rReq \in Call /\ rReq.q \in Query /\ rPlay \in Playing
    BY DEF RouteTypes
  <1>2. Named(rReq.q) \in Route /\ rReq.selected \in Route /\ rReq.warpOff \in BOOLEAN
    BY <1>1, NamedIs, CallFields
  <1>3. Fixed => rPlay.q.proxy \in RProxy
    BY <1>1, NamedIs DEF Fixed, Playing
  <1>4. Fixed => rReq.selected = rPlay.q.proxy /\ ~rReq.ctx.proxyOff
    BY DEF CallOK
  <1>5. \A p \in RProxy : Usable(p, rReq.warpOff) = p /\ p # RNil
    BY <1>2, UsableIs, RouteFacts
  <1>6. \A p \in Route : Usable(p, rReq.warpOff) \in Route
    BY <1>2, UsableIs
  <1> QED BY <1>2, <1>3, <1>4, <1>5, <1>6, RouteFacts DEF Forced

\* The ways of the relay.
RelayWayOK(w) ==
    /\ w.proxy \in Route /\ w.ctx \in Ctx /\ w.ctx.proxyOff = rReq.ctx.proxyOff
    /\ w.proxy = RWarp => rCfg.warp /\ ~rReq.warpOff
    /\ rReq.direct => w.proxy = RNil
    /\ w.proxy = RNil => rReq.direct \/ ~Configured(rPlay.host, FALSE, w.ctx, rReq.warpOff)
    /\ rReq.ctx.proxyOff \/ rPlay.host \in RNoProxy => w.proxy \in {RWarp, RNil}
    /\ Fixed => /\ w.ctx = rReq.ctx
                /\ ~rReq.direct => w.proxy = rPlay.q.proxy

LEMMA RelayWaysOK ==
  ASSUME RouteTypes, rReq.pc # "idle", CallOK(rReq), NEW w \in RelayWays
  PROVE  RelayWayOK(w)
  <1>1. rReq \in Call /\ rReq.q \in Query /\ rPlay \in Playing
    BY DEF RouteTypes
  <1>2. rReq.warpOff \in BOOLEAN /\ rReq.ctx \in Ctx /\ rReq.direct \in BOOLEAN
        /\ rReq.ctx.proxyOff \in BOOLEAN
    BY <1>1, CallFields
  <1>3. Fixed => rPlay.q.proxy \in RProxy /\ rPlay.host \notin RNoProxy
                 /\ ~rReq.ctx.proxyOff
    BY <1>1, NamedIs DEF Fixed, Playing, CallOK
  <1> DEFINE left == StaleDropped(rPlay.host, Forced(rReq), rReq.ctx, rReq.warpOff)
  <1>4. /\ left \in Route /\ (left = RWarp => rCfg.warp /\ ~rReq.warpOff)
        /\ rReq.ctx.proxyOff => left = RNil
        /\ rPlay.host \in RNoProxy => left \in {RWarp, RNil}
        /\ Fixed /\ ~rReq.direct => left = rPlay.q.proxy
    BY <1>2, <1>3, ForcedIs, StaleDroppedIs
  <1>5. CASE rReq.direct
    <2>1. w = Way(RNil, rReq.ctx)
      BY <1>5 DEF RelayWays
    <2>2. w.proxy = RNil /\ w.ctx = rReq.ctx
      BY <2>1 DEF Way
    <2> QED BY <1>2, <1>5, <2>2, RouteFacts DEF RelayWayOK
  <1>6. CASE ~rReq.direct /\ left # RNil
    <2>1. w = Way(left, rReq.ctx)
      BY <1>6 DEF RelayWays
    <2>2. w.proxy = left /\ w.ctx = rReq.ctx
      BY <2>1 DEF Way
    <2> HIDE DEF left
    <2> QED BY <1>2, <1>4, <1>6, <2>2, RouteFacts DEF RelayWayOK
  <1>7. CASE ~rReq.direct /\ left = RNil
    <2>1. w \in StreamWays(rPlay.host, FALSE, rReq.ctx, rReq.warpOff)
      BY <1>7 DEF RelayWays
    <2>2. /\ WayOK(w, rPlay.host, rReq.ctx, rReq.warpOff)
          /\ w.proxy = RNil => ~Configured(rPlay.host, FALSE, w.ctx, rReq.warpOff)
      BY <1>2, <2>1, StreamWaysOK
    <2>3. ~Fixed
      BY <1>3, <1>4, <1>7, RouteFacts
    <2> QED BY <1>7, <2>2, <2>3 DEF WayOK, RelayWayOK
  <1> QED BY <1>2, <1>5, <1>6, <1>7

-----------------------------------------------------------------------------
(* What a change of some fields of a context or of a call leaves.          *)

Asked(ctx, w, o, s, b) ==
    [ctx EXCEPT !.warpOff = w, !.proxyOff = o, !.selected = s, !.strict = b]

LEMMA AskedFields ==
  ASSUME NEW ctx \in Ctx, NEW w \in BOOLEAN, NEW o \in BOOLEAN, NEW s \in Route,
         NEW b \in BOOLEAN
  PROVE  LET x == Asked(ctx, w, o, s, b)
         IN  /\ x \in Ctx /\ x.warpOff = w /\ x.proxyOff = o /\ x.selected = s
             /\ x.strict = b /\ x.source = ctx.source
  <1> DEFINE x == Asked(ctx, w, o, s, b)
  <1>1. x \in Ctx
    BY ZenonT(60) DEF Ctx, Asked
  <1>2. /\ x.warpOff = w /\ x.proxyOff = o /\ x.selected = s /\ x.strict = b
        /\ x.source = ctx.source
    BY ZenonT(60) DEF Ctx, Asked
  <1> QED BY <1>1, <1>2

Renamed(ctx, w, o, s) ==
    [ctx EXCEPT !.warpOff = w, !.proxyOff = o, !.selected = s]

LEMMA RenamedFields ==
  ASSUME NEW ctx \in Ctx, NEW w \in BOOLEAN, NEW o \in BOOLEAN, NEW s \in Route
  PROVE  LET x == Renamed(ctx, w, o, s)
         IN  /\ x \in Ctx /\ x.warpOff = w /\ x.proxyOff = o /\ x.selected = s
             /\ x.strict = ctx.strict /\ x.source = ctx.source
  <1> DEFINE x == Renamed(ctx, w, o, s)
  <1>1. x \in Ctx
    BY ZenonT(60) DEF Ctx, Renamed
  <1>2. /\ x.warpOff = w /\ x.proxyOff = o /\ x.selected = s /\ x.strict = ctx.strict
        /\ x.source = ctx.source
    BY ZenonT(60) DEF Ctx, Renamed
  <1> QED BY <1>1, <1>2

Bypassing(ctx, w, o) ==
    [ctx EXCEPT !.warpOff = w, !.proxyOff = o]

LEMMA BypassingFields ==
  ASSUME NEW ctx \in Ctx, NEW w \in BOOLEAN, NEW o \in BOOLEAN
  PROVE  LET x == Bypassing(ctx, w, o)
         IN  /\ x \in Ctx /\ x.warpOff = w /\ x.proxyOff = o
             /\ x.selected = ctx.selected /\ x.strict = ctx.strict
             /\ x.source = ctx.source
  <1> DEFINE x == Bypassing(ctx, w, o)
  <1>1. x \in Ctx
    BY ZenonT(60) DEF Ctx, Bypassing
  <1>2. /\ x.warpOff = w /\ x.proxyOff = o /\ x.selected = ctx.selected
        /\ x.strict = ctx.strict /\ x.source = ctx.source
    BY ZenonT(60) DEF Ctx, Bypassing
  <1> QED BY <1>1, <1>2

Entered(r, pc, q, w, s, d, c) ==
    [r EXCEPT !.pc = pc, !.q = q, !.warpOff = w, !.selected = s, !.direct = d, !.ctx = c]

LEMMA EnteredFields ==
  ASSUME NEW r \in Call, NEW pc \in Places, NEW q \in Query, NEW w \in BOOLEAN,
         NEW s \in Route, NEW d \in BOOLEAN, NEW c \in Ctx
  PROVE  LET x == Entered(r, pc, q, w, s, d, c)
         IN  /\ x \in Call /\ x.pc = pc /\ x.q = q /\ x.ctx = c /\ x.warpOff = w
             /\ x.selected = s /\ x.direct = d /\ x.got = r.got /\ x.again = r.again
  <1> DEFINE x == Entered(r, pc, q, w, s, d, c)
  <1>1. x \in Call
    BY ZenonT(60) DEF Call, Entered
  <1>2. /\ x.pc = pc /\ x.q = q /\ x.ctx = c /\ x.warpOff = w /\ x.selected = s
        /\ x.direct = d /\ x.got = r.got /\ x.again = r.again
    BY ZenonT(60) DEF Call, Entered
  <1> QED BY <1>1, <1>2

Told(r, pc, w, s, c) ==
    [r EXCEPT !.pc = pc, !.warpOff = w, !.selected = s, !.ctx = c]

LEMMA ToldFields ==
  ASSUME NEW r \in Call, NEW pc \in Places, NEW w \in BOOLEAN, NEW s \in Route,
         NEW c \in Ctx
  PROVE  LET x == Told(r, pc, w, s, c)
         IN  /\ x \in Call /\ x.pc = pc /\ x.q = r.q /\ x.ctx = c /\ x.warpOff = w
             /\ x.selected = s /\ x.direct = r.direct /\ x.got = r.got
             /\ x.again = r.again
  <1> DEFINE x == Told(r, pc, w, s, c)
  <1>1. x \in Call
    BY ZenonT(60) DEF Call, Told
  <1>2. /\ x.pc = pc /\ x.q = r.q /\ x.ctx = c /\ x.warpOff = w /\ x.selected = s
        /\ x.direct = r.direct /\ x.got = r.got /\ x.again = r.again
    BY ZenonT(60) DEF Call, Told
  <1> QED BY <1>1, <1>2

At(r, pc) ==
    [r EXCEPT !.pc = pc]

LEMMA AtFields ==
  ASSUME NEW r \in Call, NEW pc \in Places
  PROVE  LET x == At(r, pc)
         IN  /\ x \in Call /\ x.pc = pc /\ x.q = r.q /\ x.ctx = r.ctx
             /\ x.warpOff = r.warpOff /\ x.selected = r.selected
             /\ x.direct = r.direct /\ x.got = r.got /\ x.again = r.again
  <1> DEFINE x == At(r, pc)
  <1>1. x \in Call
    BY ZenonT(60) DEF Call, At
  <1>2. /\ x.pc = pc /\ x.q = r.q /\ x.ctx = r.ctx /\ x.warpOff = r.warpOff
        /\ x.selected = r.selected /\ x.direct = r.direct /\ x.got = r.got
        /\ x.again = r.again
    BY ZenonT(60) DEF Call, At
  <1> QED BY <1>1, <1>2

Fetched(r, g, c, d, w, pc) ==
    [r EXCEPT !.got = g, !.ctx = c, !.direct = d, !.warpOff = w, !.pc = pc]

LEMMA FetchedFields ==
  ASSUME NEW r \in Call, NEW g \in Route, NEW c \in Ctx, NEW d \in BOOLEAN,
         NEW w \in BOOLEAN, NEW pc \in Places
  PROVE  LET x == Fetched(r, g, c, d, w, pc)
         IN  /\ x \in Call /\ x.pc = pc /\ x.q = r.q /\ x.ctx = c /\ x.warpOff = w
             /\ x.selected = r.selected /\ x.direct = d /\ x.got = g /\ x.again = r.again
  <1> DEFINE x == Fetched(r, g, c, d, w, pc)
  <1>1. x \in Call
    BY ZenonT(60) DEF Call, Fetched
  <1>2. /\ x.pc = pc /\ x.q = r.q /\ x.ctx = c /\ x.warpOff = w
        /\ x.selected = r.selected /\ x.direct = d /\ x.got = g /\ x.again = r.again
    BY ZenonT(60) DEF Call, Fetched
  <1> QED BY <1>1, <1>2

InContext(r, c) ==
    [r EXCEPT !.ctx = c]

LEMMA InContextFields ==
  ASSUME NEW r \in Call, NEW c \in Ctx
  PROVE  LET x == InContext(r, c)
         IN  /\ x \in Call /\ x.pc = r.pc /\ x.q = r.q /\ x.ctx = c
             /\ x.warpOff = r.warpOff /\ x.selected = r.selected
             /\ x.direct = r.direct /\ x.got = r.got /\ x.again = r.again
  <1> DEFINE x == InContext(r, c)
  <1>1. x \in Call
    BY ZenonT(60) DEF Call, InContext
  <1>2. /\ x.pc = r.pc /\ x.q = r.q /\ x.ctx = c /\ x.warpOff = r.warpOff
        /\ x.selected = r.selected /\ x.direct = r.direct /\ x.got = r.got
        /\ x.again = r.again
    BY ZenonT(60) DEF Call, InContext
  <1> QED BY <1>1, <1>2

Rerouted(r, w, s, c) ==
    [r EXCEPT !.warpOff = w, !.selected = s, !.ctx = c]

LEMMA ReroutedFields ==
  ASSUME NEW r \in Call, NEW w \in BOOLEAN, NEW s \in Route, NEW c \in Ctx
  PROVE  LET x == Rerouted(r, w, s, c)
         IN  /\ x \in Call /\ x.pc = r.pc /\ x.q = r.q /\ x.ctx = c /\ x.warpOff = w
             /\ x.selected = s /\ x.direct = r.direct /\ x.got = r.got
             /\ x.again = r.again
  <1> DEFINE x == Rerouted(r, w, s, c)
  <1>1. x \in Call
    BY ZenonT(60) DEF Call, Rerouted
  <1>2. /\ x.pc = r.pc /\ x.q = r.q /\ x.ctx = c /\ x.warpOff = w /\ x.selected = s
        /\ x.direct = r.direct /\ x.got = r.got /\ x.again = r.again
    BY ZenonT(60) DEF Call, Rerouted
  <1> QED BY <1>1, <1>2

Selecting(r, pc, s) ==
    [r EXCEPT !.pc = pc, !.selected = s]

LEMMA SelectingFields ==
  ASSUME NEW r \in Call, NEW pc \in Places, NEW s \in Route
  PROVE  LET x == Selecting(r, pc, s)
         IN  /\ x \in Call /\ x.pc = pc /\ x.q = r.q /\ x.ctx = r.ctx
             /\ x.warpOff = r.warpOff /\ x.selected = s /\ x.direct = r.direct
             /\ x.got = r.got /\ x.again = r.again
  <1> DEFINE x == Selecting(r, pc, s)
  <1>1. x \in Call
    BY ZenonT(60) DEF Call, Selecting
  <1>2. /\ x.pc = pc /\ x.q = r.q /\ x.ctx = r.ctx /\ x.warpOff = r.warpOff
        /\ x.selected = s /\ x.direct = r.direct /\ x.got = r.got /\ x.again = r.again
    BY ZenonT(60) DEF Call, Selecting
  <1> QED BY <1>1, <1>2

Reselecting(r, pc, c, d, s) ==
    [r EXCEPT !.pc = pc, !.ctx = c, !.direct = d, !.selected = s]

LEMMA ReselectingFields ==
  ASSUME NEW r \in Call, NEW pc \in Places, NEW c \in Ctx, NEW d \in BOOLEAN,
         NEW s \in Route
  PROVE  LET x == Reselecting(r, pc, c, d, s)
         IN  /\ x \in Call /\ x.pc = pc /\ x.q = r.q /\ x.ctx = c
             /\ x.warpOff = r.warpOff /\ x.selected = s /\ x.direct = d
             /\ x.got = r.got /\ x.again = r.again
  <1> DEFINE x == Reselecting(r, pc, c, d, s)
  <1>1. x \in Call
    BY ZenonT(60) DEF Call, Reselecting
  <1>2. /\ x.pc = pc /\ x.q = r.q /\ x.ctx = c /\ x.warpOff = r.warpOff
        /\ x.selected = s /\ x.direct = d /\ x.got = r.got /\ x.again = r.again
    BY ZenonT(60) DEF Call, Reselecting
  <1> QED BY <1>1, <1>2

Retried(r, c) ==
    [r EXCEPT !.again = TRUE, !.pc = "extract", !.ctx = c]

LEMMA RetriedFields ==
  ASSUME NEW r \in Call, NEW c \in Ctx
  PROVE  LET x == Retried(r, c)
         IN  /\ x \in Call /\ x.pc = "extract" /\ x.q = r.q /\ x.ctx = c
             /\ x.warpOff = r.warpOff /\ x.selected = r.selected
             /\ x.direct = r.direct /\ x.got = r.got /\ x.again = TRUE
  <1> DEFINE x == Retried(r, c)
  <1>1. x \in Call
    BY ZenonT(60) DEF Call, Places, Retried
  <1>2. /\ x.pc = "extract" /\ x.q = r.q /\ x.ctx = c /\ x.warpOff = r.warpOff
        /\ x.selected = r.selected /\ x.direct = r.direct /\ x.got = r.got /\ x.again = TRUE
    BY ZenonT(60) DEF Call, Places, Retried
  <1> QED BY <1>1, <1>2

Rekeyed(r, pc, g, c) ==
    [r EXCEPT !.pc = pc, !.got = g, !.ctx = c]

LEMMA RekeyedFields ==
  ASSUME NEW r \in Call, NEW pc \in Places, NEW g \in Route, NEW c \in Ctx
  PROVE  LET x == Rekeyed(r, pc, g, c)
         IN  /\ x \in Call /\ x.pc = pc /\ x.q = r.q /\ x.ctx = c
             /\ x.warpOff = r.warpOff /\ x.selected = r.selected
             /\ x.direct = r.direct /\ x.got = g /\ x.again = r.again
  <1> DEFINE x == Rekeyed(r, pc, g, c)
  <1>1. x \in Call
    BY ZenonT(60) DEF Call, Rekeyed
  <1>2. /\ x.pc = pc /\ x.q = r.q /\ x.ctx = c /\ x.warpOff = r.warpOff
        /\ x.selected = r.selected /\ x.direct = r.direct /\ x.got = g
        /\ x.again = r.again
    BY ZenonT(60) DEF Call, Rekeyed
  <1> QED BY <1>1, <1>2

-----------------------------------------------------------------------------
(* What a step leaves to show.                                             *)

LEMMA IdleCall ==
  RIdle \in Call /\ RIdle.pc = "idle" /\ RIdle.got = RNil /\ RIdle.again = FALSE
  /\ RNoCtx \in Ctx /\ RNoCtx.strict = FALSE /\ RNoCtx.selected = RNil
  <1>1. RNoCtx \in Ctx /\ RNoCtx.strict = FALSE /\ RNoCtx.selected = RNil
    BY RouteFacts DEF RNoCtx, Ctx
  <1> HIDE DEF RNoCtx
  <1>2. RIdle \in Call /\ RIdle.pc = "idle" /\ RIdle.got = RNil /\ RIdle.again = FALSE
    BY <1>1, RouteFacts DEF RIdle, Call, Places
  <1> QED BY <1>1, <1>2

\* The connection is one the properties allow.
ConnOK(by, p, d, ctx) ==
    /\ p = RWarp => ~rPlay.q.warpOff /\ (by # "extract" => rCfg.warp)
    /\ by # "extract" /\ Fixed /\ ~d => p = rPlay.q.proxy
    /\ by # "extract" /\ p = RNil =>
         d \/ ~Configured(rPlay.host, by = "extract", ctx, rReq.warpOff)
    /\ rPlay.host \in RNoProxy \/ rPlay.q.proxy = ROff => p \in {RWarp, RNil}

LEMMA ConnKept ==
  ASSUME rPlay \in Playing, UNCHANGED <<rCfg, rPlay>>,
         NEW by, NEW p \in Route, NEW d \in BOOLEAN, NEW had \in BOOLEAN,
         rConn' = [by |-> by, proxy |-> p, direct |-> d, had |-> had],
         p = RWarp => ~rPlay.q.warpOff /\ (by # "extract" => rCfg.warp),
         by # "extract" /\ Fixed /\ ~d => p = rPlay.q.proxy,
         by # "extract" /\ p = RNil => d \/ ~had,
         rPlay.host \in RNoProxy \/ rPlay.q.proxy = ROff => p \in {RWarp, RNil}
  PROVE  RoutesKept' /\ rConn'.proxy \in Route
  <1>1. /\ rConn'.by = by /\ rConn'.proxy = p /\ rConn'.direct = d /\ rConn'.had = had
    OBVIOUS
  <1>2. Named(rPlay.q) \in RProxy => Named(rPlay.q) = rPlay.q.proxy
    BY NamedIs DEF Playing
  <1>3. WarpOffKept'
    BY <1>1 DEF WarpOffKept
  <1>4. NamedKept'
    BY <1>1, <1>2 DEF NamedKept, Fixed, Named
  <1>5. NotSilentlyDirect'
    BY <1>1 DEF NotSilentlyDirect
  <1>6. ExcludedKept'
    BY <1>1 DEF ExcludedKept
  <1> QED BY <1>1, <1>3, <1>4, <1>5, <1>6 DEF RoutesKept

LEMMA ConnectedKept ==
  ASSUME rPlay \in Playing, UNCHANGED <<rCfg, rPlay>>,
         NEW by, NEW p \in Route, NEW d \in BOOLEAN, NEW ctx,
         Connected(by, p, d, ctx), ConnOK(by, p, d, ctx)
  PROVE  RoutesKept' /\ rConn'.proxy \in Route
  <1>1. Configured(rPlay.host, by = "extract", ctx, rReq.warpOff) \in BOOLEAN
    BY DEF Configured
  <1> DEFINE had == Configured(rPlay.host, by = "extract", ctx, rReq.warpOff)
  <1>2. rConn' = [by |-> by, proxy |-> p, direct |-> d, had |-> had]
    BY DEF Connected
  <1>3. /\ p = RWarp => ~rPlay.q.warpOff /\ (by # "extract" => rCfg.warp)
        /\ by # "extract" /\ Fixed /\ ~d => p = rPlay.q.proxy
        /\ by # "extract" /\ p = RNil => d \/ ~had
        /\ rPlay.host \in RNoProxy \/ rPlay.q.proxy = ROff => p \in {RWarp, RNil}
    BY DEF ConnOK
  <1> HIDE DEF had
  <1> QED BY <1>1, <1>2, <1>3, ConnKept DEF had

LEMMA NoConnKept ==
  ASSUME rConn' = RNoConn
  PROVE  RoutesKept' /\ rConn'.proxy \in Route
  <1>1. rConn'.by = "none" /\ rConn'.proxy = RNil
    BY DEF RNoConn
  <1> QED BY <1>1, RouteFacts
       DEF RoutesKept, WarpOffKept, NamedKept, NotSilentlyDirect, ExcludedKept

\* Of the call, and of the URLs, in the same playback and configuration.
LEMMA CallMoves ==
  ASSUME RouteInv, UNCHANGED <<rCfg, rPlay>>, RoutesKept', rConn'.proxy \in Route,
         rDead' \subseteq RProxy \ RTunnel,
         NEW r \in Call, rReq' = r,
         r.pc # "idle" => CallOK(r) /\ r.q \in Query /\ rPlay # RNil,
         NEW u, rUrl' = u,
         u = rUrl \/ (u \in Query /\ UrlOK(u) /\ rPlay # RNil)
  PROVE  RouteInv'
  <1>1. RouteTypes'
    BY DEF RouteInv, RouteTypes
  <1>2. Fixed' = Fixed
    BY DEF Fixed, Named
  <1>3. rReq'.pc # "idle" => CallOK(rReq)'
    BY <1>2 DEF CallOK
  <1>4. rUrl' # RNil => UrlOK(rUrl)'
    BY <1>2 DEF UrlOK, RouteInv
  <1> QED BY <1>1, <1>3, <1>4 DEF RouteInv

LEMMA CallEnds ==
  ASSUME RouteInv, UNCHANGED <<rCfg, rPlay>>, RoutesKept', rConn'.proxy \in Route,
         rDead' \subseteq RProxy \ RTunnel, rReq' = RIdle,
         NEW u, rUrl' = u,
         u = rUrl \/ (u \in Query /\ UrlOK(u) /\ rPlay # RNil)
  PROVE  RouteInv'
  BY CallMoves, IdleCall

LEMMA MarkedDeadIs ==
  ASSUME RouteTypes, NEW p \in Route, NEW ctx, NEW keyed
  PROVE  MarkedDead(p, ctx, keyed) \subseteq RProxy \ RTunnel
  BY RouteFacts DEF MarkedDead, Spared, RouteTypes, Route, Routes

\* What is known of a call under way.
LEMMA CallKnown ==
  ASSUME RouteInv, rReq.pc # "idle"
  PROVE  /\ CallOK(rReq) /\ rReq \in Call /\ rReq.q \in Query /\ rPlay \in Playing /\ rPlay # RNil
         /\ rPlay.q \in Query /\ rReq.ctx \in Ctx /\ rReq.warpOff \in BOOLEAN
         /\ rReq.direct \in BOOLEAN /\ rReq.selected \in Route /\ rReq.got \in Route
         /\ rReq.again \in BOOLEAN /\ rReq.ctx.proxyOff \in BOOLEAN
         /\ rReq.ctx.strict \in BOOLEAN
         /\ rDead \subseteq RProxy \ RTunnel
         /\ Fixed => rPlay.q.proxy \in RProxy /\ Named(rReq.q) = rPlay.q.proxy
  <1>1. /\ CallOK(rReq) /\ rReq \in Call /\ rReq.q \in Query /\ rPlay \in Playing /\ rPlay # RNil
        /\ rDead \subseteq RProxy \ RTunnel
    BY DEF RouteInv, RouteTypes
  <1>2. rPlay.q \in Query
    BY <1>1 DEF Playing
  <1>3. Fixed => rPlay.q.proxy \in RProxy /\ Named(rReq.q) = rPlay.q.proxy
    BY <1>1, <1>2, NamedIs DEF Fixed, CallOK
  <1> QED BY <1>1, <1>2, <1>3, CallFields
-----------------------------------------------------------------------------
(* The steps.                                                              *)

\* A request enters; what the playback asked for is in what it asks for.
LEMMA EntersFresh ==
  ASSUME rCfg \in Config, NEW play \in Playing, NEW kind \in {"extractor", "proxy"},
         NEW q \in Query, Enters(kind, q), rPlay' = play, rCfg' = rCfg,
         play.q.warpOff => q.warpOff, play.q.proxy = ROff => q.proxy = ROff,
         Fixed' => q.proxy = play.q.proxy
  PROVE  rReq' \in Call /\ CallOK(rReq)' /\ rReq'.q = q /\ rReq'.pc = kind
  <1> DEFINE sel == Usable(Named(q), q.warpOff)
             off == q.warpOff \/ (kind = "proxy" /\ q.keyed /\ Policy("warp_off"))
             d   == kind = "proxy" /\ q.direct
             o   == q.proxy = ROff \/ (kind = "proxy" /\ q.keyed /\ Policy("proxy_off"))
             st  == sel # RNil
             c   == Asked(RNoCtx, off, o, sel, st)
             r   == Entered(RIdle, kind, q, off, sel, d, c)
  <1>1. rReq' = r
    BY DEF Enters, Entered, Asked
  <1>2. q.warpOff \in BOOLEAN /\ q.keyed \in BOOLEAN /\ q.direct \in BOOLEAN
    BY DEF Query
  <1>3. sel \in Route /\ off \in BOOLEAN /\ d \in BOOLEAN /\ o \in BOOLEAN /\ kind \in Places
        /\ st \in BOOLEAN
    BY <1>2, NamedIs, UsableIs DEF Policy, Places
  <1>4. q.warpOff => off
    OBVIOUS
  <1>5. q.proxy = ROff => o
    OBVIOUS
  <1>6. Fixed' => sel = play.q.proxy /\ st /\ ~o
    <2> SUFFICES ASSUME Fixed' PROVE sel = play.q.proxy /\ st /\ ~o
      OBVIOUS
    <2>1. Named(play.q) \in RProxy /\ rCfg.policy = {}
      BY DEF Fixed, Named
    <2>2. play.q \in Query
      BY DEF Playing
    <2>3. q.proxy \in RProxy /\ q.proxy = play.q.proxy /\ q.proxy # ROff
      BY <2>1, <2>2, NamedIs
    <2>4. Named(q) = q.proxy /\ q.proxy # RWarp /\ q.proxy # RNil
      BY <2>3, NamedIs, RouteFacts
    <2>5. sel = q.proxy
      BY <1>2, <2>4, NamedIs, UsableIs
    <2> QED BY <2>1, <2>3, <2>4, <2>5 DEF Policy
  <1> HIDE DEF sel, off, d, o, st
  <1>7. c \in Ctx /\ c.proxyOff = o /\ c.selected = sel /\ c.strict = st
    BY <1>3, IdleCall, AskedFields
  <1> HIDE DEF c
  <1>8. /\ r \in Call /\ r.pc = kind /\ r.q = q /\ r.warpOff = off /\ r.selected = sel
        /\ r.ctx = c /\ r.got = RNil
    BY <1>3, <1>7, IdleCall, EnteredFields
  <1> HIDE DEF r
  <1>9. CallOK(rReq)'
    BY <1>1, <1>4, <1>5, <1>6, <1>7, <1>8 DEF CallOK
  <1> QED BY <1>1, <1>8, <1>9

LEMMA BeginsKeeps ==
  ASSUME RouteInv, NEW kind \in {"extractor", "proxy"}, NEW h \in RHost, NEW w \in BOOLEAN,
         NEW p \in RNames, NEW d \in BOOLEAN, Begins(kind, h, w, p, d)
  PROVE  RouteInv'
  <1> DEFINE q == [warpOff |-> w, proxy |-> p, direct |-> d, keyed |-> FALSE]
             play == [host |-> h, q |-> q]
  <1>1. q \in Query
    BY RoutingAssumption DEF Query, Routes
  <1>2. play.q = q /\ play \in Playing /\ rPlay' = play /\ Enters(kind, q) /\ rPlay = RNil
    BY <1>1 DEF Begins, Playing
  <1> HIDE DEF q, play
  <1>3. rConn' = RNoConn /\ UNCHANGED <<rCfg, rDead, rUrl>>
    BY <1>2 DEF Enters
  <1>4. rReq' \in Call /\ CallOK(rReq)' /\ rReq'.q = q
    BY <1>1, <1>2, <1>3, EntersFresh DEF RouteInv, RouteTypes
  <1>5. rUrl = RNil /\ play # RNil
    BY <1>2, RoutingAssumption DEF RouteInv, RouteTypes
  <1>6. RouteTypes'
    BY <1>1, <1>2, <1>3, <1>4, <1>5, NoConnKept DEF RouteInv, RouteTypes
  <1> QED BY <1>3, <1>4, <1>5, <1>6, NoConnKept DEF RouteInv

LEMMA ContinuesKeeps ==
  ASSUME RouteInv, Continues PROVE RouteInv'
  <1>1. rUrl \in Query /\ UrlOK(rUrl) /\ rPlay \in Playing /\ rPlay # RNil /\ rCfg \in Config
    BY DEF RouteInv, RouteTypes, Continues
  <1>2. rConn' = RNoConn /\ UNCHANGED <<rCfg, rDead, rUrl, rPlay>> /\ Enters("proxy", rUrl)
    BY DEF Continues, Enters
  <1>3. Fixed' => Fixed
    BY <1>2 DEF Fixed, Named
  <1>4. rReq' \in Call /\ CallOK(rReq)' /\ rReq'.q = rUrl
    BY <1>1, <1>2, <1>3, EntersFresh DEF UrlOK
  <1>5. RouteTypes'
    BY <1>1, <1>2, <1>4, NoConnKept DEF RouteInv, RouteTypes
  <1>6. UrlOK(rUrl)'
    BY <1>1, <1>2, <1>3 DEF UrlOK
  <1> QED BY <1>2, <1>4, <1>5, <1>6, NoConnKept DEF RouteInv

LEMMA PolicyAppliedKeeps ==
  ASSUME RouteInv, PolicyApplied PROVE RouteInv'
  <1>0. rReq.pc # "idle" /\ rReq.pc \in {"proxy", "extractor"}
    BY DEF PolicyApplied
  <1>1. /\ CallOK(rReq) /\ rReq \in Call /\ rReq.q \in Query /\ rPlay # RNil
        /\ rReq.ctx \in Ctx /\ rReq.warpOff \in BOOLEAN /\ rReq.selected \in Route
        /\ rReq.ctx.proxyOff \in BOOLEAN /\ rReq.ctx.strict \in BOOLEAN
        /\ rDead \subseteq RProxy \ RTunnel
    BY <1>0, CallKnown
  <1>2. rReq.ctx.warpOff \in BOOLEAN /\ rReq.ctx.selected \in Route
    BY <1>1 DEF Ctx
  <1> DEFINE w  == Policy("warp_off")
             p  == Policy("proxy_off")
             ch == rReq.pc = "proxy" /\ ((w /\ ~rReq.warpOff) \/ (p /\ ~rReq.ctx.proxyOff))
             pc == IF rReq.pc = "proxy" THEN "extract" ELSE "resolve"
             co == rReq.ctx.warpOff \/ w
             o  == rReq.ctx.proxyOff \/ p
             cs == IF ch THEN RNil ELSE rReq.ctx.selected
             st == rReq.ctx.strict /\ ~ch
             off == rReq.warpOff \/ w
             sel == IF ch THEN RNil ELSE rReq.selected
             c  == Asked(rReq.ctx, co, o, cs, st)
             r  == Told(rReq, pc, off, sel, c)
  <1>3. rReq' = r
    BY DEF PolicyApplied, Told, Asked
  <1>4. rConn' = RNoConn /\ UNCHANGED <<rCfg, rDead, rUrl, rPlay>>
    BY DEF PolicyApplied
  <1>5. w \in BOOLEAN /\ p \in BOOLEAN /\ (Fixed => ~w /\ ~p)
    BY DEF Policy, Fixed
  <1> HIDE DEF w, p
  <1>6. ch \in BOOLEAN /\ (Fixed => ~ch) /\ pc \in {"extract", "resolve"} /\ pc \in Places
    BY <1>5 DEF Places
  <1> HIDE DEF ch, pc
  <1>7. /\ co \in BOOLEAN /\ o \in BOOLEAN /\ st \in BOOLEAN /\ off \in BOOLEAN
        /\ cs \in Route /\ sel \in Route
    BY <1>1, <1>2, <1>5, <1>6, RouteFacts
  <1>8. /\ rReq.warpOff => off
        /\ rReq.ctx.proxyOff => o
        /\ Fixed => /\ sel = rReq.selected /\ cs = rReq.ctx.selected
                    /\ (o <=> rReq.ctx.proxyOff) /\ (rReq.ctx.strict => st)
    BY <1>5, <1>6
  <1> HIDE DEF co, o, cs, st, off, sel
  <1>9. c \in Ctx /\ c.proxyOff = o /\ c.selected = cs /\ c.strict = st
    <2>1. PICK x \in Ctx : x = rReq.ctx
      BY <1>1
    <2>2. LET y == Asked(x, co, o, cs, st)
          IN  y \in Ctx /\ y.proxyOff = o /\ y.selected = cs /\ y.strict = st
      BY <1>7, AskedFields
    <2> QED BY <2>1, <2>2
  <1> HIDE DEF c
  <1>10. /\ r \in Call /\ r.pc = pc /\ r.q = rReq.q /\ r.ctx = c /\ r.got = rReq.got
         /\ r.warpOff = off /\ r.selected = sel
    BY <1>1, <1>6, <1>7, <1>9, ToldFields
  <1> HIDE DEF r
  <1>11. CallOK(r)
    BY <1>0, <1>1, <1>6, <1>8, <1>9, <1>10 DEF CallOK
  <1> QED BY <1>1, <1>3, <1>4, <1>10, <1>11, NoConnKept, CallMoves

LEMMA RelayedKeeps ==
  ASSUME RouteInv, Relayed PROVE RouteInv'
  <1> DEFINE r == At(rReq, "relay")
  <1>1. rReq.pc = "proxy" /\ rReq' = r /\ rConn' = RNoConn /\ UNCHANGED <<rCfg, rDead, rUrl, rPlay>>
    BY DEF Relayed, At
  <1>2. CallOK(rReq) /\ rReq \in Call /\ rReq.q \in Query /\ rPlay # RNil
        /\ rDead \subseteq RProxy \ RTunnel
    BY <1>1, CallKnown
  <1>3. /\ r \in Call /\ r.pc = "relay" /\ r.q = rReq.q /\ r.ctx = rReq.ctx
        /\ r.warpOff = rReq.warpOff /\ r.selected = rReq.selected /\ r.got = rReq.got
    BY <1>2, AtFields DEF Places
  <1> HIDE DEF r
  <1>4. CallOK(r)
    BY <1>1, <1>2, <1>3 DEF CallOK
  <1> QED BY <1>1, <1>2, <1>3, <1>4, NoConnKept, CallMoves

\* The ways of an extraction.
ExtractWayOK(w) ==
    /\ w.proxy \in Route /\ w.ctx \in Ctx /\ w.ctx.proxyOff = rReq.ctx.proxyOff
    /\ w.proxy = RWarp => ~rReq.warpOff
    /\ rReq.ctx.proxyOff \/ rPlay.host \in RNoProxy => w.proxy \in {RWarp, RNil}
    /\ Fixed => /\ w.ctx.strict /\ w.ctx.selected = rPlay.q.proxy
                /\ w.proxy \in {RNil, rPlay.q.proxy}

LEMMA ExtractWaysOK ==
  ASSUME RouteInv, Extracting, NEW w \in ExtractWays
  PROVE  ExtractWayOK(w)
  <1>1. /\ CallOK(rReq) /\ rReq \in Call /\ rReq.q \in Query /\ rPlay \in Playing
        /\ rReq.ctx \in Ctx /\ rReq.warpOff \in BOOLEAN
        /\ rReq.selected \in Route /\ rReq.ctx.proxyOff \in BOOLEAN
        /\ Fixed => rPlay.q.proxy \in RProxy /\ Named(rReq.q) = rPlay.q.proxy
        /\ rReq.pc \notin {"idle", "key", "dash"}
    BY CallKnown DEF Extracting
  <1>2. RouteTypes /\ (Fixed => rPlay.host \notin RNoProxy)
    BY DEF RouteInv, Fixed
  <1>3. Fixed => /\ rReq.selected = rPlay.q.proxy /\ ~rReq.ctx.proxyOff
                 /\ rReq.ctx.strict /\ rReq.ctx.selected = rPlay.q.proxy
    BY <1>1 DEF CallOK
  <1> DEFINE h == rPlay.host
             fp == ForcedProxy(rReq)
             ways == IF ForcedDirect(rReq) THEN {Way(RNil, rReq.ctx)}
                     ELSE IF fp # RNil THEN {Way(fp, rReq.ctx)}
                     ELSE PreferredWays(h, rReq.ctx, rReq.warpOff)
  <1>4. PICK v \in ways : w = IF rReq.warpOff /\ v.proxy = RWarp THEN Way(RNil, v.ctx) ELSE v
    BY DEF ExtractWays
  <1>5. /\ fp \in Route
        /\ rReq.ctx.proxyOff \/ h \in RNoProxy => fp \in {RWarp, RNil}
        /\ Fixed => fp \in {RNil, rPlay.q.proxy}
    <2>1. Passed(rReq) \in Route /\ (Fixed => Passed(rReq) \in {RNil, rPlay.q.proxy})
      BY <1>1, <1>3, NamedIs, RouteFacts DEF Passed
    <2>2. CASE rReq.ctx.proxyOff
      BY <1>3, <2>2, RouteFacts DEF ForcedProxy
    <2>3. CASE ~rReq.ctx.proxyOff
      <3>1. fp = Effective(h, Passed(rReq))
        BY <2>3 DEF ForcedProxy
      <3> QED BY <2>1, <2>3, <3>1, EffectiveIs
    <2> QED BY <2>2, <2>3
  <1> DEFINE Good(x) ==
        /\ x.proxy \in Route /\ x.ctx \in Ctx /\ x.ctx.proxyOff = rReq.ctx.proxyOff
        /\ rReq.ctx.proxyOff \/ h \in RNoProxy => x.proxy \in {RWarp, RNil}
        /\ Fixed => /\ x.ctx.strict /\ x.ctx.selected = rPlay.q.proxy
                    /\ x.proxy \in {RNil, rPlay.q.proxy}
  <1>6. ASSUME NEW p \in Route, v = Way(p, rReq.ctx),
               rReq.ctx.proxyOff \/ h \in RNoProxy => p \in {RWarp, RNil},
               Fixed => p \in {RNil, rPlay.q.proxy}
        PROVE  Good(v)
    <2>1. v.proxy = p /\ v.ctx = rReq.ctx
      BY <1>6 DEF Way
    <2> QED BY <1>1, <1>3, <1>6, <2>1
  <1>7. Good(v)
    <2>1. CASE ForcedDirect(rReq)
      <3>1. v = Way(RNil, rReq.ctx)
        BY <1>4, <2>1
      <3> QED BY <1>6, <3>1, RouteFacts
    <2>2. CASE ~ForcedDirect(rReq) /\ fp # RNil
      <3>1. v = Way(fp, rReq.ctx)
        BY <1>4, <2>2
      <3> HIDE DEF fp
      <3> QED BY <1>5, <1>6, <3>1
    <2>3. CASE ~ForcedDirect(rReq) /\ fp = RNil
      <3>1. v \in PreferredWays(h, rReq.ctx, rReq.warpOff)
        BY <1>4, <2>3
      <3>2. WayOK(v, h, rReq.ctx, rReq.warpOff)
        BY <1>1, <1>2, <3>1, PreferredWaysOK
      <3> QED BY <1>1, <1>2, <1>3, <3>2 DEF WayOK
    <2> QED BY <2>1, <2>2, <2>3
  <1> HIDE DEF ways, fp
  <1>8. CASE rReq.warpOff /\ v.proxy = RWarp
    <2>1. w.proxy = RNil /\ w.ctx = v.ctx
      BY <1>4, <1>8 DEF Way
    <2> QED BY <1>7, <2>1, RouteFacts DEF ExtractWayOK
  <1>9. CASE ~(rReq.warpOff /\ v.proxy = RWarp)
    <2>1. w = v
      BY <1>4, <1>9
    <2> QED BY <1>7, <1>9, <2>1 DEF ExtractWayOK
  <1> QED BY <1>8, <1>9

LEMMA ExtractFetchKeeps ==
  ASSUME RouteInv, NEW works \in BOOLEAN, ExtractFetch(works) PROVE RouteInv'
  <1>0. Extracting /\ rReq.pc \notin {"idle", "key", "dash", "rekey"}
    BY DEF ExtractFetch, Extracting
  <1>1. PICK w \in ExtractWays :
          /\ Connected("extract", w.proxy, ForcedDirect(rReq), w.ctx)
          /\ IF works
             THEN /\ rReq' = [rReq EXCEPT !.got = w.proxy, !.ctx = w.ctx,
                                !.direct = @ \/ ForcedDirect(rReq),
                                !.warpOff = @ \/ DirectFlag(rReq),
                                !.pc = IF rReq.pc = "extract" THEN "route" ELSE "answer"]
                  /\ UNCHANGED rDead
             ELSE /\ w.ctx.selected # RNil /\ ~w.ctx.strict
                  /\ rDead' = MarkedDead(w.ctx.selected, w.ctx, FALSE)
                  /\ rReq' = [rReq EXCEPT !.ctx = [w.ctx EXCEPT !.selected = RNil]]
          /\ UNCHANGED <<rCfg, rUrl, rPlay>>
    BY DEF ExtractFetch
  <1>2. /\ CallOK(rReq) /\ rReq \in Call /\ rReq.q \in Query /\ rPlay \in Playing /\ rPlay # RNil
        /\ rReq.warpOff \in BOOLEAN /\ rReq.direct \in BOOLEAN /\ rReq.q.direct \in BOOLEAN
        /\ rReq.ctx.proxyOff \in BOOLEAN
        /\ rDead \subseteq RProxy \ RTunnel
    BY <1>0, CallKnown DEF Query
  <1>3. ExtractWayOK(w)
    BY <1>0, <1>1, ExtractWaysOK
  <1>4. w.proxy \in Route /\ w.ctx \in Ctx /\ w.ctx.selected \in Route
        /\ w.ctx.proxyOff = rReq.ctx.proxyOff
    BY <1>3 DEF ExtractWayOK, Ctx
  <1>5. ForcedDirect(rReq) \in BOOLEAN /\ DirectFlag(rReq) \in BOOLEAN
    BY <1>2 DEF ForcedDirect, DirectFlag
  <1>6. ConnOK("extract", w.proxy, ForcedDirect(rReq), w.ctx)
    BY <1>2, <1>3 DEF ExtractWayOK, CallOK, ConnOK
  <1>7. RoutesKept' /\ rConn'.proxy \in Route
    BY <1>1, <1>2, <1>4, <1>5, <1>6, ConnectedKept
  <1>8. CASE works
    <2> DEFINE d   == rReq.direct \/ ForcedDirect(rReq)
               off == rReq.warpOff \/ DirectFlag(rReq)
               pc  == IF rReq.pc = "extract" THEN "route" ELSE "answer"
               r   == Fetched(rReq, w.proxy, w.ctx, d, off, pc)
    <2>1. rReq' = r /\ rDead' = rDead
      BY <1>1, <1>8 DEF Fetched
    <2>2. d \in BOOLEAN /\ off \in BOOLEAN /\ pc \in {"route", "answer"} /\ pc \in Places
          /\ (rReq.warpOff => off)
      BY <1>2, <1>5 DEF Places
    <2> HIDE DEF d, off, pc
    <2>3. /\ r \in Call /\ r.pc = pc /\ r.q = rReq.q /\ r.ctx = w.ctx /\ r.warpOff = off
          /\ r.selected = rReq.selected /\ r.got = w.proxy
      <3>1. PICK c \in Ctx, g \in Route : c = w.ctx /\ g = w.proxy
        BY <1>4
      <3>2. LET x == Fetched(rReq, g, c, d, off, pc)
            IN  /\ x \in Call /\ x.pc = pc /\ x.q = rReq.q /\ x.ctx = c /\ x.warpOff = off
                /\ x.selected = rReq.selected /\ x.got = g
        BY <1>2, <2>2, FetchedFields
      <3> QED BY <3>1, <3>2
    <2> HIDE DEF r
    <2>4. CallOK(r)
      BY <1>2, <1>3, <2>2, <2>3 DEF CallOK, ExtractWayOK
    <2> QED BY <1>1, <1>2, <1>7, <2>1, <2>3, <2>4, CallMoves
  <1>9. CASE ~works
    <2> DEFINE c == WithSelected(w.ctx, RNil)
               r == InContext(rReq, c)
    <2>1. rReq' = r /\ rDead' = MarkedDead(w.ctx.selected, w.ctx, FALSE) /\ ~w.ctx.strict
      BY <1>1, <1>9 DEF InContext, WithSelected
    <2>2. c \in Ctx /\ c.proxyOff = rReq.ctx.proxyOff
      BY <1>4, RouteFacts, SelectedFields
    <2> HIDE DEF c
    <2>3. /\ r \in Call /\ r.pc = rReq.pc /\ r.q = rReq.q /\ r.ctx = c
          /\ r.warpOff = rReq.warpOff /\ r.selected = rReq.selected /\ r.got = rReq.got
      BY <1>2, <2>2, InContextFields
    <2> HIDE DEF r
    <2>4. ~Fixed
      BY <1>3, <2>1 DEF ExtractWayOK
    <2>5. CallOK(r)
      BY <1>2, <2>2, <2>3, <2>4 DEF CallOK
    <2>6. rDead' \subseteq RProxy \ RTunnel
      BY <1>4, <2>1, MarkedDeadIs DEF RouteInv
    <2> QED BY <1>1, <1>2, <1>7, <2>1, <2>3, <2>5, <2>6, CallMoves
  <1> QED BY <1>8, <1>9

LEMMA FailsKeeps ==
  ASSUME RouteInv, Fails PROVE RouteInv'
  <1>1. rReq' = RIdle /\ rConn' = RNoConn /\ UNCHANGED <<rCfg, rDead, rUrl, rPlay>>
    BY DEF Fails
  <1>2. rDead \subseteq RProxy \ RTunnel
    BY DEF RouteInv, RouteTypes
  <1> QED BY <1>1, <1>2, NoConnKept, CallEnds

LEMMA UrlOfOK ==
  ASSUME RouteInv, NEW r \in Call, CallOK(r)
  PROVE  UrlOf(r) \in Query /\ UrlOK(UrlOf(r))
  <1>1. r.warpOff \in BOOLEAN /\ r.direct \in BOOLEAN /\ r.selected \in Route
    BY CallFields
  <1>2. UrlOf(r) \in Query
    BY <1>1 DEF UrlOf, Query, Route
  <1>3. UrlOf(r).warpOff = r.warpOff /\ UrlOf(r).proxy = (IF r.ctx.proxyOff THEN ROff ELSE r.selected)
    BY DEF UrlOf
  <1> QED BY <1>2, <1>3 DEF CallOK, UrlOK

LEMMA ChosenOK ==
  ASSUME RouteInv, rReq.pc \in {"route", "answer"}
  PROVE  Chosen \in Call /\ CallOK(Chosen) /\ Chosen.q = rReq.q /\ Chosen.pc = rReq.pc
  <1>1. /\ CallOK(rReq) /\ rReq \in Call /\ rReq.q \in Query /\ rReq.ctx \in Ctx
        /\ rReq.warpOff \in BOOLEAN /\ rReq.selected \in Route /\ rReq.got \in Route
        /\ rReq.ctx.proxyOff \in BOOLEAN
        /\ Fixed => rPlay.q.proxy \in RProxy /\ Named(rReq.q) = rPlay.q.proxy
    BY CallKnown
  <1>2. rReq.ctx.warpOff \in BOOLEAN
    BY <1>1 DEF Ctx
  <1> DEFINE off == rReq.warpOff \/ Policy("warp_off")
             raw == IF rReq.pc = "route" /\ Named(rReq.q) # RNil THEN Named(rReq.q)
                    ELSE IF rReq.got # RNil THEN rReq.got ELSE rReq.selected
             sel == Usable(raw, off)
             co  == rReq.ctx.warpOff \/ Policy("warp_off")
             o   == rReq.ctx.proxyOff \/ Policy("proxy_off")
             c   == Renamed(rReq.ctx, co, o, sel)
             r   == Rerouted(rReq, off, sel, c)
  <1>3. Chosen = r
    BY DEF Chosen, Rerouted, Renamed
  <1>4. off \in BOOLEAN /\ co \in BOOLEAN /\ o \in BOOLEAN /\ (rReq.warpOff => off)
        /\ (rReq.ctx.proxyOff => o) /\ (Fixed => (o <=> rReq.ctx.proxyOff))
    BY <1>1, <1>2 DEF Policy, Fixed
  <1>5. raw \in Route /\ (Fixed => raw = rPlay.q.proxy)
    BY <1>1, NamedIs, RouteFacts DEF CallOK
  <1> HIDE DEF off, co, o, raw
  <1>6. sel \in Route /\ (Fixed => sel = rPlay.q.proxy)
    BY <1>1, <1>4, <1>5, UsableIs, RouteFacts
  <1> HIDE DEF sel
  <1>7. c \in Ctx /\ c.proxyOff = o /\ c.selected = sel /\ c.strict = rReq.ctx.strict
    <2>1. PICK x \in Ctx : x = rReq.ctx
      BY <1>1
    <2>2. LET y == Renamed(x, co, o, sel)
          IN  y \in Ctx /\ y.proxyOff = o /\ y.selected = sel /\ y.strict = x.strict
      BY <1>4, <1>6, RenamedFields
    <2> QED BY <2>1, <2>2
  <1> HIDE DEF c
  <1>8. /\ r \in Call /\ r.pc = rReq.pc /\ r.q = rReq.q /\ r.ctx = c /\ r.warpOff = off
        /\ r.selected = sel /\ r.got = rReq.got
    BY <1>1, <1>4, <1>6, <1>7, ReroutedFields
  <1> HIDE DEF r
  <1>9. CallOK(r)
    BY <1>1, <1>4, <1>6, <1>7, <1>8 DEF CallOK
  <1> QED BY <1>3, <1>7, <1>8, <1>9

LEMMA RouteChosenKeeps ==
  ASSUME RouteInv, RouteChosen PROVE RouteInv'
  <1> DEFINE r == At(Chosen, "relay")
  <1>1. /\ rReq.pc = "route" /\ rReq' = r
        /\ rConn' = RNoConn /\ UNCHANGED <<rCfg, rDead, rUrl, rPlay>>
    BY DEF RouteChosen, At
  <1>2. rReq.q \in Query /\ rPlay # RNil /\ rDead \subseteq RProxy \ RTunnel
    BY <1>1, CallKnown
  <1>3. PICK b \in Call : b = Chosen
    BY <1>1, ChosenOK
  <1>4. CallOK(b) /\ b.q = rReq.q /\ b.pc = "route"
    BY <1>1, <1>3, ChosenOK
  <1>5. LET x == At(b, "relay")
        IN  /\ x \in Call /\ x.pc = "relay" /\ x.q = b.q /\ x.ctx = b.ctx
            /\ x.warpOff = b.warpOff /\ x.selected = b.selected /\ x.got = b.got
    BY AtFields DEF Places
  <1>6. /\ r \in Call /\ r.pc = "relay" /\ r.q = b.q /\ r.ctx = b.ctx
        /\ r.warpOff = b.warpOff /\ r.selected = b.selected /\ r.got = b.got
    BY <1>3, <1>5
  <1> HIDE DEF r
  <1>7. CallOK(r)
    BY <1>4, <1>6 DEF CallOK
  <1> QED BY <1>1, <1>2, <1>4, <1>6, <1>7, NoConnKept, CallMoves

Undirected(r) == [r EXCEPT !.direct = FALSE]

LEMMA UndirectedOK ==
  ASSUME NEW r \in Call, CallOK(r) PROVE Undirected(r) \in Call /\ CallOK(Undirected(r))
  <1>1. Undirected(r) \in Call
    BY ZenonT(60) DEF Call, Undirected
  <1>2. LET x == Undirected(r)
        IN  /\ x.pc = r.pc /\ x.q = r.q /\ x.ctx = r.ctx /\ x.warpOff = r.warpOff
            /\ x.selected = r.selected /\ x.got = r.got
    BY ZenonT(60) DEF Call, Undirected
  <1> QED BY <1>1, <1>2 DEF CallOK

LEMMA ExtractorAnswersKeeps ==
  ASSUME RouteInv, ExtractorAnswers PROVE RouteInv'
  <1>1. /\ rReq.pc = "answer" /\ rReq' = RIdle
        /\ rUrl' \in {UrlOf(Chosen), UrlOf(Undirected(Chosen))}
        /\ rConn' = RNoConn /\ UNCHANGED <<rCfg, rDead, rPlay>>
    BY DEF ExtractorAnswers, Undirected
  <1>2. rPlay # RNil /\ rDead \subseteq RProxy \ RTunnel
    BY <1>1, CallKnown
  <1>3. rUrl' \in Query /\ UrlOK(rUrl')
    BY <1>1, ChosenOK, UrlOfOK, UndirectedOK
  <1> QED BY <1>1, <1>2, <1>3, NoConnKept, CallEnds

LEMMA RouteRechosenKeeps ==
  ASSUME RouteInv, RouteRechosen PROVE RouteInv'
  <1>0. rReq.pc = "route" /\ rConn' = RNoConn /\ UNCHANGED <<rCfg, rDead, rUrl, rPlay>>
    BY DEF RouteRechosen
  <1>1. /\ CallOK(rReq) /\ rReq \in Call /\ rReq.q \in Query /\ rReq.ctx \in Ctx /\ rPlay # RNil
        /\ rReq.warpOff \in BOOLEAN /\ rReq.got \in Route /\ rReq.q.direct \in BOOLEAN
        /\ rReq.ctx.proxyOff \in BOOLEAN
        /\ Fixed => rPlay.q.proxy \in RProxy /\ Named(rReq.q) = rPlay.q.proxy
        /\ rDead \subseteq RProxy \ RTunnel
    BY <1>0, CallKnown DEF Query
  <1>2. "relay" \in Places
    BY DEF Places
  <1>3. CASE rReq.got # RNil \/ Named(rReq.q) = RNil
    <2> DEFINE r == Selecting(rReq, "relay", rReq.got)
    <2>1. rReq' = r
      BY <1>3 DEF RouteRechosen, Selecting
    <2>2. /\ r \in Call /\ r.pc = "relay" /\ r.q = rReq.q /\ r.ctx = rReq.ctx
          /\ r.warpOff = rReq.warpOff /\ r.selected = rReq.got /\ r.got = rReq.got
      BY <1>1, <1>2, SelectingFields
    <2> HIDE DEF r
    <2>3. Fixed => rReq.got = rPlay.q.proxy
      BY <1>1, <1>3, RouteFacts DEF CallOK
    <2>4. CallOK(r)
      BY <1>0, <1>1, <2>2, <2>3 DEF CallOK
    <2> QED BY <1>0, <1>1, <2>1, <2>2, <2>4, NoConnKept, CallMoves
  <1>4. CASE ~(rReq.got # RNil \/ Named(rReq.q) = RNil)
    <2>1. PICK w \in StreamWays(rPlay.host, FALSE, rReq.ctx, rReq.warpOff) :
            rReq' = [rReq EXCEPT !.pc = "relay", !.ctx = w.ctx, !.direct = rReq.q.direct,
                       !.selected = IF w.proxy # RNil THEN w.proxy ELSE Named(rReq.q)]
      BY <1>4 DEF RouteRechosen
    <2>2. WayOK(w, rPlay.host, rReq.ctx, rReq.warpOff)
      BY <1>1, <2>1, StreamWaysOK DEF RouteInv
    <2> DEFINE sel == IF w.proxy # RNil THEN w.proxy ELSE Named(rReq.q)
               r == Reselecting(rReq, "relay", w.ctx, rReq.q.direct, sel)
    <2>3. rReq' = r
      BY <2>1 DEF Reselecting
    <2>4. sel \in Route /\ w.ctx \in Ctx /\ w.ctx.proxyOff = rReq.ctx.proxyOff
      BY <1>1, <2>2, NamedIs DEF WayOK
    <2>5. Fixed => /\ sel = rPlay.q.proxy /\ w.ctx.strict
                   /\ w.ctx.selected = rPlay.q.proxy
      <3>1. Fixed => /\ ~rReq.ctx.proxyOff /\ rPlay.host \notin RNoProxy
                     /\ rReq.ctx.strict /\ rReq.ctx.selected = rPlay.q.proxy
                     /\ rPlay.q.proxy \in RProxy
        BY <1>0, <1>1 DEF CallOK, Fixed
      <3> QED BY <2>2, <3>1, RouteFacts DEF WayOK
    <2> HIDE DEF sel
    <2>6. /\ r \in Call /\ r.pc = "relay" /\ r.q = rReq.q /\ r.ctx = w.ctx
          /\ r.warpOff = rReq.warpOff /\ r.selected = sel /\ r.got = rReq.got
      BY <1>1, <1>2, <2>4, ReselectingFields
    <2> HIDE DEF r
    <2>7. CallOK(r)
      BY <1>1, <2>4, <2>5, <2>6 DEF CallOK
    <2> QED BY <1>0, <1>1, <2>3, <2>6, <2>7, NoConnKept, CallMoves
  <1> QED BY <1>3, <1>4

LEMMA RelayConnects ==
  ASSUME RouteInv, rReq.pc # "idle", NEW w \in RelayWays, NEW by
  PROVE  RelayWayOK(w) /\ ConnOK(by, w.proxy, rReq.direct, w.ctx)
  <1>1. CallOK(rReq) /\ RouteTypes /\ rReq.ctx.proxyOff \in BOOLEAN
    BY CallKnown DEF RouteInv
  <1>2. RelayWayOK(w)
    BY <1>1, RelayWaysOK
  <1> QED BY <1>1, <1>2 DEF RelayWayOK, CallOK, ConnOK

LEMMA RelayFetchKeeps ==
  ASSUME RouteInv, RelayFetch PROVE RouteInv'
  <1>0. rReq.pc = "relay"
    BY DEF RelayFetch
  <1>1. PICK w \in RelayWays :
          /\ Connected("stream", w.proxy, rReq.direct, w.ctx)
          /\ rUrl' = UrlOf(rReq) /\ rReq' = RIdle /\ UNCHANGED <<rCfg, rDead, rPlay>>
    BY DEF RelayFetch
  <1>2. /\ CallOK(rReq) /\ rReq \in Call /\ rPlay \in Playing /\ rPlay # RNil
        /\ rReq.direct \in BOOLEAN /\ rDead \subseteq RProxy \ RTunnel
    BY <1>0, CallKnown
  <1>3. RelayWayOK(w) /\ ConnOK("stream", w.proxy, rReq.direct, w.ctx)
    BY <1>0, RelayConnects
  <1>4. RoutesKept' /\ rConn'.proxy \in Route
    BY <1>1, <1>2, <1>3, ConnectedKept DEF RelayWayOK
  <1>5. UrlOf(rReq) \in Query /\ UrlOK(UrlOf(rReq))
    BY <1>2, UrlOfOK
  <1> QED BY <1>1, <1>2, <1>4, <1>5, CallEnds

LEMMA RelayRefusedKeeps ==
  ASSUME RouteInv, RelayRefused PROVE RouteInv'
  BY FailsKeeps DEF RelayRefused

LEMMA RelayFailsKeeps ==
  ASSUME RouteInv, RelayFails PROVE RouteInv'
  <1>0. rReq.pc = "relay"
    BY DEF RelayFails
  <1>1. PICK w \in RelayWays :
          /\ w.proxy # RNil
          /\ Connected("stream", w.proxy, rReq.direct, w.ctx)
          /\ \/ /\ rDead' = MarkedDead(w.proxy, w.ctx, rReq.q.keyed)
                /\ rReq' = RIdle \/ (w.proxy \in RTunnel /\ rReq' = rReq)
             \/ /\ ~rReq.again /\ Forced(rReq) # RNil
                /\ rDead' = MarkedDead(Forced(rReq), w.ctx, rReq.q.keyed)
                /\ rReq' = [rReq EXCEPT !.again = TRUE, !.pc = "extract", !.ctx = w.ctx]
          /\ UNCHANGED <<rCfg, rUrl, rPlay>>
    BY DEF RelayFails
  <1>2. /\ CallOK(rReq) /\ rReq \in Call /\ rReq.q \in Query /\ rPlay \in Playing /\ rPlay # RNil
        /\ rReq.direct \in BOOLEAN /\ RouteTypes
    BY <1>0, CallKnown DEF RouteInv
  <1>3. RelayWayOK(w) /\ ConnOK("stream", w.proxy, rReq.direct, w.ctx)
    BY <1>0, RelayConnects
  <1>4. RoutesKept' /\ rConn'.proxy \in Route
    BY <1>1, <1>2, <1>3, ConnectedKept DEF RelayWayOK
  <1>5. rDead' \subseteq RProxy \ RTunnel
    <2>1. w.proxy \in Route /\ Forced(rReq) \in Route
      BY <1>0, <1>2, <1>3, ForcedIs DEF RelayWayOK
    <2> QED BY <1>1, <1>2, <2>1, MarkedDeadIs
  <1>6. CASE rReq' = RIdle
    BY <1>1, <1>4, <1>5, <1>6, CallEnds
  <1>7. CASE rReq' = rReq
    BY <1>1, <1>2, <1>4, <1>5, <1>7, CallMoves
  <1>8. CASE rReq' = [rReq EXCEPT !.again = TRUE, !.pc = "extract", !.ctx = w.ctx]
    <2> DEFINE r == Retried(rReq, w.ctx)
    <2>1. rReq' = r
      BY <1>8 DEF Retried
    <2>2. w.ctx \in Ctx /\ w.ctx.proxyOff = rReq.ctx.proxyOff /\ (Fixed => w.ctx = rReq.ctx)
      BY <1>3 DEF RelayWayOK
    <2>3. /\ r \in Call /\ r.pc = "extract" /\ r.q = rReq.q /\ r.ctx = w.ctx
          /\ r.warpOff = rReq.warpOff /\ r.selected = rReq.selected /\ r.got = rReq.got
      <3>1. PICK c \in Ctx : c = w.ctx
        BY <2>2
      <3>2. LET x == Retried(rReq, c)
            IN  /\ x \in Call /\ x.pc = "extract" /\ x.q = rReq.q /\ x.ctx = c
                /\ x.warpOff = rReq.warpOff /\ x.selected = rReq.selected /\ x.got = rReq.got
        BY <1>2, RetriedFields
      <3> QED BY <3>1, <3>2
    <2> HIDE DEF r
    <2>4. CallOK(r)
      BY <1>0, <1>2, <2>2, <2>3 DEF CallOK
    <2> QED BY <1>1, <1>2, <1>4, <1>5, <2>1, <2>3, <2>4, CallMoves
  <1> QED BY <1>1, <1>6, <1>7, <1>8

LEMMA RotatedKeeps ==
  ASSUME RouteInv, NEW next \in Routes, Rotated(next) PROVE RouteInv'
  <1>0. rReq.pc = "relay" /\ Forced(rReq) = RNil
    BY DEF Rotated
  <1> DEFINE C(w) == Chain(rPlay.host, FALSE, <<>>, w.ctx, TRUE)
  <1>1. PICK w \in RelayWays :
          /\ w.proxy # RNil /\ next \in ToSet(C(w).list)
          /\ rDead' = MarkedDead(w.proxy, w.ctx, rReq.q.keyed)
          /\ Connected("stream", next, FALSE, w.ctx)
          /\ rReq' = RIdle /\ rUrl' = UrlOf(rReq) /\ UNCHANGED <<rCfg, rPlay>>
    BY DEF Rotated
  <1>2. /\ CallOK(rReq) /\ rReq \in Call /\ rPlay \in Playing /\ rPlay # RNil
        /\ rReq.direct \in BOOLEAN /\ rReq.ctx.proxyOff \in BOOLEAN /\ RouteTypes
        /\ Fixed => rPlay.q.proxy \in RProxy
    BY <1>0, CallKnown DEF RouteInv
  <1>3. RelayWayOK(w)
    BY <1>0, RelayConnects
  <1>4. Holds(C(w), rPlay.host, FALSE, w.ctx, TRUE)
    BY <1>2, <1>3, ChainHolds DEF RelayWayOK
  <1>5. /\ next # RWarp /\ next # RNil
        /\ ~w.ctx.proxyOff /\ rPlay.host \notin RNoProxy
    BY <1>1, <1>4, RouteFacts DEF Holds
  <1>6. ~Fixed
    <2>1. ~rReq.direct
      BY <1>1, <1>3 DEF RelayWayOK
    <2> QED BY <1>0, <1>2, <2>1, ForcedIs, RouteFacts
  <1>7. rPlay.q.proxy # ROff
    BY <1>2, <1>3, <1>5 DEF CallOK, RelayWayOK
  <1>8. ConnOK("stream", next, FALSE, w.ctx)
    BY <1>5, <1>6, <1>7 DEF ConnOK
  <1>9. RoutesKept' /\ rConn'.proxy \in Route
    BY <1>1, <1>2, <1>8, RouteFacts, ConnectedKept
  <1>10. rDead' \subseteq RProxy \ RTunnel
    BY <1>1, <1>2, <1>3, MarkedDeadIs DEF RelayWayOK
  <1>11. UrlOf(rReq) \in Query /\ UrlOK(UrlOf(rReq))
    BY <1>2, UrlOfOK
  <1> QED BY <1>1, <1>2, <1>9, <1>10, <1>11, CallEnds

LEMMA PieceRequestedKeeps ==
  ASSUME RouteInv, NEW kind \in {"key", "dash"}, PieceRequested(kind) PROVE RouteInv'
  <1>1. /\ rUrl # RNil /\ rUrl \in Query /\ UrlOK(rUrl) /\ rPlay \in Playing /\ rPlay # RNil
        /\ rDead \subseteq RProxy \ RTunnel
    BY DEF PieceRequested, RouteInv, RouteTypes
  <1>2. rUrl.warpOff \in BOOLEAN /\ rUrl.direct \in BOOLEAN /\ rPlay.q \in Query
    BY <1>1 DEF Query, Playing
  <1> DEFINE off == rUrl.warpOff \/ Policy("warp_off")
             o   == rUrl.proxy = ROff \/ Policy("proxy_off")
             sel == IF o THEN RNil ELSE Named(rUrl)
             d   == kind = "key" /\ rUrl.direct
             c   == Bypassing(RNoCtx, off, o)
             r   == Entered(RIdle, kind, rUrl, off, sel, d, c)
  <1>3. /\ rReq' = r /\ rConn' = RNoConn /\ UNCHANGED <<rCfg, rDead, rUrl, rPlay>>
    BY DEF PieceRequested, Entered, Bypassing
  <1>4. off \in BOOLEAN /\ o \in BOOLEAN /\ d \in BOOLEAN /\ sel \in Route /\ kind \in Places
    BY <1>1, <1>2, NamedIs, RouteFacts DEF Policy, Places
  <1>5. (rUrl.warpOff => off) /\ (rUrl.proxy = ROff => o)
    OBVIOUS
  <1>6. Fixed => /\ rUrl.proxy = rPlay.q.proxy /\ sel = rPlay.q.proxy /\ ~o
    <2> SUFFICES ASSUME Fixed
                 PROVE  rUrl.proxy = rPlay.q.proxy /\ sel = rPlay.q.proxy /\ ~o
      OBVIOUS
    <2>1. rUrl.proxy = rPlay.q.proxy /\ rUrl.proxy \in RProxy /\ rUrl.proxy # ROff
      BY <1>1, <1>2, NamedIs DEF UrlOK, Fixed
    <2> QED BY <1>1, <2>1, NamedIs DEF Policy, Fixed
  <1> HIDE DEF off, o, sel, d
  <1>7. c \in Ctx /\ c.proxyOff = o
    BY <1>4, IdleCall, BypassingFields
  <1> HIDE DEF c
  <1>8. /\ r \in Call /\ r.pc = kind /\ r.q = rUrl /\ r.warpOff = off /\ r.selected = sel
        /\ r.ctx = c /\ r.got = RNil
    BY <1>1, <1>4, <1>7, IdleCall, EnteredFields
  <1> HIDE DEF r
  <1>9. CallOK(r)
    BY <1>1, <1>5, <1>6, <1>7, <1>8 DEF CallOK, UrlOK
  <1> QED BY <1>1, <1>3, <1>8, <1>9, NoConnKept, CallMoves

LEMMA PieceFetchKeeps ==
  ASSUME RouteInv, PieceFetch PROVE RouteInv'
  <1>0. rReq.pc \in {"key", "dash"} /\ rReq.pc # "idle"
    BY DEF PieceFetch
  <1>1. PICK w \in RelayWays :
          \/ Fails
          \/ /\ Connected(rReq.pc, w.proxy, rReq.direct, w.ctx)
             /\ \/ rReq' = RIdle /\ UNCHANGED rDead
                \/ /\ rReq.pc = "key" /\ w.proxy # RNil /\ Forced(rReq) = RNil
                   /\ rDead' = MarkedDead(w.proxy, w.ctx, TRUE)
                   /\ rReq' = [rReq EXCEPT !.pc = "rekey", !.got = w.proxy, !.ctx = w.ctx]
             /\ UNCHANGED <<rCfg, rUrl, rPlay>>
    BY DEF PieceFetch
  <1>2. /\ CallOK(rReq) /\ rReq \in Call /\ rReq.q \in Query /\ rPlay \in Playing /\ rPlay # RNil
        /\ rReq.direct \in BOOLEAN /\ RouteTypes /\ rDead \subseteq RProxy \ RTunnel
        /\ Fixed => rPlay.q.proxy \in RProxy
    BY <1>0, CallKnown DEF RouteInv
  <1>3. RelayWayOK(w) /\ ConnOK(rReq.pc, w.proxy, rReq.direct, w.ctx)
    BY <1>0, RelayConnects
  <1>4. CASE Fails
    BY <1>4, FailsKeeps
  <1>5. ASSUME Connected(rReq.pc, w.proxy, rReq.direct, w.ctx), UNCHANGED <<rCfg, rUrl, rPlay>>
        PROVE  RoutesKept' /\ rConn'.proxy \in Route
    BY <1>2, <1>3, <1>5, ConnectedKept DEF RelayWayOK
  <1>6. CASE /\ Connected(rReq.pc, w.proxy, rReq.direct, w.ctx)
             /\ rReq' = RIdle /\ UNCHANGED rDead /\ UNCHANGED <<rCfg, rUrl, rPlay>>
    BY <1>2, <1>5, <1>6, CallEnds
  <1>7. CASE /\ Connected(rReq.pc, w.proxy, rReq.direct, w.ctx)
             /\ w.proxy # RNil /\ Forced(rReq) = RNil
             /\ rDead' = MarkedDead(w.proxy, w.ctx, TRUE)
             /\ rReq' = [rReq EXCEPT !.pc = "rekey", !.got = w.proxy, !.ctx = w.ctx]
             /\ UNCHANGED <<rCfg, rUrl, rPlay>>
    <2> DEFINE r == Rekeyed(rReq, "rekey", w.proxy, w.ctx)
    <2>1. rReq' = r
      BY <1>7 DEF Rekeyed
    <2>2. w.ctx \in Ctx /\ w.proxy \in Route /\ w.ctx.proxyOff = rReq.ctx.proxyOff
      BY <1>3 DEF RelayWayOK
    <2>3. /\ r \in Call /\ r.pc = "rekey" /\ r.q = rReq.q /\ r.ctx = w.ctx
          /\ r.warpOff = rReq.warpOff
      <3>1. PICK c \in Ctx : c = w.ctx
        BY <2>2
      <3>2. "rekey" \in Places
        BY DEF Places
      <3>3. LET x == Rekeyed(rReq, "rekey", w.proxy, c)
            IN  /\ x \in Call /\ x.pc = "rekey" /\ x.q = rReq.q /\ x.ctx = c
                /\ x.warpOff = rReq.warpOff
        BY <1>2, <2>2, <3>2, RekeyedFields
      <3> QED BY <3>1, <3>3
    <2> HIDE DEF r
    <2>4. ~Fixed
      <3>1. ~rReq.direct
        BY <1>3, <1>7 DEF RelayWayOK
      <3> QED BY <1>0, <1>2, <1>7, <3>1, ForcedIs, RouteFacts
    <2>5. CallOK(r)
      BY <1>2, <2>2, <2>3, <2>4 DEF CallOK
    <2>6. rDead' \subseteq RProxy \ RTunnel
      BY <1>2, <1>7, <2>2, MarkedDeadIs
    <2>7. RoutesKept' /\ rConn'.proxy \in Route
      BY <1>5, <1>7
    <2> QED BY <1>2, <1>7, <2>1, <2>3, <2>5, <2>6, <2>7, CallMoves
  <1> QED BY <1>1, <1>4, <1>6, <1>7

LEMMA KeyRetriedKeeps ==
  ASSUME RouteInv, KeyRetried PROVE RouteInv'
  <1>0. rReq.pc = "rekey"
    BY DEF KeyRetried
  <1> DEFINE named(w) == StaleDropped(rPlay.host, w.proxy, rReq.ctx, rReq.warpOff)
  <1>1. PICK w \in StreamWays(rPlay.host, FALSE, rReq.ctx, rReq.warpOff) :
          \/ Fails
          \/ /\ named(w) # RNil /\ Connected("key", named(w), FALSE, w.ctx) /\ rReq' = RIdle
             /\ UNCHANGED <<rCfg, rDead, rUrl, rPlay>>
    BY DEF KeyRetried
  <1>2. /\ CallOK(rReq) /\ rPlay \in Playing /\ rPlay # RNil /\ RouteTypes
        /\ rReq.ctx \in Ctx /\ rReq.warpOff \in BOOLEAN /\ rReq.ctx.proxyOff \in BOOLEAN
        /\ rDead \subseteq RProxy \ RTunnel
    BY <1>0, CallKnown DEF RouteInv
  <1>3. w.proxy \in Route
    BY <1>2, StreamWaysOK DEF WayOK
  <1> DEFINE p == named(w)
  <1>4. /\ p \in Route /\ (p = RWarp => rCfg.warp /\ ~rReq.warpOff)
        /\ (rReq.ctx.proxyOff => p = RNil)
        /\ (rPlay.host \in RNoProxy => p \in {RWarp, RNil})
    BY <1>2, <1>3, StaleDroppedIs
  <1> HIDE DEF p
  <1>5. ~Fixed
    BY <1>0, <1>2 DEF CallOK
  <1>6. CASE Fails
    BY <1>6, FailsKeeps
  <1>7. CASE /\ p # RNil /\ Connected("key", p, FALSE, w.ctx) /\ rReq' = RIdle
             /\ UNCHANGED <<rCfg, rDead, rUrl, rPlay>>
    <2>1. ConnOK("key", p, FALSE, w.ctx)
      BY <1>2, <1>4, <1>5, <1>7 DEF ConnOK, CallOK
    <2>2. RoutesKept' /\ rConn'.proxy \in Route
      BY <1>2, <1>4, <1>7, <2>1, ConnectedKept
    <2> QED BY <1>2, <1>7, <2>2, CallEnds
  <1> QED BY <1>1, <1>6, <1>7 DEF p

LEMMA DualFetchKeeps ==
  ASSUME RouteInv, NEW known \in BOOLEAN, DualFetch(known) PROVE RouteInv'
  <1> DEFINE h     == rPlay.host
             off   == rPlay.q.warpOff \/ (known /\ Policy("warp_off"))
             o     == rPlay.q.proxy = ROff \/ (known /\ Policy("proxy_off"))
             opt   == Bypassing(RNoCtx, off, o)
             named == Effective(h, Named(rPlay.q))
             left  == IF named = RWarp /\ ~WarpApplies(h, opt.warpOff) THEN RNil ELSE named
  <1>1. /\ rPlay \in Playing /\ rPlay # RNil /\ rPlay.q \in Query /\ rPlay.q.warpOff \in BOOLEAN
        /\ RouteTypes /\ rDead \subseteq RProxy \ RTunnel
    BY DEF RouteInv, RouteTypes, DualFetch, Playing, Query
  <1>2. off \in BOOLEAN /\ o \in BOOLEAN /\ (rPlay.q.warpOff => off)
        /\ (rPlay.q.proxy = ROff => o)
    BY <1>1 DEF Policy
  <1>3. Fixed => /\ rPlay.q.proxy \in RProxy /\ rPlay.q.proxy # ROff /\ ~o
                 /\ Named(rPlay.q) = rPlay.q.proxy /\ h \notin RNoProxy
    BY <1>1, NamedIs DEF Fixed, Policy
  <1>4. DualOptions(rPlay.q, known) = opt
    BY DEF DualOptions, Bypassing
  <1>5. PICK w \in IF left # RNil /\ ~opt.proxyOff THEN {Way(left, opt)}
                   ELSE StreamWays(h, known, opt, opt.warpOff) :
          rConn' = [by |-> "dual", proxy |-> w.proxy, direct |-> FALSE,
                    had |-> Configured(h, known, opt, opt.warpOff)]
    BY <1>4 DEF DualFetch
  <1>6. UNCHANGED <<rCfg, rDead, rReq, rUrl, rPlay>>
    BY DEF DualFetch
  <1> HIDE DEF off, o
  <1>7. opt \in Ctx /\ opt.proxyOff = o /\ opt.warpOff = off /\ opt.strict = FALSE
    BY <1>2, IdleCall, BypassingFields
  <1> HIDE DEF opt
  <1>8. /\ named \in Route /\ (h \in RNoProxy => named \in {RWarp, RNil})
        /\ Fixed => named = rPlay.q.proxy
    BY <1>1, <1>3, NamedIs, EffectiveIs
  <1> HIDE DEF named
  <1>9. /\ left \in Route /\ left \in {named, RNil}
        /\ left = RWarp => rCfg.warp /\ ~off
        /\ Fixed => left = rPlay.q.proxy
    BY <1>3, <1>7, <1>8, RouteFacts DEF WarpApplies
  <1> HIDE DEF left
  <1> DEFINE had == Configured(h, known, opt, opt.warpOff)
  <1>10. /\ w.proxy \in Route
         /\ w.proxy = RWarp => rCfg.warp /\ ~off
         /\ h \in RNoProxy \/ o => w.proxy \in {RWarp, RNil}
         /\ w.proxy = RNil => ~had
         /\ Fixed => w.proxy = rPlay.q.proxy
    <2>1. CASE left # RNil /\ ~opt.proxyOff
      <3>1. w.proxy = left
        BY <1>5, <2>1 DEF Way
      <3> QED BY <1>7, <1>8, <1>9, <2>1, <3>1
    <2>2. CASE ~(left # RNil /\ ~opt.proxyOff)
      <3>1. w \in StreamWays(h, known, opt, opt.warpOff)
        BY <1>5, <2>2
      <3>2. WayOK(w, h, opt, opt.warpOff) /\ (w.proxy = RNil => ~Configured(h, known, w.ctx, opt.warpOff))
        BY <1>1, <1>2, <1>7, <3>1, StreamWaysOK
      <3>3. w.proxy = RNil => ~had
        BY <3>2 DEF WayOK, Configured
      <3>4. ~Fixed
        BY <1>3, <1>7, <1>9, <2>2, RouteFacts
      <3> QED BY <1>7, <3>2, <3>3, <3>4 DEF WayOK
    <2> QED BY <2>1, <2>2
  <1>11. had \in BOOLEAN
    BY DEF Configured
  <1> DEFINE p == w.proxy
  <1>12. rConn' = [by |-> "dual", proxy |-> p, direct |-> FALSE, had |-> had]
    BY <1>5
  <1> HIDE DEF had, p
  <1>13. p \in Route /\ (p = RWarp => ~rPlay.q.warpOff /\ rCfg.warp)
         /\ (h \in RNoProxy \/ rPlay.q.proxy = ROff => p \in {RWarp, RNil})
         /\ (p = RNil => ~had) /\ (Fixed => p = rPlay.q.proxy)
    BY <1>2, <1>10 DEF p
  <1>14. RoutesKept' /\ rConn'.proxy \in Route
    BY <1>1, <1>6, <1>11, <1>12, <1>13, ConnKept
  <1>15. rReq.pc # "idle" => CallOK(rReq) /\ rReq.q \in Query
    BY DEF RouteInv, RouteTypes
  <1>16. rReq \in Call
    BY <1>1 DEF RouteTypes
  <1> QED BY <1>1, <1>6, <1>14, <1>15, <1>16, CallMoves

LEMMA StopsKeeps ==
  ASSUME RouteInv, Stops PROVE RouteInv'
  <1>1. /\ rReq.pc = "idle" /\ rUrl' = RNil /\ rPlay' = RNil /\ rConn' = RNoConn
        /\ UNCHANGED <<rCfg, rDead, rReq>>
    BY DEF Stops
  <1>2. RouteTypes'
    BY <1>1, NoConnKept DEF RouteInv, RouteTypes
  <1> QED BY <1>1, <1>2, NoConnKept DEF RouteInv

\* The panel changes neither a policy nor what the playback asked for.
LEMMA ConfiguresKeeps ==
  ASSUME RouteInv, NEW c \in Config, Configures(c), c.policy = rCfg.policy PROVE RouteInv'
  <1>1. rCfg' = c /\ rConn' = RNoConn /\ UNCHANGED <<rDead, rReq, rUrl, rPlay>>
    BY DEF Configures
  <1>2. Fixed' = Fixed
    BY <1>1 DEF Fixed, Named
  <1>3. RouteTypes'
    BY <1>1, NoConnKept DEF RouteInv, RouteTypes
  <1>4. rReq'.pc # "idle" => CallOK(rReq)'
    BY <1>1, <1>2 DEF CallOK, RouteInv
  <1>5. rUrl' # RNil => UrlOK(rUrl)'
    BY <1>1, <1>2 DEF UrlOK, RouteInv
  <1> QED BY <1>1, <1>3, <1>4, <1>5, NoConnKept DEF RouteInv

LEMMA WarpToggledKeeps ==
  ASSUME RouteInv, WarpToggled PROVE RouteInv'
  <1> DEFINE c == [rCfg EXCEPT !.warp = ~@]
  <1>1. rCfg \in Config
    BY DEF RouteInv, RouteTypes
  <1>2. c \in Config
    BY <1>1 DEF Config
  <1>3. c.policy = rCfg.policy
    BY <1>1 DEF Config
  <1>4. Configures(c)
    BY DEF WarpToggled
  <1> HIDE DEF c
  <1> QED BY <1>2, <1>3, <1>4, ConfiguresKeeps

LEMMA ListChangesKeeps ==
  ASSUME RouteInv, NEW list \in RLists, ListChanges(list) PROVE RouteInv'
  <1> DEFINE c == [rCfg EXCEPT !.global = list]
  <1>1. rCfg \in Config
    BY DEF RouteInv, RouteTypes
  <1>2. c \in Config
    BY <1>1 DEF Config
  <1>3. c.policy = rCfg.policy
    BY <1>1 DEF Config
  <1>4. Configures(c)
    BY DEF ListChanges
  <1> HIDE DEF c
  <1> QED BY <1>2, <1>3, <1>4, ConfiguresKeeps

LEMMA DeadExpiresKeeps ==
  ASSUME RouteInv, NEW p \in RProxy, DeadExpires(p) PROVE RouteInv'
  <1>1. /\ rDead' = rDead \ {p} /\ rConn' = RNoConn /\ UNCHANGED <<rCfg, rReq, rUrl, rPlay>>
    BY DEF DeadExpires
  <1>2. rReq \in Call /\ rDead' \subseteq RProxy \ RTunnel
        /\ (rReq.pc # "idle" => CallOK(rReq) /\ rReq.q \in Query /\ rPlay # RNil)
    BY <1>1 DEF RouteInv, RouteTypes
  <1> QED BY <1>1, <1>2, NoConnKept, CallMoves

LEMMA RouteInitial == RoutingInit => RouteInv
  <1> SUFFICES ASSUME RoutingInit PROVE RouteInv
    OBVIOUS
  <1>1. /\ rDead = {} /\ rReq = RIdle /\ rUrl = RNil /\ rPlay = RNil /\ rConn = RNoConn
    BY DEF RoutingInit
  <1>2. rCfg \in Config
    BY DEF RoutingInit, Config
  <1>3. rConn.by = "none" /\ rConn.proxy = RNil
    BY <1>1 DEF RNoConn
  <1>4. RoutesKept
    BY <1>3, RouteFacts DEF RoutesKept, WarpOffKept, NamedKept, NotSilentlyDirect, ExcludedKept
  <1> QED BY <1>1, <1>2, <1>3, <1>4, IdleCall, RouteFacts DEF RouteInv, RouteTypes

LEMMA RouteStep == RouteInv /\ [RoutingNext]_routingVars => RouteInv'
  <1> SUFFICES ASSUME RouteInv, [RoutingNext]_routingVars PROVE RouteInv'
    OBVIOUS
  <1>1. ASSUME NEW kind \in {"extractor", "proxy"}, NEW h \in RHost, NEW w \in BOOLEAN,
               NEW d \in BOOLEAN, NEW p \in RNames, Begins(kind, h, w, p, d)
        PROVE  RouteInv'
    BY <1>1, BeginsKeeps
  <1>2. CASE \/ Continues \/ PolicyApplied \/ Relayed \/ ExtractFails \/ RouteChosen
             \/ ExtractorAnswers \/ RelayRefused \/ Stops \/ WarpToggled
    BY <1>2, ContinuesKeeps, PolicyAppliedKeeps, RelayedKeeps, FailsKeeps, RouteChosenKeeps,
       ExtractorAnswersKeeps, RelayRefusedKeeps, StopsKeeps, WarpToggledKeeps
       DEF ExtractFails
  <1>3. ASSUME NEW kind \in {"key", "dash"}, PieceRequested(kind) PROVE RouteInv'
    BY <1>3, PieceRequestedKeeps
  <1>4. CASE PieceFetch \/ KeyRetried \/ RouteRechosen \/ RelayFetch \/ RelayFails
    BY <1>4, PieceFetchKeeps, KeyRetriedKeeps, RouteRechosenKeeps, RelayFetchKeeps, RelayFailsKeeps
  <1>5. ASSUME NEW b \in BOOLEAN, ExtractFetch(b) \/ DualFetch(b) PROVE RouteInv'
    BY <1>5, ExtractFetchKeeps, DualFetchKeeps
  <1>6. ASSUME NEW p \in Routes, Rotated(p) PROVE RouteInv'
    BY <1>6, RotatedKeeps
  <1>7. ASSUME NEW list \in RLists, ListChanges(list) PROVE RouteInv'
    BY <1>7, ListChangesKeeps
  <1>8. ASSUME NEW p \in RProxy, DeadExpires(p) PROVE RouteInv'
    BY <1>8, DeadExpiresKeeps
  <1>9. CASE UNCHANGED routingVars
    <2>1. UNCHANGED <<rCfg, rDead, rReq, rUrl, rPlay, rConn>>
      BY <1>9 DEF routingVars
    <2>2. RouteTypes'
      BY <2>1 DEF RouteInv, RouteTypes
    <2>3. Fixed' = Fixed
      BY <2>1 DEF Fixed, Named
    <2>4. rReq'.pc # "idle" => CallOK(rReq)'
      BY <2>1, <2>3 DEF CallOK, RouteInv
    <2>5. rUrl' # RNil => UrlOK(rUrl)'
      BY <2>1, <2>3 DEF UrlOK, RouteInv
    <2>6. RoutesKept'
      BY <2>1 DEF RouteInv, RoutesKept, WarpOffKept, NamedKept, NotSilentlyDirect, ExcludedKept, Named
    <2> QED BY <2>2, <2>4, <2>5, <2>6 DEF RouteInv
  <1> QED BY <1>1, <1>2, <1>3, <1>4, <1>5, <1>6, <1>7, <1>8, <1>9 DEF RoutingNext

\* Whatever order requests, retries, failures and changes in the panel come in, every
\* connection goes the way the client or the configuration asked for
\* (get_ordered_proxies_for_url, _get_proxy_session and the handlers).
THEOREM RoutesStayKept == RoutingInit /\ [][RoutingNext]_routingVars => []RoutesKept
  <1>1. RouteInv => RoutesKept
    BY DEF RouteInv
  <1> QED BY <1>1, RouteInitial, RouteStep, PTL

\* The types of the routing; and no local endpoint is ever passed over as dead.
LEMMA RouteInvTypes == ASSUME RouteInv PROVE RoutingTypeOK
<1>1. rReq \in Call /\ rConn.proxy \in Route /\ rDead \subseteq RProxy \ RTunnel
      /\ rUrl \in Query \cup {RNil}
  BY DEF RouteInv, RouteTypes
<1>2. rReq.pc \in Places /\ rReq.selected \in Route /\ rReq.got \in Route
  BY <1>1, CallFields
<1>3. rUrl # RNil => rUrl.proxy \in Routes \cup {RNil, ROff}
  BY <1>1 DEF Query
<1> QED BY <1>1, <1>2, <1>3 DEF RoutingTypeOK, Route, Places

-----------------------------------------------------------------------------
(* The configuration store.                                                *)

DefaultOK == cDefault \in CProxy \cup {CNil}

\* ConfigConsistent alone is not inductive: an imported file that leaves the
\* extractors out takes them from the default dictionary, whatever is in it.
ConfigInv == ConfigConsistent /\ DefaultOK

\* The shape of every change by the panel: memory, file and copies in one step.
LEMMA ChangeKeepsConfig ==
    ASSUME ConfigInv, NEW mem \in Settings,
           cMem' = mem, Saved(mem), Reloaded(mem), DefaultOK', UNCHANGED cSeen
    PROVE  ConfigInv'
<1>1. cFile' \in Settings /\ (cUnsaved' \/ cFile' = cMem')
  BY DEF ConfigInv, ConfigConsistent, Saved
<1>2. cWarp' = cMem'.warp /\ cExcl' = cMem'.hosts
  BY DEF Reloaded
<1>3. cMem'.hosts \subseteq CHost
  BY DEF Settings
<1> QED
  BY <1>1, <1>2, <1>3 DEF ConfigInv, ConfigConsistent

\* Reading the file back ends the time in which memory was ahead of it.
LEMMA LoadKeepsConfig ==
    ASSUME ConfigInv, cMem' = cFile, cFile' = cFile, Reloaded(cFile),
           DefaultOK', cSeen' \subseteq CHost
    PROVE  ConfigInv'
  BY DEF ConfigInv, ConfigConsistent, Reloaded, Settings

LEMMA ConfigInitial == ConfigInit => ConfigInv
<1> SUFFICES ASSUME ConfigInit PROVE ConfigInv
  OBVIOUS
<1>1. [warp |-> FALSE, ext |-> CNil, hosts |-> {}] \in Settings
  BY DEF Settings
<1>2. cMem \in Settings /\ cFile = cMem /\ cMem.warp = FALSE /\ cMem.hosts = {}
  BY <1>1 DEF ConfigInit
<1> QED
  BY <1>2 DEF ConfigInit, ConfigInv, ConfigConsistent, DefaultOK

LEMMA ConfigStep == ConfigInv /\ [ConfigNext]_configVars => ConfigInv'
<1> SUFFICES ASSUME ConfigInv, [ConfigNext]_configVars PROVE ConfigInv'
  OBVIOUS
<1> USE ConfigAssumption
<1>1. ASSUME NEW w \in BOOLEAN, NEW hosts \in SUBSET CHost, SettingsUpdated(w, hosts)
      PROVE  ConfigInv'
  <2> DEFINE mem == [cMem EXCEPT !.warp = w, !.hosts = hosts]
  <2>1. mem \in Settings
    BY DEF ConfigInv, ConfigConsistent, Settings
  <2>2. /\ cMem' = mem /\ Saved(mem) /\ Reloaded(mem)
        /\ DefaultOK' /\ UNCHANGED cSeen
    BY <1>1 DEF SettingsUpdated, ConfigInv, DefaultOK
  <2> HIDE DEF mem
  <2> QED BY <2>1, <2>2, ChangeKeepsConfig
<1>2. ASSUME NEW p \in CProxy \cup {CNil}, ExtractorProxySet(p)
      PROVE  ConfigInv'
  <2> DEFINE mem == [cMem EXCEPT !.ext = p]
  <2>1. mem \in Settings
    BY DEF ConfigInv, ConfigConsistent, Settings
  <2>2. /\ cMem' = mem /\ Saved(mem) /\ Reloaded(mem)
        /\ DefaultOK' /\ UNCHANGED cSeen
    BY <1>2 DEF ExtractorProxySet, ConfigInv, DefaultOK
  <2> HIDE DEF mem
  <2> QED BY <2>1, <2>2, ChangeKeepsConfig
<1>3. ASSUME NEW w \in BOOLEAN, NEW named \in BOOLEAN, NEW p \in CProxy, Imported(w, p, named)
      PROVE  ConfigInv'
  <2> DEFINE mem == [Defaults EXCEPT !.warp = w, !.ext = IF named THEN p ELSE @]
  <2>1. mem \in Settings
    BY DEF ConfigInv, DefaultOK, Defaults, Settings
  <2>2. /\ cMem' = mem /\ Saved(mem) /\ Reloaded(mem)
        /\ DefaultOK' /\ UNCHANGED cSeen
    BY <1>3 DEF Imported, ConfigInv, DefaultOK
  <2> HIDE DEF mem
  <2> QED BY <2>1, <2>2, ChangeKeepsConfig
<1>4. CASE DualRefreshes
  BY <1>4, LoadKeepsConfig
     DEF DualRefreshes, Loaded, ConfigInv, ConfigConsistent, DefaultOK
<1>5. CASE ConfigRestarts
  BY <1>5, LoadKeepsConfig DEF ConfigRestarts, DefaultOK
<1>6. ASSUME NEW h \in CHost, HostRequested(h)
      PROVE  ConfigInv'
  BY <1>6 DEF HostRequested, Bypassed, ConfigInv, ConfigConsistent, DefaultOK
<1>7. CASE UNCHANGED configVars
  BY <1>7 DEF configVars, ConfigInv, ConfigConsistent, DefaultOK
<1> QED
  BY <1>1, <1>2, <1>3, <1>4, <1>5, <1>6, <1>7 DEF ConfigNext

\* Unless a save just failed, the file has what is in memory, and the copies in
\* the module names follow every change, import, refresh and restart.
THEOREM ConfigurationConsistent == ConfigSpec => []ConfigConsistent
<1>1. ConfigInv => ConfigConsistent
  BY DEF ConfigInv
<1> QED
  BY <1>1, ConfigInitial, ConfigStep, PTL DEF ConfigSpec
-----------------------------------------------------------------------------
(* The expansion of a timeline.                                            *)

\* What the loop does with one more entry, by its own names.
FromOf(entries, i, now) == IF entries[i].t # {} THEN The(entries[i].t) ELSE now
NextOf(entries, i) == {j \in i + 1 .. Len(entries) : entries[j].t # {}}
UntilOf(entries, end, i) ==
    IF NextOf(entries, i) = {} THEN end
    ELSE The(entries[CHOOSE j \in NextOf(entries, i) : \A k \in NextOf(entries, i) : j <= k].t)
CountOf(entries, end, i, t) ==
    IF entries[i].r >= 0 THEN entries[i].r ELSE Repeats(t, UntilOf(entries, end, i), entries[i].d)
Grown(entries, end, acc, i) ==
    LET t == FromOf(entries, i, acc.now)
        n == CountOf(entries, end, i, t) + 1
    IN  [now  |-> t + n * entries[i].d,
         list |-> acc.list \o [j \in 1 .. n |-> t + (j - 1) * entries[i].d]]

GoodEntries(entries, n) ==
    /\ Len(entries) = n
    /\ \A i \in 1 .. n : entries[i].t \in SUBSET Int /\ entries[i].d \in Nat \ {0} /\ entries[i].r \in Int

Expansion == [now : Int, list : Seq(Int)]

LEMMA TheOne == ASSUME NEW s, s # {} PROVE The(s) \in s
BY DEF The

LEMMA FromTyped ==
    ASSUME NEW n \in Nat, NEW entries, GoodEntries(entries, n), NEW i \in 1 .. n, NEW now \in Int
    PROVE  FromOf(entries, i, now) \in Int
BY TheOne DEF FromOf, GoodEntries

LEMMA UntilTyped ==
    ASSUME NEW n \in Nat, NEW entries, GoodEntries(entries, n), NEW i \in 1 .. n, NEW end \in Int
    PROVE  UntilOf(entries, end, i) \in Int
<1>1. CASE NextOf(entries, i) = {}
  BY <1>1 DEF UntilOf
<1>2. CASE NextOf(entries, i) # {}
  <2> DEFINE N == NextOf(entries, i)
             j == CHOOSE j \in N : \A k \in N : j <= k
  <2>1. N \in SUBSET Nat /\ \A m \in N : m \in 1 .. n /\ entries[m].t # {}
    BY DEF NextOf, GoodEntries
  <2>2. \E m \in N : \A k \in N : m <= k
    BY <1>2, <2>1, LeastOf
  <2>3. j \in N
    BY <2>2
  <2>4. UntilOf(entries, end, i) = The(entries[j].t)
    BY <1>2 DEF UntilOf
  <2> HIDE DEF j, N
  <2>5. The(entries[j].t) \in entries[j].t /\ entries[j].t \in SUBSET Int
    BY <2>1, <2>3, TheOne DEF GoodEntries
  <2> QED BY <2>4, <2>5
<1> QED BY <1>1, <1>2

LEMMA CountTyped ==
    ASSUME NEW n \in Nat, NEW entries, GoodEntries(entries, n), NEW i \in 1 .. n, NEW end \in Int,
           NEW t \in Int
    PROVE  CountOf(entries, end, i, t) + 1 \in Nat
<1> DEFINE u == UntilOf(entries, end, i)
           d == entries[i].d
           r == entries[i].r
<1>1. u \in Int /\ d \in Nat \ {0} /\ r \in Int
  BY UntilTyped DEF GoodEntries
<1>2. CountOf(entries, end, i, t) = IF r >= 0 THEN r ELSE Repeats(t, u, d)
  BY DEF CountOf
<1> HIDE DEF u, d, r
<1>3. Repeats(t, u, d) + 1 \in Nat
  <2>1. (u - t + d - 1) \div d \in Int
    BY <1>1
  <2> QED BY <2>1 DEF Repeats, Max2
<1> QED BY <1>1, <1>2, <1>3

LEMMA GrownTyped ==
    ASSUME NEW n \in Nat, NEW entries, GoodEntries(entries, n), NEW i \in 1 .. n, NEW end \in Int,
           NEW acc \in Expansion
    PROVE  Grown(entries, end, acc, i) \in Expansion
<1> DEFINE t == FromOf(entries, i, acc.now)
           m == CountOf(entries, end, i, t) + 1
           d == entries[i].d
           list == [j \in 1 .. m |-> t + (j - 1) * d]
<1>1. acc.now \in Int /\ acc.list \in Seq(Int)
  BY DEF Expansion
<1>2. t \in Int /\ m \in Nat /\ d \in Nat
  <2>1. t \in Int
    BY <1>1, FromTyped
  <2> HIDE DEF t
  <2>2. m \in Nat
    BY <2>1, CountTyped
  <2>3. d \in Nat
    BY DEF GoodEntries
  <2> QED BY <2>1, <2>2, <2>3
<1>3. Grown(entries, end, acc, i) = [now |-> t + m * d, list |-> acc.list \o list]
  BY Zenon DEF Grown
<1> HIDE DEF t, m, d
<1>4. list \in Seq(Int)
  <2>1. \A j \in 1 .. m : t + (j - 1) * d \in Int
    BY <1>2
  <2>2. list \in [1 .. m -> Int]
    BY <2>1
  <2> HIDE DEF list
  <2> QED BY <1>2, <2>2, SeqDef
<1> HIDE DEF list
<1>5. t + m * d \in Int
  BY <1>2
<1>6. acc.list \o list \in Seq(Int)
  BY <1>1, <1>4, ConcatProperties
<1> QED BY <1>3, <1>5, <1>6 DEF Expansion

\* The fold goes through the entries.
ExpandsBy(x, entries, end, n) ==
    /\ x[1 .. 0] = [now |-> 0, list |-> <<>>]
    /\ \A k \in 0 .. n - 1 : x[1 .. k + 1] = Grown(entries, end, x[1 .. k], k + 1)
    /\ Expanded(entries, end) = x[1 .. n].list

LEMMA ExpandedSteps ==
    ASSUME NEW n \in Nat, NEW entries, GoodEntries(entries, n), NEW end \in Int
    PROVE  \E x : ExpandsBy(x, entries, end, n)
<1> DEFINE es == [i \in 1 .. Len(entries) |-> i]
           base == [now |-> 0, list |-> <<>>]
           Op(acc, i) == Grown(entries, end, acc, i)
           Folded(x) == x = [s \in SUBSET DOMAIN es |-> IF s = {} THEN base
                                                        ELSE Op(x[s \ {Max(s)}], es[Max(s)])]
           x == CHOOSE x : Folded(x)
<1>1. DOMAIN es = 1 .. n /\ \A i \in 1 .. n : es[i] = i
  BY DEF GoodEntries
<1>2. Expanded(entries, end) = x[DOMAIN es].list
  <2>1. Expanded(entries, end) = FoldLeft(Op, base, es).list
    BY Zenon DEF Expanded, Grown, FromOf, CountOf, UntilOf, NextOf
  <2>2. FoldLeft(Op, base, es) = x[DOMAIN es]
    BY Zenon DEF FoldLeft, MapThenFoldSet
  <2> QED BY <2>1, <2>2
<1>3. \E y : Folded(y)
  <2> DEFINE F == [q \in Expansion \X (1 .. n) |-> Op(q[1], q[2])]
  <2>1. base \in Expansion
    BY EmptySeq DEF Expansion
  <2>2. \A acc \in Expansion, i \in 1 .. n : Op(acc, i) \in Expansion
    BY GrownTyped
  <2> HIDE DEF Op, base, es
  <2>3. F \in [Expansion \X (1 .. n) -> Expansion]
    BY <2>2
  <2>4. \A acc \in Expansion, i \in 1 .. n : F[<<acc, i>>] = Op(acc, i)
    OBVIOUS
  <2> HIDE DEF F
  <2>5. PICK y \in [SUBSET (1 .. n) -> Expansion] : FoldedBy(y, n, base, F)
    BY <2>1, <2>3, FoldExists
  <2>6. y = [s \in SUBSET (1 .. n) |-> IF s = {} THEN base ELSE F[<<y[s \ {Max(s)}], Max(s)>>]]
    BY <2>5 DEF FoldedBy
  <2>7. ASSUME NEW s \in SUBSET (1 .. n), s # {}
        PROVE  F[<<y[s \ {Max(s)}], Max(s)>>] = Op(y[s \ {Max(s)}], es[Max(s)])
    <3>1. Max(s) \in 1 .. n
      BY <2>7, GreatestOf
    <3>2. y[s \ {Max(s)}] \in Expansion
      BY <2>5
    <3> QED BY <1>1, <2>4, <3>1, <3>2
  <2>8. y = [s \in SUBSET (1 .. n) |-> IF s = {} THEN base ELSE Op(y[s \ {Max(s)}], es[Max(s)])]
    BY <2>6, <2>7
  <2> QED BY <1>1, <2>8
<1>4. Folded(x)
  BY <1>3
<1> HIDE DEF x, es
<1>5. x[{}] = base /\ \A s \in SUBSET (1 .. n) : s # {} => x[s] = Op(x[s \ {Max(s)}], es[Max(s)])
  BY <1>1, <1>4
<1> HIDE DEF Folded
<1>6. ASSUME NEW k \in 0 .. n - 1 PROVE x[1 .. k + 1] = Op(x[1 .. k], k + 1)
  <2> DEFINE s == 1 .. k + 1
  <2> HIDE DEF Op
  <2>1. s \in SUBSET (1 .. n) /\ s # {} /\ k + 1 \in s
    OBVIOUS
  <2>2. Max(s) \in s /\ \A i \in s : i <= Max(s)
    BY <2>1, GreatestOf
  <2>3. Max(s) = k + 1
    BY <2>1, <2>2
  <2>4. s \ {k + 1} = 1 .. k /\ k + 1 \in 1 .. n
    OBVIOUS
  <2>5. x[s] = Op(x[s \ {k + 1}], es[k + 1])
    BY <1>5, <2>1, <2>3
  <2> QED BY <1>1, <2>4, <2>5
<1>7. 1 .. 0 = {}
  OBVIOUS
<1>8. ExpandsBy(x, entries, end, n)
  BY <1>1, <1>2, <1>5, <1>6, <1>7 DEF ExpandsBy
<1> QED BY <1>8

\* k segments of duration d from b on.
Even(b, d, k) == [i \in 1 .. k |-> b + (i - 1) * d]

OneMore(b, d, k, t) == Even(b, d, k) \o [j \in 1 .. 1 |-> t + (j - 1) * d] = Even(b, d, k + 1)

LEMMA EvenGrows ==
    ASSUME NEW b \in Int, NEW d \in Nat, NEW k \in Nat, NEW t, t = b + k * d
    PROVE  OneMore(b, d, k, t)
<1> DEFINE e == Even(b, d, k)
           o == [j \in 1 .. 1 |-> t + (j - 1) * d]
           g == Even(b, d, k + 1)
<1>1. /\ e \in Seq(Int) /\ Len(e) = k /\ \A i \in 1 .. k : e[i] = b + (i - 1) * d
      /\ o \in Seq(Int) /\ Len(o) = 1 /\ o[1] = t
      /\ g \in Seq(Int) /\ Len(g) = k + 1 /\ \A i \in 1 .. k + 1 : g[i] = b + (i - 1) * d
  <2>1. \A m \in Nat : /\ Even(b, d, m) \in Seq(Int) /\ Len(Even(b, d, m)) = m
                       /\ \A i \in 1 .. m : Even(b, d, m)[i] = b + (i - 1) * d
    <3> SUFFICES ASSUME NEW m \in Nat
                 PROVE  /\ Even(b, d, m) \in Seq(Int) /\ Len(Even(b, d, m)) = m
                        /\ \A i \in 1 .. m : Even(b, d, m)[i] = b + (i - 1) * d
      OBVIOUS
    <3> DEFINE f == Even(b, d, m)
    <3>1. f = [i \in 1 .. m |-> b + (i - 1) * d]
      BY DEF Even
    <3>2. \A i \in 1 .. m : b + (i - 1) * d \in Int
      OBVIOUS
    <3>3. f \in [1 .. m -> Int] /\ \A i \in 1 .. m : f[i] = b + (i - 1) * d
      BY <3>1, <3>2
    <3> HIDE DEF f
    <3>4. f \in Seq(Int) /\ DOMAIN f = 1 .. m
      BY <3>3, SeqDef
    <3> QED BY <3>3, <3>4, LenProperties DEF f
  <2>2. o \in Seq(Int) /\ Len(o) = 1 /\ o[1] = t
    <3>1. t \in Int /\ o[1] = t + (1 - 1) * d
      OBVIOUS
    <3>2. t + (1 - 1) * d = t
      OBVIOUS
    <3>3. \A j \in 1 .. 1 : t + (j - 1) * d \in Int
      OBVIOUS
    <3>4. o \in [1 .. 1 -> Int]
      BY <3>3
    <3> HIDE DEF o
    <3>5. o \in Seq(Int) /\ DOMAIN o = 1 .. 1
      BY <3>4, SeqDef
    <3> QED BY <3>1, <3>2, <3>5, LenProperties
  <2>3. k \in Nat /\ k + 1 \in Nat
    OBVIOUS
  <2> HIDE DEF o
  <2> QED BY <2>1, <2>2, <2>3
<1>2. b + (k + 1 - 1) * d = t
  OBVIOUS
<1> HIDE DEF e, o, g
<1>a. e \in Seq(Int) /\ o \in Seq(Int) /\ Len(e) = k /\ Len(o) = 1
  BY <1>1
<1>b. \A i \in 1 .. k : e[i] = g[i]
  <2>1. \A i \in 1 .. k : e[i] = b + (i - 1) * d
    BY <1>1
  <2>2. \A i \in 1 .. k + 1 : g[i] = b + (i - 1) * d
    BY <1>1
  <2>3. \A i \in 1 .. k : i \in 1 .. k + 1
    OBVIOUS
  <2> QED BY <2>1, <2>2, <2>3, Zenon
<1>3. /\ e \o o \in Seq(Int) /\ Len(e \o o) = k + 1
      /\ \A i \in 1 .. k + 1 : (e \o o)[i] = IF i <= k THEN e[i] ELSE o[i - k]
  <2>1. /\ e \o o \in Seq(Int) /\ Len(e \o o) = Len(e) + Len(o)
        /\ \A i \in 1 .. Len(e) + Len(o) : (e \o o)[i] = IF i <= Len(e) THEN e[i] ELSE o[i - Len(e)]
    BY <1>a, ConcatProperties
  <2> QED BY <1>a, <2>1
<1>4. \A i \in 1 .. k + 1 : (e \o o)[i] = g[i]
  <2> SUFFICES ASSUME NEW i \in 1 .. k + 1 PROVE (e \o o)[i] = g[i]
    OBVIOUS
  <2>1. CASE i <= k
    <3>1. (e \o o)[i] = e[i] /\ i \in 1 .. k
      BY <1>3, <2>1
    <3> QED BY <1>b, <3>1, Zenon
  <2>2. CASE i = k + 1
    <3>1. (e \o o)[i] = o[1]
      BY <1>3, <2>2
    <3>2. g[i] = b + (k + 1 - 1) * d
      BY <1>1, <2>2
    <3>3. o[1] = t
      BY <1>1
    <3>4. g[i] = t
      BY <1>2, <3>2
    <3> QED BY <3>1, <3>3, <3>4, Zenon
  <2>3. i <= k \/ i = k + 1
    OBVIOUS
  <2> QED BY <2>1, <2>2, <2>3, Zenon
<1> DEFINE p == e \o o
<1> HIDE DEF p
<1>5. p = g
  <2>1. p \in Seq(Int) /\ g \in Seq(Int) /\ Len(p) = Len(g) /\ \A i \in 1 .. Len(p) : p[i] = g[i]
    BY <1>1, <1>3, <1>4 DEF p
  <2> QED BY <2>1, SeqEqual
<1> QED BY <1>5, Zenon DEF OneMore, p, e, o, g

ExpandsTo(entries, end, b, d, n) == Expanded(entries, end) = Even(b, d, n)

\* An entry for each segment, with a start or going on where the last one ended.
LEMMA OneByOne ==
    ASSUME NEW n \in Nat \ {0}, NEW b \in Int, NEW d \in Nat \ {0}, NEW end \in Int, NEW entries,
           Len(entries) = n,
           \A i \in 1 .. n : /\ entries[i].d = d /\ entries[i].r = 0
                             /\ \/ entries[i].t = {b + (i - 1) * d}
                                \/ i # 1 /\ entries[i].t = {}
    PROVE  ExpandsTo(entries, end, b, d, n)
<1>1. GoodEntries(entries, n)
  <2>1. \A i \in 1 .. n : b + (i - 1) * d \in Int
    OBVIOUS
  <2>2. \A i \in 1 .. n : entries[i].t \in SUBSET Int
    BY <2>1
  <2> QED BY <2>2 DEF GoodEntries
<1>2. PICK x : ExpandsBy(x, entries, end, n)
  BY <1>1, ExpandedSteps
<1> DEFINE Reached(k) == (k # 0 => x[1 .. k].now = b + k * d) /\ x[1 .. k].list = Even(b, d, k)
<1>3. Reached(0)
  <2>1. Even(b, d, 0) = <<>>
    BY DEF Even
  <2> QED BY <1>2, <2>1 DEF ExpandsBy
<1>4. ASSUME NEW k \in 0 .. n - 1, Reached(k) PROVE Reached(k + 1)
  <2> DEFINE acc == x[1 .. k]
             i == k + 1
             t == b + k * d
             e == entries[i]
             one == [j \in 1 .. 1 |-> t + (j - 1) * d]
  <2>1. i \in 1 .. n /\ (i - 1) * d = k * d /\ t \in Int /\ k \in Nat
    OBVIOUS
  <2>2. e.d = d /\ e.r = 0 /\ (e.t = {t} \/ (k # 0 /\ e.t = {}))
    <3>1. e.d = d /\ e.r = 0 /\ (e.t = {b + (i - 1) * d} \/ (i # 1 /\ e.t = {}))
      BY <2>1
    <3> QED BY <2>1, <3>1
  <2>3. k # 0 => acc.now = t
    BY <1>4
  <2>4. acc.list = Even(b, d, k)
    BY <1>4
  <2> HIDE DEF acc, t, i, Reached
  <2>5. FromOf(entries, i, acc.now) = t
    <3>1. CASE e.t = {t}
      <4>1. The(e.t) = t
        BY <3>1 DEF The
      <4> QED BY <3>1, <4>1 DEF FromOf
    <3>2. CASE k # 0 /\ e.t = {}
      BY <2>3, <3>2 DEF FromOf
    <3> QED BY <2>2, <3>1, <3>2
  <2>6. CountOf(entries, end, i, t) + 1 = 1
    BY <2>2 DEF CountOf
  <2>7. Grown(entries, end, acc, i) = [now |-> t + 1 * d, list |-> acc.list \o one]
    BY <2>2, <2>5, <2>6 DEF Grown
  <2>8. t + 1 * d = b + (k + 1) * d
    BY <2>1 DEF t
  <2>a. t = b + k * d
    BY DEF t
  <2>9. acc.list \o one = Even(b, d, k + 1)
    <3>1. b \in Int /\ d \in Nat /\ k \in Nat
      BY <2>1
    <3>2. OneMore(b, d, k, t)
      BY <2>a, <3>1, EvenGrows
    <3>3. Even(b, d, k) \o one = Even(b, d, k + 1)
      BY <3>2, Zenon DEF OneMore
    <3> QED BY <2>4, <3>3, Zenon
  <2>10. x[1 .. k + 1] = Grown(entries, end, acc, i)
    BY <1>2 DEF ExpandsBy, acc, i
  <2> HIDE DEF one
  <2>11. x[1 .. k + 1].now = b + (k + 1) * d /\ x[1 .. k + 1].list = Even(b, d, k + 1)
    BY <2>7, <2>8, <2>9, <2>10
  <2> QED BY <2>11 DEF Reached
<1> HIDE DEF Reached
<1>5. Reached(n)
  <2> DEFINE T == {k \in Nat : k <= n /\ ~Reached(k)}
  <2>1. T = {}
    <3> SUFFICES ASSUME T # {} PROVE FALSE
      OBVIOUS
    <3>1. PICK k \in T : \A j \in T : k <= j
      BY LeastOf
    <3>2. k # 0
      BY <1>3, <3>1
    <3>3. k - 1 \in Nat /\ k - 1 \notin T /\ k - 1 \in 0 .. n - 1 /\ k - 1 + 1 = k
      BY <3>1, <3>2
    <3>4. Reached(k - 1)
      BY <3>3
    <3>5. Reached(k - 1 + 1)
      BY <1>4, <3>3, <3>4
    <3> QED BY <3>1, <3>3, <3>5
  <2> QED BY <2>1
<1> QED BY <1>2, <1>5 DEF ExpandsTo, ExpandsBy, Reached

\* The first entry, of m segments.
FirstGrown(entries, end, b, d, m) ==
    Grown(entries, end, [now |-> 0, list |-> <<>>], 1).list = Even(b, d, m)

LEMMA FirstGrows ==
    ASSUME NEW m \in Nat, NEW b \in Int, NEW d \in Nat, NEW end, NEW entries,
           entries[1].t = {b}, entries[1].d = d, CountOf(entries, end, 1, b) + 1 = m
    PROVE  FirstGrown(entries, end, b, d, m)
<1> DEFINE base == [now |-> 0, list |-> <<>>]
           list == [j \in 1 .. m |-> b + (j - 1) * d]
<1>1. FromOf(entries, 1, 0) = b
  BY DEF FromOf, The
<1>2. Grown(entries, end, base, 1).list = <<>> \o list
  <2> DEFINE k == CountOf(entries, end, 1, b) + 1
             c == entries[1].d
  <2>1. Grown(entries, end, base, 1).list = <<>> \o [j \in 1 .. k |-> b + (j - 1) * c]
    <3>1. base.now = 0 /\ base.list = <<>>
      OBVIOUS
    <3> HIDE DEF base
    <3> QED BY <1>1, <3>1 DEF Grown
  <2>2. k = m /\ c = d
    OBVIOUS
  <2> HIDE DEF k, c
  <2> QED BY <2>1, <2>2
<1>3. list \in Seq(Int)
  <2>1. \A j \in 1 .. m : b + (j - 1) * d \in Int
    OBVIOUS
  <2>2. list \in [1 .. m -> Int]
    BY <2>1
  <2> HIDE DEF list
  <2> QED BY <2>2, SeqDef
<1>4. <<>> \o list = list
  BY <1>3, ConcatEmptySeq
<1>5. list = Even(b, d, m)
  BY DEF Even
<1> QED BY <1>2, <1>4, <1>5, Zenon DEF FirstGrown

\* An open repetition up to a start that many segments later.
RepeatsTo(b, d, m) == Repeats(b, b + m * d, d) + 1 = m

LEMMA OpenRepeats ==
    ASSUME NEW m \in Nat \ {0}, NEW b \in Int, NEW d \in Nat \ {0}
    PROVE  RepeatsTo(b, d, m)
<1> DEFINE end == b + m * d
<1>1. end - b + d - 1 = m * d + d - 1
  OBVIOUS
<1>2. (m * d + d - 1) \div d = m
  OBVIOUS
<1>3. (end - b + d - 1) \div d = m
  BY <1>1, <1>2
<1>4. Repeats(b, end, d) = Max2(0, m) - 1
  BY <1>3, Zenon DEF Repeats
<1>5. Max2(0, m) = m
  BY DEF Max2
<1> QED BY <1>4, <1>5 DEF RepeatsTo

\* One entry for all, repeated a number of times or to the end.
LEMMA AllAtOnce ==
    ASSUME NEW n \in Nat \ {0}, NEW b \in Int, NEW d \in Nat \ {0}, NEW end, end = b + n * d,
           NEW entries, Len(entries) = 1, entries[1].t = {b}, entries[1].d = d,
           entries[1].r = n - 1 \/ entries[1].r = -1
    PROVE  ExpandsTo(entries, end, b, d, n)
<1>1. end \in Int /\ 1 \in Nat
  OBVIOUS
<1>2. GoodEntries(entries, 1)
  BY DEF GoodEntries
<1>3. PICK x : ExpandsBy(x, entries, end, 1)
  BY <1>1, <1>2, ExpandedSteps
<1> DEFINE base == [now |-> 0, list |-> <<>>]
<1>4. Expanded(entries, end) = Grown(entries, end, base, 1).list
  <2>1. x[1 .. 0 + 1] = Grown(entries, end, x[1 .. 0], 0 + 1) /\ x[1 .. 0] = base
    BY <1>3 DEF ExpandsBy
  <2>2. 0 + 1 = 1
    OBVIOUS
  <2> QED BY <1>3, <2>1, <2>2 DEF ExpandsBy
<1>5. CountOf(entries, end, 1, b) + 1 = n
  <2>1. CASE entries[1].r = n - 1
    BY <2>1 DEF CountOf
  <2>2. CASE entries[1].r = -1
    <3>1. NextOf(entries, 1) = {}
      BY DEF NextOf
    <3>2. CountOf(entries, end, 1, b) = Repeats(b, end, d)
      BY <2>2, <3>1 DEF CountOf, UntilOf
    <3> QED BY <3>2, OpenRepeats DEF RepeatsTo
  <2> QED BY <2>1, <2>2
<1>6. FirstGrown(entries, end, b, d, n)
  BY <1>5, FirstGrows
<1> QED BY <1>4, <1>6, Zenon DEF ExpandsTo, FirstGrown

\* An open repetition, and an entry that begins where it ends.
LEMMA UntilTheLast ==
    ASSUME NEW n \in Nat \ {0, 1}, NEW b \in Int, NEW d \in Nat \ {0}, NEW end \in Int,
           NEW entries, Len(entries) = 2, entries[1].t = {b}, entries[1].d = d,
           entries[1].r = -1,
           entries[2].t = {b + (n - 1) * d}, entries[2].d = d, entries[2].r = 0
    PROVE  ExpandsTo(entries, end, b, d, n)
<1> DEFINE m == n - 1
           t == b + m * d
           base == [now |-> 0, list |-> <<>>]
           one == [j \in 1 .. 1 |-> t + (j - 1) * d]
<1>1. m \in Nat \ {0} /\ m + 1 = n /\ t \in Int /\ 2 \in Nat
  OBVIOUS
<1>2. GoodEntries(entries, 2)
  <2>1. \A i \in 1 .. 2 : i = 1 \/ i = 2
    OBVIOUS
  <2>2. {b} \in SUBSET Int /\ {t} \in SUBSET Int
    BY <1>1
  <2> QED BY <2>1, <2>2 DEF GoodEntries
<1>3. PICK x : ExpandsBy(x, entries, end, 2)
  BY <1>1, <1>2, ExpandedSteps
<1> DEFINE acc == x[1 .. 1]
<1>4. acc = Grown(entries, end, base, 1) /\ Expanded(entries, end) = Grown(entries, end, acc, 2).list
  <2>1. 0 + 1 = 1 /\ 1 + 1 = 2 /\ 0 \in 0 .. 2 - 1 /\ 1 \in 0 .. 2 - 1
    OBVIOUS
  <2>2. x[1 .. 0 + 1] = Grown(entries, end, x[1 .. 0], 0 + 1) /\ x[1 .. 0] = base
    BY <1>3, <2>1 DEF ExpandsBy
  <2>3. x[1 .. 1 + 1] = Grown(entries, end, x[1 .. 1], 1 + 1)
    BY <1>3, <2>1 DEF ExpandsBy
  <2>4. Expanded(entries, end) = x[1 .. 2].list
    BY <1>3 DEF ExpandsBy
  <2> QED BY <2>1, <2>2, <2>3, <2>4
<1>5. CountOf(entries, end, 1, b) + 1 = m
  <2>1. NextOf(entries, 1) = {2}
    BY DEF NextOf
  <2>2. (CHOOSE j \in {2} : \A k \in {2} : j <= k) = 2
    OBVIOUS
  <2>3. UntilOf(entries, end, 1) = t
    BY <2>1, <2>2 DEF UntilOf, The
  <2>4. CountOf(entries, end, 1, b) = Repeats(b, t, d)
    BY <2>3 DEF CountOf
  <2> QED BY <1>1, <2>4, OpenRepeats DEF RepeatsTo
<1>6. acc.list = Even(b, d, m)
  <2>1. FirstGrown(entries, end, b, d, m)
    BY <1>1, <1>5, FirstGrows
  <2> QED BY <1>4, <2>1 DEF FirstGrown
<1>7. OneMore(b, d, m, t)
  BY <1>1, EvenGrows
<1> HIDE DEF acc, m, t
<1>8. FromOf(entries, 2, acc.now) = t
  BY DEF FromOf, The, t, m
<1>9. CountOf(entries, end, 2, t) + 1 = 1
  BY DEF CountOf
<1>10. Grown(entries, end, acc, 2).list = acc.list \o one
  BY <1>8, <1>9 DEF Grown
<1>11. Even(b, d, m) \o one = Even(b, d, m + 1)
  BY <1>7, Zenon DEF OneMore
<1> QED BY <1>1, <1>4, <1>6, <1>10, <1>11 DEF ExpandsTo

\* A source, as far as its timeline goes.
SourceOf(src) == src.base \in Nat /\ src.last \in Nat /\ src.dur \in Nat \ {0}

LEMMA OldestBounds ==
    ASSUME NEW src, SourceOf(src)
    PROVE  Oldest(src) \in Nat /\ Oldest(src) <= src.last
BY MpdAssumption DEF SourceOf, Oldest, Max2

LEMMA Expands ==
    ASSUME NEW src, SourceOf(src), NEW r \in MRend, NEW shape \in Shapes
    PROVE  Expanded(Timeline(src, shape, r), Published(src, r)) =
             Even(Start(src, r, Oldest(src)), src.dur, src.last - Oldest(src) + 1)
<1> DEFINE first == Oldest(src)
           n == src.last - first + 1
           b == Start(src, r, first)
           d == src.dur
           end == Published(src, r)
           entries == Timeline(src, shape, r)
<1>1. /\ first \in Nat /\ n \in Nat \ {0} /\ d \in Nat \ {0} /\ src.base \in Nat /\ MSkew[r] \in Nat
      /\ src.last \in Nat
  BY MpdAssumption, OldestBounds DEF SourceOf
<1> DEFINE at == src.base + MSkew[r]
<1>2. at \in Nat /\ \A k : Start(src, r, k) = at + k * d
  BY <1>1 DEF Start
<1>a. src.last + 1 = first + n /\ b = at + first * d /\ end = at + (src.last + 1) * d
  BY <1>1, <1>2 DEF Published
<1> HIDE DEF at, first, n, d, end, b
<1>3. b \in Int /\ end \in Int /\ end = b + n * d
  <2>1. (first + n) * d = first * d + n * d
    BY <1>1
  <2>2. first * d \in Int /\ n * d \in Int
    BY <1>1
  <2> DEFINE x == first * d
             y == n * d
             z == (first + n) * d
  <2>3. x \in Int /\ y \in Int /\ z = x + y
    BY <2>1, <2>2
  <2>4. b = at + x /\ end = at + z
    BY <1>a
  <2> HIDE DEF x, y, z
  <2>5. b \in Int /\ end \in Int /\ end = b + y
    BY <1>2, <2>3, <2>4
  <2> QED BY <2>5 DEF y
<1>4. ASSUME NEW i \in 1 .. n PROVE Start(src, r, first + i - 1) = b + (i - 1) * d
  <2>1. (first + i - 1) * d = first * d + (i - 1) * d
    BY <1>1
  <2> DEFINE x == first * d
             y == (i - 1) * d
             z == (first + i - 1) * d
  <2>2. x \in Int /\ y \in Int /\ z = x + y
    BY <1>1, <2>1
  <2>3. b = at + x /\ Start(src, r, first + i - 1) = at + z
    BY <1>2, <1>a
  <2> HIDE DEF x, y, z
  <2>4. Start(src, r, first + i - 1) = b + y
    BY <1>2, <2>2, <2>3
  <2> QED BY <2>4 DEF y
<1>5. CASE shape = "each"
  <2>1. entries = [i \in 1 .. n |-> Entry({Start(src, r, first + i - 1)}, d, 0)]
    BY <1>5, Zenon DEF Timeline, first, n, d
  <2> HIDE DEF entries
  <2>2. Len(entries) = n
    BY <1>1, <2>1
  <2>3. \A i \in 1 .. n : /\ entries[i].d = d /\ entries[i].r = 0
                          /\ entries[i].t = {b + (i - 1) * d}
    BY <1>4, <2>1 DEF Entry
  <2>4. ExpandsTo(entries, end, b, d, n)
    BY <1>1, <1>3, <2>2, <2>3, OneByOne
  <2> QED BY <2>4 DEF ExpandsTo, entries, end, b, d, n, first
<1>6. CASE shape = "first"
  <2>1. entries = [i \in 1 .. n |-> Entry(IF i = 1 THEN {Start(src, r, first)} ELSE {}, d, 0)]
    BY <1>6 DEF Timeline, first, n, d
  <2> HIDE DEF entries
  <2>2. Len(entries) = n
    BY <1>1, <2>1
  <2>3. Start(src, r, first) = b
    BY DEF b
  <2>4. \A i \in 1 .. n : /\ entries[i].d = d /\ entries[i].r = 0
                          /\ entries[i].t = IF i = 1 THEN {b} ELSE {}
    BY <2>1, <2>3 DEF Entry
  <2>5. b + (1 - 1) * d = b
    BY <1>1, <1>3
  <2>6. \A i \in 1 .. n : /\ entries[i].d = d /\ entries[i].r = 0
                          /\ \/ entries[i].t = {b + (i - 1) * d}
                             \/ i # 1 /\ entries[i].t = {}
    BY <2>4, <2>5
  <2>7. ExpandsTo(entries, end, b, d, n)
    BY <1>1, <1>3, <2>2, <2>6, OneByOne
  <2> QED BY <2>7 DEF ExpandsTo, entries, end, b, d, n, first
<1>7. CASE shape \in {"repeat", "open"}
  <2> DEFINE rep == IF shape = "repeat" THEN n - 1 ELSE -1
  <2>1. entries = <<Entry({b}, d, rep)>>
    BY <1>7 DEF Timeline, first, n, d, b
  <2> HIDE DEF entries
  <2>2. Len(entries) = 1 /\ entries[1].t = {b} /\ entries[1].d = d /\ entries[1].r = rep
    BY <2>1 DEF Entry
  <2>3. ExpandsTo(entries, end, b, d, n)
    BY <1>1, <1>3, <2>2, AllAtOnce
  <2> QED BY <2>3 DEF ExpandsTo, entries, end, b, d, n, first
<1>8. CASE shape = "until"
  <2>1. Start(src, r, src.last) = b + (n - 1) * d
    <3>1. n \in 1 .. n /\ first + n - 1 = src.last
      BY <1>1, <1>a
    <3> QED BY <1>4, <3>1
  <2> DEFINE t == Start(src, r, src.last)
  <2>2. entries = IF n = 1 THEN <<Entry({t}, d, 0)>> ELSE <<Entry({b}, d, -1), Entry({t}, d, 0)>>
    BY <1>8 DEF Timeline, first, n, d, b
  <2> HIDE DEF entries, t
  <2>3. CASE n = 1
    <3>1. entries = <<Entry({t}, d, 0)>>
      BY <2>2, <2>3
    <3>2. Len(entries) = 1 /\ entries[1].t = {t} /\ entries[1].d = d /\ entries[1].r = 0
      BY <3>1 DEF Entry
    <3>3. t = b /\ n - 1 = 0
      BY <1>1, <1>3, <2>1, <2>3 DEF t
    <3>4. ExpandsTo(entries, end, b, d, n)
      BY <1>1, <1>3, <3>2, <3>3, AllAtOnce
    <3> QED BY <3>4 DEF ExpandsTo, entries, end, b, d, n, first
  <2>4. CASE n # 1
    <3>1. entries = <<Entry({b}, d, -1), Entry({t}, d, 0)>>
      BY <2>2, <2>4
    <3>2. /\ Len(entries) = 2 /\ entries[1].t = {b} /\ entries[1].d = d /\ entries[1].r = -1
          /\ entries[2].t = {t} /\ entries[2].d = d /\ entries[2].r = 0
      BY <3>1 DEF Entry
    <3>3. ExpandsTo(entries, end, b, d, n)
      BY <1>1, <1>3, <2>1, <2>4, <3>2, UntilTheLast DEF t
    <3> QED BY <3>3 DEF ExpandsTo, entries, end, b, d, n, first
  <2> QED BY <2>3, <2>4
<1> QED BY <1>5, <1>6, <1>7, <1>8 DEF Shapes

LEMMA TimelinesAreRight == ASSUME NEW src, SourceOf(src) PROVE TimelineIsRight(src)
<1> SUFFICES ASSUME NEW r \in MRend, NEW shape \in Shapes
             PROVE  Expanded(Timeline(src, shape, r), Published(src, r)) =
                      [i \in 1 .. src.last - Oldest(src) + 1 |-> Start(src, r, Oldest(src) + i - 1)]
  BY DEF TimelineIsRight
<1> DEFINE first == Oldest(src)
           n == src.last - first + 1
           d == src.dur
           at == src.base + MSkew[r]
<1>1. first \in Nat /\ n \in Nat /\ d \in Nat /\ at \in Nat
  BY MpdAssumption, OldestBounds DEF SourceOf
<1>2. Expanded(Timeline(src, shape, r), Published(src, r)) = [i \in 1 .. n |-> Start(src, r, first) + (i - 1) * d]
  BY Expands DEF Even
<1>3. \A k : Start(src, r, k) = at + k * d
  BY DEF Start
<1> HIDE DEF first, n, d, at
<1>4. ASSUME NEW i \in 1 .. n PROVE Start(src, r, first) + (i - 1) * d = Start(src, r, first + i - 1)
  <2>1. (first + i - 1) * d = first * d + (i - 1) * d
    BY <1>1
  <2> DEFINE x == first * d
             y == (i - 1) * d
             z == (first + i - 1) * d
  <2>2. x \in Int /\ y \in Int /\ z = x + y
    BY <1>1, <2>1
  <2>3. Start(src, r, first) = at + x /\ Start(src, r, first + i - 1) = at + z
    BY <1>3
  <2> HIDE DEF x, y, z
  <2>4. Start(src, r, first) + y = Start(src, r, first + i - 1)
    BY <1>1, <2>2, <2>3
  <2> QED BY <2>4 DEF y
<1> QED BY <1>2, <1>4 DEF first, n, d

-----------------------------------------------------------------------------
(* Types.                                                                  *)

\* A playlist begins with a segment the source has.
LEMMA FirstListed ==
    ASSUME NEW src, SourceOf(src), src.shape \in Shapes, NEW r \in MRend, NEW t,
           t = AllSegments(src, r)[Min(Listed(src, r))]
    PROVE  t \in Nat /\ SegmentAt(src, r, t) \in 0 .. src.last
<1> DEFINE first == Oldest(src)
           n == src.last - first + 1
           d == src.dur
           at == src.base + MSkew[r]
           b == Start(src, r, first)
           all == AllSegments(src, r)
           listed == Listed(src, r)
           m == Min(listed)
<1>1. first \in Nat /\ first <= src.last /\ d \in Nat \ {0} /\ at \in Nat /\ src.last \in Nat
      /\ src.base \in Nat /\ MSkew[r] \in Nat
  BY MpdAssumption, OldestBounds DEF SourceOf
<1>2. all = [i \in 1 .. n |-> b + (i - 1) * d]
  BY Expands DEF AllSegments, Even
<1>3. b = at + first * d
  BY DEF Start
<1>4. n \in Nat \ {0} /\ n = src.last - first + 1
  BY <1>1
<1>5. listed # {} /\ listed \in SUBSET (1 .. n)
  <2>1. DOMAIN all = 1 .. n /\ Len(all) = n
    BY <1>2, <1>4
  <2> HIDE DEF n
  <2>2. listed = {n} \/ (listed # {} /\ listed \in SUBSET (1 .. n))
    BY <2>1 DEF Listed
  <2>3. n \in 1 .. n
    BY <1>4
  <2> QED BY <2>2, <2>3
<1> HIDE DEF first, d, at, b, n, all, listed
<1>6. m \in 1 .. n
  <2>1. listed \in SUBSET Nat
    BY <1>5
  <2>2. \E x \in listed : \A y \in listed : x <= y
    BY <1>5, <2>1, LeastOf
  <2>3. m \in listed
    BY <2>2, Zenon DEF Min
  <2> QED BY <1>5, <2>3
<1> DEFINE k == first + m - 1
<1>7. k \in 0 .. src.last
  <2> HIDE DEF m
  <2> QED BY <1>1, <1>4, <1>6
<1>8. t = at + k * d
  <2>1. t = b + (m - 1) * d
    <3>1. t = all[m]
      BY DEF all, listed
    <3> HIDE DEF m
    <3> QED BY <1>2, <1>6, <3>1
  <2> HIDE DEF m
  <2>2. k * d = first * d + (m - 1) * d
    BY <1>1, <1>6
  <2> DEFINE x == first * d
             y == (m - 1) * d
             z == k * d
  <2>3. x \in Int /\ y \in Int /\ z = x + y
    BY <1>1, <1>6, <2>2
  <2>4. t = b + y /\ b = at + x
    BY <1>3, <2>1
  <2> HIDE DEF x, y, z
  <2>5. t = at + z
    BY <1>1, <2>3, <2>4
  <2> QED BY <2>5 DEF z
<1> HIDE DEF k, m
<1>9. t \in Nat
  BY <1>1, <1>7, <1>8
<1>10. SegmentAt(src, r, t) = k
  <2>1. t - src.base - MSkew[r] = k * d
    <3> DEFINE z == k * d
    <3>1. z \in Int /\ t = at + z
      BY <1>1, <1>7, <1>8
    <3> HIDE DEF z
    <3>2. t - src.base - MSkew[r] = z
      BY <1>1, <3>1 DEF at
    <3> QED BY <3>2 DEF z
  <2>2. (k * d) \div d = k
    BY <1>1, <1>7
  <2> QED BY <2>1, <2>2 DEF SegmentAt, d
<1> QED BY <1>7, <1>9, <1>10

MSource == [base : Bases, last : 0 .. MLast, dur : MDurs, shape : MShapes, run : {0, 1}]
MAClock == [origin : Nat, dur : MDurs]
MPlaces  == {"idle", "get", "create", "origin", "duration", "number"}
MWork   == [pc : MPlaces, rend : MRend, run : {0, 1}, first : 0 .. MLast, time : Nat, dur : MDurs]
MList   == [first : 0 .. MLast, seq : Nat]

\* The types with the parts of each record.
MpdInv ==
    /\ mSrc \in MSource
    /\ mClock \in MAClock \cup {MNil}
    /\ mConv \in [MThread -> MWork \cup {MIdle}]
    /\ mOut \in [MRend -> MList \cup {MNil}]
    /\ mDisturbed \in BOOLEAN

LEMMA MpdInvTypes == ASSUME MpdInv PROVE MpdTypeOK
<1>1. mSrc.base \in Bases /\ mSrc.last \in 0 .. MLast /\ mSrc.dur \in MDurs
  BY DEF MpdInv, MSource
<1>2. mClock # MNil => mClock.origin \in Nat /\ mClock.dur \in MDurs
  BY DEF MpdInv, MAClock
<1>3. \A c \in MThread : mConv[c].pc \in {"idle", "get", "create", "origin", "duration", "number"}
  <2> SUFFICES ASSUME NEW c \in MThread PROVE mConv[c].pc \in MPlaces
    BY DEF MPlaces
  <2>1. mConv[c] \in MWork \/ mConv[c] = MIdle
    BY DEF MpdInv
  <2> QED BY <2>1 DEF MWork, MIdle, MPlaces
<1>4. \A r \in MRend : mOut[r] # MNil => mOut[r].seq \in Nat /\ mOut[r].first \in 0 .. MLast
  BY DEF MpdInv, MList
<1> QED BY <1>1, <1>2, <1>3, <1>4 DEF MpdInv, MpdTypeOK

LEMMA MpdInvInit == ASSUME MpdInit PROVE MpdInv
<1>1. PICK shape \in MShapes, last \in 0 .. MLast :
        mSrc = [base |-> MaxBase, last |-> last, dur |-> MFirst, shape |-> shape, run |-> 0]
  BY DEF MpdInit
<1>2. mSrc \in MSource
  BY <1>1, MpdAssumption DEF MSource, Bases
<1> QED BY <1>2 DEF MpdInit, MpdInv

LEMMA SourceTyped ==
    ASSUME NEW src \in MSource
    PROVE  SourceOf(src) /\ src.shape \in Shapes
<1>1. src.base \in Nat /\ src.last \in 0 .. MLast /\ src.dur \in MDurs /\ src.shape \in MShapes
  BY DEF MSource, Bases, MaxBase
<1>2. MLast \in Nat /\ MDurs \subseteq Nat \ {0} /\ MShapes \subseteq Shapes
  BY MpdAssumption
<1>3. src.dur \in Nat \ {0} /\ src.shape \in Shapes
  BY <1>1, <1>2, Zenon
<1>4. src.last \in Nat
  BY <1>1, <1>2
<1> QED BY <1>1, <1>3, <1>4 DEF SourceOf

\* What a conversion that is under way works on.
LEMMA WorkTyped ==
    ASSUME MpdInv, NEW c \in MThread, mConv[c].pc # "idle"
    PROVE  mConv[c] \in MWork
<1>1. mConv[c] \in MWork \/ mConv[c] = MIdle
  BY DEF MpdInv
<1> QED BY <1>1 DEF MIdle

LEMMA MovedOn ==
    ASSUME MpdInv, NEW c \in MThread, NEW w \in MWork
    PROVE  [mConv EXCEPT ![c] = w] \in [MThread -> MWork \cup {MIdle}]
BY DEF MpdInv

LEMMA PcTyped ==
    ASSUME NEW w \in MWork, NEW pc \in MPlaces
    PROVE  [w EXCEPT !.pc = pc] \in MWork
BY DEF MWork

LEMMA PcMoved ==
    ASSUME MpdInv, NEW c \in MThread, mConv[c].pc # "idle", NEW pc \in MPlaces
    PROVE  [mConv EXCEPT ![c].pc = pc] \in [MThread -> MWork \cup {MIdle}]
<1> DEFINE w == [mConv[c] EXCEPT !.pc = pc]
<1>1. w \in MWork
  BY WorkTyped, PcTyped
<1>2. [mConv EXCEPT ![c].pc = pc] = [mConv EXCEPT ![c] = w]
  OBVIOUS
<1> HIDE DEF w
<1> QED BY <1>1, <1>2, MovedOn

LEMMA AnswerTyped ==
    ASSUME MpdInv, NEW c \in MThread, mConv[c].pc # "idle", NEW seq \in Nat, Answer(c, seq)
    PROVE  /\ mConv' \in [MThread -> MWork \cup {MIdle}]
           /\ mOut' \in [MRend -> MList \cup {MNil}]
<1>1. mConv[c].rend \in MRend /\ mConv[c].first \in 0 .. MLast
  BY WorkTyped DEF MWork
<1>2. mConv' \in [MThread -> MWork \cup {MIdle}]
  BY DEF Answer, MpdInv
<1> DEFINE l == [first |-> mConv[c].first, seq |-> seq]
<1>3. l \in MList
  BY <1>1 DEF MList
<1>4. mOut' = mOut \/ mOut' = [mOut EXCEPT ![mConv[c].rend] = l]
  BY DEF Answer
<1> HIDE DEF l
<1>5. mOut' \in [MRend -> MList \cup {MNil}]
  BY <1>1, <1>3, <1>4 DEF MpdInv
<1> QED BY <1>2, <1>5

LEMMA SequenceTyped ==
    ASSUME NEW clock \in MAClock, NEW time \in Nat
    PROVE  Sequence(clock, time) \in Nat
<1> DEFINE n == time - clock.origin
           d == clock.dur
<1>1. n \in Int /\ d \in Nat \ {0}
  <2>1. clock.origin \in Nat /\ clock.dur \in MDurs
    BY DEF MAClock
  <2>2. MDurs \subseteq Nat \ {0}
    BY MpdAssumption
  <2>3. d \in Nat \ {0}
    BY <2>1, <2>2, Zenon
  <2> QED BY <2>1, <2>3
<1> HIDE DEF n, d
<1>2. n \div d \in Int
  BY <1>1
<1>3. Round(n, d) \in Int
  BY <1>2 DEF Round
<1> QED BY <1>3 DEF Sequence, Max2, n, d

LEMMA MpdInvStep == ASSUME MpdInv, MpdNext PROVE MpdInv'
<1>1. ASSUME NEW c \in MThread, NEW r \in MRend, ConvertStarts(c, r) PROVE MpdInv'
  <2> DEFINE t == AllSegments(mSrc, r)[Min(Listed(mSrc, r))]
             w == [pc |-> "get", rend |-> r, run |-> mSrc.run,
                   first |-> SegmentAt(mSrc, r, t), time |-> t, dur |-> mSrc.dur]
  <2>1. mSrc \in MSource
    BY DEF MpdInv
  <2>2. t \in Nat /\ SegmentAt(mSrc, r, t) \in 0 .. mSrc.last
    BY <2>1, SourceTyped, FirstListed
  <2>3. mConv' = [mConv EXCEPT ![c] = w] /\ UNCHANGED <<mSrc, mClock, mOut, mDisturbed>>
    BY <1>1 DEF ConvertStarts
  <2> HIDE DEF t
  <2>4. w \in MWork
    <3>1. mSrc.last \in 0 .. MLast /\ mSrc.run \in {0, 1} /\ mSrc.dur \in MDurs /\ MLast \in Nat
      BY <2>1, MpdAssumption DEF MSource
    <3>2. SegmentAt(mSrc, r, t) \in 0 .. MLast
      BY <2>2, <3>1
    <3> QED BY <2>2, <3>1, <3>2 DEF MWork, MPlaces
  <2> HIDE DEF w
  <2>5. mConv' \in [MThread -> MWork \cup {MIdle}]
    BY <2>3, <2>4, MovedOn
  <2> QED BY <2>3, <2>5 DEF MpdInv
<1>2. ASSUME NEW c \in MThread, ClockRead(c) PROVE MpdInv'
  <2> DEFINE pc == IF mClock = MNil THEN "create"
                   ELSE IF MustAnchor(mClock, mConv[c].time, mConv[c].dur) THEN "origin"
                   ELSE "number"
  <2>1. mConv[c].pc # "idle" /\ pc \in MPlaces
    BY <1>2 DEF ClockRead, MPlaces
  <2>2. mConv' = [mConv EXCEPT ![c].pc = pc] /\ UNCHANGED <<mSrc, mClock, mOut, mDisturbed>>
    BY <1>2 DEF ClockRead
  <2> HIDE DEF pc
  <2>3. mConv' \in [MThread -> MWork \cup {MIdle}]
    BY <2>1, <2>2, PcMoved
  <2> QED BY <2>2, <2>3 DEF MpdInv
<1>3. ASSUME NEW c \in MThread, ClockCreated(c) PROVE MpdInv'
  <2>1. mConv[c].pc # "idle" /\ Answer(c, 0)
    BY <1>3 DEF ClockCreated
  <2>2. mConv[c].time \in Nat /\ mConv[c].dur \in MDurs
    BY <2>1, WorkTyped DEF MWork
  <2>3. mClock' \in MAClock
    BY <1>3, <2>2 DEF ClockCreated, MAClock
  <2>4. mDisturbed' \in BOOLEAN /\ mSrc' = mSrc
    BY <1>3 DEF ClockCreated
  <2>5. /\ mConv' \in [MThread -> MWork \cup {MIdle}]
        /\ mOut' \in [MRend -> MList \cup {MNil}]
    BY <2>1, AnswerTyped
  <2> QED BY <2>3, <2>4, <2>5 DEF MpdInv
<1>4. ASSUME NEW c \in MThread, OriginSet(c) PROVE MpdInv'
  <2>1. mConv[c].pc # "idle" /\ "duration" \in MPlaces
    BY <1>4 DEF OriginSet, MPlaces
  <2>2. mConv[c].time \in Nat /\ mClock \in MAClock
    BY <1>4, <2>1, WorkTyped DEF MWork, OriginSet, MpdInv
  <2>3. mClock' \in MAClock
    BY <1>4, <2>2 DEF OriginSet, MAClock
  <2>4. mDisturbed' \in BOOLEAN /\ UNCHANGED <<mSrc, mOut>> /\ mConv' = [mConv EXCEPT ![c].pc = "duration"]
    BY <1>4 DEF OriginSet
  <2>5. mConv' \in [MThread -> MWork \cup {MIdle}]
    BY <2>1, <2>4, PcMoved
  <2> QED BY <2>3, <2>4, <2>5 DEF MpdInv
<1>5. ASSUME NEW c \in MThread, DurationSet(c) PROVE MpdInv'
  <2>1. mConv[c].pc # "idle" /\ "number" \in MPlaces
    BY <1>5 DEF DurationSet, MPlaces
  <2>2. mConv[c].dur \in MDurs /\ mClock \in MAClock
    BY <1>5, <2>1, WorkTyped DEF MWork, DurationSet, MpdInv
  <2>3. mClock' \in MAClock
    BY <1>5, <2>2 DEF DurationSet, MAClock
  <2>4. mDisturbed' \in BOOLEAN /\ UNCHANGED <<mSrc, mOut>> /\ mConv' = [mConv EXCEPT ![c].pc = "number"]
    BY <1>5 DEF DurationSet
  <2>5. mConv' \in [MThread -> MWork \cup {MIdle}]
    BY <2>1, <2>4, PcMoved
  <2> QED BY <2>3, <2>4, <2>5 DEF MpdInv
<1>6. ASSUME NEW c \in MThread, Numbered(c) PROVE MpdInv'
  <2> DEFINE seq == Sequence(mClock, mConv[c].time)
  <2>1. mConv[c].pc # "idle" /\ Answer(c, seq) /\ UNCHANGED <<mSrc, mClock, mDisturbed>> /\ mClock \in MAClock
    BY <1>6 DEF Numbered, MpdInv
  <2>2. mConv[c].time \in Nat
    BY <2>1, WorkTyped DEF MWork
  <2>3. seq \in Nat
    BY <2>1, <2>2, SequenceTyped
  <2> HIDE DEF seq
  <2>4. /\ mConv' \in [MThread -> MWork \cup {MIdle}]
        /\ mOut' \in [MRend -> MList \cup {MNil}]
    BY <2>1, <2>3, AnswerTyped
  <2> QED BY <2>1, <2>4 DEF MpdInv
<1>7. ASSUME ClockEvicted PROVE MpdInv'
  BY <1>7 DEF ClockEvicted, MpdInv
<1>8. ASSUME SourceAdvances PROVE MpdInv'
  <2>1. mSrc \in MSource /\ mSrc.last \in 0 .. MLast /\ mSrc.last < MLast /\ MLast \in Nat
    BY <1>8, MpdAssumption DEF SourceAdvances, MpdInv, MSource
  <2> DEFINE n == mSrc.last + 1
  <2>2. n \in 0 .. MLast
    BY <2>1
  <2>3. mSrc' = [mSrc EXCEPT !.last = n] /\ UNCHANGED <<mClock, mConv, mOut, mDisturbed>>
    BY <1>8 DEF SourceAdvances
  <2> HIDE DEF n
  <2>4. mSrc' \in MSource
    BY <2>1, <2>2, <2>3 DEF MSource
  <2> QED BY <2>3, <2>4 DEF MpdInv
<1>9. ASSUME NEW base \in Bases, NEW dur \in MDurs, SourceRestarts(base, dur) PROVE MpdInv'
  <2>1. mSrc' = [mSrc EXCEPT !.run = 1, !.last = 0, !.base = base, !.dur = dur]
        /\ UNCHANGED <<mClock, mConv>> /\ mDisturbed' \in BOOLEAN /\ mOut' = [r \in MRend |-> MNil]
    BY <1>9 DEF SourceRestarts
  <2>2. 0 \in 0 .. MLast /\ mSrc \in MSource
    BY MpdAssumption DEF MpdInv
  <2>3. mSrc' \in MSource
    BY <2>1, <2>2 DEF MSource
  <2> QED BY <2>1, <2>3 DEF MpdInv
<1> QED BY <1>1, <1>2, <1>3, <1>4, <1>5, <1>6, <1>7, <1>8, <1>9 DEF MpdNext

LEMMA MpdInvariant == MpdSpec => []MpdInv
<1>1. MpdInit => MpdInv
  BY MpdInvInit
<1>2. MpdInv /\ [MpdNext]_mpdVars => MpdInv'
  <2>1. ASSUME MpdInv, UNCHANGED mpdVars PROVE MpdInv'
    BY <2>1 DEF MpdInv, mpdVars
  <2> QED BY <2>1, MpdInvStep
<1> QED BY <1>1, <1>2, PTL DEF MpdSpec

\* However the source writes its timeline, the expansion lists the segments it has.
THEOREM TimelinesExpand == MpdSpec => TimelineExpanded
<1>1. MpdInv' => TimelineIsRight(mSrc')
  <2> SUFFICES ASSUME MpdInv' PROVE TimelineIsRight(mSrc')
    OBVIOUS
  <2> DEFINE src == mSrc'
  <2>1. src \in MSource
    BY DEF MpdInv
  <2> HIDE DEF src
  <2>2. TimelineIsRight(src)
    BY <2>1, SourceTyped, TimelinesAreRight
  <2> QED BY <2>2 DEF src
<1>2. MpdInv /\ MpdInv' => [mSrc' # mSrc => TimelineIsRight(mSrc')]_mpdVars
  BY <1>1
<1> QED BY <1>2, MpdInvariant, PTL DEF TimelineExpanded

-----------------------------------------------------------------------------
(* The decryption of a segment.                                            *)

KByte == [sample : Nat, at : Nat, clear : BOOLEAN]

\* The samples of a fragment, and what the decrypter makes of one more entry.
Layout(f, encrypted) ==
    [s \in 1 .. Len(f.sizes) |->
       [j \in 1 .. f.sizes[s] |-> Byte(s, j, ~encrypted \/ j <= f.lead)]]
NextSample(f, data, sizes, known, acc, e) ==
    [pos |-> acc.pos + sizes[e],
     out |-> acc.out \o Sample(f, SubSeq(data, acc.pos + 1, acc.pos + sizes[e]), e, known)]

LEMMA LayoutTyped ==
    ASSUME NEW f \in KFragment, NEW e \in BOOLEAN
    PROVE  /\ Len(f.sizes) \in Nat
           /\ \A s \in 1 .. Len(f.sizes) : f.sizes[s] \in Nat /\ Len(Layout(f, e)[s]) = f.sizes[s]
           /\ Layout(f, e) \in [1 .. Len(f.sizes) -> Seq(KByte)]
<1>1. f.sizes \in Seq(Nat \ {0}) /\ f.lead \in Nat
  BY DEF KFragment
<1>2. Len(f.sizes) \in Nat /\ \A s \in 1 .. Len(f.sizes) : f.sizes[s] \in Nat
  <2>1. \A s \in 1 .. Len(f.sizes) : f.sizes[s] \in Nat \ {0}
    BY <1>1, ElementOfSeq
  <2> QED BY <1>1, <2>1, LenProperties
<1>3. ASSUME NEW s \in 1 .. Len(f.sizes)
      PROVE  Layout(f, e)[s] \in Seq(KByte) /\ Len(Layout(f, e)[s]) = f.sizes[s]
  <2> DEFINE n == f.sizes[s]
             l == [j \in 1 .. n |-> Byte(s, j, ~e \/ j <= f.lead)]
  <2>1. Layout(f, e)[s] = l
    BY DEF Layout
  <2>2. n \in Nat /\ s \in Nat
    BY <1>2
  <2>3. \A j \in 1 .. n : Byte(s, j, ~e \/ j <= f.lead) \in KByte
    <3>1. \A j \in 1 .. n : j \in Nat /\ (~e \/ j <= f.lead) \in BOOLEAN
      BY <2>2
    <3> QED BY <2>2, <3>1 DEF Byte, KByte
  <2>4. l \in [1 .. n -> KByte]
    BY <2>3
  <2> HIDE DEF n, l
  <2>5. l \in Seq(KByte) /\ Len(l) = n
    <3>1. l \in Seq(KByte) /\ DOMAIN l = 1 .. n
      BY <2>2, <2>4, SeqDef
    <3> QED BY <2>2, <3>1, LenProperties
  <2> QED BY <2>1, <2>5 DEF n
<1>4. Layout(f, e) \in [1 .. Len(f.sizes) -> Seq(KByte)]
  <2>1. Layout(f, e) = [s \in 1 .. Len(f.sizes) |-> Layout(f, e)[s]]
    BY DEF Layout
  <2> QED BY <1>3, <2>1
<1> QED BY <1>2, <1>3, <1>4

LEMMA MdatFlattens ==
    ASSUME NEW f \in KFragment, NEW e \in BOOLEAN
    PROVE  \E g : Flattening(g, Len(f.sizes), KByte, Layout(f, e)) /\ Mdat(f, e) = g[Len(f.sizes)]
<1> DEFINE lists == Layout(f, e)
           n == Len(f.sizes)
<1>1. FlattenSeq(lists) = Mdat(f, e)
  BY Zenon DEF Mdat, Layout
<1>2. lists \in [1 .. n -> Seq(KByte)] /\ n \in Nat
  BY LayoutTyped
<1> HIDE DEF lists, n
<1>3. \E g : Flattening(g, n, KByte, lists) /\ FlattenSeq(lists) = g[n]
  BY <1>2, FlattenSteps, Zenon
<1> QED BY <1>1, <1>3 DEF lists, n

LEMMA PartOf ==
    ASSUME NEW data, NEW a \in Nat, NEW b \in Nat
    PROVE  /\ Len(SubSeq(data, a + 1, b)) \in Nat
           /\ \A j \in 1 .. Len(SubSeq(data, a + 1, b)) : \E i \in Nat : SubSeq(data, a + 1, b)[j] = data[i]
<1> DEFINE p == SubSeq(data, a + 1, b)
           D == {data[i] : i \in Nat}
           m == a + 1
<1>1. \A i \in Nat : data[i] \in D
  OBVIOUS
<1>2. m \in Int /\ b \in Int /\ \A i \in m .. b : i \in Nat
  OBVIOUS
<1>3. \A i \in m .. b : data[i] \in D
  BY <1>1, <1>2
<1>4. p \in Seq(D)
  <2> HIDE DEF D, m
  <2>1. SubSeq(data, m, b) \in Seq(D)
    BY <1>2, <1>3, SubSeqProperties
  <2> QED BY <2>1 DEF m
<1> HIDE DEF p, m, D
<1>5. Len(p) \in Nat /\ \A j \in 1 .. Len(p) : p[j] \in D
  BY <1>4, LenProperties, ElementOfSeq
<1>6. \A d \in D : \E i \in Nat : d = data[i]
  BY DEF D
<1>7. \A j \in 1 .. Len(p) : \E i \in Nat : p[j] = data[i]
  BY <1>5, <1>6
<1> QED BY <1>5, <1>7 DEF p, m

LEMMA ByteCleared ==
    ASSUME NEW s, NEW j, NEW c, NEW d
    PROVE  [Byte(s, j, c) EXCEPT !.clear = d] = Byte(s, j, d)
<1>1. [[sample |-> s, at |-> j, clear |-> c] EXCEPT !.clear = d]
        = [sample |-> s, at |-> j, clear |-> d]
  BY SMT
<1>2. Byte(s, j, c) = [sample |-> s, at |-> j, clear |-> c]
  BY Zenon DEF Byte
<1>3. Byte(s, j, d) = [sample |-> s, at |-> j, clear |-> d]
  BY Zenon DEF Byte
<1> HIDE DEF Byte
<1> QED BY <1>1, <1>2, <1>3, Zenon

\* What a sample turns into, whatever its bytes and the entry.
KOut(data) == {[data[i] EXCEPT !.clear = c] : i \in Nat, c \in BOOLEAN}

LEMMA SampleTyped ==
    ASSUME NEW f, NEW known, NEW e, NEW data, NEW a \in Nat, NEW b \in Nat
    PROVE  Sample(f, SubSeq(data, a + 1, b), e, known) \in Seq(KOut(data))
<1> DEFINE p == SubSeq(data, a + 1, b)
           n == Len(p)
           c(j) == p[j].clear \/ (KeyFor(known) = KKid /\ p[j].sample = e /\ p[j].at = j)
           q == [j \in 1 .. n |-> [p[j] EXCEPT !.clear = c(j)]]
<1>1. n \in Nat /\ \A j \in 1 .. n : \E i \in Nat : p[j] = data[i]
  BY PartOf
<1>2. Sample(f, p, e, known) = q
  BY Zenon DEF Sample
<1>3. \A j : c(j) \in BOOLEAN
  OBVIOUS
<1> HIDE DEF p, n, c
<1>4. ASSUME NEW j \in 1 .. n PROVE [p[j] EXCEPT !.clear = c(j)] \in KOut(data)
  <2>1. PICK i \in Nat : p[j] = data[i]
    BY <1>1
  <2> DEFINE v == c(j)
  <2>2. v \in BOOLEAN
    BY <1>3
  <2> HIDE DEF v
  <2>3. [data[i] EXCEPT !.clear = v] \in KOut(data)
    <3> DEFINE y == [data[i] EXCEPT !.clear = v]
    <3>1. \E k \in Nat, w \in BOOLEAN : y = [data[k] EXCEPT !.clear = w]
      BY <2>2, Zenon
    <3> HIDE DEF y
    <3>2. y \in KOut(data)
      BY <3>1 DEF KOut
    <3> QED BY <3>2 DEF y
  <2> QED BY <2>1, <2>3, Zenon DEF v
<1> DEFINE K == KOut(data)
<1> HIDE DEF K
<1>5. q \in [1 .. n -> K]
  BY <1>4 DEF K
<1>6. q \in Seq(K)
  <2> HIDE DEF q
  <2> QED BY <1>1, <1>5, SeqDef
<1> QED BY <1>2, <1>6 DEF p, K

\* With its own key and entry a sample comes out in the clear.
LEMMA SampleDecrypts ==
    ASSUME NEW f \in KFragment, NEW known, KeyFor(known) = KKid, NEW s \in 1 .. Len(f.sizes)
    PROVE  Sample(f, Layout(f, TRUE)[s], s, known) = Layout(f, FALSE)[s]
<1> DEFINE n == f.sizes[s]
           l == Layout(f, TRUE)[s]
           m == Layout(f, FALSE)[s]
<1>1. Len(l) = n /\ n \in Nat
  BY LayoutTyped
<1>2. /\ l = [j \in 1 .. n |-> Byte(s, j, ~TRUE \/ j <= f.lead)]
      /\ m = [j \in 1 .. n |-> Byte(s, j, ~FALSE \/ j <= f.lead)]
  BY DEF Layout
<1>3. Sample(f, l, s, known) =
        [j \in 1 .. Len(l) |->
           [l[j] EXCEPT !.clear = l[j].clear \/ (KeyFor(known) = KKid /\ l[j].sample = s /\ l[j].at = j)]]
  BY DEF Sample
<1> HIDE DEF l, m, n
<1>4. ASSUME NEW j \in 1 .. n
      PROVE  [l[j] EXCEPT !.clear = l[j].clear \/ (KeyFor(known) = KKid /\ l[j].sample = s /\ l[j].at = j)]
             = m[j]
  <2>1. l[j] = Byte(s, j, ~TRUE \/ j <= f.lead) /\ m[j] = Byte(s, j, ~FALSE \/ j <= f.lead)
    BY <1>2
  <2>2. (~FALSE \/ j <= f.lead) = TRUE
    OBVIOUS
  <2>3. (l[j].clear \/ (KeyFor(known) = KKid /\ l[j].sample = s /\ l[j].at = j)) = TRUE
    BY <2>1 DEF Byte
  <2>4. [l[j] EXCEPT !.clear = TRUE] = Byte(s, j, TRUE)
    <3> DEFINE c == ~TRUE \/ j <= f.lead
               d == TRUE
    <3>1. l[j] = Byte(s, j, c)
      BY <2>1
    <3> HIDE DEF c, d
    <3>2. [Byte(s, j, c) EXCEPT !.clear = d] = Byte(s, j, d)
      BY ByteCleared
    <3>3. [l[j] EXCEPT !.clear = d] = Byte(s, j, d)
      BY <3>1, <3>2, Zenon
    <3> QED BY <3>3, Zenon DEF d
  <2>5. m[j] = Byte(s, j, TRUE)
    BY <2>1, <2>2, Zenon
  <2> QED BY <2>3, <2>4, <2>5, Zenon
<1>5. m = [j \in 1 .. n |-> m[j]]
  BY <1>2
<1> QED BY <1>1, <1>3, <1>4, <1>5 DEF l, m

\* Entry by entry all samples do.
LEMMA EntriesDecrypt ==
    ASSUME NEW f \in KFragment, NEW known, KeyFor(known) = KKid, Len(f.sizes) # 0,
           Entries(f, known) = [i \in 1 .. Len(f.sizes) |-> i], Sizes(f, known) = f.sizes, f.enc
    PROVE  DecryptMdat(f, known) = Mdat(f, FALSE)
<1> DEFINE n == Len(f.sizes)
           es == Entries(f, known)
           data == Mdat(f, f.enc)
           sizes == Sizes(f, known)
           base == [pos |-> 0, out |-> <<>>]
           Op(acc, e) == NextSample(f, data, sizes, known, acc, e)
           Folded(x) == x = [s \in SUBSET DOMAIN es |-> IF s = {} THEN base
                                                        ELSE Op(x[s \ {Max(s)}], es[Max(s)])]
           x == CHOOSE x : Folded(x)
<1>1. n \in Nat /\ n # 0 /\ \A s \in 1 .. n : f.sizes[s] \in Nat
  BY LayoutTyped
<1>2. es # <<>> /\ DOMAIN es = 1 .. n /\ \A i \in 1 .. n : es[i] = i
  <2>1. DOMAIN es = 1 .. n /\ \A i \in 1 .. n : es[i] = i
    OBVIOUS
  <2>2. 1 \in DOMAIN es
    BY <1>1, <2>1
  <2> QED BY <2>1, <2>2
<1>3. DecryptMdat(f, known) = x[DOMAIN es].out
  <2>1. DecryptMdat(f, known) = FoldLeft(Op, base, es).out
    BY <1>2, Zenon DEF DecryptMdat, NextSample
  <2>2. FoldLeft(Op, base, es) = x[DOMAIN es]
    BY Zenon DEF FoldLeft, MapThenFoldSet
  <2> QED BY <2>1, <2>2
<1>a. sizes = f.sizes /\ data = Mdat(f, TRUE)
  OBVIOUS
<1> HIDE DEF sizes, data
<1>4. PICK g : Flattening(g, n, KByte, Layout(f, TRUE)) /\ data = g[n]
  BY <1>a, MdatFlattens
<1>5. PICK h : Flattening(h, n, KByte, Layout(f, FALSE)) /\ Mdat(f, FALSE) = h[n]
  BY MdatFlattens
\* The fold is defined: its values are typed, whatever the entry and wherever it begins.
<1>6. \E y : Folded(y)
  <2> DEFINE Y == KOut(data)
             V == [pos : Nat, out : Seq(Y)]
             F == [q \in V \X (1 .. n) |-> Op(q[1], q[2])]
  <2>1. base \in V
    <3>1. <<>> \in Seq(Y)
      BY EmptySeq
    <3> QED BY <3>1
  <2>2. ASSUME NEW acc \in V, NEW e \in 1 .. n PROVE Op(acc, e) \in V
    <3> DEFINE a == acc.pos
               z == sizes[e]
               b == a + z
               q == Sample(f, SubSeq(data, a + 1, b), e, known)
    <3>1. a \in Nat /\ b \in Nat /\ acc.out \in Seq(Y)
      <4>1. a \in Nat /\ acc.out \in Seq(Y)
        <5> HIDE DEF Y
        <5> QED OBVIOUS
      <4>2. z \in Nat
        BY <1>1, <1>a
      <4> HIDE DEF a, z
      <4> QED BY <4>1, <4>2
    <3>5. Op(acc, e) = [pos |-> b, out |-> acc.out \o q]
      BY Zenon DEF NextSample
    <3> HIDE DEF a, b
    <3>3. q \in Seq(Y)
      BY <3>1, SampleTyped, Zenon
    <3> HIDE DEF q, Y
    <3>4. acc.out \o q \in Seq(Y)
      BY <3>1, <3>3, ConcatProperties
    <3> HIDE DEF Op
    <3> QED BY <3>1, <3>4, <3>5
  <2> HIDE DEF V, Op, base
  <2>3. F \in [V \X (1 .. n) -> V]
    BY <2>2
  <2>4. \A acc \in V, e \in 1 .. n : F[<<acc, e>>] = Op(acc, e)
    OBVIOUS
  <2> HIDE DEF F
  <2>5. PICK y \in [SUBSET (1 .. n) -> V] : FoldedBy(y, n, base, F)
    BY <1>1, <2>1, <2>3, FoldExists
  <2>6. y = [s \in SUBSET (1 .. n) |-> IF s = {} THEN base ELSE F[<<y[s \ {Max(s)}], Max(s)>>]]
    BY <2>5 DEF FoldedBy
  <2>7. ASSUME NEW s \in SUBSET (1 .. n), s # {}
        PROVE  F[<<y[s \ {Max(s)}], Max(s)>>] = Op(y[s \ {Max(s)}], es[Max(s)])
    <3>1. Max(s) \in 1 .. n
      BY <1>1, <2>7, GreatestOf
    <3>2. y[s \ {Max(s)}] \in V
      BY <2>5
    <3> QED BY <1>2, <2>4, <3>1, <3>2
  <2>8. y = [s \in SUBSET (1 .. n) |-> IF s = {} THEN base ELSE Op(y[s \ {Max(s)}], es[Max(s)])]
    BY <2>6, <2>7
  <2> QED BY <1>2, <2>8
<1>7. Folded(x)
  BY <1>6
<1> HIDE DEF x, es
<1>8. x[{}] = base /\ \A s \in SUBSET (1 .. n) : s # {} => x[s] = Op(x[s \ {Max(s)}], es[Max(s)])
  BY <1>2, <1>7
<1> HIDE DEF Op, Folded
<1>9. ASSUME NEW k \in 0 .. n - 1 PROVE x[1 .. k + 1] = Op(x[1 .. k], k + 1)
  <2> DEFINE s == 1 .. k + 1
  <2>a. k \in Nat /\ k + 1 <= n /\ n \in Nat
    BY <1>1
  <2>1. s \in SUBSET (1 .. n) /\ s # {} /\ k + 1 \in s /\ n \in Nat
    <3> HIDE DEF n
    <3>1. k + 1 \in s
      BY <2>a
    <3>2. \A i \in s : i \in 1 .. n
      BY <2>a
    <3> QED BY <2>a, <3>1, <3>2
  <2>2. Max(s) \in s /\ \A i \in s : i <= Max(s)
    BY <2>1, GreatestOf
  <2>3. Max(s) = k + 1
    BY <2>1, <2>2
  <2>4. s \ {k + 1} = 1 .. k /\ k + 1 \in 1 .. n
    BY <1>1
  <2>5. x[s] = Op(x[s \ {k + 1}], es[k + 1])
    BY <1>8, <2>1, <2>3
  <2> QED BY <1>2, <2>4, <2>5
\* After k entries: as far as k samples, and these in the clear.
<1> DEFINE After(k) == x[1 .. k] = [pos |-> Len(g[k]), out |-> h[k]]
<1>10. After(0)
  <2>1. g[0] = <<>> /\ h[0] = <<>>
    BY <1>4, <1>5, Zenon DEF Flattening
  <2>2. 1 .. 0 = {} /\ Len(<<>>) = 0
    OBVIOUS
  <2> QED BY <1>8, <2>1, <2>2, Zenon
<1>11. ASSUME NEW k \in 0 .. n - 1, After(k) PROVE After(k + 1)
  <2> DEFINE a == Len(g[k])
             b == Len(g[k + 1])
             l == Layout(f, TRUE)[k + 1]
             m == Layout(f, FALSE)[k + 1]
  <2>0. k + 1 \in 1 .. n /\ f.sizes = sizes
    BY <1>1, <1>a
  <2>1. Layout(f, TRUE) \in [1 .. n -> Seq(KByte)] /\ Len(l) = sizes[k + 1]
    BY <2>0, LayoutTyped
  <2>2. b = a + sizes[k + 1] /\ SubSeq(data, a + 1, b) = l
    <3> DEFINE lists == Layout(f, TRUE)
    <3>1. lists \in [1 .. n -> Seq(KByte)] /\ Flattening(g, n, KByte, lists) /\ n \in Nat
      BY <1>1, <1>4, <2>1
    <3> HIDE DEF lists, n
    <3>2. b = a + Len(lists[k + 1]) /\ SubSeq(g[n], a + 1, b) = lists[k + 1]
      <4>1. k \in 0 .. n - 1
        BY DEF n
      <4>2. PartAt(g, n, lists, k)
        BY <3>1, <4>1, FlattenPart
      <4> QED BY <4>2, Zenon DEF PartAt
    <3> QED BY <1>4, <2>1, <3>2, Zenon DEF lists, n
  <2>3. Sample(f, l, k + 1, known) = m
    BY <2>0, SampleDecrypts
  <2>4. h[k + 1] = h[k] \o m
    BY <1>5 DEF Flattening
  <2> DEFINE acc == x[1 .. k]
  <2>5. acc.pos = a /\ acc.out = h[k]
    BY <1>11
  <2> HIDE DEF acc, a, b, l, m
  <2>6. Op(acc, k + 1) = [pos |-> a + sizes[k + 1],
                          out |-> h[k] \o Sample(f, SubSeq(data, a + 1, a + sizes[k + 1]), k + 1, known)]
    BY <2>5 DEF Op, NextSample
  <2>7. Op(acc, k + 1) = [pos |-> b, out |-> h[k + 1]]
    BY <2>2, <2>3, <2>4, <2>6
  <2> QED BY <1>9, <2>7 DEF acc, b
<1> HIDE DEF After
<1>12. After(n)
  <2> DEFINE T == {k \in Nat : k <= n /\ ~After(k)}
  <2>1. T = {}
    <3> SUFFICES ASSUME T # {} PROVE FALSE
      OBVIOUS
    <3>1. PICK k \in T : \A j \in T : k <= j
      BY LeastOf
    <3>2. k # 0
      BY <1>10, <3>1
    <3>3. k - 1 \in Nat /\ k - 1 \notin T /\ k - 1 \in 0 .. n - 1 /\ k - 1 + 1 = k
      BY <1>1, <3>1, <3>2
    <3>4. After(k - 1)
      BY <1>1, <3>3
    <3>5. After(k - 1 + 1)
      BY <1>11, <3>3, <3>4
    <3> QED BY <3>1, <3>3, <3>5
  <2> QED BY <1>1, <2>1
<1>13. x[1 .. n].out = h[n]
  BY <1>12 DEF After
<1> QED BY <1>2, <1>3, <1>5, <1>13, Zenon

\* What the decrypter makes of a fragment that it knows enough about.
Enough(f, known) == KeyFor(known) = KKid /\ (f.enc => known \/ (f.where = "trun" /\ kSrc.iv # 0))

LEMMA FragmentDecrypts ==
    ASSUME NEW f \in KFragment, NEW known \in BOOLEAN, Enough(f, known)
    PROVE  DecryptMdat(f, known) = Mdat(f, FALSE)
<1>1. f.enc \in BOOLEAN /\ KeyFor(known) = KKid
  BY DEF Enough, KFragment
<1>2. CASE ~f.enc
  <2>1. Entries(f, known) = <<>>
    BY <1>2 DEF Entries
  <2>2. f.enc = FALSE
    BY <1>1, <1>2
  <2> QED BY <2>1, <2>2, Zenon DEF DecryptMdat
<1>3. CASE f.enc
  <2>0. f.enc = TRUE
    BY <1>1, <1>3
  <2>1. Entries(f, known) = [i \in 1 .. Len(f.sizes) |-> i]
    <3>1. ~(Tenc(known) = {} /\ kSrc.iv = 0)
      BY <1>3 DEF Enough, Tenc
    <3> QED BY <1>3, <3>1, Zenon DEF Entries
  <2>2. Sizes(f, known) = f.sizes
    BY <1>3 DEF Enough, Sizes, Trex
  <2>3. CASE Len(f.sizes) # 0
    BY <1>1, <1>3, <2>1, <2>2, <2>3, EntriesDecrypt
  <2>4. CASE Len(f.sizes) = 0
    <3>1. Entries(f, known) = <<>>
      BY <2>1, <2>4
    <3>2. DecryptMdat(f, known) = Mdat(f, TRUE)
      BY <2>0, <3>1, Zenon DEF DecryptMdat
    <3>3. Layout(f, TRUE) = Layout(f, FALSE)
      <4>1. \A s \in 1 .. Len(f.sizes) : FALSE
        BY <2>4
      <4> QED BY <4>1 DEF Layout
    <3>4. \A e \in BOOLEAN : Mdat(f, e) = FlattenSeq(Layout(f, e))
      BY Zenon DEF Mdat, Layout
    <3> QED BY <3>2, <3>3, <3>4
  <2> QED BY <2>3, <2>4
<1> QED BY <1>1, <1>2, <1>3

\* The source is one of those assumed.
SourceOK == kSrc.frags \in KSegments /\ kSrc.keys \in KKeys

LEMMA SegmentDecrypts ==
    ASSUME SourceOK, NEW known \in BOOLEAN, known \/ ~NeedsInit
    PROVE  InClear(Decrypted(known))
<1> DEFINE frags == kSrc.frags
           n == Len(frags)
           out == Decrypted(known)
           keys == kSrc.keys
<1>1. frags \in Seq(KFragment) /\ frags # <<>> /\ keys \in Seq(ToSet(keys)) /\ KKid \in ToSet(keys)
      /\ KMoof \in Nat
  BY ClearKeyAssumption DEF SourceOK
<1>2. n \in Nat /\ n # 0 /\ \A i \in 1 .. n : frags[i] \in KFragment
  <2>1. n \in Nat /\ n # 0
    BY <1>1, LenProperties, EmptySeq
  <2> QED BY <1>1, <2>1, ElementOfSeq
<1>3. KeyFor(known) = KKid
  <2>1. CASE known
    BY <2>1 DEF KeyFor, Tenc
  <2>2. CASE ~known
    <3>1. ~(Len(keys) > 1) /\ Len(keys) \in Nat /\ DOMAIN keys = 1 .. Len(keys)
      BY <1>1, <2>2, LenProperties DEF NeedsInit, Multi
    <3>2. PICK i \in DOMAIN keys : keys[i] = KKid
      BY <1>1 DEF ToSet
    <3>3. i = 1
      BY <3>1, <3>2
    <3> QED BY <2>2, <3>2, <3>3 DEF KeyFor, Tenc
  <2> QED BY <2>1, <2>2
<1>4. ASSUME NEW i \in 1 .. n PROVE Enough(frags[i], known)
  <2>1. frags[i].enc \in BOOLEAN /\ frags[i].where \in {"trun", "trex"}
    BY <1>2 DEF KFragment
  <2> QED BY <1>3, <2>1 DEF Enough, NeedsInit
<1>5. out = [i \in 1 .. n |-> Rewritten(frags[i], known)]
  BY DEF Decrypted
<1>6. Len(out) = n
  BY <1>2, <1>5
<1> HIDE DEF frags, n, out, keys
<1>7. ASSUME NEW i \in 1 .. n
      PROVE  /\ out[i].mdat = Mdat(frags[i], FALSE) /\ out[i].moof = KMoof
             /\ out[i].offset = KMoof + 8 /\ MoofSize(frags[i]) - Overhead(frags[i]) = KMoof
  <2> DEFINE f == frags[i]
  <2>1. out[i] = [moof |-> KMoof, offset |-> DataOffset(f) - Overhead(f), mdat |-> DecryptMdat(f, known)]
    BY <1>5 DEF Rewritten
  <2>2. f \in KFragment
    BY <1>2
  <2>3. f.pssh \in Nat /\ f.boxes \in Nat /\ KMoof \in Nat
    BY <1>1, <2>2 DEF KFragment
  <2>4. DecryptMdat(f, known) = Mdat(f, FALSE)
    BY <1>4, <2>2, FragmentDecrypts
  <2> HIDE DEF f
  <2>5. DataOffset(f) - Overhead(f) = KMoof + 8 /\ MoofSize(f) - Overhead(f) = KMoof
    BY <2>3 DEF DataOffset, MoofSize, Overhead
  <2> QED BY <2>1, <2>4, <2>5 DEF f
<1>8. 1 \in 1 .. n
  BY <1>2
<1>9. SidxSize = out[1].moof
  BY <1>7, <1>8 DEF SidxSize, frags
<1>10. /\ Len(out) = Len(kSrc.frags)
       /\ \A i \in 1 .. Len(out) : /\ out[i].mdat = Mdat(kSrc.frags[i], FALSE)
                                   /\ out[i].offset = out[i].moof + 8
  BY <1>6, <1>7 DEF frags, n
<1> QED BY <1>9, <1>10, Zenon DEF InClear, out

\* The invariant: AnsweredInClear needs that the source is the one of the start.
ClearKeyInv == SourceOK /\ AnsweredInClear

LEMMA NothingAnswered == ASSUME kAns = KNil PROVE AnsweredInClear
BY DEF AnsweredInClear, Media

LEMMA ClearKeyInvInit == ASSUME ClearKeyInit PROVE ClearKeyInv
<1>1. PICK iv \in {0, 8, 16}, seg \in KSegments, keys \in KKeys, ranged, sidx \in BOOLEAN :
        kSrc = [iv |-> iv, frags |-> seg, sidx |-> sidx, keys |-> keys, ranged |-> ranged]
  BY DEF ClearKeyInit
<1>2. SourceOK
  BY <1>1 DEF SourceOK
<1>3. AnsweredInClear
  BY NothingAnswered DEF ClearKeyInit
<1> QED BY <1>2, <1>3 DEF ClearKeyInv

\* Every step leaves the source alone, and answers nothing, what the decrypter makes, or,
\* to DASH and if it begins with a sidx box, the segment as it came.
Decrypts(out) == \E known \in BOOLEAN : (known \/ ~NeedsInit) /\ out = Decrypted(known)
GoodAnswer(ans) ==
    Media(ans) => IF ans.kind = "dash" /\ kSrc.sidx THEN ans.out = AsFetched
                  ELSE (ans.kind = "dash" \/ ans.known \/ ~NeedsInit) => Decrypts(ans.out)

LEMMA StepsAnswer ==
    ASSUME ClearKeyNext
    PROVE  kSrc' = kSrc /\ (kAns' = kAns \/ GoodAnswer(kAns'))
<1>0. ASSUME kAns' = KNil PROVE GoodAnswer(kAns')
  BY <1>0 DEF GoodAnswer, Media
<1>1. ASSUME NEW r \in KReq, NEW kind \in {"hls", "dash"}, NEW piece \in {"init", "media"},
             Requested(r, kind, piece)
      PROVE  kSrc' = kSrc /\ GoodAnswer(kAns')
  BY <1>0, <1>1 DEF Requested
<1>2. ASSUME NEW r \in KReq, HlsFetched(r) PROVE kSrc' = kSrc /\ GoodAnswer(kAns')
  BY <1>0, <1>2 DEF HlsFetched
<1>3. ASSUME NEW r \in KReq, HlsRetried(r) PROVE kSrc' = kSrc /\ GoodAnswer(kAns')
  BY <1>0, <1>3 DEF HlsRetried
<1>4. ASSUME NEW r \in KReq, HlsAnswers(r) PROVE kSrc' = kSrc /\ GoodAnswer(kAns')
  <2>1. kSrc' = kSrc
    BY <1>4 DEF HlsAnswers
  <2>2. CASE HlsError(r)
    BY <1>0, <1>4, <2>1, <2>2 DEF HlsAnswers
  <2>3. CASE ~HlsError(r)
    <3> DEFINE known == kReq[r].init = "got"
               out == CASE kReq[r].piece = "init" -> <<>>
                        [] kReq[r].seg = "none" -> <<>>
                        [] OTHER -> Decrypted(known)
    <3>1. kAns' = [kind |-> kReq[r].kind, piece |-> kReq[r].piece, known |-> known, out |-> out]
          /\ kReq[r].kind = "hls"
      BY <1>4, <2>3 DEF HlsAnswers, Answered
    <3>2. known \in BOOLEAN
      OBVIOUS
    <3>3. kReq[r].piece = "media" => out = Decrypted(known)
      BY <2>3 DEF HlsError
    <3> HIDE DEF known, out
    <3>4. GoodAnswer([kind |-> kReq[r].kind, piece |-> kReq[r].piece, known |-> known, out |-> out])
      <4> DEFINE ans == [kind |-> kReq[r].kind, piece |-> kReq[r].piece, known |-> known, out |-> out]
      <4>1. ans.kind = "hls" /\ ans.known = known /\ (ans.piece = "media" => ans.out = Decrypted(known))
        BY <3>1, <3>3
      <4> HIDE DEF ans
      <4>2. Media(ans) /\ (ans.known \/ ~NeedsInit) => Decrypts(ans.out)
        BY <3>2, <4>1 DEF Media, Decrypts
      <4>3. GoodAnswer(ans)
        BY <4>1, <4>2 DEF GoodAnswer
      <4> QED BY <4>3 DEF ans
    <3> QED BY <2>1, <3>1, <3>4
  <2> QED BY <2>2, <2>3
<1>5. ASSUME NEW r \in KReq, DashFetched(r) PROVE kSrc' = kSrc /\ GoodAnswer(kAns')
  BY <1>0, <1>5 DEF DashFetched
<1>6. ASSUME NEW r \in KReq, DashAnswers(r) PROVE kSrc' = kSrc /\ GoodAnswer(kAns')
  <2>1. kSrc' = kSrc
    BY <1>6 DEF DashAnswers
  <2>2. CASE kAns' = KNil
    BY <1>0, <2>1, <2>2
  <2>3. CASE Answered(r, TRUE, DashPiece(kReq[r].piece))
    <3> DEFINE out == DashPiece(kReq[r].piece)
               ans == [kind |-> kReq[r].kind, piece |-> kReq[r].piece, known |-> TRUE, out |-> out]
    <3>1. kAns' = ans
      BY <2>3 DEF Answered
    <3>2. kReq[r].piece = "media" => out = IF kSrc.sidx THEN AsFetched ELSE Decrypted(TRUE)
      BY DEF DashPiece
    <3>3. kReq[r].kind = "dash"
      BY <1>6 DEF DashAnswers
    <3> HIDE DEF out
    <3>4. ans.kind = "dash" /\ (ans.piece = "media" =>
             ans.out = IF kSrc.sidx THEN AsFetched ELSE Decrypted(TRUE))
      BY <3>2, <3>3
    <3> HIDE DEF ans
    <3>5. ans.kind = "dash" /\ ~kSrc.sidx /\ Media(ans) => Decrypts(ans.out)
      BY <3>4 DEF Media, Decrypts
    <3>6. GoodAnswer(ans)
      BY <3>4, <3>5 DEF GoodAnswer, Media
    <3> QED BY <2>1, <3>1, <3>6
  <2> QED BY <1>6, <2>2, <2>3 DEF DashAnswers
<1>7. ASSUME CacheCleared PROVE kSrc' = kSrc /\ kAns' = kAns
  BY <1>7 DEF CacheCleared
<1> QED BY <1>1, <1>2, <1>3, <1>4, <1>5, <1>6, <1>7 DEF ClearKeyNext

LEMMA ClearKeyInvStep == ASSUME ClearKeyInv, [ClearKeyNext]_clearKeyVars PROVE ClearKeyInv'
<1>1. CASE ClearKeyNext
  <2>1. kSrc' = kSrc /\ (kAns' = kAns \/ GoodAnswer(kAns'))
    BY <1>1, StepsAnswer
  <2>2. SourceOK /\ SourceOK'
    BY <2>1 DEF ClearKeyInv, SourceOK
  <2>3. /\ NeedsInit' <=> NeedsInit
        /\ AsFetched' = AsFetched
        /\ InClear(kAns.out)' <=> InClear(kAns'.out)
    BY <2>1 DEF NeedsInit, Multi, AsFetched, InClear, SidxSize
  <2>4. CASE kAns' = kAns
    <3>1. AnsweredInClear'
      BY <2>1, <2>3, <2>4 DEF ClearKeyInv, AnsweredInClear, Media
    <3> QED BY <2>2, <3>1 DEF ClearKeyInv
  <2>5. CASE GoodAnswer(kAns')
    <3>1. ASSUME Decrypts(kAns'.out) PROVE InClear(kAns'.out)
      <4>1. PICK known \in BOOLEAN : (known \/ ~NeedsInit) /\ kAns'.out = Decrypted(known)
        BY <3>1 DEF Decrypts
      <4> QED BY <2>2, <4>1, SegmentDecrypts
    <3>2. AnsweredInClear'
      BY <2>1, <2>3, <2>5, <3>1 DEF GoodAnswer, AnsweredInClear, Media
    <3> QED BY <2>2, <3>2 DEF ClearKeyInv
  <2> QED BY <2>1, <2>4, <2>5
<1>2. CASE UNCHANGED clearKeyVars
  BY <1>2 DEF ClearKeyInv, SourceOK, AnsweredInClear, AsFetched, Media, NeedsInit, Multi, InClear, SidxSize, clearKeyVars
<1> QED BY <1>1, <1>2

\* A media segment is answered in the clear and complete or not at all, whatever failed,
\* was fetched again or left the cache; but native DASH passes what begins with a sidx box
\* exactly as it was fetched.
THEOREM AnswersAreInClear == ClearKeySpec => []AnsweredInClear
<1>1. ClearKeyInit => ClearKeyInv
  BY ClearKeyInvInit
<1>2. ClearKeyInv /\ [ClearKeyNext]_clearKeyVars => ClearKeyInv'
  BY ClearKeyInvStep
<1>3. ClearKeyInv => AnsweredInClear
  BY DEF ClearKeyInv
<1> QED BY <1>1, <1>2, <1>3, PTL DEF ClearKeySpec

-----------------------------------------------------------------------------
(* The four together.                                                       *)

\* Whichever part moves, the types of routing and conversion stay, no local endpoint is
\* among the dead proxies and every numbered playlist begins with a segment of its source
\* (_mark_proxy_dead, convert_media_playlist).
THEOREM PlaybackTypes == Spec => []PlaybackTypeOK
<1>1. Init => RouteInv /\ MpdInv
  BY RouteInitial, MpdInvInit DEF Init
<1>2. RouteInv /\ MpdInv /\ [Next]_<<focus, Playback>> => RouteInv' /\ MpdInv'
  <2> SUFFICES ASSUME RouteInv, MpdInv, [Next]_<<focus, Playback>> PROVE RouteInv' /\ MpdInv'
    OBVIOUS
  <2>1. [RoutingNext]_routingVars
    BY DEF Next, Playback
  <2>2. MpdNext \/ UNCHANGED mpdVars
    BY DEF Next, Playback
  <2>3. ASSUME UNCHANGED mpdVars PROVE MpdInv'
    BY <2>3 DEF MpdInv, mpdVars
  <2> QED BY <2>1, <2>2, <2>3, RouteStep, MpdInvStep
<1>3. RouteInv /\ MpdInv => PlaybackTypeOK
  BY MpdInvTypes, RouteInvTypes DEF PlaybackTypeOK
<1> QED BY <1>1, <1>2, <1>3, PTL DEF Spec
=============================================================================
