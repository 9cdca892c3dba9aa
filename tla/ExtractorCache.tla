-------------------------- MODULE ExtractorCache --------------------------
(***************************************************************************)
(* The extractors of EasyProxy (extractors/base.py,                        *)
(* extractors/registry_resolver.py, services/proxy_core.py): one instance  *)
(* per kind of source, shared by all requests, with the HTTP sessions it   *)
(* opened.  An instance keeps the routing of the request that called       *)
(* extract last in its own fields, and the proxy list of the request that  *)
(* created it.  A change of the configuration retires every instance; the  *)
(* cleanup task closes those retired for more than a minute, one await     *)
(* after the other.                                                        *)
(***************************************************************************)
EXTENDS Integers, Sequences, FiniteSets, SequencesExt

CONSTANTS
    XExt,     \* identities of extractor instances
    XKey,     \* cache keys (source and routing flags)
    XReq,     \* extraction requests
    XRoute,   \* what a request can name: proxies, or direct
    XMaxFetch,\* fetches of one extraction (bound)
    XMaxAdmin,\* configuration changes in a run (bound)
    XNil

ASSUME ExtractorAssumption ==
    /\ XNil \notin XExt /\ XRoute \cap {"auto", "config"} = {}
    /\ XMaxFetch \in Nat \ {0} /\ XMaxAdmin \in Nat /\ IsFiniteSet(XKey)

Wanted == XRoute \cup {"auto"}     \* proxy=..., or automatic routing
Taken  == XRoute \cup {"config"}   \* a named proxy, or the configured chain

VARIABLES
    xCache,    \* xCache[k]: the instance in self.extractors, or XNil
    xRetired,  \* _retired_extractors
    xAge,      \* _retired_extractor_atimes: steps of 31 s, -1 if absent
    xForced,   \* xForced[e]: _forced_proxy of the instance ("auto" if none)
    xList,     \* xList[e]: the proxies it was created with
    xSess,     \* xSess[e]: the routes it has an open session for
    xReq,      \* each request
    xSweep,    \* the pass over the retired list: index, what stays, what closes
    xAdmin,    \* configuration changes so far
    xDown,     \* cleanup() has run
    xMixed,    \* history: requests that ran beside, or after, a foreign routing
    xOutlived  \* history: instances closed while a request still used them

extractorVars == <<xCache, xRetired, xAge, xForced, xList, xSess, xReq, xSweep, xAdmin,
                   xDown, xMixed, xOutlived>>

XIdle   == [pc |-> "idle", ext |-> XNil, want |-> "auto", used |-> XNil, left |-> 0]
XAsleep == [pc |-> "idle", i |-> 0, still |-> <<>>]

\* Types, and: an instance is cached under one key at most and never once retired.
ExtractorTypeOK ==
    /\ xCache \in [XKey -> XExt \cup {XNil}] /\ xRetired \in Seq(XExt)
    /\ xAge \in [XExt -> -1 .. 2] /\ xForced \in [XExt -> Wanted]
    /\ xList \in [XExt -> Taken] /\ xSess \in [XExt -> SUBSET Taken]
    /\ xReq \in [XReq -> [pc : {"idle", "work"}, ext : XExt \cup {XNil}, want : Wanted,
                          used : Taken \cup {XNil}, left : 0 .. XMaxFetch]]
    /\ xSweep.pc \in {"idle", "closing"} /\ xSweep.still \in Seq(XExt)
    /\ xSweep.i \in 0 .. Len(xRetired)
    /\ xAdmin \in 0 .. XMaxAdmin /\ xDown \in BOOLEAN
    /\ xMixed \subseteq XReq /\ xOutlived \subseteq XExt
    /\ IsInjective(xRetired)
    /\ \A k, l \in XKey : xCache[k] # XNil =>
         xCache[k] \notin ToSet(xRetired) /\ (k # l => xCache[k] # xCache[l])

ExtractorInit ==
    /\ xCache = [k \in XKey |-> XNil] /\ xRetired = <<>> /\ xAge = [e \in XExt |-> -1]
    /\ xForced = [e \in XExt |-> "auto"] /\ xList = [e \in XExt |-> "config"]
    /\ xSess = [e \in XExt |-> {}]
    /\ xReq = [r \in XReq |-> XIdle] /\ xSweep = XAsleep
    /\ xAdmin = 0 /\ xDown = FALSE /\ xMixed = {} /\ xOutlived = {}

-----------------------------------------------------------------------------
(* Requests.                                                               *)

Cached(e)  == \E k \in XKey : xCache[k] = e
Using(e)   == {r \in XReq : xReq[r].pc = "work" /\ xReq[r].ext = e}
Dropped(e) == ~Cached(e) /\ e \notin ToSet(xRetired) /\ Using(e) = {}

Route(want) == IF want = "auto" THEN "config" ELSE want

\* _apply_routing_kwargs: the routing of this call overwrites the last one.
Applied(e, want) == want

\* What _resolve_proxy takes: what the instance is forced to now; else the proxy
\* this request named (STRICT_PROXY_CONTEXT); else the first of the list the
\* instance was created with, which _build_proxy_list cuts down to the proxy the
\* creating request named.  (A configured route that comes before that list
\* would hide it; none does here.)
ResolveProxy(r) ==
    LET e == xReq[r].ext
    IN  IF xForced[e] # "auto" THEN xForced[e]
        ELSE IF xReq[r].want # "auto" THEN xReq[r].want ELSE xList[e]

\* The instance of the key, or a new one.
KeptOrNew(k) ==
    IF xCache[k] # XNil THEN {xCache[k]} ELSE {e \in XExt : Dropped(e) /\ xSess[e] = {}}

\* resolve_extractor and the start of extract; a new instance takes the proxy
\* list of this request.
ResolveExtractor(r, k, want) ==
    /\ ~xDown /\ xReq[r].pc = "idle"
    /\ \E e \in KeptOrNew(k) :
         /\ xCache' = [xCache EXCEPT ![k] = e]
         /\ xList' = IF xCache[k] = XNil THEN [xList EXCEPT ![e] = Route(want)] ELSE xList
         /\ xOutlived' = IF xCache[k] = XNil THEN xOutlived \ {e} ELSE xOutlived
         /\ xForced' = [xForced EXCEPT ![e] = Applied(e, want)]
         /\ xReq' = [xReq EXCEPT ![r] = [pc |-> "work", ext |-> e, want |-> want,
                                         used |-> XNil, left |-> XMaxFetch]]
         /\ xMixed' = LET others == {q \in Using(e) : xReq[q].want # want}
                          frozen == want = "auto" /\ xList'[e] # "config"
                      IN  xMixed \cup others \cup (IF frozen \/ others # {} THEN {r} ELSE {})
    /\ UNCHANGED <<xRetired, xAge, xSess, xSweep, xAdmin, xDown>>

\* _make_request: the session of the route the instance names now.
MakeRequest(r) ==
    /\ xReq[r].pc = "work" /\ xReq[r].left > 0
    /\ LET e == xReq[r].ext
           route == ResolveProxy(r)
       IN  /\ xSess' = [xSess EXCEPT ![e] = @ \cup {route}]
           /\ xReq' = [xReq EXCEPT ![r].used = route, ![r].left = @ - 1]
    /\ UNCHANGED <<xCache, xRetired, xAge, xForced, xList, xSweep, xAdmin, xDown, xMixed, xOutlived>>

\* The extraction ended, failed or ran into its timeout.
ExtractEnds(r) ==
    /\ xReq[r].pc = "work"
    /\ xReq' = [xReq EXCEPT ![r] = XIdle] /\ xMixed' = xMixed \ {r}
    /\ UNCHANGED <<xCache, xRetired, xAge, xForced, xList, xSess, xSweep, xAdmin, xDown, xOutlived>>

-----------------------------------------------------------------------------
(* Retirement.                                                             *)

\* _invalidate_extractors: append to the list, also while a pass over it is
\* suspended in a close.
InvalidateExtractors ==
    /\ xAdmin < XMaxAdmin /\ xAdmin' = xAdmin + 1 /\ ~xDown
    /\ xRetired' = xRetired \o SetToSeq({xCache[k] : k \in XKey} \ {XNil})
    /\ xCache' = [k \in XKey |-> XNil]
    /\ UNCHANGED <<xAge, xForced, xList, xSess, xReq, xSweep, xDown, xMixed, xOutlived>>

\* Mutant of StillRetired: what follows the last one that was closed is dropped.
StillWalked(i, still) == still

\* What the list is replaced by at the end of a pass: those that stay, and what
\* was appended to the list itself while a close was awaited.
StillRetired(i, still) == still \o SubSeq(xRetired, i + 1, Len(xRetired))

\* The for loop from after index i up to its next await: the young ones stay
\* (those seen for the first time get their time), the first old one is closed.
SweepFrom(i, still, age) ==
    LET old  == {j \in i + 1 .. Len(xRetired) : age[xRetired[j]] >= 2}
        next == CHOOSE j \in old : \A l \in old : j <= l
        upto == IF old = {} THEN Len(xRetired) ELSE next - 1
        seen == {xRetired[j] : j \in i + 1 .. upto}
    IN  /\ xAge' = [e \in XExt |-> IF e \in seen /\ age[e] = -1 THEN 0 ELSE age[e]]
        /\ IF old = {}
           THEN /\ xRetired' = StillRetired(i, still)
                /\ xSweep' = XAsleep /\ UNCHANGED <<xSess, xOutlived>>
           ELSE /\ xSweep' = [pc |-> "closing", i |-> next,
                              still |-> still \o SubSeq(xRetired, i + 1, upto)]
                /\ xSess' = [xSess EXCEPT ![xRetired[next]] = {}]
                /\ xOutlived' = IF Using(xRetired[next]) # {} THEN xOutlived \cup {xRetired[next]}
                                ELSE xOutlived
                /\ UNCHANGED xRetired
    /\ UNCHANGED <<xCache, xForced, xList, xReq, xAdmin, xDown, xMixed>>

SweepBegins ==
    /\ xSweep.pc = "idle" /\ xRetired # <<>> /\ ~xDown
    /\ SweepFrom(0, <<>>, xAge)

\* extractor.close() came back: its time of retirement is forgotten.
SweepClosed ==
    /\ xSweep.pc = "closing"
    /\ SweepFrom(xSweep.i, xSweep.still, [xAge EXCEPT ![xRetired[xSweep.i]] = -1])

ExtractorTick ==
    /\ \E e \in XExt : xAge[e] \in {0, 1}
    /\ xAge' = [e \in XExt |-> IF xAge[e] \in {0, 1} THEN xAge[e] + 1 ELSE xAge[e]]
    /\ UNCHANGED <<xCache, xRetired, xForced, xList, xSess, xReq, xSweep, xAdmin, xDown, xMixed, xOutlived>>

\* cleanup(): the cleanup task is cancelled, perhaps inside a close (the list is
\* still whole then), and every instance, cached or retired, is closed.
CloseExtractors ==
    /\ ~xDown /\ \A r \in XReq : xReq[r].pc = "idle"
    /\ xSess' = [e \in XExt |-> IF Cached(e) \/ e \in ToSet(xRetired) THEN {} ELSE xSess[e]]
    /\ xCache' = [k \in XKey |-> XNil] /\ xRetired' = <<>> /\ xAge' = [e \in XExt |-> -1]
    /\ xSweep' = XAsleep /\ xDown' = TRUE
    /\ UNCHANGED <<xForced, xList, xReq, xAdmin, xMixed, xOutlived>>

ExtractorNext ==
    \/ \E r \in XReq : \/ \E k \in XKey, want \in Wanted : ResolveExtractor(r, k, want)
                       \/ MakeRequest(r) \/ ExtractEnds(r)
    \/ InvalidateExtractors
    \/ SweepBegins \/ SweepClosed
    \/ ExtractorTick \/ CloseExtractors

ExtractorSpec == ExtractorInit /\ [][ExtractorNext]_extractorVars

-----------------------------------------------------------------------------
(* Properties.                                                             *)

\* No instance is lost with its connections: whatever a pass over the retired
\* list and a change of the configuration do between two awaits of each other,
\* an instance with open sessions is cached or retired, and is closed by a later
\* pass or by cleanup(), unless it was closed under a request that went on.
ExtractorsReachable ==
    \A e \in XExt : xSess[e] # {} => Cached(e) \/ e \in ToSet(xRetired) \/ e \in xOutlived

\* A request that shares its instance with no other routing is routed as it
\* asked, whatever the calls before it left on the instance
\* (_apply_routing_kwargs).
RoutedAlone ==
    \A r \in XReq \ xMixed : xReq[r].used \in {XNil, Route(xReq[r].want)}

\* Both, with the types (no instance is cached twice, or cached and retired): no instance
\* is lost, and it serves who uses it alone.
ExtractorsServe == ExtractorTypeOK /\ ExtractorsReachable /\ RoutedAlone

\* "Retire active extractors so in-flight requests can finish, while new
\* requests get fresh instances": an instance is closed under a request only
\* when a minute has passed since a pass found it retired.
ClosedLate ==
    [][\A e \in XExt : xSess[e] # {} /\ xSess'[e] = {} /\ Using(e) # {} =>
         e \in ToSet(xRetired) /\ xAge[e] = 2]_extractorVars

\* "force the whole stream through" the named proxy, "Omit for automatic
\* routing": each fetch of an extraction goes the way its request asked for.
RouteIsItsOwn ==
    \A r \in XReq : xReq[r].used \in {XNil, Route(xReq[r].want)}
===========================================================================
