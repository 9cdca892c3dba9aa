----------------------------- MODULE MCUpstream -----------------------------
(* What EasyProxy keeps open towards its upstreams: the pooled sessions of     *)
(* the proxy and the extractors with theirs.  The two caches share no state    *)
(* (an extractor opens its own sessions): each behaviour of this instance is   *)
(* one of the component "focus", with the other one at rest in its initial     *)
(* state.                                                                      *)
EXTENDS SessionPool, ExtractorCache, TLC

CONSTANTS s1, s2, s3, x, t, e1, e2, r1, r2

VARIABLE focus

Sessions   == {s1, s2, s3}
Proxies    == {x, t}
Tunnels    == {t}
Extractors == {e1, e2}
Requests   == {r1, r2}

Symmetric == Permutations(Sessions) \cup Permutations(Extractors) \cup Permutations(Requests)

Init == focus \in {"pool", "extractors"} /\ PoolInit /\ ExtractorInit

Next ==
    \/ focus = "pool" /\ PoolNext /\ UNCHANGED <<focus, extractorVars>>
    \/ focus = "extractors" /\ ExtractorNext /\ UNCHANGED <<focus, poolVars>>

Spec == Init /\ [][Next]_<<focus, poolVars, extractorVars>>

\* What one request or the panel does ends no other request's connections: the pool of
\* a playback goes only when idle, by its own failure or that of its tunnel; the shared
\* WARP session only by a failure over WARP or when nobody is on WARP; an extractor
\* under a request only a minute after it was found retired.
OthersUndisturbed == PlaybacksIsolated /\ ClosedLate
=============================================================================
