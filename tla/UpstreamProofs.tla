--------------------------- MODULE UpstreamProofs ---------------------------
(***************************************************************************)
(* What holds of the session pools (SessionPool) and of the extractors     *)
(* (ExtractorCache) for any number of sessions, proxies, playbacks,        *)
(* requests and instances.  Both inductive invariants say where every      *)
(* session, and every instance with connections, can be found: PoolInv     *)
(* that the open sessions are those pooled or draining, and that a fresh   *)
(* or busy borrower's is one of them; ExtInv that what a pass over the     *)
(* retired list has gone by is kept by it or closed.                       *)
(***************************************************************************)
EXTENDS MCUpstream, ListProofs

-----------------------------------------------------------------------------
(* The session pools.                                                      *)

ReqType == [pc : {"idle", "held", "busy"}, key : PoolKey \cup {PNil},
            sess : PSess \cup {PNil}, fresh : BOOLEAN, left : 0 .. PMaxFetch]

Lending == {s \in PSess : \E k \in PoolKey : pPool[k] = s}

\* The open sessions are those of the pools and those with a drain task, and none is both.
PoolExact ==
    \A s \in PSess : /\ s \in pOpen <=> s \in Lending \/ pDrain[s] >= 0
                     /\ s \in Lending => pDrain[s] = -1

\* No grace has passed for a session that was lent in this time step.
FreshIsOpen ==
    \A r \in PReq : pReq[r].fresh =>
        /\ pReq[r].pc # "idle" /\ pReq[r].sess \in pOpen /\ pDrain[pReq[r].sess] <= 0

BusyIsOpen == \A r \in PReq : pReq[r].pc = "busy" => pReq[r].sess \in pOpen

PoolFits == IsFiniteSet(Pooled(ProxyKey)) /\ Cardinality(Pooled(ProxyKey)) <= PLimit

PoolInv == PoolTypeOK /\ PoolExact /\ FreshIsOpen /\ BusyIsOpen /\ PoolFits

LEMMA PoolInvGivesKept == PoolInv => SessionsKept
<1> SUFFICES ASSUME PoolInv PROVE SessionsKept
  OBVIOUS
<1>1. /\ pPool \in [PoolKey -> PSess \cup {PNil}] /\ pOpen \subseteq PSess
      /\ pDrain \in [PSess -> -1 .. 1] /\ PNil \notin PSess
  BY PoolAssumption DEF PoolInv, PoolTypeOK
<1>2. Lending = {pPool[k] : k \in Pooled(PoolKey)}
  BY <1>1 DEF Lending, Pooled
<1>3. pOpen = {pPool[k] : k \in Pooled(PoolKey)} \cup {s \in PSess : pDrain[s] >= 0}
  <2>1. \A s \in PSess : s \in pOpen <=> s \in Lending \/ pDrain[s] >= 0
    BY DEF PoolInv, PoolExact
  <2>2. Lending \subseteq PSess
    BY DEF Lending
  <2> QED BY <1>1, <1>2, <2>1, <2>2
<1>4. \A k \in Pooled(PoolKey) : pDrain[pPool[k]] = -1
  BY <1>1 DEF PoolInv, PoolExact, Lending, Pooled
<1>5. BorrowersAreServed
  BY DEF PoolInv, FreshIsOpen, BusyIsOpen, BorrowersAreServed
<1> QED
  BY <1>3, <1>4, <1>5 DEF PoolInv, PoolFits, SessionsKept, NoSessionLost, PoolBounded

Unshared == \A k, l \in PoolKey : k # l /\ pPool[k] # PNil => pPool[k] # pPool[l]

LEMMA PoolTypes ==
    ASSUME PoolTypeOK
    PROVE  /\ pPool \in [PoolKey -> PSess \cup {PNil}] /\ pAge \in [PoolKey -> 0 .. 2]
           /\ pOpen \subseteq PSess /\ pDrain \in [PSess -> -1 .. 1] /\ pDown \in BOOLEAN
           /\ pReq \in [PReq -> ReqType] /\ Unshared
  BY DEF PoolTypeOK, ReqType, Unshared

LEMMA PoolTypesFollow ==
    ASSUME pPool' \in [PoolKey -> PSess \cup {PNil}], pAge' \in [PoolKey -> 0 .. 2],
           pOpen' \subseteq PSess, pDrain' \in [PSess -> -1 .. 1], pDown' \in BOOLEAN,
           pReq' \in [PReq -> ReqType], Unshared'
    PROVE  PoolTypeOK'
  BY DEF PoolTypeOK, ReqType, Unshared

\* Fewer proxies are pooled.
LEMMA FewerPooled ==
    ASSUME PoolFits, \A k \in ProxyKey : pPool'[k] # PNil => pPool[k] # PNil
    PROVE  PoolFits'
<1>1. Pooled(ProxyKey)' \in SUBSET Pooled(ProxyKey)
  BY DEF Pooled
<1>2. /\ IsFiniteSet(Pooled(ProxyKey)') /\ Cardinality(Pooled(ProxyKey)') <= Cardinality(Pooled(ProxyKey))
      /\ Cardinality(Pooled(ProxyKey)') \in Nat /\ Cardinality(Pooled(ProxyKey)) \in Nat
  BY <1>1, FS_Subset, FS_CardinalityType DEF PoolFits
<1>3. Cardinality(Pooled(ProxyKey)) <= PLimit /\ PLimit \in Nat
  BY PoolAssumption DEF PoolFits
<1>4. Cardinality(Pooled(ProxyKey)') <= PLimit
  BY <1>2, <1>3
<1> QED
  BY <1>2, <1>4 DEF PoolFits

\* What is detached from the pools is drained.
LEMMA DetachKeeps ==
    ASSUME PoolTypeOK, PoolExact, NEW K \in SUBSET PoolKey, Detach(K), pOpen' = pOpen
    PROVE  /\ pPool' \in [PoolKey -> PSess \cup {PNil}] /\ pAge' \in [PoolKey -> 0 .. 2]
           /\ pDrain' \in [PSess -> -1 .. 1] /\ Unshared' /\ PoolExact'
           /\ \A s \in PSess : pDrain'[s] = pDrain[s] \/ pDrain'[s] = 0
           /\ PoolFits => PoolFits'
           /\ \A k \in PoolKey : pPool'[k] # pPool[k] => k \in K
<1>1. /\ pPool \in [PoolKey -> PSess \cup {PNil}] /\ pAge \in [PoolKey -> 0 .. 2]
      /\ pDrain \in [PSess -> -1 .. 1] /\ Unshared /\ PNil \notin PSess
  BY PoolTypes, PoolAssumption
<1>2. /\ pPool' \in [PoolKey -> PSess \cup {PNil}]
      /\ \A k \in K : pPool'[k] = PNil
      /\ \A k \in PoolKey \ K : pPool'[k] = pPool[k]
  BY <1>1 DEF Detach
<1>3. pAge' \in [PoolKey -> 0 .. 2]
  BY <1>1 DEF Detach
<1>4. /\ pDrain' \in [PSess -> -1 .. 1]
      /\ \A s \in PSess : (\E k \in K : pPool[k] = s) => pDrain'[s] = 0
      /\ \A s \in PSess : ~(\E k \in K : pPool[k] = s) => pDrain'[s] = pDrain[s]
  BY <1>1 DEF Detach, Drained
<1>5. Unshared'
  BY <1>1, <1>2 DEF Unshared
<1>6. PoolExact'
  <2> SUFFICES ASSUME NEW s \in PSess
               PROVE  /\ s \in pOpen <=> s \in Lending' \/ pDrain'[s] >= 0
                      /\ s \in Lending' => pDrain'[s] = -1
    BY DEF PoolExact
  <2>1. /\ s \in pOpen <=> s \in Lending \/ pDrain[s] >= 0
        /\ s \in Lending => pDrain[s] = -1
    BY DEF PoolExact
  <2>2. CASE \E k \in K : pPool[k] = s
    <3>1. PICK k \in K : pPool[k] = s
      BY <2>2
    <3>2. s \in Lending /\ pDrain'[s] = 0
      BY <1>4, <3>1 DEF Lending
    <3>3. \A l \in PoolKey : pPool'[l] # s
      BY <1>1, <1>2, <3>1 DEF Unshared
    <3> QED BY <2>1, <3>2, <3>3 DEF Lending
  <2>3. CASE ~\E k \in K : pPool[k] = s
    <3>1. s \in Lending' <=> s \in Lending
      BY <1>1, <1>2, <2>3 DEF Lending
    <3> QED BY <1>4, <2>1, <2>3, <3>1
  <2> QED BY <2>2, <2>3
<1>7. PoolFits => PoolFits'
  <2>1. \A k \in ProxyKey : k \in PoolKey
    BY DEF PoolKey
  <2> QED BY <1>2, <2>1, FewerPooled
<1> QED
  BY <1>2, <1>3, <1>4, <1>5, <1>6, <1>7

\* The requests after a step that closes nothing.
LEMMA RequestsKept ==
    ASSUME FreshIsOpen, BusyIsOpen, pOpen \subseteq pOpen', pOpen \subseteq PSess,
           \A s \in PSess : pDrain'[s] = pDrain[s] \/ pDrain'[s] = 0,
           pDrain \in [PSess -> -1 .. 1],
           \A r \in PReq : \/ pReq'[r] = pReq[r]
                           \/ ~pReq'[r].fresh /\ pReq'[r].pc = "idle"
    PROVE  FreshIsOpen' /\ BusyIsOpen'
<1>1. FreshIsOpen'
  <2> SUFFICES ASSUME NEW r \in PReq, pReq'[r].fresh
               PROVE  /\ pReq'[r].pc # "idle" /\ pReq'[r].sess \in pOpen' /\ pDrain'[pReq'[r].sess] <= 0
    BY DEF FreshIsOpen
  <2>1. pReq'[r] = pReq[r]
    OBVIOUS
  <2>2. pReq[r].pc # "idle" /\ pReq[r].sess \in pOpen /\ pDrain[pReq[r].sess] <= 0
    BY <2>1 DEF FreshIsOpen
  <2> QED BY <2>1, <2>2
<1>2. BusyIsOpen'
  BY DEF BusyIsOpen
<1> QED
  BY <1>1, <1>2

-----------------------------------------------------------------------------
(* A lookup.                                                               *)

Lends(r, key, s, gone) ==
    /\ pPool' = [k \in PoolKey |-> IF k = key THEN s ELSE IF k \in gone THEN PNil ELSE pPool[k]]
    /\ pAge' = [k \in PoolKey |-> IF k \in gone \cup Touched(key) THEN 0 ELSE pAge[k]]
    /\ pOpen' = pOpen \cup {s}
    /\ pDrain' = Drained(gone)
    /\ pReq' = [pReq EXCEPT ![r] = [pc |-> "held", key |-> key, sess |-> s,
                                    fresh |-> TRUE, left |-> PMaxFetch]]
    /\ UNCHANGED pDown

LEMMA LendsKeeps ==
    ASSUME PoolInv, NEW r \in PReq, NEW key \in PoolKey, NEW gone \in SUBSET PoolKey,
           NEW s \in Lent(key, gone), Lends(r, key, s, gone)
    PROVE  PoolTypeOK' /\ PoolExact' /\ FreshIsOpen' /\ BusyIsOpen'
<1>1. /\ pPool \in [PoolKey -> PSess \cup {PNil}] /\ pAge \in [PoolKey -> 0 .. 2]
      /\ pOpen \subseteq PSess /\ pDrain \in [PSess -> -1 .. 1] /\ pDown \in BOOLEAN
      /\ pReq \in [PReq -> ReqType] /\ Unshared /\ PNil \notin PSess
  BY PoolTypes, PoolAssumption DEF PoolInv
<1>2. /\ s \in PSess
      /\ \/ pPool[key] = s /\ key \notin gone
         \/ s \notin pOpen /\ ~(pPool[key] # PNil /\ key \notin gone)
  BY <1>1 DEF Lent, Unused
<1>3. /\ pPool' \in [PoolKey -> PSess \cup {PNil}] /\ pPool'[key] = s
      /\ \A k \in PoolKey \ {key} : k \in gone => pPool'[k] = PNil
      /\ \A k \in PoolKey \ {key} : k \notin gone => pPool'[k] = pPool[k]
  BY <1>1, <1>2 DEF Lends
<1>4. pAge' \in [PoolKey -> 0 .. 2]
  BY <1>1 DEF Lends
<1>5. /\ pDrain' \in [PSess -> -1 .. 1]
      /\ \A z \in PSess : (\E k \in gone : pPool[k] = z) => pDrain'[z] = 0
      /\ \A z \in PSess : ~(\E k \in gone : pPool[k] = z) => pDrain'[z] = pDrain[z]
  BY <1>1 DEF Lends, Drained
<1>6. pOpen' = pOpen \cup {s} /\ pDown' = pDown
  BY DEF Lends
<1>7. /\ pReq' \in [PReq -> ReqType] /\ \A q \in PReq \ {r} : pReq'[q] = pReq[q]
      /\ pReq'[r].pc = "held" /\ pReq'[r].sess = s
  <2>1. [pc |-> "held", key |-> key, sess |-> s, fresh |-> TRUE, left |-> PMaxFetch] \in ReqType
    BY <1>2, PoolAssumption DEF ReqType
  <2> QED BY <1>1, <2>1 DEF Lends
\* The session that is lent had this key or none.
<1>8. \A k \in PoolKey : pPool[k] = s => k = key /\ key \notin gone
  <2> SUFFICES ASSUME NEW k \in PoolKey, pPool[k] = s PROVE k = key /\ key \notin gone
    OBVIOUS
  <2>1. s \in pOpen
    BY <1>2 DEF PoolInv, PoolExact, Lending
  <2>2. pPool[key] = s /\ key \notin gone
    BY <1>2, <2>1
  <2> QED BY <1>1, <1>2, <2>2 DEF Unshared
<1>9. Unshared'
  <2> SUFFICES ASSUME NEW k \in PoolKey, NEW l \in PoolKey, k # l, pPool'[k] # PNil
               PROVE  pPool'[k] # pPool'[l]
    BY DEF Unshared
  <2>1. CASE k = key
    BY <1>1, <1>2, <1>3, <1>8, <2>1
  <2>2. CASE l = key
    BY <1>1, <1>2, <1>3, <1>8, <2>2
  <2>3. CASE k # key /\ l # key
    <3>1. pPool'[k] = pPool[k] /\ pPool'[l] \in {PNil, pPool[l]}
      BY <1>3, <2>3
    <3> QED BY <1>1, <3>1 DEF Unshared
  <2> QED BY <2>1, <2>2, <2>3
<1>10. ~\E k \in gone : pPool[k] = s
  BY <1>8
<1>11. PoolExact'
  <2> SUFFICES ASSUME NEW z \in PSess
               PROVE  /\ z \in pOpen' <=> z \in Lending' \/ pDrain'[z] >= 0
                      /\ z \in Lending' => pDrain'[z] = -1
    BY DEF PoolExact
  <2>1. /\ z \in pOpen <=> z \in Lending \/ pDrain[z] >= 0
        /\ z \in Lending => pDrain[z] = -1
        /\ pDrain[z] \in -1 .. 1
    BY <1>1 DEF PoolInv, PoolExact
  <2>2. CASE z = s
    <3>1. z \in Lending' /\ z \in pOpen' /\ pDrain'[z] = pDrain[z]
      BY <1>3, <1>5, <1>6, <1>10, <2>2 DEF Lending
    <3>2. pDrain[z] = -1
      <4>1. CASE pPool[key] = s
        BY <2>1, <2>2, <4>1 DEF Lending
      <4>2. CASE s \notin pOpen
        <5>1. ~(pDrain[z] >= 0)
          BY <2>1, <2>2, <4>2
        <5> QED BY <2>1, <5>1
      <4> QED BY <1>2, <4>1, <4>2
    <3> QED BY <3>1, <3>2
  <2>3. CASE z # s /\ \E k \in gone : pPool[k] = z
    <3>1. PICK k \in gone : pPool[k] = z
      BY <2>3
    <3>2. z \in Lending /\ pDrain'[z] = 0 /\ z \in pOpen'
      BY <1>5, <1>6, <2>1, <3>1 DEF Lending
    <3>3. \A l \in PoolKey : pPool'[l] # z
      BY <1>1, <1>3, <2>3, <3>1 DEF Unshared
    <3> QED BY <3>2, <3>3 DEF Lending
  <2>4. CASE z # s /\ ~\E k \in gone : pPool[k] = z
    <3>1. pPool[key] # z
      BY <1>1, <1>2, <2>4
    <3>2. z \in Lending' <=> z \in Lending
      BY <1>1, <1>3, <2>4, <3>1 DEF Lending
    <3>3. (z \in pOpen' <=> z \in pOpen) /\ pDrain'[z] = pDrain[z]
      BY <1>5, <1>6, <2>4
    <3> QED BY <2>1, <3>2, <3>3
  <2> QED BY <2>2, <2>3, <2>4
<1>12. FreshIsOpen'
  <2> SUFFICES ASSUME NEW q \in PReq, pReq'[q].fresh
               PROVE  /\ pReq'[q].pc # "idle" /\ pReq'[q].sess \in pOpen' /\ pDrain'[pReq'[q].sess] <= 0
    BY DEF FreshIsOpen
  <2>1. CASE q = r
    <3>1. s \in Lending'
      BY <1>2, <1>3 DEF Lending
    <3>2. pDrain'[s] = -1
      BY <1>2, <1>11, <3>1 DEF PoolExact
    <3> QED BY <1>6, <1>7, <2>1, <3>2
  <2>2. CASE q # r
    <3>1. pReq'[q] = pReq[q]
      BY <1>7, <2>2
    <3>2. pReq[q].pc # "idle" /\ pReq[q].sess \in pOpen /\ pDrain[pReq[q].sess] <= 0
      BY <3>1 DEF PoolInv, FreshIsOpen
    <3>3. pReq[q].sess \in PSess
      BY <1>1, <3>2
    <3>4. pDrain'[pReq[q].sess] = 0 \/ pDrain'[pReq[q].sess] = pDrain[pReq[q].sess]
      BY <1>5, <3>3
    <3> QED BY <1>6, <3>1, <3>2, <3>4
  <2> QED BY <2>1, <2>2
<1>13. BusyIsOpen'
  BY <1>6, <1>7 DEF PoolInv, BusyIsOpen
<1>14. PoolTypeOK'
  BY <1>1, <1>2, <1>3, <1>4, <1>5, <1>6, <1>7, <1>9, PoolTypesFollow
<1> QED
  BY <1>11, <1>12, <1>13, <1>14

LEMMA EvictedKeys ==
    ASSUME NEW key \in PoolKey, NEW out \in Evicted(key, IdleProxies)
    PROVE  /\ IdleProxies \subseteq ProxyKey /\ out \subseteq ProxyKey /\ ProxyKey \subseteq PoolKey
           /\ \A k \in IdleProxies \cup out : k[1] # PWarp
<1>1. IdleProxies \subseteq ProxyKey /\ \A k \in IdleProxies : k[1] # PWarp
  BY DEF IdleProxies, Pooled
<1>2. out \subseteq ProxyKey /\ \A k \in out : k[1] # PWarp
  BY DEF Evicted, Pooled
<1> QED
  BY <1>1, <1>2 DEF PoolKey

\* Room is made before a proxy is added: all but WARP can be evicted, and the limit is two at least.
LEMMA LendsFits ==
    ASSUME PoolInv, NEW r \in PReq, NEW key \in PoolKey, NEW out \in Evicted(key, IdleProxies),
           NEW s, Lends(r, key, s, IdleProxies \cup out)
    PROVE  PoolFits'
<1> DEFINE kept == Pooled(ProxyKey) \ IdleProxies
           candidates == {k \in kept : k[1] # PWarp}
<1>1. PLimit \in Nat /\ PLimit >= 2 /\ PoolFits
  BY PoolAssumption DEF PoolInv
<1>2. /\ kept \in SUBSET Pooled(ProxyKey) /\ IsFiniteSet(kept)
      /\ Cardinality(kept) \in Nat /\ Cardinality(kept) <= PLimit
  <2>1. kept \in SUBSET Pooled(ProxyKey) /\ IsFiniteSet(Pooled(ProxyKey))
    BY <1>1 DEF PoolFits
  <2>2. IsFiniteSet(kept) /\ Cardinality(kept) <= Cardinality(Pooled(ProxyKey))
    BY <2>1, FS_Subset
  <2>3. Cardinality(kept) \in Nat /\ Cardinality(Pooled(ProxyKey)) \in Nat
    BY <2>1, <2>2, FS_CardinalityType
  <2>4. Cardinality(Pooled(ProxyKey)) <= PLimit
    BY <1>1 DEF PoolFits
  <2>5. Cardinality(kept) <= PLimit
    BY <1>1, <2>2, <2>3, <2>4
  <2> QED BY <2>1, <2>2, <2>3, <2>5
<1>3. \A k \in ProxyKey : k # key /\ pPool'[k] # PNil => k \in kept \ out
  BY DEF Lends, Pooled, PoolKey
<1>4. CASE key \notin ProxyKey \/ key \in kept
  <2>1. \A k \in ProxyKey : pPool'[k] # PNil => pPool[k] # PNil
    BY <1>3, <1>4 DEF Pooled
  <2> QED BY <1>1, <2>1, FewerPooled
<1>5. CASE key \in ProxyKey /\ key \notin kept
  <2>1. Pooled(ProxyKey)' \in SUBSET ((kept \ out) \cup {key})
    BY <1>3 DEF Pooled
  <2>2. ASSUME NEW few, IsFiniteSet(few), key \notin few, Cardinality(few) + 1 <= PLimit,
               Pooled(ProxyKey)' \in SUBSET (few \cup {key})
        PROVE  PoolFits'
    <3>1. IsFiniteSet(few \cup {key}) /\ Cardinality(few \cup {key}) = Cardinality(few) + 1
      BY <2>2, FS_AddElement
    <3>2. IsFiniteSet(Pooled(ProxyKey)') /\ Cardinality(Pooled(ProxyKey)') <= Cardinality(few \cup {key})
      BY <2>2, <3>1, FS_Subset
    <3>3. /\ Cardinality(few) \in Nat /\ Cardinality(few \cup {key}) \in Nat
          /\ Cardinality(Pooled(ProxyKey)') \in Nat
      BY <2>2, <3>1, <3>2, FS_CardinalityType
    <3>4. Cardinality(Pooled(ProxyKey)') <= PLimit
      BY <1>1, <2>2, <3>1, <3>2, <3>3
    <3> QED BY <3>2, <3>4 DEF PoolFits
  <2>3. CASE Cardinality(kept) < PLimit
    <3>1. Cardinality(kept) + 1 <= PLimit
      BY <1>1, <1>2, <2>3
    <3> QED BY <1>2, <1>5, <2>1, <2>2, <3>1
  <2>4. CASE Cardinality(kept) >= PLimit
    <3>1. candidates # {}
      <4> SUFFICES ASSUME candidates = {} PROVE FALSE
        OBVIOUS
      <4>1. kept \in SUBSET {<<PWarp, PShared>>}
        <5>1. \A k \in kept : k \in ProxyKey /\ k[1] = PWarp
          BY DEF Pooled
        <5>2. \A k \in ProxyKey : k[2] = PShared /\ k = <<k[1], k[2]>>
          BY DEF ProxyKey
        <5>3. \A k \in kept : k = <<PWarp, PShared>>
          BY <5>1, <5>2
        <5> QED BY <5>3
      <4>2. IsFiniteSet({<<PWarp, PShared>>}) /\ Cardinality({<<PWarp, PShared>>}) = 1
        BY FS_Singleton
      <4>3. Cardinality(kept) <= Cardinality({<<PWarp, PShared>>})
        BY <4>1, <4>2, FS_Subset
      <4>4. Cardinality(kept) <= 1 /\ Cardinality(kept) \in Nat
        BY <1>2, <4>2, <4>3
      <4> QED BY <1>1, <2>4, <4>4
    <3>2. PICK c \in kept : out = {c}
      <4>1. out \in {{k} : k \in {c \in candidates : \A d \in candidates : pAge[d] <= pAge[c]}}
        BY <1>5, <2>4, <3>1 DEF Evicted
      <4> QED BY <4>1
    <3>3. IsFiniteSet(kept \ {c}) /\ Cardinality(kept \ {c}) = Cardinality(kept) - 1
      BY <1>2, FS_RemoveElement
    <3>4. Cardinality(kept \ {c}) + 1 <= PLimit
      BY <1>2, <3>3
    <3> QED BY <1>5, <2>1, <2>2, <3>2, <3>3, <3>4
  <2> QED BY <1>1, <1>2, <2>3, <2>4
<1> QED
  BY <1>4, <1>5

LEMMA LookUpKeeps ==
    ASSUME PoolInv, NEW r \in PReq, NEW key \in PoolKey, LookUpSession(r, key) PROVE PoolInv'
<1>1. PICK out \in Evicted(key, IdleProxies) :
        \E s \in Lent(key, IdleProxies \cup out) : Lends(r, key, s, IdleProxies \cup out)
  BY DEF LookUpSession, Lends
<1>2. PICK s \in Lent(key, IdleProxies \cup out) : Lends(r, key, s, IdleProxies \cup out)
  BY <1>1
<1>3. IdleProxies \cup out \in SUBSET PoolKey
  BY EvictedKeys
<1> QED
  BY <1>2, <1>3, LendsKeeps, LendsFits DEF PoolInv

-----------------------------------------------------------------------------
(* The other steps.                                                        *)

LEMMA FetchStartsKeeps ==
    ASSUME PoolInv, NEW r \in PReq, FetchStarts(r) \/ FetchEnds(r) PROVE PoolInv'
<1>1. /\ pReq \in [PReq -> ReqType] /\ PMaxFetch \in Nat
      /\ UNCHANGED <<pPool, pAge, pOpen, pDrain, pDown>>
  BY PoolTypes, PoolAssumption DEF PoolInv, FetchStarts, FetchEnds
<1>2. /\ pReq' \in [PReq -> ReqType] /\ \A q \in PReq \ {r} : pReq'[q] = pReq[q]
      /\ pReq'[r].sess = pReq[r].sess /\ pReq'[r].fresh = pReq[r].fresh
      /\ pReq'[r].pc \in {"busy", "held"} /\ (pReq'[r].pc = "busy" => pReq[r].sess \in pOpen)
  <2>1. CASE FetchStarts(r)
    <3>1. PICK n \in 0 .. PMaxFetch : n = pReq[r].left - 1
      BY <1>1, <2>1 DEF FetchStarts, ReqType
    <3>2. pReq' = [pReq EXCEPT ![r] = [pReq[r] EXCEPT !.pc = "busy", !.left = n]]
      BY <1>1, <2>1, <3>1 DEF FetchStarts
    <3>3. [pReq[r] EXCEPT !.pc = "busy", !.left = n] \in ReqType
      BY <1>1 DEF ReqType
    <3>4. pReq[r].sess \in pOpen
      BY <2>1 DEF FetchStarts
    <3> QED BY <1>1, <3>2, <3>3, <3>4 DEF ReqType
  <2>2. CASE FetchEnds(r)
    BY <1>1, <2>2 DEF FetchEnds, ReqType
  <2> QED BY <2>1, <2>2
<1>3. FreshIsOpen'
  <2>1. pReq[r].pc \in {"busy", "held"}
    BY DEF FetchStarts, FetchEnds
  <2> QED BY <1>1, <1>2, <2>1 DEF PoolInv, FreshIsOpen
<1>4. BusyIsOpen'
  BY <1>1, <1>2 DEF PoolInv, BusyIsOpen
<1>5. PoolTypeOK'
  BY <1>1, <1>2 DEF PoolInv, PoolTypeOK, ReqType
<1>6. PoolExact' /\ PoolFits'
  BY <1>1 DEF PoolInv, PoolExact, PoolFits, Lending, Pooled
<1> QED
  BY <1>3, <1>4, <1>5, <1>6 DEF PoolInv

LEMMA IdleRequest ==
    ASSUME pReq \in [PReq -> ReqType], NEW r \in PReq, pReq' = [pReq EXCEPT ![r] = PIdle]
    PROVE  /\ pReq' \in [PReq -> ReqType]
           /\ \A q \in PReq : pReq'[q] = pReq[q] \/ (~pReq'[q].fresh /\ pReq'[q].pc = "idle")
<1>1. PIdle \in ReqType /\ ~PIdle.fresh /\ PIdle.pc = "idle"
  BY PoolAssumption DEF PIdle, ReqType
<1> QED
  BY <1>1

LEMMA RequestEndsKeeps ==
    ASSUME PoolInv, NEW r \in PReq, RequestEnds(r) PROVE PoolInv'
<1>1. UNCHANGED <<pPool, pAge, pOpen, pDrain, pDown>> /\ pReq \in [PReq -> ReqType]
  BY PoolTypes DEF RequestEnds, PoolInv
<1>2. /\ pReq' \in [PReq -> ReqType]
      /\ \A q \in PReq : pReq'[q] = pReq[q] \/ (~pReq'[q].fresh /\ pReq'[q].pc = "idle")
  BY <1>1, IdleRequest DEF RequestEnds
<1>3. FreshIsOpen' /\ BusyIsOpen'
  BY <1>1, <1>2, RequestsKept, PoolTypes DEF PoolInv
<1>4. PoolTypeOK'
  BY <1>1, <1>2 DEF PoolInv, PoolTypeOK, ReqType
<1>5. PoolExact' /\ PoolFits'
  BY <1>1 DEF PoolInv, PoolExact, PoolFits, Lending, Pooled
<1> QED
  BY <1>3, <1>4, <1>5 DEF PoolInv

LEMMA DetachingKeeps ==
    ASSUME PoolInv, NEW K \in SUBSET PoolKey, Detach(K), UNCHANGED <<pOpen, pDown>>,
           pReq' \in [PReq -> ReqType],
           \A q \in PReq : pReq'[q] = pReq[q] \/ (~pReq'[q].fresh /\ pReq'[q].pc = "idle")
    PROVE  PoolInv'
<1>1. /\ pPool' \in [PoolKey -> PSess \cup {PNil}] /\ pAge' \in [PoolKey -> 0 .. 2]
      /\ pDrain' \in [PSess -> -1 .. 1] /\ Unshared' /\ PoolExact'
      /\ \A s \in PSess : pDrain'[s] = pDrain[s] \/ pDrain'[s] = 0
      /\ PoolFits'
  BY DetachKeeps DEF PoolInv
<1>2. FreshIsOpen' /\ BusyIsOpen'
  BY <1>1, RequestsKept, PoolTypes DEF PoolInv
<1>3. PoolTypeOK'
  BY <1>1, PoolTypes, PoolTypesFollow DEF PoolInv
<1> QED
  BY <1>1, <1>2, <1>3 DEF PoolInv

\* Who holds a session looked it up by a key.
BorrowersHaveKeys == \A r \in PReq : pReq[r].pc # "idle" => pReq[r].key \in PoolKey

LEMMA FetchFailsKeeps ==
    ASSUME PoolInv, BorrowersHaveKeys, NEW r \in PReq, FetchFails(r) PROVE PoolInv'
<1>1. PICK K \in SUBSET PoolKey : Detach(K)
  <2>1. pReq[r].key \in PoolKey
    BY DEF FetchFails, BorrowersHaveKeys
  <2>2. ASSUME NEW proxy, NEW scope PROVE Invalidated(proxy, scope) \in SUBSET PoolKey
    BY DEF Invalidated, PoolKey
  <2>3. ThroughTunnel(r) \in SUBSET PoolKey
    BY DEF ThroughTunnel
  <2> QED
    BY <2>1, <2>2, <2>3 DEF FetchFails
<1>2. /\ pReq' \in [PReq -> ReqType] /\ UNCHANGED <<pOpen, pDown>>
      /\ \A q \in PReq : pReq'[q] = pReq[q] \/ (~pReq'[q].fresh /\ pReq'[q].pc = "idle")
  BY PoolTypes, IdleRequest DEF FetchFails, PoolInv
<1> QED
  BY <1>1, <1>2, DetachingKeeps

LEMMA SweepKeeps ==
    ASSUME PoolInv, SweepSessions PROVE PoolInv'
<1>1. IdleSessions \in SUBSET PoolKey
  BY DEF IdleSessions, IdleProxies, Pooled, PoolKey
<1>2. Detach(IdleSessions) /\ UNCHANGED <<pOpen, pReq, pDown>>
  BY DEF SweepSessions
<1> QED
  BY <1>1, <1>2, DetachingKeeps, PoolTypes DEF PoolInv

LEMMA RecycleKeeps ==
    ASSUME PoolInv, RecycleWarp PROVE PoolInv'
<1>1. OverWarp \in SUBSET PoolKey
  BY DEF OverWarp
<1>2. Detach(OverWarp) /\ UNCHANGED <<pOpen, pReq, pDown>>
  BY DEF RecycleWarp
<1> QED
  BY <1>1, <1>2, DetachingKeeps, PoolTypes DEF PoolInv

\* A session is closed when its drain task has waited and nobody is busy on it.
LEMMA DrainEndsKeeps ==
    ASSUME PoolInv, NEW s \in PSess, DrainEnds(s) PROVE PoolInv'
<1>1. /\ UNCHANGED <<pPool, pAge, pReq, pDown>> /\ pDrain[s] = 1 /\ ~BusyOn(s)
      /\ pOpen' = pOpen \ {s}
  BY DEF DrainEnds
<1>2. /\ pDrain' \in [PSess -> -1 .. 1] /\ pDrain'[s] = -1
      /\ \A z \in PSess \ {s} : pDrain'[z] = pDrain[z]
  BY PoolTypes DEF DrainEnds, PoolInv
<1>3. PoolTypeOK'
  BY <1>1, <1>2 DEF PoolInv, PoolTypeOK
<1>4. PoolExact'
  <2>1. \A z \in PSess : z \in Lending' <=> z \in Lending
    BY <1>1 DEF Lending
  <2>2. s \notin Lending
    BY <1>1 DEF PoolInv, PoolExact
  <2> QED BY <1>1, <1>2, <2>1, <2>2 DEF PoolInv, PoolExact
<1>5. FreshIsOpen'
  <2> SUFFICES ASSUME NEW q \in PReq, pReq[q].fresh
               PROVE  /\ pReq[q].pc # "idle" /\ pReq[q].sess \in pOpen' /\ pDrain'[pReq[q].sess] <= 0
    BY <1>1 DEF FreshIsOpen
  <2>1. /\ pReq[q].pc # "idle" /\ pReq[q].sess \in pOpen /\ pDrain[pReq[q].sess] <= 0
        /\ pReq[q].sess \in PSess
    BY PoolTypes DEF PoolInv, FreshIsOpen
  <2>2. pReq[q].sess # s
    BY <1>1, <2>1
  <2> QED BY <1>1, <1>2, <2>1, <2>2
<1>6. BusyIsOpen' /\ PoolFits'
  BY <1>1 DEF PoolInv, BusyIsOpen, BusyOn, PoolFits, Pooled
<1> QED
  BY <1>3, <1>4, <1>5, <1>6 DEF PoolInv

LEMMA PoolTickKeeps ==
    ASSUME PoolInv, PoolTick PROVE PoolInv'
<1>1. /\ pAge \in [PoolKey -> 0 .. 2] /\ pDrain \in [PSess -> -1 .. 1] /\ pReq \in [PReq -> ReqType]
      /\ UNCHANGED <<pPool, pOpen, pDown>>
  BY PoolTypes DEF PoolInv, PoolTick
<1>2. pAge' \in [PoolKey -> 0 .. 2]
  BY <1>1 DEF PoolTick
<1>3. /\ pDrain' \in [PSess -> -1 .. 1]
      /\ \A s \in PSess : /\ pDrain'[s] >= 0 <=> pDrain[s] >= 0
                          /\ pDrain'[s] = -1 <=> pDrain[s] = -1
  BY <1>1 DEF PoolTick
<1>4. /\ pReq' \in [PReq -> ReqType]
      /\ \A r \in PReq : ~pReq'[r].fresh /\ pReq'[r].pc = pReq[r].pc /\ pReq'[r].sess = pReq[r].sess
  BY <1>1, ZenonT(60) DEF PoolTick, ReqType
<1>5. PoolTypeOK'
  BY <1>1, <1>2, <1>3, <1>4 DEF PoolInv, PoolTypeOK, ReqType
<1>6. PoolExact'
  BY <1>1, <1>3 DEF PoolInv, PoolExact, Lending
<1>7. FreshIsOpen' /\ BusyIsOpen' /\ PoolFits'
  BY <1>1, <1>4 DEF PoolInv, FreshIsOpen, BusyIsOpen, PoolFits, Pooled
<1> QED
  BY <1>5, <1>6, <1>7 DEF PoolInv

LEMMA CleanUpKeeps ==
    ASSUME PoolInv, CleanUp PROVE PoolInv'
<1>1. /\ pPool \in [PoolKey -> PSess \cup {PNil}] /\ pOpen \subseteq PSess
      /\ pDrain \in [PSess -> -1 .. 1] /\ PNil \notin PSess
  BY PoolTypes, PoolAssumption DEF PoolInv
<1>2. /\ \A r \in PReq : ~pReq[r].fresh /\ pReq[r].pc = "idle"
      /\ pReq' = pReq /\ pDown' = TRUE
  BY DEF CleanUp, PIdle
<1>3. /\ \A k \in PoolKey : pPool'[k] = PNil
      /\ pPool' \in [PoolKey -> PSess \cup {PNil}] /\ pAge' \in [PoolKey -> 0 .. 2]
      /\ pDrain' \in [PSess -> -1 .. 1] /\ \A s \in PSess : pDrain'[s] = -1
  BY DEF CleanUp
<1>4. pOpen' = {}
  <2>1. \A s \in pOpen : s \in Lending \/ pDrain[s] >= 0
    BY <1>1 DEF PoolInv, PoolExact
  <2>2. pOpen' = {s \in pOpen : pDrain[s] = -1} \ {pPool[k] : k \in PoolKey}
    BY DEF CleanUp
  <2>3. \A s \in pOpen : pDrain[s] = -1 => s \in {pPool[k] : k \in PoolKey}
    BY <2>1 DEF Lending
  <2> QED BY <2>2, <2>3
<1>5. PoolTypeOK'
  <2>1. pReq' \in [PReq -> ReqType] /\ Unshared'
    BY <1>2, <1>3, PoolTypes DEF PoolInv, Unshared
  <2> QED BY <1>2, <1>3, <1>4, <2>1, PoolTypesFollow
<1>6. PoolExact'
  BY <1>1, <1>3, <1>4 DEF PoolExact, Lending
<1>7. FreshIsOpen' /\ BusyIsOpen'
  BY <1>2 DEF FreshIsOpen, BusyIsOpen
<1>8. PoolFits'
  <2>1. \A k \in ProxyKey : pPool'[k] # PNil => pPool[k] # PNil
    BY <1>3 DEF PoolKey
  <2> QED BY <2>1, FewerPooled DEF PoolInv
<1> QED
  BY <1>5, <1>6, <1>7, <1>8 DEF PoolInv

LEMMA PoolInitial == PoolInit => PoolInv /\ BorrowersHaveKeys
<1> SUFFICES ASSUME PoolInit PROVE PoolInv /\ BorrowersHaveKeys
  OBVIOUS
<1>1. /\ pPool = [k \in PoolKey |-> PNil] /\ PNil \notin PSess /\ pOpen = {}
      /\ pDrain = [s \in PSess |-> -1]
  BY PoolAssumption DEF PoolInit
<1>2. PIdle \in ReqType /\ ~PIdle.fresh /\ PIdle.pc = "idle"
  BY PoolAssumption DEF PIdle, ReqType
<1>3. pReq \in [PReq -> ReqType] /\ \A r \in PReq : ~pReq[r].fresh /\ pReq[r].pc = "idle"
  BY <1>2 DEF PoolInit
<1>4. PoolTypeOK
  <2>1. /\ pPool \in [PoolKey -> PSess \cup {PNil}] /\ pAge \in [PoolKey -> 0 .. 2]
        /\ pOpen \subseteq PSess /\ pDrain \in [PSess -> -1 .. 1] /\ pDown \in BOOLEAN
    <3>0. pAge = [k \in PoolKey |-> 0]
      BY DEF PoolInit
    <3>1. 0 \in 0 .. 2 /\ -1 \in -1 .. 1
      OBVIOUS
    <3>5. pDown = FALSE
      BY DEF PoolInit
    <3>6. pDown \in BOOLEAN /\ pOpen \subseteq PSess
      BY <1>1, <3>5
    <3>2. pPool \in [PoolKey -> PSess \cup {PNil}]
      BY <1>1
    <3>3. pAge \in [PoolKey -> 0 .. 2]
      BY <3>0, <3>1
    <3>4. pDrain \in [PSess -> -1 .. 1]
      BY <1>1, <3>1
    <3> QED BY <3>2, <3>3, <3>4, <3>6
  <2>2. \A k \in PoolKey : pPool[k] = PNil
    BY <1>1
  <2> QED BY <1>3, <2>1, <2>2 DEF PoolTypeOK, ReqType
<1>5. PoolExact
  BY <1>1 DEF PoolExact, Lending
<1>6. FreshIsOpen /\ BusyIsOpen
  BY <1>3 DEF FreshIsOpen, BusyIsOpen
<1>7. PoolFits
  <2>1. Pooled(ProxyKey) = {}
    BY <1>1 DEF Pooled, PoolKey
  <2>2. IsFiniteSet(Pooled(ProxyKey)) /\ Cardinality(Pooled(ProxyKey)) = 0
    BY <2>1, FS_EmptySet
  <2>3. PLimit \in Nat
    BY PoolAssumption
  <2> QED BY <2>2, <2>3 DEF PoolFits
<1> QED
  BY <1>3, <1>4, <1>5, <1>6, <1>7 DEF PoolInv, BorrowersHaveKeys

LEMMA KeyStep == PoolInv /\ BorrowersHaveKeys /\ [PoolNext]_poolVars => BorrowersHaveKeys'
<1> SUFFICES ASSUME PoolInv, BorrowersHaveKeys, [PoolNext]_poolVars PROVE BorrowersHaveKeys'
  OBVIOUS
<1>1. pReq \in [PReq -> ReqType]
  BY PoolTypes DEF PoolInv
<1>2. ASSUME NEW r \in PReq, NEW key \in PoolKey, LookUpSession(r, key) PROVE BorrowersHaveKeys'
  <2>1. \E s : pReq' = [pReq EXCEPT ![r] = [pc |-> "held", key |-> key, sess |-> s,
                                           fresh |-> TRUE, left |-> PMaxFetch]]
    BY <1>2 DEF LookUpSession
  <2> QED BY <1>1, <2>1 DEF BorrowersHaveKeys
<1>3. ASSUME NEW r \in PReq, FetchFails(r) \/ RequestEnds(r) PROVE BorrowersHaveKeys'
  <2>1. pReq' = [pReq EXCEPT ![r] = PIdle]
    BY <1>3 DEF FetchFails, RequestEnds
  <2> QED BY <1>1, <2>1 DEF BorrowersHaveKeys, PIdle
<1>4. ASSUME NEW r \in PReq, FetchStarts(r) \/ FetchEnds(r) PROVE BorrowersHaveKeys'
  <2>1. pReq[r].pc # "idle" /\ pReq'[r].key = pReq[r].key
        /\ \A q \in PReq \ {r} : pReq'[q] = pReq[q]
    BY <1>1, <1>4 DEF FetchStarts, FetchEnds, ReqType
  <2> QED BY <2>1 DEF BorrowersHaveKeys
<1>5. CASE PoolTick
  <2>1. \A r \in PReq : pReq'[r].pc = pReq[r].pc /\ pReq'[r].key = pReq[r].key
    BY <1>1, <1>5, ZenonT(60) DEF PoolTick, ReqType
  <2> QED BY <2>1 DEF BorrowersHaveKeys
<1>6. CASE SweepSessions \/ RecycleWarp \/ CleanUp \/ UNCHANGED poolVars \/ \E s \in PSess : DrainEnds(s)
  BY <1>6 DEF SweepSessions, RecycleWarp, CleanUp, DrainEnds, poolVars, BorrowersHaveKeys
<1> QED
  BY <1>2, <1>3, <1>4, <1>5, <1>6 DEF PoolNext

LEMMA PoolStep == PoolInv /\ BorrowersHaveKeys /\ [PoolNext]_poolVars => PoolInv'
<1> SUFFICES ASSUME PoolInv, BorrowersHaveKeys, [PoolNext]_poolVars PROVE PoolInv'
  OBVIOUS
<1>1. ASSUME NEW r \in PReq, NEW key \in PoolKey, LookUpSession(r, key) PROVE PoolInv'
  BY <1>1, LookUpKeeps
<1>2. ASSUME NEW r \in PReq, FetchStarts(r) \/ FetchEnds(r) \/ FetchFails(r) \/ RequestEnds(r) PROVE PoolInv'
  BY <1>2, FetchStartsKeeps, FetchFailsKeeps, RequestEndsKeeps
<1>3. ASSUME NEW s \in PSess, DrainEnds(s) PROVE PoolInv'
  BY <1>3, DrainEndsKeeps
<1>4. CASE SweepSessions \/ RecycleWarp \/ PoolTick \/ CleanUp
  BY <1>4, SweepKeeps, RecycleKeeps, PoolTickKeeps, CleanUpKeeps
<1>5. CASE UNCHANGED poolVars
  BY <1>5 DEF poolVars, PoolInv, PoolTypeOK, PoolExact, FreshIsOpen, BusyIsOpen, PoolFits, Lending, Pooled
<1> QED
  BY <1>1, <1>2, <1>3, <1>4, <1>5 DEF PoolNext

\* Whatever lookups, failures, sweeps, evictions and drain tasks do between two of a
\* request's steps (_get_proxy_session, _invalidate_proxy_session, retire_session,
\* cleanup): the open sessions are exactly the pooled and the draining ones, a borrower
\* finds its session open, and no more than PLimit proxies are pooled, for any number of
\* requests, proxies, playbacks and sessions.
THEOREM SessionsAreKept == PoolSpec => []SessionsKept
<1> QED
  BY PoolInitial, PoolStep, KeyStep, PoolInvGivesKept, PTL DEF PoolSpec

-----------------------------------------------------------------------------

\* Keys of playbacks and WARP are never made room with.
LEMMA IsolatedStep ==
    ASSUME PoolInv, BorrowersHaveKeys, [PoolNext]_poolVars, ~pDown',
           NEW k \in Pooled(StreamKey) \cup Pooled({<<PWarp, PShared>>}), pPool'[k] # pPool[k]
    PROVE  FailsWith(k) \/ (pAge[k] >= 2 /\ (k[2] = PShared => OnWarp = {}))
<1>1. /\ k \in PoolKey /\ pPool[k] # PNil
      /\ k \in ProxyKey => k = <<PWarp, PShared>>
      /\ k \in StreamKey \/ k = <<PWarp, PShared>>
      /\ k \in StreamKey => k[2] # PShared
      /\ k \notin DirectKey
  BY PoolAssumption DEF Pooled, PoolKey, StreamKey, ProxyKey, DirectKey
<1>2. pPool \in [PoolKey -> PSess \cup {PNil}] /\ pReq \in [PReq -> ReqType]
  BY PoolTypes DEF PoolInv
<1>3. ASSUME NEW r \in PReq, NEW key \in PoolKey, LookUpSession(r, key) PROVE FALSE
  <2>1. PICK out \in Evicted(key, IdleProxies) :
          \E s \in Lent(key, IdleProxies \cup out) : Lends(r, key, s, IdleProxies \cup out)
    BY <1>3 DEF LookUpSession, Lends
  <2>2. PICK s \in Lent(key, IdleProxies \cup out) : Lends(r, key, s, IdleProxies \cup out)
    BY <2>1
  <2>3. k \notin IdleProxies \cup out
    BY <1>1, EvictedKeys
  <2>4. k = key => s = pPool[k]
    BY <1>1, <2>3 DEF Lent
  <2> QED BY <1>1, <2>2, <2>3, <2>4 DEF Lends
<1>4. ASSUME NEW r \in PReq, FetchFails(r) PROVE FailsWith(k)
  <2>1. pReq[r].pc = "busy" /\ pReq'[r].pc = "idle"
    BY <1>2, <1>4 DEF FetchFails, PIdle
  <2> DEFINE key == pReq[r].key
  <2>2. ASSUME Detach(Invalidated(key[1], PShared)) PROVE FailsWith(k)
    <3>1. k \in Invalidated(key[1], PShared)
      BY <1>1, <2>2 DEF Detach
    <3>2. k[1] = key[1] /\ k[2] = PShared
      BY <3>1 DEF Invalidated
    <3> QED BY <1>1, <2>1, <3>2 DEF FailsWith, StreamKey, Pooled
  <2>3. ASSUME key[1] = PWarp, Detach(Invalidated(PWarp, key[2])) PROVE FailsWith(k)
    <3>1. k \in Invalidated(PWarp, key[2])
      BY <1>1, <2>3 DEF Detach
    <3>2. k[1] = key[1] /\ k[2] = key[2]
      BY <2>3, <3>1 DEF Invalidated
    <3>3. CASE k[2] = PShared
      <4>1. k = <<PWarp, PShared>>
        BY <1>1, <3>3 DEF StreamKey
      <4> QED BY <2>1, <2>3, <4>1 DEF FailsWith
    <3>4. CASE k[2] # PShared
      <4>1. key \in PoolKey
        BY <2>1 DEF BorrowersHaveKeys
      <4>2. key = k
        BY <1>1, <3>2, <4>1 DEF PoolKey, ProxyKey, DirectKey, StreamKey
      <4> QED BY <2>1, <4>2 DEF FailsWith
    <3> QED BY <3>3, <3>4
  <2>4. ASSUME Detach({key}) PROVE FailsWith(k)
    BY <1>1, <2>1, <2>4 DEF Detach, FailsWith
  <2>5. ASSUME Detach(ThroughTunnel(r)) PROVE FailsWith(k)
    <3>1. k \in ThroughTunnel(r)
      BY <1>1, <2>5 DEF Detach
    <3> QED BY <2>1, <3>1 DEF ThroughTunnel, FailsWith
  <2> QED BY <1>4, <2>2, <2>3, <2>4, <2>5 DEF FetchFails
<1>5. ASSUME SweepSessions PROVE pAge[k] >= 2 /\ k[2] # PShared
  <2>1. k \in IdleSessions
    BY <1>1, <1>5 DEF SweepSessions, Detach
  <2> QED BY <1>1, <2>1 DEF IdleSessions, IdleProxies, Pooled
<1>8. ASSUME RecycleWarp PROVE pAge[k] >= 2 /\ OnWarp = {}
  <2>1. k \in Pooled(OverWarp)
    BY <1>1, <1>8 DEF RecycleWarp, Detach, Pooled
  <2> QED BY <1>8, <2>1 DEF RecycleWarp
<1>6. ASSUME NEW r \in PReq, FetchStarts(r) \/ FetchEnds(r) \/ RequestEnds(r) PROVE FALSE
  BY <1>6 DEF FetchStarts, FetchEnds, RequestEnds
<1>7. ASSUME PoolTick \/ CleanUp \/ UNCHANGED poolVars \/ \E s \in PSess : DrainEnds(s) PROVE FALSE
  BY <1>7 DEF PoolTick, CleanUp, DrainEnds, poolVars
<1> QED
  BY <1>3, <1>4, <1>5, <1>6, <1>7, <1>8 DEF PoolNext

LEMMA PlaybacksAreIsolated == PoolSpec => PlaybacksIsolated
<1>1. ASSUME PoolInv, BorrowersHaveKeys, [PoolNext]_poolVars
      PROVE  [~pDown' =>
                \A k \in Pooled(StreamKey) \cup Pooled({<<PWarp, PShared>>}) :
                  pPool'[k] # pPool[k] =>
                    FailsWith(k) \/ (pAge[k] >= 2 /\ (k[2] = PShared => OnWarp = {}))]_poolVars
  BY <1>1, IsolatedStep
<1> QED
  BY <1>1, KeyStep, PoolInitial, PoolStep, PTL DEF PoolSpec, PlaybacksIsolated

-----------------------------------------------------------------------------
(* The extractors.                                                         *)

XReqType == [pc : {"idle", "work"}, ext : XExt \cup {XNil}, want : Wanted,
             used : Taken \cup {XNil}, left : 0 .. XMaxFetch]

\* The instance has connections, or someone who may open one.
Alive(e) == xSess[e] # {} \/ Using(e) # {}

\* The pass over the retired list: what it keeps is what it went by.
SweepIsPrefix ==
    /\ xSweep.pc = "closing" => xSweep.i >= 1
    /\ xSweep.pc = "idle" => xSweep = XAsleep
    /\ IsInjective(xSweep.still)
    /\ ToSet(xSweep.still) \subseteq {xRetired[j] : j \in 1 .. xSweep.i}

\* What the pass went by and does not keep was closed.
PassedAreClosed ==
    \A j \in 1 .. xSweep.i : Alive(xRetired[j]) =>
        xRetired[j] \in ToSet(xSweep.still) \cup xOutlived

AliveIsKnown ==
    \A e \in XExt : Alive(e) => Cached(e) \/ e \in ToSet(xRetired) \/ e \in xOutlived

WorkersHaveOne == \A r \in XReq : xReq[r].pc = "work" => xReq[r].ext \in XExt

RoutedAsWanted ==
    \A r \in XReq \ xMixed : xReq[r].pc = "work" =>
        /\ xForced[xReq[r].ext] = xReq[r].want
        /\ xReq[r].want = "auto" => xList[xReq[r].ext] = "config"

ExtInv == /\ ExtractorTypeOK /\ SweepIsPrefix /\ PassedAreClosed /\ AliveIsKnown
          /\ WorkersHaveOne /\ RoutedAsWanted /\ RoutedAlone

LEMMA ExtInvGivesServe == ExtInv => ExtractorsServe
BY DEF ExtInv, ExtractorsServe, ExtractorsReachable, AliveIsKnown, Alive

LEMMA ExtInitial == ExtractorInit => ExtInv
<1> SUFFICES ASSUME ExtractorInit PROVE ExtInv
  OBVIOUS
<1>1. XIdle \in XReqType /\ XIdle.pc = "idle" /\ XIdle.used = XNil
  BY ExtractorAssumption DEF XIdle, XReqType, Wanted
<1>2. xReq \in [XReq -> XReqType] /\ \A r \in XReq : xReq[r].pc = "idle" /\ xReq[r].used = XNil
  BY <1>1 DEF ExtractorInit
<1>3. /\ xRetired = <<>> /\ xRetired \in Seq(XExt) /\ Len(xRetired) = 0 /\ DOMAIN xRetired = {}
      /\ IsInjective(xRetired) /\ ToSet(xRetired) = {}
  BY DEF ExtractorInit, IsInjective, ToSet
<1>4. xSweep = XAsleep /\ xSweep.pc = "idle" /\ xSweep.i = 0 /\ xSweep.still = xRetired
  BY <1>3 DEF ExtractorInit, XAsleep
<1>5. ExtractorTypeOK
  <2>1. /\ xCache = [k \in XKey |-> XNil] /\ xAge = [e \in XExt |-> -1]
        /\ xForced = [e \in XExt |-> "auto"] /\ xList = [e \in XExt |-> "config"]
        /\ xSess = [e \in XExt |-> {}]
    BY DEF ExtractorInit
  <2>2. -1 \in -1 .. 2 /\ "auto" \in Wanted /\ "config" \in Taken /\ {} \in SUBSET Taken
    BY DEF Wanted, Taken
  <2>3. xCache \in [XKey -> XExt \cup {XNil}] /\ \A k \in XKey : xCache[k] = XNil
    BY <2>1
  <2>4. xAge \in [XExt -> -1 .. 2] /\ xForced \in [XExt -> Wanted]
    BY <2>1, <2>2
  <2>5. xList \in [XExt -> Taken] /\ xSess \in [XExt -> SUBSET Taken]
    BY <2>1, <2>2
  <2>6. xAdmin \in 0 .. XMaxAdmin /\ xDown = FALSE /\ xMixed \subseteq XReq /\ xOutlived \subseteq XExt
    BY ExtractorAssumption DEF ExtractorInit
  <2>7. xSweep.i \in 0 .. Len(xRetired) /\ xSweep.still \in Seq(XExt)
    BY <1>3, <1>4
  <2> QED BY <1>2, <1>3, <1>4, <2>3, <2>4, <2>5, <2>6, <2>7 DEF ExtractorTypeOK, XReqType
<1>6. SweepIsPrefix /\ PassedAreClosed
  BY <1>3, <1>4 DEF SweepIsPrefix, PassedAreClosed
<1>7. AliveIsKnown
  <2>1. \A e \in XExt : xSess[e] = {} /\ Using(e) = {}
    BY <1>2 DEF ExtractorInit, Using
  <2> QED BY <2>1 DEF AliveIsKnown, Alive
<1>8. WorkersHaveOne /\ RoutedAsWanted /\ RoutedAlone
  BY <1>2 DEF WorkersHaveOne, RoutedAsWanted, RoutedAlone
<1> QED
  BY <1>5, <1>6, <1>7, <1>8 DEF ExtInv

LEMMA ExtTypes ==
    ASSUME ExtractorTypeOK
    PROVE  /\ xCache \in [XKey -> XExt \cup {XNil}] /\ xRetired \in Seq(XExt)
           /\ xAge \in [XExt -> -1 .. 2] /\ xForced \in [XExt -> Wanted]
           /\ xList \in [XExt -> Taken] /\ xSess \in [XExt -> SUBSET Taken]
           /\ xReq \in [XReq -> XReqType]
           /\ xSweep.pc \in {"idle", "closing"} /\ xSweep.still \in Seq(XExt)
           /\ xSweep.i \in 0 .. Len(xRetired)
           /\ IsInjective(xRetired)
           /\ Len(xRetired) \in Nat /\ DOMAIN xRetired = 1 .. Len(xRetired)
           /\ \A j \in 1 .. Len(xRetired) : xRetired[j] \in XExt
           /\ \A j \in 1 .. Len(xRetired) : xRetired[j] \in ToSet(xRetired)
           /\ \A k, l \in XKey : xCache[k] # XNil =>
                xCache[k] \notin ToSet(xRetired) /\ (k # l => xCache[k] # xCache[l])
<1>1. xRetired \in Seq(XExt)
  BY DEF ExtractorTypeOK
<1>2. /\ Len(xRetired) \in Nat /\ DOMAIN xRetired = 1 .. Len(xRetired)
      /\ \A j \in 1 .. Len(xRetired) : xRetired[j] \in XExt
  BY <1>1, LenProperties, ElementOfSeq
<1>3. \A j \in 1 .. Len(xRetired) : xRetired[j] \in ToSet(xRetired)
  BY <1>2 DEF ToSet
<1> QED
  BY <1>2, <1>3 DEF ExtractorTypeOK, XReqType

-----------------------------------------------------------------------------
(* What the requests do.                                                   *)

\* Nothing about the retired list, its pass and the caches moves.
ListsStay == UNCHANGED <<xCache, xRetired, xAge, xSweep, xAdmin, xDown, xOutlived>>

\* A step that makes no instance alive that was not known keeps what is known of them.
LEMMA KnownStays ==
    ASSUME ExtInv, ListsStay, \A e \in XExt : Alive(e)' => Alive(e)
    PROVE  SweepIsPrefix' /\ PassedAreClosed' /\ AliveIsKnown'
<1>1. SweepIsPrefix'
  BY DEF ExtInv, SweepIsPrefix, ListsStay
<1>2. PassedAreClosed'
  <2>1. /\ xSweep' = xSweep /\ xRetired' = xRetired /\ xOutlived' = xOutlived
    BY DEF ListsStay
  <2>2. \A j \in 1 .. xSweep.i : xRetired[j] \in XExt
    BY ExtTypes DEF ExtInv
  <2>3. ASSUME NEW j \in 1 .. xSweep.i, Alive(xRetired[j])' PROVE xRetired[j] \in ToSet(xSweep.still) \cup xOutlived
    <3>1. Alive(xRetired[j])
      BY <2>1, <2>2, <2>3 DEF Alive, Using
    <3> QED BY <3>1 DEF ExtInv, PassedAreClosed
  <2> QED BY <2>1, <2>3 DEF PassedAreClosed
<1>3. AliveIsKnown'
  BY DEF ExtInv, AliveIsKnown, ListsStay, Cached
<1> QED BY <1>1, <1>2, <1>3

LEMMA ExtractEndsKeeps == ASSUME ExtInv, NEW r \in XReq, ExtractEnds(r) PROVE ExtInv'
<1>1. XIdle \in XReqType /\ XIdle.pc = "idle" /\ XIdle.used = XNil
  BY ExtractorAssumption DEF XIdle, XReqType, Wanted
<1>2. xReq \in [XReq -> XReqType] /\ xMixed \subseteq XReq
  BY ExtTypes DEF ExtInv, ExtractorTypeOK
<1>3. /\ xReq' \in [XReq -> XReqType] /\ xReq'[r] = XIdle /\ \A q \in XReq \ {r} : xReq'[q] = xReq[q]
      /\ xMixed' \subseteq XReq /\ xMixed \subseteq xMixed' \cup {r}
  BY <1>1, <1>2 DEF ExtractEnds
<1>4. ListsStay /\ xForced' = xForced /\ xList' = xList /\ xSess' = xSess
  BY DEF ExtractEnds, ListsStay
<1>5. ExtractorTypeOK'
  BY <1>3, <1>4 DEF ExtInv, ExtractorTypeOK, ListsStay, XReqType
<1>6. \A e \in XExt : Alive(e)' => Alive(e)
  <2>1. \A e \in XExt : Using(e)' \subseteq Using(e)
    BY <1>1, <1>3 DEF Using
  <2> QED BY <1>4, <2>1 DEF Alive
<1>7. SweepIsPrefix' /\ PassedAreClosed' /\ AliveIsKnown'
  BY <1>4, <1>6, KnownStays
<1>8. WorkersHaveOne' /\ RoutedAsWanted' /\ RoutedAlone'
  <2>1. ASSUME NEW q \in XReq PROVE xReq'[q].pc = "work" => xReq'[q].ext \in XExt
    BY <1>1, <1>3 DEF ExtInv, WorkersHaveOne
  <2>2. ASSUME NEW q \in XReq \ xMixed', xReq'[q].pc = "work"
        PROVE  /\ xForced'[xReq'[q].ext] = xReq'[q].want
               /\ xReq'[q].want = "auto" => xList'[xReq'[q].ext] = "config"
    <3>1. q # r /\ q \in XReq \ xMixed
      BY <1>1, <1>3, <2>2
    <3> QED BY <1>3, <1>4, <2>2, <3>1 DEF ExtInv, RoutedAsWanted
  <2>3. ASSUME NEW q \in XReq \ xMixed' PROVE xReq'[q].used \in {XNil, Route(xReq'[q].want)}
    BY <1>1, <1>3 DEF ExtInv, RoutedAlone
  <2> QED BY <2>1, <2>2, <2>3 DEF WorkersHaveOne, RoutedAsWanted, RoutedAlone, Route
<1> QED
  BY <1>5, <1>7, <1>8 DEF ExtInv

LEMMA MakeRequestKeeps == ASSUME ExtInv, NEW r \in XReq, MakeRequest(r) PROVE ExtInv'
<1> DEFINE route == ResolveProxy(r)
<1>1. /\ xReq \in [XReq -> XReqType] /\ xSess \in [XExt -> SUBSET Taken]
      /\ xForced \in [XExt -> Wanted] /\ xList \in [XExt -> Taken]
  BY ExtTypes DEF ExtInv
<1>2. /\ xReq[r].pc = "work" /\ xReq[r].ext \in XExt /\ xReq[r].left > 0
      /\ xSess' = [xSess EXCEPT ![xReq[r].ext] = @ \cup {route}]
      /\ xReq' = [xReq EXCEPT ![r].used = route, ![r].left = @ - 1]
  BY DEF MakeRequest, ExtInv, WorkersHaveOne
<1>3. route \in Taken
  BY <1>1, <1>2 DEF ResolveProxy, Wanted, Taken, XReqType
<1>4. r \notin xMixed => route = Route(xReq[r].want)
  BY <1>2 DEF ExtInv, RoutedAsWanted, ResolveProxy, Route
<1> HIDE DEF route
<1>5. \A q \in XReq : /\ xReq'[q].pc = xReq[q].pc /\ xReq'[q].ext = xReq[q].ext /\ xReq'[q].want = xReq[q].want
                      /\ xReq'[q].used = IF q = r THEN route ELSE xReq[q].used
  BY <1>1, <1>2 DEF XReqType
<1>6. xReq' \in [XReq -> XReqType]
  <2>1. xReq[r].left - 1 \in 0 .. XMaxFetch
    <3>1. xReq[r].left \in 0 .. XMaxFetch
      BY <1>1 DEF XReqType
    <3>2. xReq[r].left > 0 /\ XMaxFetch \in Nat
      BY ExtractorAssumption DEF MakeRequest
    <3> QED BY <3>1, <3>2
  <2> QED BY <1>1, <1>2, <1>3, <2>1 DEF XReqType
<1>7. xSess' \in [XExt -> SUBSET Taken] /\ \A e \in XExt : e # xReq[r].ext => xSess'[e] = xSess[e]
  BY <1>1, <1>2, <1>3
<1>8. ListsStay /\ xForced' = xForced /\ xList' = xList /\ xMixed' = xMixed
  BY DEF MakeRequest, ListsStay
<1>9. ExtractorTypeOK'
  BY <1>6, <1>7, <1>8 DEF ExtInv, ExtractorTypeOK, ListsStay, XReqType
<1>10. \A e \in XExt : Alive(e)' => Alive(e)
  <2>1. \A e \in XExt : Using(e)' = Using(e)
    BY <1>5 DEF Using
  <2>2. r \in Using(xReq[r].ext)
    BY <1>2 DEF Using
  <2> QED BY <1>7, <2>1, <2>2 DEF Alive
<1>11. SweepIsPrefix' /\ PassedAreClosed' /\ AliveIsKnown'
  BY <1>8, <1>10, KnownStays
<1>12. WorkersHaveOne'
  BY <1>5 DEF ExtInv, WorkersHaveOne
<1>13. RoutedAsWanted'
  BY <1>5, <1>8 DEF ExtInv, RoutedAsWanted
<1>14. RoutedAlone'
  BY <1>4, <1>5, <1>8 DEF ExtInv, RoutedAlone, Route
<1> QED
  BY <1>9, <1>11, <1>12, <1>13, <1>14 DEF ExtInv

\* The request r was given the instance e of key k.
Takes(r, k, want, e) ==
    /\ e \in KeptOrNew(k)
    /\ xCache' = [xCache EXCEPT ![k] = e]
    /\ xList' = IF xCache[k] = XNil THEN [xList EXCEPT ![e] = Route(want)] ELSE xList
    /\ xOutlived' = IF xCache[k] = XNil THEN xOutlived \ {e} ELSE xOutlived
    /\ xForced' = [xForced EXCEPT ![e] = Applied(e, want)]
    /\ xReq' = [xReq EXCEPT ![r] = [pc |-> "work", ext |-> e, want |-> want,
                                    used |-> XNil, left |-> XMaxFetch]]
    /\ xMixed' = LET others == {q \in Using(e) : xReq[q].want # want}
                     frozen == want = "auto" /\ xList'[e] # "config"
                 IN  xMixed \cup others \cup (IF frozen \/ others # {} THEN {r} ELSE {})

LEMMA ResolveKeeps ==
    ASSUME ExtInv, NEW r \in XReq, NEW k \in XKey, NEW want \in Wanted, ResolveExtractor(r, k, want)
    PROVE  ExtInv'
<1>1. PICK e \in KeptOrNew(k) : Takes(r, k, want, e)
  BY DEF ResolveExtractor, Takes
<1>2. /\ xReq[r].pc = "idle" /\ xRetired' = xRetired /\ xAge' = xAge /\ xSess' = xSess
      /\ xSweep' = xSweep /\ xAdmin' = xAdmin /\ xDown' = xDown
  BY DEF ResolveExtractor
<1>3. /\ xCache \in [XKey -> XExt \cup {XNil}] /\ xReq \in [XReq -> XReqType]
      /\ xForced \in [XExt -> Wanted] /\ xList \in [XExt -> Taken]
      /\ xMixed \subseteq XReq /\ xOutlived \subseteq XExt
  BY ExtTypes DEF ExtInv, ExtractorTypeOK
<1>4. /\ e \in XExt /\ e # XNil /\ e \notin ToSet(xRetired)
      /\ \A l \in XKey \ {k} : xCache[l] # e
      /\ xCache[k] # XNil => e = xCache[k]
      /\ xCache[k] = XNil => Using(e) = {} /\ xSess[e] = {} /\ ~Cached(e)
  <2>1. \A l \in XKey : xCache[k] # XNil =>
              xCache[k] \notin ToSet(xRetired) /\ (k # l => xCache[k] # xCache[l])
    BY ExtTypes DEF ExtInv
  <2>2. CASE xCache[k] # XNil
    BY <1>3, <2>1, <2>2, ExtractorAssumption DEF KeptOrNew
  <2>3. CASE xCache[k] = XNil
    <3>1. e \in XExt /\ Dropped(e) /\ xSess[e] = {}
      BY <2>3 DEF KeptOrNew
    <3> QED BY <2>3, <3>1, ExtractorAssumption DEF Dropped, Cached
  <2> QED BY <2>2, <2>3
<1>5. /\ xCache' \in [XKey -> XExt \cup {XNil}] /\ xCache'[k] = e
      /\ \A l \in XKey \ {k} : xCache'[l] = xCache[l]
  BY <1>1, <1>3, <1>4 DEF Takes
<1>6. /\ xForced' \in [XExt -> Wanted] /\ xForced'[e] = want
      /\ \A f \in XExt \ {e} : xForced'[f] = xForced[f]
  BY <1>1, <1>3, <1>4 DEF Takes, Applied
<1>7. /\ xList' \in [XExt -> Taken] /\ \A f \in XExt \ {e} : xList'[f] = xList[f]
      /\ xCache[k] # XNil => xList' = xList
  <2>1. Route(want) \in Taken
    BY DEF Route, Wanted, Taken
  <2> QED BY <1>1, <1>3, <1>4, <2>1 DEF Takes
<1>8. /\ xOutlived' \subseteq XExt /\ xOutlived \subseteq xOutlived' \cup {e}
      /\ xOutlived' \subseteq xOutlived
  BY <1>1, <1>3 DEF Takes
<1>9. /\ xReq' \in [XReq -> XReqType] /\ \A q \in XReq \ {r} : xReq'[q] = xReq[q]
      /\ xReq'[r].pc = "work" /\ xReq'[r].ext = e /\ xReq'[r].want = want /\ xReq'[r].used = XNil
  <2>1. [pc |-> "work", ext |-> e, want |-> want, used |-> XNil, left |-> XMaxFetch] \in XReqType
    <3>1. XMaxFetch \in 0 .. XMaxFetch
      BY ExtractorAssumption
    <3> QED BY <1>4, <3>1 DEF XReqType
  <2> QED BY <1>1, <1>3, <2>1 DEF Takes
<1>10. /\ xMixed \subseteq xMixed' /\ xMixed' \subseteq XReq
       /\ \A q \in Using(e) : xReq[q].want # want => q \in xMixed' /\ r \in xMixed'
       /\ want = "auto" /\ xList'[e] # "config" => r \in xMixed'
  <2>1. \A q \in Using(e) : q \in XReq
    BY DEF Using
  <2> QED BY <1>1, <1>3, <2>1 DEF Takes
<1>11. ExtractorTypeOK'
  <2>1. \A l, m \in XKey : xCache'[l] # XNil =>
           xCache'[l] \notin ToSet(xRetired) /\ (l # m => xCache'[l] # xCache'[m])
    <3>1. \A l, m \in XKey : xCache[l] # XNil =>
              xCache[l] \notin ToSet(xRetired) /\ (l # m => xCache[l] # xCache[m])
      BY ExtTypes DEF ExtInv
    <3>2. SUFFICES ASSUME NEW l \in XKey, NEW m \in XKey, xCache'[l] # XNil
                   PROVE  xCache'[l] \notin ToSet(xRetired) /\ (l # m => xCache'[l] # xCache'[m])
      OBVIOUS
    <3> QED BY <1>4, <1>5, <3>1, <3>2
  <2> QED BY <1>2, <1>5, <1>6, <1>7, <1>8, <1>9, <1>10, <2>1 DEF ExtInv, ExtractorTypeOK, XReqType
<1>12. \A f \in XExt \ {e} : Alive(f)' => Alive(f)
  <2>1. \A f \in XExt \ {e} : Using(f)' \subseteq Using(f)
    BY <1>9 DEF Using
  <2> QED BY <1>2, <2>1 DEF Alive
<1>13. SweepIsPrefix'
  BY <1>2 DEF ExtInv, SweepIsPrefix
<1>14. PassedAreClosed'
  <2>1. /\ xSweep.i \in 0 .. Len(xRetired) /\ Len(xRetired) \in Nat
        /\ \A j \in 1 .. Len(xRetired) : xRetired[j] \in XExt /\ xRetired[j] \in ToSet(xRetired)
    BY ExtTypes DEF ExtInv
  <2>2. ASSUME NEW j \in 1 .. xSweep.i, Alive(xRetired[j])'
        PROVE  xRetired[j] \in ToSet(xSweep.still) \cup xOutlived'
    <3>1. j \in 1 .. Len(xRetired)
      BY <2>1
    <3>2. xRetired[j] \in XExt /\ xRetired[j] # e
      BY <1>4, <2>1, <3>1
    <3>3. Alive(xRetired[j])
      BY <1>2, <1>12, <2>2, <3>2 DEF Alive, Using
    <3> QED BY <1>8, <3>2, <3>3 DEF ExtInv, PassedAreClosed
  <2> QED BY <1>2, <2>2 DEF PassedAreClosed
<1>15. AliveIsKnown'
  <2>1. ASSUME NEW f \in XExt, Alive(f)', f # e
        PROVE  Cached(f)' \/ f \in ToSet(xRetired) \/ f \in xOutlived'
    <3>1. Cached(f) \/ f \in ToSet(xRetired) \/ f \in xOutlived
      BY <1>12, <2>1 DEF ExtInv, AliveIsKnown
    <3>2. Cached(f) => Cached(f)'
      <4>1. ASSUME NEW l \in XKey, xCache[l] = f PROVE l # k
        BY <1>3, <1>4, <2>1, <4>1, ExtractorAssumption
      <4> QED BY <1>5, <4>1 DEF Cached
    <3> QED BY <1>8, <2>1, <3>1, <3>2
  <2>2. Cached(e)'
    BY <1>5 DEF Cached
  <2> QED BY <1>2, <2>1, <2>2 DEF AliveIsKnown
<1>16. WorkersHaveOne'
  BY <1>4, <1>9 DEF ExtInv, WorkersHaveOne
<1>17. RoutedAsWanted'
  <2> SUFFICES ASSUME NEW q \in XReq \ xMixed', xReq'[q].pc = "work"
               PROVE  /\ xForced'[xReq'[q].ext] = xReq'[q].want
                      /\ xReq'[q].want = "auto" => xList'[xReq'[q].ext] = "config"
    BY DEF RoutedAsWanted
  <2>1. CASE q = r
    BY <1>6, <1>9, <1>10, <2>1
  <2>2. CASE q # r
    <3>1. /\ q \in XReq \ xMixed /\ xReq'[q] = xReq[q] /\ xReq[q].pc = "work"
          /\ xReq[q].ext \in XExt
      BY <1>9, <1>10, <2>2 DEF ExtInv, WorkersHaveOne
    <3>2. /\ xForced[xReq[q].ext] = xReq[q].want
          /\ xReq[q].want = "auto" => xList[xReq[q].ext] = "config"
      BY <3>1 DEF ExtInv, RoutedAsWanted
    <3>3. CASE xReq[q].ext # e
      BY <1>6, <1>7, <3>1, <3>2, <3>3
    <3>4. CASE xReq[q].ext = e
      <4>1. q \in Using(e)
        BY <3>1, <3>4 DEF Using
      <4>2. xReq[q].want = want /\ xCache[k] # XNil
        BY <1>4, <1>10, <4>1
      <4> QED BY <1>6, <1>7, <3>1, <3>2, <3>4, <4>2
    <3> QED BY <3>3, <3>4
  <2> QED BY <2>1, <2>2
<1>18. RoutedAlone'
  BY <1>9, <1>10 DEF ExtInv, RoutedAlone, Route
<1> QED
  BY <1>11, <1>13, <1>14, <1>15, <1>16, <1>17, <1>18 DEF ExtInv

-----------------------------------------------------------------------------
(* Retirement, the clock and shutdown.                                     *)

LEMMA InvalidateKeeps == ASSUME ExtInv, InvalidateExtractors PROVE ExtInv'
<1> DEFINE cached == {xCache[k] : k \in XKey} \ {XNil}
           more == SetToSeq(cached)
<1>1. /\ xRetired' = xRetired \o more /\ xCache' = [k \in XKey |-> XNil]
      /\ xAdmin < XMaxAdmin /\ xAdmin' = xAdmin + 1
      /\ xAge' = xAge /\ xForced' = xForced /\ xList' = xList /\ xSess' = xSess /\ xReq' = xReq
      /\ xSweep' = xSweep /\ xDown' = xDown /\ xMixed' = xMixed /\ xOutlived' = xOutlived
  BY DEF InvalidateExtractors
<1>2. xCache \in [XKey -> XExt \cup {XNil}] /\ xRetired \in Seq(XExt) /\ IsInjective(xRetired)
  BY ExtTypes DEF ExtInv
<1>3. cached \in SUBSET XExt /\ IsFiniteSet(cached)
  <2>1. cached \in SUBSET XExt
    BY <1>2
  <2> DEFINE kept == {k \in XKey : xCache[k] # XNil}
             h == [k \in kept |-> xCache[k]]
  <2>2. IsFiniteSet(kept)
    BY ExtractorAssumption, FS_Subset
  <2>3. h \in Surjection(kept, cached)
    BY DEF Surjection
  <2> QED BY <2>1, <2>2, <2>3, FS_Surjection
<1>4. more \in Seq(XExt) /\ IsInjective(more) /\ ToSet(more) = cached
  BY <1>3, ListOfSet
<1>5. ToSet(xRetired) \cap ToSet(more) = {}
  <2>1. \A k \in XKey : xCache[k] # XNil => xCache[k] \notin ToSet(xRetired)
    BY ExtTypes DEF ExtInv
  <2> QED BY <1>4, <2>1
<1> HIDE DEF more
<1>6. /\ xRetired' \in Seq(XExt) /\ IsInjective(xRetired') /\ ToSet(xRetired') = ToSet(xRetired) \cup cached
      /\ Len(xRetired) <= Len(xRetired') /\ \A j \in 1 .. Len(xRetired) : xRetired'[j] = xRetired[j]
  <2>1. /\ xRetired \o more \in Seq(XExt) /\ IsInjective(xRetired \o more)
        /\ ToSet(xRetired \o more) = ToSet(xRetired) \cup ToSet(more)
        /\ Len(xRetired) <= Len(xRetired \o more)
        /\ \A j \in 1 .. Len(xRetired) : (xRetired \o more)[j] = xRetired[j]
    BY <1>2, <1>4, <1>5, ListsJoined
  <2> QED BY <1>1, <1>4, <2>1
<1>7. \A k \in XKey : xCache'[k] = XNil
  BY <1>1
<1>8. Len(xRetired) \in Nat /\ Len(xRetired') \in Nat /\ xSweep.i \in 0 .. Len(xRetired)
  <2>1. Len(xRetired') \in Nat
    BY <1>6, LenProperties
  <2> QED BY <2>1, ExtTypes DEF ExtInv
<1>9. ExtractorTypeOK'
  <2>1. xAdmin' \in 0 .. XMaxAdmin
    <3>1. xAdmin \in 0 .. XMaxAdmin /\ XMaxAdmin \in Nat /\ xAdmin < XMaxAdmin /\ xAdmin' = xAdmin + 1
      BY ExtractorAssumption DEF ExtInv, ExtractorTypeOK, InvalidateExtractors
    <3> QED BY <3>1
  <2>2. xSweep'.i \in 0 .. Len(xRetired')
    BY <1>1, <1>6, <1>8
  <2>3. xCache' \in [XKey -> XExt \cup {XNil}]
    BY <1>1
  <2>4. /\ xAge' \in [XExt -> -1 .. 2] /\ xForced' \in [XExt -> Wanted]
        /\ xList' \in [XExt -> Taken] /\ xSess' \in [XExt -> SUBSET Taken]
        /\ xReq' \in [XReq -> XReqType] /\ xDown' \in BOOLEAN
        /\ xSweep'.pc \in {"idle", "closing"} /\ xSweep'.still \in Seq(XExt)
        /\ xMixed' \subseteq XReq /\ xOutlived' \subseteq XExt
    BY <1>1, ExtTypes DEF ExtInv, ExtractorTypeOK
  <2> QED BY <1>6, <1>7, <2>1, <2>2, <2>3, <2>4 DEF ExtractorTypeOK, XReqType
<1>10. \A j \in 1 .. xSweep.i : xRetired'[j] = xRetired[j] /\ xRetired[j] \in XExt
  BY <1>6, <1>8, ExtTypes DEF ExtInv
<1>11. \A e \in XExt : Alive(e)' <=> Alive(e)
  BY <1>1 DEF Alive, Using
<1>12. SweepIsPrefix'
  BY <1>1, <1>10 DEF ExtInv, SweepIsPrefix
<1>13. PassedAreClosed'
  <2>1. xSweep' = xSweep /\ xOutlived' = xOutlived
    BY <1>1
  <2>2. ASSUME NEW j \in 1 .. xSweep.i, NEW e \in XExt, e = xRetired'[j], Alive(e)'
        PROVE  e \in ToSet(xSweep.still) \cup xOutlived
    <3>1. Alive(xRetired[j]) /\ e = xRetired[j]
      BY <1>10, <1>11, <2>2
    <3> QED BY <3>1 DEF ExtInv, PassedAreClosed
  <2>3. \A j \in 1 .. xSweep.i : xRetired'[j] \in XExt
    BY <1>10
  <2> QED BY <2>1, <2>2, <2>3 DEF PassedAreClosed, Alive, Using
<1>14. AliveIsKnown'
  <2>1. ASSUME NEW e \in XExt, Alive(e)' PROVE e \in ToSet(xRetired') \/ e \in xOutlived'
    <3>1. Cached(e) \/ e \in ToSet(xRetired) \/ e \in xOutlived
      BY <1>11, <2>1 DEF ExtInv, AliveIsKnown
    <3>2. Cached(e) => e \in cached
      BY <2>1, ExtractorAssumption DEF Cached
    <3> QED BY <1>1, <1>6, <3>1, <3>2
  <2> QED BY <2>1 DEF AliveIsKnown
<1>15. WorkersHaveOne' /\ RoutedAsWanted' /\ RoutedAlone'
  BY <1>1 DEF ExtInv, WorkersHaveOne, RoutedAsWanted, RoutedAlone, Route
<1> QED
  BY <1>9, <1>12, <1>13, <1>14, <1>15 DEF ExtInv

LEMMA ExtractorTickKeeps == ASSUME ExtInv, ExtractorTick PROVE ExtInv'
<1>1. xAge \in [XExt -> -1 .. 2]
  BY ExtTypes DEF ExtInv
<1>2. xAge' \in [XExt -> -1 .. 2]
  BY <1>1 DEF ExtractorTick
<1>3. /\ xCache' = xCache /\ xRetired' = xRetired /\ xForced' = xForced /\ xList' = xList
      /\ xSess' = xSess /\ xReq' = xReq /\ xSweep' = xSweep /\ xAdmin' = xAdmin /\ xDown' = xDown
      /\ xMixed' = xMixed /\ xOutlived' = xOutlived
  BY DEF ExtractorTick
<1>4. ExtractorTypeOK'
  BY <1>2, <1>3 DEF ExtInv, ExtractorTypeOK
<1> QED
  BY <1>3, <1>4 DEF ExtInv, SweepIsPrefix, PassedAreClosed, AliveIsKnown, WorkersHaveOne,
     RoutedAsWanted, RoutedAlone, Alive, Using, Cached, Route

LEMMA CloseKeeps == ASSUME ExtInv, CloseExtractors PROVE ExtInv'
<1>1. /\ \A r \in XReq : xReq[r].pc = "idle"
      /\ xRetired' = <<>> /\ xSweep' = XAsleep /\ xDown' = TRUE
      /\ xForced' = xForced /\ xList' = xList /\ xReq' = xReq /\ xAdmin' = xAdmin
      /\ xMixed' = xMixed /\ xOutlived' = xOutlived
  BY DEF CloseExtractors
<1>2. /\ xRetired' \in Seq(XExt) /\ Len(xRetired') = 0 /\ IsInjective(xRetired') /\ ToSet(xRetired') = {}
  BY <1>1 DEF IsInjective, ToSet
<1>3. /\ xSweep'.pc = "idle" /\ xSweep'.i = 0 /\ xSweep'.still = <<>>
  BY <1>1 DEF XAsleep
<1>4. /\ xCache' \in [XKey -> XExt \cup {XNil}] /\ \A k \in XKey : xCache'[k] = XNil
  BY DEF CloseExtractors
<1>5. xAge' \in [XExt -> -1 .. 2]
  <2>1. -1 \in -1 .. 2 /\ xAge' = [e \in XExt |-> -1]
    BY DEF CloseExtractors
  <2> QED BY <2>1
<1>6. /\ xSess' \in [XExt -> SUBSET Taken]
      /\ \A e \in XExt : xSess'[e] = IF Cached(e) \/ e \in ToSet(xRetired) THEN {} ELSE xSess[e]
  BY ExtTypes DEF ExtInv, CloseExtractors
<1>7. ExtractorTypeOK'
  <2>1. /\ xForced' \in [XExt -> Wanted] /\ xList' \in [XExt -> Taken]
        /\ xReq' \in [XReq -> XReqType] /\ xAdmin' \in 0 .. XMaxAdmin
        /\ xMixed' \subseteq XReq /\ xOutlived' \subseteq XExt
    BY <1>1, ExtTypes DEF ExtInv, ExtractorTypeOK
  <2>2. xSweep'.still \in Seq(XExt) /\ xSweep'.i \in 0 .. Len(xRetired')
    BY <1>2, <1>3
  <2> QED BY <1>1, <1>2, <1>3, <1>4, <1>5, <1>6, <2>1, <2>2 DEF ExtractorTypeOK, XReqType
<1>8. SweepIsPrefix' /\ PassedAreClosed'
  <2>1. IsInjective(xSweep'.still) /\ ToSet(xSweep'.still) = {}
    BY <1>1, <1>2, <1>3
  <2> QED BY <1>1, <1>3, <2>1 DEF SweepIsPrefix, PassedAreClosed
<1>9. AliveIsKnown'
  <2>1. \A e \in XExt : Using(e)' = {}
    BY <1>1 DEF Using
  <2>2. ASSUME NEW e \in XExt, xSess'[e] # {} PROVE e \in xOutlived
    <3>1. ~Cached(e) /\ e \notin ToSet(xRetired) /\ xSess[e] # {}
      BY <1>6, <2>2
    <3> QED BY <3>1 DEF ExtInv, AliveIsKnown, Alive
  <2> QED BY <1>1, <2>1, <2>2 DEF AliveIsKnown, Alive
<1>10. WorkersHaveOne' /\ RoutedAsWanted' /\ RoutedAlone'
  BY <1>1 DEF ExtInv, WorkersHaveOne, RoutedAsWanted, RoutedAlone, Route
<1> QED
  BY <1>7, <1>8, <1>9, <1>10 DEF ExtInv

-----------------------------------------------------------------------------
(* The pass over the retired list.                                         *)

\* Where the pass is: it went by the first i of the list, and keeps "still".
PassAt(i, still) ==
    /\ i \in 0 .. Len(xRetired) /\ still \in Seq(XExt) /\ IsInjective(still)
    /\ ToSet(still) \subseteq {xRetired[j] : j \in 1 .. i}
    /\ \A j \in 1 .. i : Alive(xRetired[j]) => xRetired[j] \in ToSet(still) \cup xOutlived

\* It comes to the end.
PassEnds(i, still) ==
    /\ xRetired' = still \o SubSeq(xRetired, i + 1, Len(xRetired))
    /\ xSweep' = XAsleep /\ UNCHANGED <<xSess, xOutlived>>

\* It closes the n-th.
PassCloses(i, still, n) ==
    /\ xSweep' = [pc |-> "closing", i |-> n, still |-> still \o SubSeq(xRetired, i + 1, n - 1)]
    /\ xSess' = [xSess EXCEPT ![xRetired[n]] = {}]
    /\ xOutlived' = IF Using(xRetired[n]) # {} THEN xOutlived \cup {xRetired[n]} ELSE xOutlived
    /\ UNCHANGED xRetired

SweepStays == UNCHANGED <<xCache, xForced, xList, xReq, xAdmin, xDown, xMixed>>

LEMMA SweepMoves ==
    ASSUME ExtractorTypeOK, NEW i \in 0 .. Len(xRetired), NEW still, NEW age \in [XExt -> -1 .. 2],
           SweepFrom(i, still, age)
    PROVE  /\ SweepStays /\ xAge' \in [XExt -> -1 .. 2]
           /\ \/ PassEnds(i, still)
              \/ \E n \in i + 1 .. Len(xRetired) : age[xRetired[n]] >= 2 /\ PassCloses(i, still, n)
<1> DEFINE old == {j \in i + 1 .. Len(xRetired) : age[xRetired[j]] >= 2}
           next == CHOOSE j \in old : \A l \in old : j <= l
           upto == IF old = {} THEN Len(xRetired) ELSE next - 1
           seen == {xRetired[j] : j \in i + 1 .. upto}
<1>1. SweepStays
  BY DEF SweepFrom, SweepStays
<1>2. xAge' \in [XExt -> -1 .. 2]
  <2>1. xAge' = [e \in XExt |-> IF e \in seen /\ age[e] = -1 THEN 0 ELSE age[e]]
    BY DEF SweepFrom
  <2> HIDE DEF seen
  <2> QED BY <2>1
<1>3. CASE old = {}
  BY <1>1, <1>2, <1>3 DEF SweepFrom, PassEnds, StillRetired
<1>4. CASE old # {}
  <2>1. next \in old
    <3>1. old \in SUBSET Nat
      BY ExtTypes
    <3>2. \E m \in old : \A n \in old : m <= n
      BY <1>4, <3>1, LeastOf
    <3> HIDE DEF old
    <3> QED BY <3>2
  <2>2. PassCloses(i, still, next)
    BY <1>4 DEF SweepFrom, PassCloses
  <2> HIDE DEF next
  <2> QED BY <1>1, <1>2, <2>1, <2>2
<1> QED
  BY <1>3, <1>4

LEMMA PassEndsKeeps ==
    ASSUME ExtInv, NEW i, NEW still, PassAt(i, still), PassEnds(i, still), SweepStays,
           xAge' \in [XExt -> -1 .. 2]
    PROVE  ExtInv'
<1> DEFINE len == Len(xRetired)
           rest == SubSeq(xRetired, i + 1, len)
<1>1. /\ i \in 0 .. len /\ len \in Nat /\ xRetired \in Seq(XExt) /\ IsInjective(xRetired)
      /\ DOMAIN xRetired = 1 .. len /\ \A j \in 1 .. len : xRetired[j] \in ToSet(xRetired)
      /\ still \in Seq(XExt) /\ IsInjective(still)
      /\ ToSet(still) \subseteq {xRetired[j] : j \in 1 .. i}
  BY ExtTypes DEF ExtInv, PassAt
<1>2. /\ xRetired' = still \o rest /\ xSweep' = XAsleep /\ xSess' = xSess /\ xOutlived' = xOutlived
      /\ xCache' = xCache /\ xForced' = xForced /\ xList' = xList /\ xReq' = xReq
      /\ xAdmin' = xAdmin /\ xDown' = xDown /\ xMixed' = xMixed
  BY DEF PassEnds, SweepStays
<1> HIDE DEF len
<1>3. rest \in Seq(XExt) /\ IsInjective(rest) /\ ToSet(rest) = {xRetired[j] : j \in i + 1 .. len}
  <2>1. i + 1 \in Nat \ {0} /\ len \in Nat /\ len <= Len(xRetired)
    BY <1>1 DEF len
  <2> QED BY <1>1, <2>1, ListCut
<1> HIDE DEF rest
<1>4. ToSet(still) \cap ToSet(rest) = {}
  <2>1. \A j \in 1 .. i, l \in i + 1 .. len : xRetired[j] # xRetired[l]
    <3>1. \A j, l \in 1 .. len : xRetired[j] = xRetired[l] => j = l
      BY <1>1 DEF IsInjective
    <3>2. \A j \in 1 .. i, l \in i + 1 .. len : j \in 1 .. len /\ l \in 1 .. len /\ j # l
      BY <1>1
    <3> QED BY <3>1, <3>2
  <2> QED BY <1>1, <1>3, <2>1
<1>5. /\ xRetired' \in Seq(XExt) /\ IsInjective(xRetired') /\ ToSet(xRetired') = ToSet(still) \cup ToSet(rest)
  <2>1. /\ still \o rest \in Seq(XExt) /\ IsInjective(still \o rest)
        /\ ToSet(still \o rest) = ToSet(still) \cup ToSet(rest)
    BY <1>1, <1>3, <1>4, ListsJoined
  <2> QED BY <1>2, <2>1
<1>6. ToSet(xRetired') \subseteq ToSet(xRetired)
  <2>1. \A j \in 1 .. i : j \in 1 .. len
    BY <1>1
  <2>2. \A j \in i + 1 .. len : j \in 1 .. len
    BY <1>1
  <2>3. ToSet(still) \subseteq ToSet(xRetired)
    BY <1>1, <2>1
  <2>4. ToSet(rest) \subseteq ToSet(xRetired)
    BY <1>1, <1>3, <2>2
  <2> QED BY <1>5, <2>3, <2>4
<1>7. /\ xSweep'.pc = "idle" /\ xSweep'.i = 0 /\ xSweep'.still = <<>>
  BY <1>2 DEF XAsleep
<1>8. IsInjective(<<>>) /\ ToSet(<<>>) = {} /\ <<>> \in Seq(XExt)
  BY DEF IsInjective, ToSet
<1>9. ExtractorTypeOK'
  <2>1. /\ xCache' \in [XKey -> XExt \cup {XNil}]
        /\ xForced' \in [XExt -> Wanted] /\ xList' \in [XExt -> Taken]
        /\ xSess' \in [XExt -> SUBSET Taken] /\ xDown' \in BOOLEAN
        /\ xReq' \in [XReq -> XReqType] /\ xAdmin' \in 0 .. XMaxAdmin
        /\ xMixed' \subseteq XReq /\ xOutlived' \subseteq XExt
    BY <1>2, ExtTypes DEF ExtInv, ExtractorTypeOK
  <2>2. xSweep'.still \in Seq(XExt) /\ xSweep'.i \in 0 .. Len(xRetired')
    <3>1. Len(xRetired') \in Nat
      BY <1>5, LenProperties
    <3> QED BY <1>7, <1>8, <3>1
  <2>3. \A k, l \in XKey : xCache'[k] # XNil =>
           xCache'[k] \notin ToSet(xRetired') /\ (k # l => xCache'[k] # xCache'[l])
    <3>1. \A k, l \in XKey : xCache[k] # XNil =>
           xCache[k] \notin ToSet(xRetired) /\ (k # l => xCache[k] # xCache[l])
      BY ExtTypes DEF ExtInv
    <3>2. xCache' = xCache
      BY <1>2
    <3> QED BY <1>6, <3>1, <3>2
  <2>4. xSweep'.pc \in {"idle", "closing"}
    BY <1>7
  <2> QED BY <1>5, <2>1, <2>2, <2>3, <2>4 DEF ExtractorTypeOK, XReqType
<1>10. SweepIsPrefix' /\ PassedAreClosed'
  <2>1. xSweep' = XAsleep
    BY <1>2
  <2> QED BY <1>7, <1>8, <2>1 DEF SweepIsPrefix, PassedAreClosed
<1>11. AliveIsKnown'
  <2>0. xSess' = xSess /\ xReq' = xReq /\ xCache' = xCache /\ xOutlived' = xOutlived
    BY <1>2
  <2>1. ASSUME NEW e \in XExt, Alive(e) PROVE Cached(e) \/ e \in ToSet(xRetired') \/ e \in xOutlived
    <3>1. CASE e \in ToSet(xRetired)
      <4>1. PICK j \in 1 .. len : xRetired[j] = e
        BY <1>1, <3>1 DEF ToSet
      <4>2. CASE j <= i
        <5>1. j \in 1 .. i
          BY <1>1, <4>2
        <5>2. e \in ToSet(still) \cup xOutlived
          BY <2>1, <4>1, <5>1 DEF PassAt
        <5> QED BY <1>5, <5>2
      <4>3. CASE ~(j <= i)
        <5>1. j \in i + 1 .. len
          BY <1>1, <4>3
        <5>2. e \in ToSet(rest)
          BY <1>3, <4>1, <5>1
        <5> QED BY <1>5, <5>2
      <4> QED BY <4>2, <4>3
    <3>2. CASE e \notin ToSet(xRetired)
      BY <2>1, <3>2 DEF ExtInv, AliveIsKnown
    <3> QED BY <3>1, <3>2
  <2> QED BY <2>0, <2>1 DEF AliveIsKnown, Alive, Using, Cached
<1>12. WorkersHaveOne' /\ RoutedAsWanted' /\ RoutedAlone'
  <2>1. xReq' = xReq /\ xMixed' = xMixed /\ xForced' = xForced /\ xList' = xList
    BY <1>2
  <2> QED BY <2>1 DEF ExtInv, WorkersHaveOne, RoutedAsWanted, RoutedAlone, Route
<1> QED
  BY <1>9, <1>10, <1>11, <1>12 DEF ExtInv

LEMMA PassClosesKeeps ==
    ASSUME ExtInv, NEW i, NEW still, PassAt(i, still),
           NEW n \in i + 1 .. Len(xRetired), PassCloses(i, still, n), SweepStays,
           xAge' \in [XExt -> -1 .. 2]
    PROVE  ExtInv'
<1> DEFINE len == Len(xRetired)
           piece == SubSeq(xRetired, i + 1, n - 1)
           more == still \o piece
<1>1. /\ i \in 0 .. len /\ len \in Nat /\ xRetired \in Seq(XExt) /\ IsInjective(xRetired)
      /\ DOMAIN xRetired = 1 .. len
      /\ \A j \in 1 .. len : xRetired[j] \in XExt /\ xRetired[j] \in ToSet(xRetired)
      /\ still \in Seq(XExt) /\ IsInjective(still)
      /\ ToSet(still) \subseteq {xRetired[j] : j \in 1 .. i}
  BY ExtTypes DEF ExtInv, PassAt
<1>2. /\ xSweep' = [pc |-> "closing", i |-> n, still |-> more]
      /\ xSess' = [xSess EXCEPT ![xRetired[n]] = {}]
      /\ xOutlived' = IF Using(xRetired[n]) # {} THEN xOutlived \cup {xRetired[n]} ELSE xOutlived
      /\ xRetired' = xRetired
      /\ xCache' = xCache /\ xForced' = xForced /\ xList' = xList /\ xReq' = xReq
      /\ xAdmin' = xAdmin /\ xDown' = xDown /\ xMixed' = xMixed
  BY DEF PassCloses, SweepStays
<1>3. n \in i + 1 .. len
  OBVIOUS
<1> HIDE DEF len
<1>4. /\ piece \in Seq(XExt) /\ IsInjective(piece)
      /\ ToSet(piece) = {xRetired[j] : j \in i + 1 .. n - 1}
  <2>1. i + 1 \in Nat \ {0} /\ n - 1 \in Nat /\ n - 1 <= Len(xRetired)
    BY <1>1, <1>3 DEF len
  <2>2. PICK lo \in Nat \ {0}, hi \in Nat : lo = i + 1 /\ hi = n - 1 /\ hi <= Len(xRetired)
    BY <2>1
  <2>3. /\ SubSeq(xRetired, lo, hi) \in Seq(XExt) /\ IsInjective(SubSeq(xRetired, lo, hi))
        /\ ToSet(SubSeq(xRetired, lo, hi)) = {xRetired[j] : j \in lo .. hi}
    BY <1>1, <2>2, ListCut
  <2> QED BY <2>2, <2>3
<1> HIDE DEF piece
<1>5. \A j, l \in 1 .. len : xRetired[j] = xRetired[l] => j = l
  BY <1>1 DEF IsInjective
<1>6. ToSet(still) \cap ToSet(piece) = {}
  <2>1. \A j \in 1 .. i, l \in i + 1 .. n - 1 : j \in 1 .. len /\ l \in 1 .. len /\ j # l
    BY <1>1, <1>3
  <2>2. \A j \in 1 .. i, l \in i + 1 .. n - 1 : xRetired[j] # xRetired[l]
    BY <1>5, <2>1
  <2> QED BY <1>1, <1>4, <2>2
<1>7. more \in Seq(XExt) /\ IsInjective(more) /\ ToSet(more) = ToSet(still) \cup ToSet(piece)
  <2>1. still \in Seq(XExt) /\ IsInjective(still) /\ piece \in Seq(XExt) /\ IsInjective(piece)
    BY <1>1, <1>4
  <2> QED BY <1>6, <2>1, ListsJoined
<1> HIDE DEF more
<1>8. /\ xSweep'.pc = "closing" /\ xSweep'.i = n /\ xSweep'.still = more
      /\ n \in 1 .. len /\ n >= 1 /\ xRetired[n] \in XExt /\ xRetired[n] \in ToSet(xRetired)
  BY <1>1, <1>2, <1>3
<1>9. /\ xSess \in [XExt -> SUBSET Taken] /\ xOutlived \subseteq XExt
      /\ xSess' \in [XExt -> SUBSET Taken] /\ xOutlived' \subseteq XExt
      /\ xSess'[xRetired[n]] = {} /\ \A e \in XExt \ {xRetired[n]} : xSess'[e] = xSess[e]
      /\ xOutlived \subseteq xOutlived'
      /\ Using(xRetired[n]) # {} => xRetired[n] \in xOutlived'
  <2>1. xSess \in [XExt -> SUBSET Taken] /\ xOutlived \subseteq XExt
    BY ExtTypes DEF ExtInv, ExtractorTypeOK
  <2> QED BY <1>2, <1>8, <2>1
<1>10. ExtractorTypeOK'
  <2>1. /\ xCache' \in [XKey -> XExt \cup {XNil}]
        /\ xForced' \in [XExt -> Wanted] /\ xList' \in [XExt -> Taken]
        /\ xDown' \in BOOLEAN
        /\ xReq' \in [XReq -> XReqType] /\ xAdmin' \in 0 .. XMaxAdmin
        /\ xMixed' \subseteq XReq
    BY <1>2, ExtTypes DEF ExtInv, ExtractorTypeOK
  <2>2. \A k, l \in XKey : xCache'[k] # XNil =>
           xCache'[k] \notin ToSet(xRetired') /\ (k # l => xCache'[k] # xCache'[l])
    <3>1. \A k, l \in XKey : xCache[k] # XNil =>
           xCache[k] \notin ToSet(xRetired) /\ (k # l => xCache[k] # xCache[l])
      BY ExtTypes DEF ExtInv
    <3>2. xCache' = xCache /\ xRetired' = xRetired
      BY <1>2
    <3> QED BY <3>1, <3>2
  <2>3. xRetired' = xRetired /\ xSweep'.i \in 0 .. len
    BY <1>1, <1>2, <1>8
  <2>4. xSweep'.pc \in {"idle", "closing"} /\ xSweep'.still \in Seq(XExt)
    BY <1>7, <1>8
  <2> QED BY <1>1, <1>9, <2>1, <2>2, <2>3, <2>4 DEF ExtractorTypeOK, XReqType, len
<1>11. ToSet(more) \subseteq {xRetired[j] : j \in 1 .. n}
  <2>1. (\A j \in 1 .. i : j \in 1 .. n) /\ \A j \in i + 1 .. n - 1 : j \in 1 .. n
    BY <1>1, <1>3
  <2>2. ToSet(still) \subseteq {xRetired[j] : j \in 1 .. n}
    BY <1>1, <2>1
  <2>3. ToSet(piece) \subseteq {xRetired[j] : j \in 1 .. n}
    BY <1>4, <2>1
  <2> QED BY <1>7, <2>2, <2>3
<1>12. SweepIsPrefix'
  <2>1. xRetired' = xRetired
    BY <1>2
  <2> QED BY <1>7, <1>8, <1>11, <2>1 DEF SweepIsPrefix
<1>13. xReq' = xReq /\ xRetired' = xRetired /\ xCache' = xCache
       /\ xMixed' = xMixed /\ xForced' = xForced /\ xList' = xList
  BY <1>2
<1>14. \A e \in XExt : /\ Alive(e)' => Alive(e)
                       /\ e = xRetired[n] /\ Alive(e)' => e \in xOutlived'
  BY <1>9, <1>13 DEF Alive, Using
<1>15. PassedAreClosed'
  <2>1. ASSUME NEW j \in 1 .. n, NEW e \in XExt, e = xRetired[j], Alive(e)'
        PROVE  e \in ToSet(more) \cup xOutlived'
    <3>1. CASE j \in 1 .. i
      <4>1. Alive(xRetired[j])
        BY <1>14, <2>1
      <4>2. e \in ToSet(still) \cup xOutlived
        BY <2>1, <3>1, <4>1 DEF PassAt
      <4> QED BY <1>7, <1>9, <4>2
    <3>2. CASE j \in i + 1 .. n - 1
      BY <1>4, <1>7, <2>1, <3>2
    <3>3. CASE j = n
      BY <1>14, <2>1, <3>3
    <3>4. j \in 1 .. i \/ j \in i + 1 .. n - 1 \/ j = n
      BY <1>1, <1>3
    <3> QED BY <3>1, <3>2, <3>3, <3>4
  <2>2. \A j \in 1 .. n : xRetired[j] \in XExt
    <3>1. \A j \in 1 .. n : j \in 1 .. len
      BY <1>1, <1>3
    <3> QED BY <1>1, <3>1
  <2>3. xSweep'.i = n /\ xSweep'.still = more /\ xRetired' = xRetired
    BY <1>8, <1>13
  <2> QED BY <2>1, <2>2, <2>3 DEF PassedAreClosed, Alive, Using
<1>16. AliveIsKnown'
  <2>1. ASSUME NEW e \in XExt, Alive(e)' PROVE Cached(e) \/ e \in ToSet(xRetired) \/ e \in xOutlived'
    BY <1>9, <1>14, <2>1 DEF ExtInv, AliveIsKnown
  <2> QED BY <1>13, <2>1 DEF AliveIsKnown, Cached
<1>17. WorkersHaveOne' /\ RoutedAsWanted' /\ RoutedAlone'
  BY <1>13 DEF ExtInv, WorkersHaveOne, RoutedAsWanted, RoutedAlone, Route
<1> QED
  BY <1>10, <1>12, <1>15, <1>16, <1>17 DEF ExtInv

\* A step of the pass goes on from where it is, and the one it closes was found
\* retired two steps of time ago.
LEMMA SweepSteps ==
    ASSUME ExtInv, SweepBegins \/ SweepClosed
    PROVE  /\ SweepStays /\ xAge' \in [XExt -> -1 .. 2]
           /\ \E i \in 0 .. Len(xRetired), still \in Seq(XExt) :
                /\ PassAt(i, still)
                /\ \/ PassEnds(i, still)
                   \/ \E n \in i + 1 .. Len(xRetired) :
                        xAge[xRetired[n]] = 2 /\ PassCloses(i, still, n)
<1>0. /\ ExtractorTypeOK /\ xAge \in [XExt -> -1 .. 2] /\ Len(xRetired) \in Nat
      /\ xSweep.still \in Seq(XExt) /\ xSweep.i \in 0 .. Len(xRetired)
      /\ DOMAIN xRetired = 1 .. Len(xRetired)
      /\ \A j \in 1 .. Len(xRetired) : xRetired[j] \in XExt
  BY ExtTypes DEF ExtInv
<1>1. CASE SweepBegins
  <2>1. PassAt(0, <<>>) /\ 0 \in 0 .. Len(xRetired) /\ <<>> \in Seq(XExt)
    BY <1>0 DEF PassAt, IsInjective, ToSet
  <2>2. /\ SweepStays /\ xAge' \in [XExt -> -1 .. 2]
        /\ \/ PassEnds(0, <<>>)
           \/ \E n \in 0 + 1 .. Len(xRetired) : xAge[xRetired[n]] >= 2 /\ PassCloses(0, <<>>, n)
    <3>1. SweepFrom(0, <<>>, xAge)
      BY <1>1 DEF SweepBegins
    <3> QED BY <1>0, <2>1, <3>1, SweepMoves
  <2>3. \A n \in 0 + 1 .. Len(xRetired) : xAge[xRetired[n]] >= 2 => xAge[xRetired[n]] = 2
    BY <1>0
  <2> QED BY <2>1, <2>2, <2>3
<1>2. CASE SweepClosed
  <2> DEFINE i == xSweep.i
             still == xSweep.still
             age == [xAge EXCEPT ![xRetired[i]] = -1]
  <2>1. xSweep.pc = "closing" /\ SweepFrom(i, still, age)
    BY <1>2 DEF SweepClosed
  <2>2. i \in 1 .. Len(xRetired) /\ xRetired[i] \in XExt
    BY <1>0, <2>1 DEF ExtInv, SweepIsPrefix
  <2>3. PassAt(i, still)
    BY <1>0 DEF ExtInv, SweepIsPrefix, PassedAreClosed, PassAt
  <2>4. age \in [XExt -> -1 .. 2]
    BY <1>0, <2>2
  <2>5. \A n \in i + 1 .. Len(xRetired) : age[xRetired[n]] >= 2 => xAge[xRetired[n]] = 2
    <3> SUFFICES ASSUME NEW n \in i + 1 .. Len(xRetired), age[xRetired[n]] >= 2
                 PROVE  xAge[xRetired[n]] = 2
      OBVIOUS
    <3>1. n \in 1 .. Len(xRetired) /\ n # i
      BY <1>0, <2>2
    <3>2. xRetired[n] \in XExt /\ xRetired[n] # xRetired[i]
      BY <1>0, <2>2, <3>1 DEF ExtInv, ExtractorTypeOK, IsInjective
    <3>3. age[xRetired[n]] = xAge[xRetired[n]] /\ xAge[xRetired[n]] \in -1 .. 2
      BY <1>0, <3>2
    <3> HIDE DEF age
    <3> QED BY <3>3
  <2> HIDE DEF i, still, age
  <2>6. i \in 0 .. Len(xRetired) /\ still \in Seq(XExt)
    BY <1>0 DEF i, still
  <2>7. /\ SweepStays /\ xAge' \in [XExt -> -1 .. 2]
        /\ \/ PassEnds(i, still)
           \/ \E n \in i + 1 .. Len(xRetired) : age[xRetired[n]] >= 2 /\ PassCloses(i, still, n)
    BY <1>0, <2>1, <2>4, <2>6, SweepMoves
  <2> QED BY <2>3, <2>5, <2>6, <2>7
<1> QED BY <1>1, <1>2

LEMMA SweepStepKeeps == ASSUME ExtInv, SweepBegins \/ SweepClosed PROVE ExtInv'
<1>1. PICK i \in 0 .. Len(xRetired), still \in Seq(XExt) :
        /\ PassAt(i, still)
        /\ \/ PassEnds(i, still)
           \/ \E n \in i + 1 .. Len(xRetired) : PassCloses(i, still, n)
  BY SweepSteps
<1>2. SweepStays /\ xAge' \in [XExt -> -1 .. 2]
  BY SweepSteps
<1> QED
  BY <1>1, <1>2, PassEndsKeeps, PassClosesKeeps

LEMMA ExtStep == ExtInv /\ [ExtractorNext]_extractorVars => ExtInv'
<1> SUFFICES ASSUME ExtInv, [ExtractorNext]_extractorVars PROVE ExtInv'
  OBVIOUS
<1>1. ASSUME NEW r \in XReq, NEW k \in XKey, NEW want \in Wanted, ResolveExtractor(r, k, want) PROVE ExtInv'
  BY <1>1, ResolveKeeps
<1>2. ASSUME NEW r \in XReq, MakeRequest(r) \/ ExtractEnds(r) PROVE ExtInv'
  BY <1>2, MakeRequestKeeps, ExtractEndsKeeps
<1>3. CASE InvalidateExtractors \/ ExtractorTick \/ CloseExtractors
  BY <1>3, InvalidateKeeps, ExtractorTickKeeps, CloseKeeps
<1>4. CASE SweepBegins \/ SweepClosed
  BY <1>4, SweepStepKeeps
<1>5. CASE UNCHANGED extractorVars
  <2>1. ExtractorTypeOK' /\ SweepIsPrefix'
    BY <1>5 DEF extractorVars, ExtInv, ExtractorTypeOK, SweepIsPrefix
  <2>3. PassedAreClosed'
    BY <1>5 DEF extractorVars, ExtInv, PassedAreClosed, Alive, Using
  <2>4. AliveIsKnown'
    BY <1>5 DEF extractorVars, ExtInv, AliveIsKnown, Alive, Using, Cached
  <2>2. WorkersHaveOne' /\ RoutedAsWanted' /\ RoutedAlone'
    BY <1>5 DEF extractorVars, ExtInv, WorkersHaveOne, RoutedAsWanted, RoutedAlone, Route
  <2> QED BY <2>1, <2>2, <2>3, <2>4 DEF ExtInv
<1> QED
  BY <1>1, <1>2, <1>3, <1>4, <1>5 DEF ExtractorNext

\* No instance of _retired_extractors is lost with its connections, whatever the cleanup
\* task, invalidations and requests do between the awaits of one pass, and who shares its
\* instance with no other routing is routed as it asked (_apply_routing_kwargs).
THEOREM ExtractorsAreServing == ExtractorSpec => []ExtractorsServe
<1> QED
  BY ExtInitial, ExtStep, ExtInvGivesServe, PTL DEF ExtractorSpec

\* Only the pass takes the sessions of an instance that is in use.
LEMMA ClosedLateStep ==
    ASSUME ExtInv, [ExtractorNext]_extractorVars, NEW e \in XExt,
           xSess[e] # {}, xSess'[e] = {}, Using(e) # {}
    PROVE  e \in ToSet(xRetired) /\ xAge[e] = 2
<1>1. ASSUME NEW r \in XReq, NEW k \in XKey, NEW want \in Wanted, ResolveExtractor(r, k, want) PROVE FALSE
  BY <1>1 DEF ResolveExtractor
<1>2. ASSUME NEW r \in XReq, MakeRequest(r) PROVE FALSE
  <2>1. xSess \in [XExt -> SUBSET Taken]
    BY ExtTypes DEF ExtInv
  <2>2. xSess' = [xSess EXCEPT ![xReq[r].ext] = @ \cup {ResolveProxy(r)}]
    BY <1>2 DEF MakeRequest
  <2>3. xSess[e] \subseteq xSess'[e]
    BY <2>1, <2>2
  <2> QED BY <2>3
<1>3. ASSUME (\E r \in XReq : ExtractEnds(r)) \/ InvalidateExtractors \/ ExtractorTick
             \/ UNCHANGED extractorVars
      PROVE FALSE
  BY <1>3 DEF ExtractEnds, InvalidateExtractors, ExtractorTick, extractorVars
<1>4. ASSUME CloseExtractors PROVE FALSE
  BY <1>4 DEF CloseExtractors, Using
<1>5. ASSUME SweepBegins \/ SweepClosed PROVE e \in ToSet(xRetired) /\ xAge[e] = 2
  <2>1. PICK i \in 0 .. Len(xRetired), still \in Seq(XExt) :
          \/ PassEnds(i, still)
          \/ \E n \in i + 1 .. Len(xRetired) : xAge[xRetired[n]] = 2 /\ PassCloses(i, still, n)
    BY <1>5, SweepSteps
  <2>2. ~PassEnds(i, still)
    BY DEF PassEnds
  <2>3. PICK n \in i + 1 .. Len(xRetired) : xAge[xRetired[n]] = 2 /\ PassCloses(i, still, n)
    BY <2>1, <2>2
  <2>4. n \in 1 .. Len(xRetired) /\ xRetired[n] \in ToSet(xRetired)
    BY ExtTypes DEF ExtInv
  <2>5. e = xRetired[n]
    BY <2>3, ExtTypes DEF ExtInv, PassCloses
  <2> QED BY <2>3, <2>4, <2>5
<1> QED
  BY <1>1, <1>2, <1>3, <1>4, <1>5 DEF ExtractorNext

LEMMA ExtractorsCloseLate == ExtractorSpec => ClosedLate
<1>1. ASSUME ExtInv, [ExtractorNext]_extractorVars
      PROVE  [\A e \in XExt : xSess[e] # {} /\ xSess'[e] = {} /\ Using(e) # {} =>
                e \in ToSet(xRetired) /\ xAge[e] = 2]_extractorVars
  BY <1>1, ClosedLateStep
<1> QED
  BY <1>1, ExtInitial, ExtStep, PTL DEF ExtractorSpec, ClosedLate

-----------------------------------------------------------------------------
(* The two caches side by side.                                            *)

LEMMA BothComponents == Spec => PoolSpec /\ ExtractorSpec
<1>1. Init => PoolInit /\ ExtractorInit
  BY DEF Init
<1>2. [Next]_<<focus, poolVars, extractorVars>> => [PoolNext]_poolVars /\ [ExtractorNext]_extractorVars
  BY DEF Next
<1> QED
  BY <1>1, <1>2, PTL DEF Spec, PoolSpec, ExtractorSpec

\* What a request, the panel, an eviction or the cleanup task does ends no other
\* request's connections: the pool of a playback goes only when it is idle, by its own
\* failure or that of a tunnel it uses; the shared WARP session only by a failure over
\* WARP or when nobody is on WARP (_invalidate_proxy_session, _recycle_idle_warp); and
\* the sessions of an extractor in use are only closed two steps of time after a pass
\* found it retired.
THEOREM OthersStayUndisturbed == Spec => OthersUndisturbed
<1> QED
  BY BothComponents, PlaybacksAreIsolated, ExtractorsCloseLate, PTL DEF OthersUndisturbed
=============================================================================
