------------------------------ MODULE DualProofs ------------------------------
(***************************************************************************)
(* What holds of DUAL playback for any number of tracks, fragments,        *)
(* requests, builds and downloads: the audio store and the builds that     *)
(* pin its tracks (DualStore, DualBuild), the resolutions requests share   *)
(* (DualResolve), the gate of the downloads (SyncFetch) and what a         *)
(* measurement decides (SyncProbes).  Each section has the inductive       *)
(* invariant of its component, one lemma for each operation, and ends in   *)
(* the theorems.                                                           *)
(***************************************************************************)
EXTENDS MCDual, ListProofs

-----------------------------------------------------------------------------
(* The order of use.                                                       *)

\* "older" orders the set S, and nothing outside it.
Ordered(S, older) ==
    /\ older \in [DHid -> SUBSET DHid]
    /\ \A h \in DHid : \A g \in older[h] :
         h \in S /\ g \in S /\ h \notin older[g] /\ older[g] \subseteq older[h]
    /\ \A g, h \in S : g = h \/ g \in older[h] \/ h \in older[g]

\* h becomes the last one used.
LEMMA OrderMoved ==
    ASSUME NEW S \in SUBSET DHid, NEW older, Ordered(S, older), NEW h \in DHid,
           NEW new \in [DHid -> SUBSET DHid],
           \A g \in DHid : new[g] = IF g = h THEN S \ {h} ELSE older[g] \ {h}
    PROVE  Ordered(S \cup {h}, new)
<1>1. /\ older \in [DHid -> SUBSET DHid]
      /\ \A f \in DHid : \A g \in older[f] :
           f \in S /\ g \in S /\ f \notin older[g] /\ older[g] \subseteq older[f]
      /\ \A f, g \in S : f = g \/ f \in older[g] \/ g \in older[f]
  BY DEF Ordered
<1>2. ASSUME NEW f \in DHid, NEW g \in new[f]
      PROVE  f \in S \cup {h} /\ g \in S \cup {h} /\ f \notin new[g] /\ new[g] \subseteq new[f]
  <2>1. g \in DHid /\ g # h
    OBVIOUS
  <2>2. CASE f = h
    BY <1>1, <2>1, <2>2
  <2>3. CASE f # h
    BY <1>1, <2>1, <2>3
  <2> QED BY <2>2, <2>3
<1>3. ASSUME NEW f \in S \cup {h}, NEW g \in S \cup {h} PROVE f = g \/ f \in new[g] \/ g \in new[f]
  BY <1>1
<1> QED
  BY <1>2, <1>3 DEF Ordered

\* Only the tracks of T stay.
LEMMA OrderCut ==
    ASSUME NEW S \in SUBSET DHid, NEW older, Ordered(S, older), NEW T \in SUBSET S,
           NEW new \in [DHid -> SUBSET DHid],
           \A g \in T : new[g] = older[g] \cap T, \A g \in DHid \ T : new[g] = {}
    PROVE  Ordered(T, new)
<1>1. /\ older \in [DHid -> SUBSET DHid]
      /\ \A f \in DHid : \A g \in older[f] :
           f \in S /\ g \in S /\ f \notin older[g] /\ older[g] \subseteq older[f]
      /\ \A f, g \in S : f = g \/ f \in older[g] \/ g \in older[f]
  BY DEF Ordered
<1>2. ASSUME NEW f \in DHid, NEW g \in new[f]
      PROVE  f \in T /\ g \in T /\ f \notin new[g] /\ new[g] \subseteq new[f]
  BY <1>1
<1>3. ASSUME NEW f \in T, NEW g \in T PROVE f = g \/ f \in new[g] \/ g \in new[f]
  BY <1>1
<1> QED
  BY <1>2, <1>3 DEF Ordered

\* Some track of a set was used before all others of it.
LEMMA OrderLeast ==
    ASSUME NEW S \in SUBSET DHid, NEW older, Ordered(S, older),
           NEW L \in SUBSET S, IsFiniteSet(L), L # {}
    PROVE  \E g \in L : older[g] \cap L = {}
<1> DEFINE size(g) == Cardinality(older[g] \cap L)
           sizes == {size(g) : g \in L}
<1>1. \A g \in L : IsFiniteSet(older[g] \cap L) /\ size(g) \in Nat
  BY FS_Subset, FS_CardinalityType
<1>2. \E m \in sizes : \A n \in sizes : m <= n
  <2>1. sizes \in SUBSET Nat /\ sizes # {}
    BY <1>1
  <2> HIDE DEF sizes
  <2> QED BY <2>1, LeastOf
<1>3. PICK g \in L : \A f \in L : size(g) <= size(f)
  BY <1>2
<1>4. ASSUME NEW f \in older[g] \cap L PROVE FALSE
  <2>1. /\ older[f] \cap L \subseteq older[g] \cap L /\ f \notin older[f] \cap L
        /\ f \in older[g] \cap L
    BY <1>4 DEF Ordered
  <2>2. /\ IsFiniteSet(older[g] \cap L) /\ older[f] \cap L # older[g] \cap L
    BY <1>1, <2>1
  <2>3. size(f) <= size(g) /\ size(f) # size(g)
    <3>1. older[f] \cap L \in SUBSET (older[g] \cap L)
      BY <2>1
    <3> QED BY <2>2, <3>1, FS_Subset
  <2>4. size(f) \in Nat /\ size(g) \in Nat /\ size(g) <= size(f)
    BY <1>1, <1>3, <1>4
  <2> HIDE DEF size
  <2> QED BY <2>3, <2>4
<1> QED
  BY <1>4

-----------------------------------------------------------------------------
(* What keeps the store in order.                                          *)

ReqRec == [pc : {"idle", "lock", "convert"}, h : DHid \cup {DNil}, k : DFrag \cup {DNil}, mine : BOOLEAN]

TracksOK ==
    /\ dTracks \in [DHid -> Track \cup {DNil}]
    /\ \A h \in DHid : Stored(h) => IsInjective(dTracks[h].frags)

\* A request that is at work is about a fragment; one that holds the stored track, works.
HoldersKnow ==
    \A r \in DReq : /\ dReq[r].pc # "idle" => dReq[r].h \in DHid /\ dReq[r].k \in DFrag
                    /\ dReq[r].mine => dReq[r].pc # "idle" /\ Stored(dReq[r].h)

StoreInv ==
    /\ TracksOK /\ Ordered(Tracks, dOlder)
    /\ dPinned \in [DHid -> Nat] /\ dActive \in [DHid -> Nat] /\ dReq \in [DReq -> ReqRec]
    /\ PinnedStays /\ ActiveIsConversions /\ ConvertedOnce /\ TracksBounded /\ HoldersKnow

LEMMA StoreInvGivesKept == StoreInv => StoreKept
<1> SUFFICES ASSUME StoreInv PROVE StoreKept
  OBVIOUS
<1>1. DualStoreTypeOK
  BY DEF StoreInv, TracksOK, Ordered, Tracks, DualStoreTypeOK, ReqRec
<1> QED
  BY <1>1 DEF StoreInv, StoreKept

LEMMA StoreInitial == DualStoreInit => StoreInv
<1> SUFFICES ASSUME DualStoreInit PROVE StoreInv
  OBVIOUS
<1>1. DIdle \in ReqRec /\ DIdle.pc = "idle" /\ DIdle.mine = FALSE
  BY DEF DIdle, ReqRec
<1>2. dReq \in [DReq -> ReqRec] /\ \A r \in DReq : dReq[r].pc = "idle" /\ dReq[r].mine = FALSE
  BY <1>1 DEF DualStoreInit
<1>3. /\ dTracks = [h \in DHid |-> DNil] /\ dOlder = [h \in DHid |-> {}]
      /\ dPinned = [h \in DHid |-> 0] /\ dActive = [h \in DHid |-> 0]
  BY DEF DualStoreInit
<1>4. (\A h \in DHid : ~Stored(h)) /\ Tracks = {}
  BY <1>3 DEF Stored, Tracks
<1>5. TracksOK
  BY <1>3, <1>4 DEF TracksOK
<1>6. Ordered(Tracks, dOlder)
  BY <1>3, <1>4 DEF Ordered
<1>7. dPinned \in [DHid -> Nat] /\ dActive \in [DHid -> Nat] /\ PinnedStays
  BY <1>3 DEF PinnedStays
<1>8. ActiveIsConversions
  <2>1. \A h \in DHid : {r \in DReq : dReq[r].pc = "convert" /\ dReq[r].h = h} = {}
    BY <1>2
  <2> QED BY <1>3, <2>1, FS_EmptySet DEF ActiveIsConversions
<1>9. ConvertedOnce /\ HoldersKnow
  BY <1>2 DEF ConvertedOnce, HoldersKnow
<1>10. TracksBounded
  <2>1. Cardinality(Tracks) = 0
    BY <1>4, FS_EmptySet
  <2>2. DMaxTracks \in Nat
    BY DualAssumption
  <2> QED BY <2>1, <2>2 DEF TracksBounded
<1> QED
  BY <1>2, <1>5, <1>6, <1>7, <1>8, <1>9, <1>10 DEF StoreInv

\* The same tracks with the same fragments, perhaps used in another order.
SameTracks ==
    /\ TracksOK' /\ Ordered(Tracks, dOlder)'
    /\ \A h \in DHid : /\ Stored(h)' <=> Stored(h)
                       /\ Stored(h) => dTracks'[h].frags = dTracks[h].frags

LEMMA TouchedKeeps ==
    ASSUME StoreInv, NEW h \in DHid, Stored(h), Touched(h)
    PROVE  SameTracks
<1>1. /\ dTracks \in [DHid -> Track \cup {DNil}] /\ dTracks[h] \in Track
      /\ dTracks' = [dTracks EXCEPT ![h].age = 0]
  BY DEF StoreInv, TracksOK, Stored, Touched
<1>2. \A t \in Track : [t EXCEPT !.age = 0] \in Track /\ [t EXCEPT !.age = 0].frags = t.frags
  <2>1. 0 \in 0 .. Expired
    BY DEF Expired
  <2> QED BY <2>1 DEF Track
<1>3. dTracks'[h] \in Track /\ dTracks'[h].frags = dTracks[h].frags
  BY <1>1, <1>2
<1>4. /\ dTracks' \in [DHid -> Track \cup {DNil}]
      /\ \A g \in DHid \ {h} : dTracks'[g] = dTracks[g]
  BY <1>1, <1>3
<1>5. dTracks'[h] # DNil
  BY <1>3, DualAssumption
<1>6. \A g \in DHid : /\ Stored(g)' <=> Stored(g)
                      /\ Stored(g) => dTracks'[g].frags = dTracks[g].frags
  BY <1>3, <1>4, <1>5 DEF Stored
<1>7. TracksOK'
  BY <1>4, <1>6 DEF StoreInv, TracksOK
<1>8. Tracks' = Tracks /\ Tracks = Tracks \cup {h}
  BY <1>6 DEF Tracks
<1>9. Ordered(Tracks, dOlder')
  <2>1. /\ dOlder' \in [DHid -> SUBSET DHid]
        /\ \A g \in DHid : dOlder'[g] = IF g = h THEN Tracks \ {h} ELSE dOlder[g] \ {h}
    BY DEF StoreInv, Ordered, Touched, UsedLast, Tracks
  <2>2. Tracks \in SUBSET DHid /\ Ordered(Tracks, dOlder) /\ dOlder \in [DHid -> SUBSET DHid]
    BY DEF Tracks, StoreInv, Ordered
  <2>3. Ordered(Tracks \cup {h}, dOlder')
    <3>1. PICK new \in [DHid -> SUBSET DHid], S \in SUBSET DHid,
               older \in [DHid -> SUBSET DHid] :
            new = dOlder' /\ S = Tracks /\ older = dOlder
      BY <2>1, <2>2
    <3>2. Ordered(S, older) /\ \A g \in DHid : new[g] = IF g = h THEN S \ {h} ELSE older[g] \ {h}
      BY <2>1, <2>2, <3>1
    <3>3. Ordered(S \cup {h}, new)
      BY <3>2, OrderMoved, ZenonT(60)
    <3> QED BY <3>1, <3>3
  <2> QED BY <1>8, <2>3
<1>10. Ordered(Tracks, dOlder)'
  BY <1>8, <1>9 DEF Ordered
<1> QED
  BY <1>6, <1>7, <1>10 DEF SameTracks

LEMMA NothingTouched == ASSUME StoreInv, UNCHANGED <<dTracks, dOlder>> PROVE SameTracks
BY DEF StoreInv, SameTracks, TracksOK, Ordered, Tracks, Stored

\* Requests that stay as they are, on tracks that stay, are served as before.
LEMMA SameReqKeeps ==
    ASSUME StoreInv, SameTracks, UNCHANGED <<dActive, dReq>>, dPinned' \in [DHid -> Nat],
           \A h \in DHid : dPinned'[h] > 0 => Stored(h)
    PROVE  StoreInv'
<1>1. Tracks' = Tracks
  BY DEF SameTracks, Tracks
<1>2. TracksBounded' /\ PinnedStays'
  BY <1>1 DEF StoreInv, TracksBounded, PinnedStays, SameTracks
<1>3. ActiveIsConversions'
  BY DEF StoreInv, ActiveIsConversions
<1>4. HoldersKnow'
  BY DEF StoreInv, HoldersKnow, SameTracks
<1>5. ConvertedOnce'
  <2>1. \A h \in DHid, k \in DFrag : Holding(h, k)' = Holding(h, k)
    BY DEF Holding
  <2>2. dReq' = dReq
    OBVIOUS
  <2> SUFFICES ASSUME NEW r \in DReq, dReq[r].pc = "convert", dReq[r].mine
               PROVE  /\ dReq[r].k \notin ToSet(dTracks'[dReq[r].h].frags)
                      /\ Holding(dReq[r].h, dReq[r].k) = {r}
    BY <2>2 DEF ConvertedOnce, Holding
  <2>3. /\ dReq[r].h \in DHid /\ Stored(dReq[r].h)
        /\ dReq[r].k \notin ToSet(dTracks[dReq[r].h].frags)
        /\ Holding(dReq[r].h, dReq[r].k) = {r}
    BY DEF StoreInv, HoldersKnow, ConvertedOnce
  <2> QED BY <2>3 DEF SameTracks
<1> QED
  BY <1>2, <1>3, <1>4, <1>5 DEF StoreInv, SameTracks

-----------------------------------------------------------------------------
(* Conversions.                                                            *)

\* The cache holds each fragment once, and nothing but what it was given.
LEMMA CacheKeeps ==
    ASSUME NEW frags \in Seq(DFrag), IsInjective(frags), NEW k \in DFrag, k \notin ToSet(frags)
    PROVE  /\ Cache(frags, k) \in Seq(DFrag) /\ IsInjective(Cache(frags, k))
           /\ ToSet(Cache(frags, k)) \subseteq ToSet(frags) \cup {k}
<1> DEFINE all == Append(frags, k)
           n == Len(all)
           m == Min({n, DMaxFrags})
<1>1. all \in Seq(DFrag) /\ IsInjective(all) /\ ToSet(all) = ToSet(frags) \cup {k} /\ all # <<>>
  BY QueueAppended
<1> HIDE DEF all
<1>2. n \in Nat /\ DMaxFrags \in Nat \ {0} /\ n # 0 /\ DOMAIN all = 1 .. n
  BY <1>1, LenProperties, EmptySeq, DualAssumption
<1>3. m \in Nat /\ m <= n
  <2>1. \E i \in {n, DMaxFrags} : \A j \in {n, DMaxFrags} : i <= j
    BY <1>2
  <2>2. m \in {n, DMaxFrags} /\ \A j \in {n, DMaxFrags} : m <= j
    BY <2>1 DEF Min
  <2> HIDE DEF m
  <2> QED BY <1>2, <2>2
<1>4. Cache(frags, k) = SubSeq(all, n - m + 1, n)
  BY DEF Cache, all
<1> HIDE DEF m
<1> HIDE DEF n
<1>5. PICK lo \in Nat \ {0} : lo = n - m + 1
  <2>1. n \in Nat
    BY <1>2
  <2>2. n - m + 1 \in Nat \ {0}
    BY <1>3, <2>1
  <2> QED BY <2>2
<1>6. /\ SubSeq(all, lo, n) \in Seq(DFrag) /\ IsInjective(SubSeq(all, lo, n))
      /\ ToSet(SubSeq(all, lo, n)) = {all[j] : j \in lo .. n}
  <2>1. n <= Len(all)
    BY <1>2 DEF n
  <2> QED BY <1>1, <1>2, <2>1, ListCut
<1>7. {all[j] : j \in lo .. n} \subseteq ToSet(all)
  BY <1>2 DEF ToSet
<1> QED
  BY <1>1, <1>4, <1>5, <1>6, <1>7

LEMMA ConversionsCounted ==
    ASSUME StoreInv, NEW h \in DHid
    PROVE  LET now == {r \in DReq : dReq[r].pc = "convert" /\ dReq[r].h = h}
           IN  IsFiniteSet(now) /\ Cardinality(now) \in Nat /\ dActive[h] = Cardinality(now)
<1> DEFINE now == {r \in DReq : dReq[r].pc = "convert" /\ dReq[r].h = h}
<1>1. now \in SUBSET DReq
  OBVIOUS
<1>2. IsFiniteSet(now) /\ Cardinality(now) \in Nat
  BY <1>1, DualAssumption, FS_Subset, FS_CardinalityType
<1> QED
  BY <1>2 DEF StoreInv, ActiveIsConversions

\* ffmpeg starts for a fragment nobody converts.
LEMMA ConvertKeeps ==
    ASSUME StoreInv, SameTracks, dPinned' = dPinned,
           NEW r \in DReq, NEW h \in DHid, NEW k \in DFrag, NEW mine \in BOOLEAN,
           dReq[r].pc # "convert", Convert(r, h, k, mine), Holding(h, k) = {},
           mine => Stored(h) /\ k \notin ToSet(dTracks[h].frags)
    PROVE  StoreInv'
<1>1. /\ dReq' \in [DReq -> ReqRec] /\ \A q \in DReq \ {r} : dReq'[q] = dReq[q]
      /\ dReq'[r].pc = "convert" /\ dReq'[r].h = h /\ dReq'[r].k = k /\ dReq'[r].mine = mine
  BY DEF StoreInv, Convert, ReqRec
<1>2. Tracks' = Tracks
  BY DEF SameTracks, Tracks
<1>3. TracksBounded' /\ PinnedStays'
  BY <1>2 DEF StoreInv, TracksBounded, PinnedStays, SameTracks
<1>4. dActive' \in [DHid -> Nat] /\ dActive'[h] = dActive[h] + 1 /\ \A g \in DHid \ {h} : dActive'[g] = dActive[g]
  BY DEF StoreInv, Convert
<1>5. ActiveIsConversions'
  <2> SUFFICES ASSUME NEW g \in DHid
               PROVE  dActive'[g] = Cardinality({q \in DReq : dReq'[q].pc = "convert" /\ dReq'[q].h = g})
    BY DEF ActiveIsConversions
  <2> DEFINE now == {q \in DReq : dReq[q].pc = "convert" /\ dReq[q].h = g}
             then == {q \in DReq : dReq'[q].pc = "convert" /\ dReq'[q].h = g}
  <2>1. IsFiniteSet(now) /\ Cardinality(now) \in Nat /\ dActive[g] = Cardinality(now)
    BY ConversionsCounted
  <2>2. CASE g = h
    <3>1. r \notin now /\ then = now \cup {r}
      BY <1>1, <2>2
    <3>2. Cardinality(then) = Cardinality(now) + 1
      BY <2>1, <3>1, FS_AddElement
    <3> HIDE DEF now, then
    <3>3. dActive'[g] = dActive[g] + 1
      BY <1>4, <2>2
    <3> QED BY <2>1, <3>2, <3>3 DEF then
  <2>3. CASE g # h
    <3>1. then = now
      BY <1>1, <2>3
    <3> QED BY <1>4, <2>1, <2>3, <3>1
  <2> QED BY <2>2, <2>3
<1>6. HoldersKnow'
  BY <1>1 DEF StoreInv, HoldersKnow, SameTracks
<1>7. ConvertedOnce'
  <2>1. Holding(h, k)' = {r}
    BY <1>1 DEF Holding
  <2>2. \A g \in DHid, l \in DFrag : g # h \/ l # k => Holding(g, l)' = Holding(g, l)
    BY <1>1 DEF Holding
  <2> SUFFICES ASSUME NEW q \in DReq, NEW g, NEW l, g = dReq'[q].h, l = dReq'[q].k,
                      dReq'[q].pc = "convert", dReq'[q].mine
               PROVE  l \notin ToSet(dTracks'[g].frags) /\ Holding(g, l)' = {q}
    BY DEF ConvertedOnce, Holding
  <2>3. CASE q = r
    BY <1>1, <2>1, <2>3 DEF SameTracks
  <2>4. CASE q # r
    <3>1. /\ dReq'[q] = dReq[q] /\ dReq[q].h \in DHid /\ dReq[q].k \in DFrag /\ Stored(dReq[q].h)
          /\ dReq[q].k \notin ToSet(dTracks[dReq[q].h].frags)
          /\ Holding(dReq[q].h, dReq[q].k) = {q}
      BY <1>1, <2>4 DEF StoreInv, HoldersKnow, ConvertedOnce
    <3>2. dReq[q].h # h \/ dReq[q].k # k
      BY <3>1
    <3> QED BY <2>2, <3>1, <3>2 DEF SameTracks
  <2> QED BY <2>3, <2>4
<1> QED
  BY <1>1, <1>3, <1>4, <1>5, <1>6, <1>7 DEF StoreInv, SameTracks

\* A request starts to wait, or stops to, and converts nothing meanwhile.
LEMMA WaitKeeps ==
    ASSUME StoreInv, SameTracks, dPinned' = dPinned, dActive' = dActive, NEW r \in DReq,
           NEW new \in ReqRec, dReq[r].pc # "convert", new.pc # "convert",
           new.pc # "idle" => new.h \in DHid /\ new.k \in DFrag,
           new.mine => new.pc # "idle" /\ Stored(new.h), new.h \in DHid \/ ~new.mine,
           dReq' = [dReq EXCEPT ![r] = new]
    PROVE  StoreInv'
<1>1. /\ dReq' \in [DReq -> ReqRec] /\ \A q \in DReq \ {r} : dReq'[q] = dReq[q]
      /\ dReq'[r] = new
  BY DEF StoreInv
<1>2. Tracks' = Tracks
  BY DEF SameTracks, Tracks
<1>3. TracksBounded' /\ PinnedStays'
  BY <1>2 DEF StoreInv, TracksBounded, PinnedStays, SameTracks
<1>4. ActiveIsConversions'
  <2>1. \A g \in DHid : {q \in DReq : dReq'[q].pc = "convert" /\ dReq'[q].h = g}
                         = {q \in DReq : dReq[q].pc = "convert" /\ dReq[q].h = g}
    BY <1>1
  <2> QED BY <2>1 DEF StoreInv, ActiveIsConversions
<1>5. HoldersKnow'
  BY <1>1 DEF StoreInv, HoldersKnow, SameTracks
<1>6. ConvertedOnce'
  <2>1. \A g \in DHid, l \in DFrag : Holding(g, l)' = Holding(g, l)
    BY <1>1 DEF Holding
  <2> SUFFICES ASSUME NEW q \in DReq, NEW g, NEW l, g = dReq'[q].h, l = dReq'[q].k,
                      dReq'[q].pc = "convert", dReq'[q].mine
               PROVE  l \notin ToSet(dTracks'[g].frags) /\ Holding(g, l)' = {q}
    BY DEF ConvertedOnce, Holding
  <2>2. /\ dReq'[q] = dReq[q] /\ dReq[q].h \in DHid /\ dReq[q].k \in DFrag /\ Stored(dReq[q].h)
        /\ dReq[q].k \notin ToSet(dTracks[dReq[q].h].frags)
        /\ Holding(dReq[q].h, dReq[q].k) = {q}
    BY <1>1 DEF StoreInv, HoldersKnow, ConvertedOnce
  <2> QED BY <2>1, <2>2 DEF SameTracks
<1> QED
  BY <1>1, <1>3, <1>4, <1>5, <1>6 DEF StoreInv, SameTracks

LEMMA FragmentBytesKeeps ==
    ASSUME StoreInv, NEW r \in DReq, NEW h \in DHid, NEW k \in DFrag, FragmentBytes(r, h, k)
    PROVE  StoreInv'
<1>1. dReq[r].pc = "idle" /\ Stored(h) /\ Touched(h) /\ dPinned' = dPinned
  BY DEF FragmentBytes
<1>2. SameTracks
  BY <1>1, TouchedKeeps
<1>3. CASE UNCHANGED <<dActive, dReq>>
  BY <1>1, <1>2, <1>3, SameReqKeeps DEF StoreInv, PinnedStays
<1>4. CASE /\ dReq' = [dReq EXCEPT ![r] = [pc |-> "lock", h |-> h, k |-> k, mine |-> TRUE]]
           /\ UNCHANGED dActive
  <2> DEFINE new == [pc |-> "lock", h |-> h, k |-> k, mine |-> TRUE]
  <2>1. /\ new \in ReqRec /\ new.pc = "lock" /\ new.h = h /\ new.k = k
    BY DEF ReqRec
  <2>2. dReq' = [dReq EXCEPT ![r] = new] /\ dActive' = dActive
    BY <1>4
  <2> HIDE DEF new
  <2>3. dReq[r].pc # "convert" /\ new.pc # "convert"
    BY <1>1, <2>1
  <2> QED BY <1>1, <1>2, <2>1, <2>2, <2>3, WaitKeeps
<1>5. CASE k \notin ToSet(dTracks[h].frags) /\ Holding(h, k) = {} /\ Convert(r, h, k, TRUE)
  BY <1>1, <1>2, <1>5, ConvertKeeps
<1> QED
  BY <1>3, <1>4, <1>5 DEF FragmentBytes

LEMMA LockGrantedKeeps ==
    ASSUME StoreInv, NEW r \in DReq, LockGranted(r) PROVE StoreInv'
<1>1. /\ dReq[r].pc = "lock" /\ Holding(dReq[r].h, dReq[r].k) = {} /\ dPinned' = dPinned
      /\ dTracks' = dTracks /\ dOlder' = dOlder
  BY DEF LockGranted
<1>2. SameTracks
  BY <1>1, NothingTouched
<1>3. PICK h \in DHid, k \in DFrag, mine \in BOOLEAN :
        /\ h = dReq[r].h /\ k = dReq[r].k /\ mine = dReq[r].mine /\ (mine => Stored(h))
  BY <1>1 DEF StoreInv, HoldersKnow, ReqRec
<1>4. CASE dReq' = [dReq EXCEPT ![r] = DIdle] /\ UNCHANGED dActive
  <2>1. DIdle \in ReqRec /\ DIdle.pc = "idle" /\ ~DIdle.mine
    BY DEF DIdle, ReqRec
  <2>2. dReq[r].pc # "convert" /\ DIdle.pc # "convert"
    BY <1>1, <2>1
  <2> QED BY <1>1, <1>2, <1>4, <2>1, <2>2, WaitKeeps
<1>5. CASE ~(mine /\ FoundNow(r)) /\ Convert(r, h, k, mine)
  <2>1. mine => k \notin ToSet(dTracks[h].frags)
    BY <1>3, <1>5 DEF FoundNow
  <2>2. dReq[r].pc # "convert" /\ Holding(h, k) = {}
    BY <1>1, <1>3
  <2> QED BY <1>1, <1>2, <1>3, <1>5, <2>1, <2>2, ConvertKeeps
<1> QED
  BY <1>3, <1>4, <1>5 DEF LockGranted

LEMMA ConvertEndsKeeps ==
    ASSUME StoreInv, NEW r \in DReq, NEW ok \in BOOLEAN, ConvertEnds(r, ok)
    PROVE  StoreInv'
<1>1. /\ dReq[r].pc = "convert" /\ Released(r, ok) /\ dReq' = [dReq EXCEPT ![r] = DIdle]
      /\ dOlder' = dOlder /\ dPinned' = dPinned
  BY DEF ConvertEnds
<1>2. PICK h \in DHid, k \in DFrag : h = dReq[r].h /\ k = dReq[r].k
  BY <1>1 DEF StoreInv, HoldersKnow
<1>3. DIdle \in ReqRec /\ DIdle.pc = "idle" /\ ~DIdle.mine
  BY DEF DIdle, ReqRec
<1>4. dReq' \in [DReq -> ReqRec] /\ dReq'[r] = DIdle /\ \A q \in DReq \ {r} : dReq'[q] = dReq[q]
  BY <1>1, <1>3 DEF StoreInv
<1>5. /\ TracksOK' /\ \A g \in DHid : Stored(g)' <=> Stored(g)
      /\ \A g \in DHid : Stored(g) => ToSet(dTracks'[g].frags) \subseteq ToSet(dTracks[g].frags) \cup {k}
      /\ \A g \in DHid \ {h} : dTracks'[g] = dTracks[g]
  <2>1. CASE dTracks' = dTracks
    BY <2>1 DEF StoreInv, TracksOK, Stored
  <2>2. CASE /\ ok /\ dReq[r].mine
             /\ dTracks' = [dTracks EXCEPT ![h].frags = Cache(@, k)]
    <3>1. /\ dTracks \in [DHid -> Track \cup {DNil}] /\ dTracks[h] \in Track
          /\ IsInjective(dTracks[h].frags) /\ dTracks[h].frags \in Seq(DFrag)
      BY <1>2, <2>2 DEF StoreInv, TracksOK, Stored, HoldersKnow, Track
    <3>2. k \notin ToSet(dTracks[h].frags)
      BY <1>1, <1>2, <2>2 DEF StoreInv, ConvertedOnce
    <3>3. PICK new \in Seq(DFrag) : /\ new = Cache(dTracks[h].frags, k) /\ IsInjective(new)
                                    /\ ToSet(new) \subseteq ToSet(dTracks[h].frags) \cup {k}
      BY <3>1, <3>2, CacheKeeps
    <3>4. \A t \in Track : [t EXCEPT !.frags = new] \in Track /\ [t EXCEPT !.frags = new].frags = new
      BY DEF Track
    <3>5. dTracks' = [dTracks EXCEPT ![h] = [dTracks[h] EXCEPT !.frags = new]]
      BY <2>2, <3>3
    <3>6. /\ dTracks' \in [DHid -> Track \cup {DNil}] /\ dTracks'[h].frags = new /\ dTracks'[h] \in Track
          /\ \A g \in DHid \ {h} : dTracks'[g] = dTracks[g]
      BY <3>1, <3>4, <3>5
    <3>7. dTracks'[h] # DNil /\ dTracks[h] # DNil
      BY <3>1, <3>6, DualAssumption
    <3>8. \A g \in DHid : Stored(g)' <=> Stored(g)
      BY <3>6, <3>7 DEF Stored
    <3>9. TracksOK'
      BY <3>3, <3>6, <3>8 DEF StoreInv, TracksOK, Stored
    <3> QED BY <3>3, <3>6, <3>8, <3>9
  <2> QED BY <1>2, <2>1, <2>2 DEF ConvertEnds
<1>6. Tracks' = Tracks
  BY <1>5 DEF Tracks
<1>7. TracksBounded' /\ PinnedStays' /\ Ordered(Tracks, dOlder)'
  BY <1>1, <1>5, <1>6 DEF StoreInv, TracksBounded, PinnedStays, Ordered
<1>8. /\ dActive' = [dActive EXCEPT ![h] = @ - 1]
  BY <1>1, <1>2 DEF Released
<1>9. ASSUME NEW g \in DHid
      PROVE  /\ dActive'[g] = Cardinality({q \in DReq : dReq'[q].pc = "convert" /\ dReq'[q].h = g})
             /\ dActive'[g] \in Nat
  <2> DEFINE now == {q \in DReq : dReq[q].pc = "convert" /\ dReq[q].h = g}
             then == {q \in DReq : dReq'[q].pc = "convert" /\ dReq'[q].h = g}
  <2>0. dActive \in [DHid -> Nat]
    BY DEF StoreInv
  <2>1. IsFiniteSet(now) /\ Cardinality(now) \in Nat /\ dActive[g] = Cardinality(now)
    BY ConversionsCounted
  <2>2. CASE g = h
    <3>1. r \in now /\ then = now \ {r}
      BY <1>1, <1>2, <1>3, <1>4, <2>2
    <3> HIDE DEF now, then
    <3>2. IsFiniteSet(now \ {r}) /\ Cardinality(now \ {r}) = Cardinality(now) - 1
      BY <2>1, <3>1, FS_RemoveElement
    <3>3. Cardinality(then) \in Nat /\ Cardinality(then) = Cardinality(now) - 1
      BY <3>1, <3>2, FS_CardinalityType
    <3>4. dActive'[g] = dActive[g] - 1
      BY <1>8, <2>0, <2>2
    <3> QED BY <2>1, <3>3, <3>4 DEF then
  <2>3. CASE g # h
    <3>1. then = now
      BY <1>2, <1>3, <1>4, <2>3
    <3>2. dActive'[g] = dActive[g]
      BY <1>8, <2>0, <2>3
    <3> QED BY <2>1, <3>1, <3>2
  <2> QED BY <2>2, <2>3
<1>10. ActiveIsConversions' /\ dActive' \in [DHid -> Nat]
  <2>1. dActive' = [g \in DHid |-> dActive'[g]]
    BY <1>8 DEF StoreInv
  <2> QED BY <1>9, <2>1 DEF ActiveIsConversions
<1>11. HoldersKnow'
  BY <1>3, <1>4, <1>5 DEF StoreInv, HoldersKnow
<1>12. ConvertedOnce'
  <2> SUFFICES ASSUME NEW q \in DReq, NEW g, NEW l, g = dReq'[q].h, l = dReq'[q].k,
                      dReq'[q].pc = "convert", dReq'[q].mine
               PROVE  l \notin ToSet(dTracks'[g].frags) /\ Holding(g, l)' = {q}
    BY DEF ConvertedOnce, Holding
  <2>1. q # r /\ dReq'[q] = dReq[q]
    BY <1>3, <1>4
  <2>2. /\ g \in DHid /\ l \in DFrag /\ Stored(g) /\ l \notin ToSet(dTracks[g].frags)
        /\ Holding(g, l) = {q}
    BY <2>1 DEF StoreInv, HoldersKnow, ConvertedOnce
  <2>3. ~(g = h /\ l = k)
    BY <1>1, <1>2, <2>1, <2>2 DEF Holding
  <2>4. Holding(g, l)' = Holding(g, l)
    BY <1>2, <1>3, <1>4, <2>3 DEF Holding
  <2>5. l \notin ToSet(dTracks'[g].frags)
    BY <1>5, <2>2, <2>3
  <2> QED BY <2>2, <2>4, <2>5
<1> QED
  BY <1>1, <1>4, <1>5, <1>7, <1>10, <1>11, <1>12 DEF StoreInv

-----------------------------------------------------------------------------
(* The clean-up, and registrations.                                        *)

\* Tracks leave, and what was held of them is held no longer; nothing else changes.
\* The registration of h puts a track without fragments in the place of h, too.
LEMMA TracksLeaveKeeps ==
    ASSUME StoreInv, UNCHANGED <<dPinned, dActive>>, NEW rest \in SUBSET DHid,
           NEW old \in SUBSET rest, TracksOK', Ordered(Tracks, dOlder)', Tracks' = rest,
           TracksBounded', \A h \in DHid : dPinned[h] > 0 => h \in rest,
           \A h \in old : Stored(h) /\ dTracks'[h] = dTracks[h],
           dReq' = [r \in DReq |-> [dReq[r] EXCEPT !.mine = @ /\ dReq[r].h \in old]]
    PROVE  StoreInv'
<1>1. ASSUME NEW r \in DReq
      PROVE  /\ dReq'[r].pc = dReq[r].pc /\ dReq'[r].h = dReq[r].h /\ dReq'[r].k = dReq[r].k
             /\ dReq'[r] \in ReqRec
             /\ dReq'[r].mine <=> dReq[r].mine /\ dReq[r].h \in old
  BY DEF StoreInv, ReqRec
<1>2. dReq' \in [DReq -> ReqRec]
  <2>1. dReq' = [r \in DReq |-> dReq'[r]]
    OBVIOUS
  <2> QED BY <1>1, <2>1
<1>3. PinnedStays'
  BY DEF PinnedStays, Tracks
<1>4. ActiveIsConversions'
  <2>1. \A g \in DHid : {q \in DReq : dReq'[q].pc = "convert" /\ dReq'[q].h = g}
                         = {q \in DReq : dReq[q].pc = "convert" /\ dReq[q].h = g}
    BY <1>1
  <2> QED BY <2>1 DEF StoreInv, ActiveIsConversions
<1>5. HoldersKnow'
  <2>1. \A h \in old : Stored(h)'
    BY DEF Tracks
  <2>2. \A r \in DReq : /\ dReq[r].pc # "idle" => dReq[r].h \in DHid /\ dReq[r].k \in DFrag
                        /\ dReq[r].mine => dReq[r].pc # "idle"
    BY DEF StoreInv, HoldersKnow
  <2> SUFFICES ASSUME NEW r \in DReq
               PROVE  /\ dReq'[r].pc # "idle" => dReq'[r].h \in DHid /\ dReq'[r].k \in DFrag
                      /\ dReq'[r].mine => dReq'[r].pc # "idle" /\ dTracks'[dReq'[r].h] # DNil
    BY DEF HoldersKnow, Stored
  <2> QED BY <1>1, <2>1, <2>2 DEF Stored
<1>6. ConvertedOnce'
  <2>1. \A g \in DHid, l \in DFrag : Holding(g, l)' = Holding(g, l)
    BY <1>1 DEF Holding
  <2> SUFFICES ASSUME NEW q \in DReq, (dReq[q].pc = "convert" /\ dReq[q].mine)'
               PROVE  (/\ dReq[q].k \notin ToSet(dTracks[dReq[q].h].frags)
                       /\ Holding(dReq[q].h, dReq[q].k) = {q})'
    BY DEF ConvertedOnce
  <2> DEFINE g == dReq[q].h
             l == dReq[q].k
  <2>2. dReq'[q].h = g /\ dReq'[q].k = l /\ dReq[q].pc = "convert" /\ dReq[q].mine /\ g \in old
    BY <1>1
  <2>3. g \in DHid /\ l \in DFrag /\ l \notin ToSet(dTracks[g].frags) /\ Holding(g, l) = {q}
    BY <2>2 DEF StoreInv, HoldersKnow, ConvertedOnce
  <2> QED BY <2>1, <2>2, <2>3
<1> QED
  BY <1>2, <1>3, <1>4, <1>5, <1>6 DEF StoreInv

LEMMA TracksFinite ==
    ASSUME NEW S \in SUBSET DHid
    PROVE  IsFiniteSet(S) /\ Cardinality(S) \in Nat
BY DualAssumption, FS_Subset, FS_CardinalityType

LEMMA CleanupKeeps == ASSUME StoreInv, CleanupIdle PROVE StoreInv'
<1>1. PICK gone \in SUBSET DHid : gone = {h \in DHid : Releasable(h)}
  OBVIOUS
<1>2. /\ dTracks' = [h \in DHid |-> IF h \in gone THEN DNil ELSE dTracks[h]]
      /\ dOlder' = [h \in DHid |-> IF h \in gone THEN {} ELSE dOlder[h] \ gone]
      /\ dReq' = [r \in DReq |-> [dReq[r] EXCEPT !.mine = @ /\ dReq[r].h \notin gone]]
      /\ UNCHANGED <<dPinned, dActive>>
  BY <1>1 DEF CleanupIdle
<1>3. \A h \in gone : Stored(h) /\ dPinned[h] = 0
  BY <1>1 DEF Releasable
<1>4. PICK rest \in SUBSET DHid : rest = Tracks \ gone
  BY DEF Tracks
<1>5. /\ \A h \in DHid : Stored(h)' <=> h \in rest
      /\ \A h \in rest : Stored(h) /\ dTracks'[h] = dTracks[h] /\ h \notin gone
  BY <1>2, <1>4 DEF Stored, Tracks
<1>6. Tracks' = rest
  BY <1>5 DEF Tracks
<1>7. TracksOK'
  BY <1>2, <1>5 DEF StoreInv, TracksOK
<1>8. Ordered(Tracks, dOlder)'
  <2>1. /\ dOlder \in [DHid -> SUBSET DHid]
        /\ \A h \in DHid : \A g \in dOlder[h] : h \in Tracks /\ g \in Tracks
        /\ Tracks \in SUBSET DHid /\ rest \in SUBSET Tracks
    BY <1>4 DEF StoreInv, Ordered, Tracks
  <2>2. /\ dOlder' \in [DHid -> SUBSET DHid]
        /\ \A h \in DHid : dOlder'[h] = IF h \in rest THEN dOlder[h] \cap rest ELSE {}
    BY <1>2, <1>4, <2>1
  <2>3. PICK new \in [DHid -> SUBSET DHid], S \in SUBSET DHid,
               older \in [DHid -> SUBSET DHid] :
          new = dOlder' /\ S = Tracks /\ older = dOlder
    BY <2>1, <2>2
  <2>4. Ordered(S, older) /\ rest \in SUBSET S
    BY <2>1, <2>3 DEF StoreInv
  <2>5. (\A h \in rest : new[h] = older[h] \cap rest) /\ \A h \in DHid \ rest : new[h] = {}
    BY <2>2, <2>3
  <2>7. Ordered(rest, new)
    BY <2>4, <2>5, OrderCut
  <2>6. Ordered(Tracks', dOlder')
    BY <1>6, <2>3, <2>7
  <2> QED BY <2>6 DEF Ordered
<1>9. TracksBounded'
  <2>1. Tracks \in SUBSET DHid /\ rest \in SUBSET Tracks
    BY <1>4 DEF Tracks
  <2>2. IsFiniteSet(Tracks) /\ Cardinality(Tracks) \in Nat /\ Cardinality(rest) \in Nat
    BY <2>1, TracksFinite
  <2>3. Cardinality(rest) <= Cardinality(Tracks)
    BY <2>1, <2>2, FS_Subset
  <2>4. Cardinality(Tracks) <= DMaxTracks /\ DMaxTracks \in Nat
    BY DualAssumption DEF StoreInv, TracksBounded
  <2>5. Cardinality(rest) <= DMaxTracks
    BY <2>2, <2>3, <2>4
  <2> QED BY <1>6, <2>5 DEF TracksBounded
<1>10. \A h \in DHid : dPinned[h] > 0 => h \in rest
  BY <1>3, <1>4 DEF StoreInv, PinnedStays, Tracks
<1>11. dReq' = [r \in DReq |-> [dReq[r] EXCEPT !.mine = @ /\ dReq[r].h \in rest]]
  <2>1. \A r \in DReq : dReq[r] \in ReqRec /\ (dReq[r].mine => dReq[r].h \in Tracks)
    BY DEF StoreInv, HoldersKnow, Tracks, ReqRec
  <2>2. \A r \in DReq : (dReq[r].mine /\ dReq[r].h \notin gone) = (dReq[r].mine /\ dReq[r].h \in rest)
    BY <1>4, <2>1
  <2> QED BY <1>2, <2>2
<1> QED
  BY <1>2, <1>5, <1>6, <1>7, <1>8, <1>9, <1>10, <1>11, TracksLeaveKeeps

LEMMA TickKeeps == ASSUME StoreInv, DualTick PROVE StoreInv'
<1>1. PICK g \in Tracks :
        /\ dTracks[g].age < Expired
        /\ dTracks' = [h \in DHid |->
             IF h \in dOlder[g] \cup {g} /\ dTracks[h].age < dTracks[g].age + 1
             THEN [dTracks[h] EXCEPT !.age = dTracks[g].age + 1] ELSE dTracks[h]]
        /\ UNCHANGED <<dOlder, dPinned, dActive, dReq>>
  BY DEF DualTick
<1>2. PICK n : n = dTracks[g].age + 1
  OBVIOUS
<1>3. /\ g \in DHid /\ dTracks \in [DHid -> Track \cup {DNil}] /\ dTracks[g] \in Track
      /\ \A h \in dOlder[g] \cup {g} : h \in DHid /\ Stored(h) /\ dTracks[h] \in Track
  BY DEF StoreInv, TracksOK, Ordered, Tracks, Stored
<1>4. n \in 0 .. Expired
  <2>1. dTracks[g].age \in 0 .. 2 /\ dTracks[g].age < 2
    BY <1>1, <1>3 DEF Track, Expired
  <2> QED BY <1>2, <2>1 DEF Expired
<1>5. \A t \in Track : [t EXCEPT !.age = n] \in Track /\ [t EXCEPT !.age = n].frags = t.frags
  BY <1>4 DEF Track
<1>6. ASSUME NEW h \in DHid
      PROVE  /\ dTracks'[h] \in Track \cup {DNil}
             /\ Stored(h)' <=> Stored(h)
             /\ Stored(h) => dTracks'[h].frags = dTracks[h].frags
  <2>1. CASE h \in dOlder[g] \cup {g} /\ dTracks[h].age < n
    <3>1. dTracks'[h] = [dTracks[h] EXCEPT !.age = n]
      BY <1>1, <1>2, <2>1
    <3>2. dTracks'[h] \in Track /\ dTracks'[h].frags = dTracks[h].frags /\ Stored(h)
      BY <1>3, <1>5, <2>1, <3>1
    <3> QED BY <3>2, DualAssumption DEF Stored
  <2>2. CASE ~(h \in dOlder[g] \cup {g} /\ dTracks[h].age < n)
    <3>1. dTracks'[h] = dTracks[h]
      BY <1>1, <1>2, <2>2
    <3> QED BY <1>3, <3>1 DEF Stored
  <2> QED BY <2>1, <2>2
<1>7. dTracks' \in [DHid -> Track \cup {DNil}]
  <2>1. dTracks' = [h \in DHid |-> dTracks'[h]]
    BY <1>1
  <2> QED BY <1>6, <2>1
<1>8. TracksOK'
  BY <1>6, <1>7 DEF StoreInv, TracksOK
<1>9. Tracks' = Tracks
  BY <1>6 DEF Tracks
<1>10. Ordered(Tracks, dOlder)'
  BY <1>1, <1>9 DEF StoreInv, Ordered
<1>11. SameTracks
  BY <1>6, <1>8, <1>10 DEF SameTracks
<1> QED
  BY <1>1, <1>11, SameReqKeeps DEF StoreInv, PinnedStays

LEMMA PlaylistKeeps == ASSUME StoreInv, NEW h \in DHid, AudioPlaylist(h) PROVE StoreInv'
<1>1. SameTracks
  BY TouchedKeeps DEF AudioPlaylist
<1> QED
  BY <1>1, SameReqKeeps DEF AudioPlaylist, StoreInv, PinnedStays

LEMMA PlayKeeps == ASSUME StoreInv, PlayNext PROVE StoreInv'
BY FragmentBytesKeeps, LockGrantedKeeps, ConvertEndsKeeps, PlaylistKeeps, CleanupKeeps, TickKeeps
   DEF PlayNext

\* The order of use after a track became the last one used.
LEMMA UsedLastOrders ==
    ASSUME StoreInv, NEW h \in DHid
    PROVE  /\ UsedLast(h) \in [DHid -> SUBSET DHid]
           /\ Ordered(Tracks \cup {h}, UsedLast(h))
<1>1. Tracks \in SUBSET DHid /\ Ordered(Tracks, dOlder) /\ dOlder \in [DHid -> SUBSET DHid]
  BY DEF StoreInv, Ordered, Tracks
<1>2. PICK new : new = UsedLast(h)
  OBVIOUS
<1>3. /\ new \in [DHid -> SUBSET DHid]
      /\ \A g \in DHid : new[g] = IF g = h THEN Tracks \ {h} ELSE dOlder[g] \ {h}
  BY <1>1, <1>2 DEF UsedLast
<1>4. Ordered(Tracks \cup {h}, new)
  BY <1>1, <1>3, OrderMoved, ZenonT(60)
<1> QED
  BY <1>2, <1>3, <1>4

\* What _remember leaves: the pinned tracks, and no more than the limit.
LEMMA RemainingBounded ==
    ASSUME StoreInv, NEW h \in DHid
    PROVE  /\ Remaining(h) \in SUBSET (Tracks \cup {h})
           /\ \A g \in DHid : dPinned[g] > 0 => g \in Remaining(h)
           /\ Cardinality(Remaining(h)) <= DMaxTracks
<1>1. PICK all \in SUBSET DHid : all = Tracks \cup {h}
  BY DEF Tracks
<1>2. PICK expired \in SUBSET DHid :
        expired = {g \in Evictable(all \ {h}) : dTracks[g].age = Expired}
  BY DEF Evictable
<1>3. PICK kept \in SUBSET all : kept = all \ expired
  OBVIOUS
<1>4. PICK loose \in SUBSET kept : loose = {g \in kept : dPinned[g] = 0}
  OBVIOUS
<1>5. PICK out \in SUBSET loose : out = Overdue(h, kept)
  BY <1>4 DEF Overdue, Evictable
<1>6. Remaining(h) = kept \ out
  BY <1>1, <1>2, <1>3, <1>5 DEF Remaining
<1>7. /\ dPinned \in [DHid -> Nat] /\ PinnedStays /\ h \in kept
      /\ \A g \in expired : dPinned[g] = 0
  BY <1>1, <1>2, <1>3 DEF StoreInv, Evictable
<1>8. \A g \in DHid : dPinned[g] > 0 => g \in kept \ out
  BY <1>1, <1>3, <1>4, <1>7 DEF PinnedStays, Tracks
<1>9. PICK c, n, m \in Nat :
        /\ c = Cardinality(kept) /\ n = Cardinality(Tracks) /\ m = DMaxTracks /\ n <= m
        /\ IsFiniteSet(kept) /\ IsFiniteSet(Tracks) /\ kept \in SUBSET DHid
  <2>1. Tracks \in SUBSET DHid /\ kept \in SUBSET DHid
    BY DEF Tracks
  <2>2. /\ IsFiniteSet(kept) /\ IsFiniteSet(Tracks) /\ Cardinality(kept) \in Nat
        /\ Cardinality(Tracks) \in Nat
    BY <2>1, TracksFinite
  <2>3. DMaxTracks \in Nat /\ Cardinality(Tracks) <= DMaxTracks
    BY DualAssumption DEF StoreInv, TracksBounded
  <2> QED BY <2>1, <2>2, <2>3
<1>10. Cardinality(kept \ out) <= m
  <2>1. CASE c <= m
    <3>1. kept \ out \in SUBSET kept
      OBVIOUS
    <3>2. Cardinality(kept \ out) <= c /\ Cardinality(kept \ out) \in Nat
      BY <1>9, <3>1, FS_Subset, TracksFinite
    <3> QED BY <2>1, <3>2
  <2>2. CASE c > m
    <3>1. h \notin Tracks
      <4> SUFFICES ASSUME h \in Tracks PROVE FALSE
        OBVIOUS
      <4>1. kept \in SUBSET Tracks
        BY <1>1
      <4>2. c <= n
        BY <1>9, <4>1, FS_Subset
      <4> QED BY <1>9, <2>2, <4>2
    <3>2. c <= n + 1
      <4>1. IsFiniteSet(Tracks \cup {h}) /\ Cardinality(Tracks \cup {h}) = n + 1
        BY <1>9, <3>1, FS_AddElement
      <4>2. kept \in SUBSET (Tracks \cup {h})
        BY <1>1
      <4>3. Cardinality(kept) <= Cardinality(Tracks \cup {h})
        BY <4>1, <4>2, FS_Subset
      <4> QED BY <1>9, <4>1, <4>3
    <3>3. c = m + 1
      BY <1>9, <2>2, <3>2
    <3>4. h \in loose
      BY <1>4, <1>7, <3>1 DEF PinnedStays, Tracks
    <3>5. PICK new : new = UsedLast(h) /\ Ordered(all, new)
      BY <1>1, UsedLastOrders
    <3>6. IsFiniteSet(loose) /\ loose \in SUBSET all /\ loose # {}
      BY <1>9, <3>4, TracksFinite
    <3>7. PICK g \in loose : new[g] \cap loose = {}
      BY <3>5, <3>6, OrderLeast
    <3>8. g \in out
      <4>1. Cardinality(UsedLast(h)[g] \cap loose) = 0
        BY <3>5, <3>7, FS_EmptySet
      <4>2. Cardinality(kept) - DMaxTracks = 1
        BY <1>9, <3>3
      <4>3. Cardinality(UsedLast(h)[g] \cap loose) < Cardinality(kept) - DMaxTracks
        BY <4>1, <4>2
      <4> QED BY <1>4, <1>5, <4>3 DEF Overdue, Evictable
    <3>9. IsFiniteSet(kept \ {g}) /\ Cardinality(kept \ {g}) = c - 1
      BY <1>9, FS_RemoveElement
    <3>10. kept \ out \in SUBSET (kept \ {g})
      BY <3>8
    <3>11. Cardinality(kept \ out) <= Cardinality(kept \ {g}) /\ Cardinality(kept \ out) \in Nat
      BY <1>9, <3>9, <3>10, FS_Subset, TracksFinite
    <3> QED BY <1>9, <3>3, <3>9, <3>11
  <2> QED BY <1>9, <2>1, <2>2
<1> QED
  BY <1>1, <1>6, <1>8, <1>9, <1>10

LEMMA RegisteredKeeps ==
    ASSUME StoreInv, NEW h \in DHid, Registered(h), UNCHANGED <<dPinned, dActive>>
    PROVE  StoreInv'
<1> DEFINE none == [age |-> 0, frags |-> <<>>]
<1>1. PICK rest \in SUBSET DHid : rest = Remaining(h)
  BY RemainingBounded DEF Tracks
<1>2. /\ rest \in SUBSET (Tracks \cup {h}) /\ \A g \in DHid : dPinned[g] > 0 => g \in rest
      /\ Cardinality(rest) <= DMaxTracks
  BY <1>1, RemainingBounded
<1>3. /\ dTracks' = [g \in DHid |-> IF g \notin rest THEN DNil
                                    ELSE IF g = h THEN none ELSE dTracks[g]]
      /\ dOlder' = [g \in DHid |-> IF g \in rest THEN UsedLast(h)[g] \cap rest ELSE {}]
      /\ dReq' = [r \in DReq |-> [dReq[r] EXCEPT !.mine = @ /\ dReq[r].h \in rest \ {h}]]
  BY <1>1 DEF Registered
<1>4. none \in Track /\ none # DNil /\ IsInjective(none.frags)
  <2>1. 0 \in 0 .. Expired /\ <<>> \in Seq(DFrag) /\ DOMAIN <<>> = {}
    BY EmptySeq DEF Expired
  <2>2. none \in Track
    BY <2>1 DEF Track
  <2>3. IsInjective(<<>>)
    BY <2>1 DEF IsInjective
  <2> QED BY <2>2, <2>3, DualAssumption
<1>5. /\ \A g \in DHid \ rest : dTracks'[g] = DNil
      /\ \A g \in rest \ {h} : dTracks'[g] = dTracks[g] /\ Stored(g)
      /\ h \in rest => dTracks'[h] = none
      /\ dTracks \in [DHid -> Track \cup {DNil}]
  BY <1>2, <1>3 DEF Tracks, StoreInv, TracksOK
<1> HIDE DEF none
<1>6. \A g \in DHid : Stored(g)' <=> g \in rest
  BY <1>4, <1>5 DEF Stored
<1>7. Tracks' = rest
  BY <1>6 DEF Tracks
<1>8. TracksOK'
  <2>1. \A g \in DHid : dTracks'[g] \in Track \cup {DNil}
    BY <1>4, <1>5
  <2>2. dTracks' \in [DHid -> Track \cup {DNil}]
    BY <1>3, <2>1
  <2>3. \A g \in rest : IsInjective(dTracks'[g].frags)
    BY <1>4, <1>5 DEF StoreInv, TracksOK
  <2> QED BY <1>6, <2>2, <2>3 DEF TracksOK
<1>9. Ordered(Tracks, dOlder)'
  <2>1. dOlder' \in [DHid -> SUBSET DHid]
    BY <1>3
  <2>2. PICK new \in [DHid -> SUBSET DHid], S \in SUBSET DHid,
               older \in [DHid -> SUBSET DHid] :
          new = dOlder' /\ S = Tracks \cup {h} /\ older = UsedLast(h)
    BY <2>1, UsedLastOrders DEF Tracks
  <2>3. Ordered(S, older) /\ rest \in SUBSET S
    BY <1>2, <2>2, UsedLastOrders
  <2>4. (\A g \in rest : new[g] = older[g] \cap rest) /\ \A g \in DHid \ rest : new[g] = {}
    BY <1>3, <2>2
  <2>5. Ordered(rest, new)
    BY <2>3, <2>4, OrderCut
  <2>6. Ordered(Tracks', dOlder')
    BY <1>7, <2>2, <2>5
  <2> QED BY <2>6 DEF Ordered
<1>10. TracksBounded'
  BY <1>2, <1>7 DEF TracksBounded
<1>11. PICK old \in SUBSET rest : old = rest \ {h}
  OBVIOUS
<1>12. /\ \A g \in old : Stored(g) /\ dTracks'[g] = dTracks[g]
       /\ dReq' = [r \in DReq |-> [dReq[r] EXCEPT !.mine = @ /\ dReq[r].h \in old]]
  BY <1>3, <1>5, <1>11
<1> QED
  BY <1>2, <1>7, <1>8, <1>9, <1>10, <1>12, TracksLeaveKeeps

\* Pins come after a look at the track, and go one by one.
LEMMA PinnedKeeps ==
    ASSUME StoreInv, NEW h \in DHid, Stored(h), Touched(h), Pinned(h), UNCHANGED <<dActive, dReq>>
    PROVE  StoreInv'
<1>1. SameTracks
  BY TouchedKeeps
<1>2. dPinned' \in [DHid -> Nat] /\ \A g \in DHid : dPinned'[g] > 0 => Stored(g)
  BY DEF StoreInv, PinnedStays, Pinned
<1> QED
  BY <1>1, <1>2, SameReqKeeps

LEMMA UnpinnedKeeps ==
    ASSUME StoreInv, NEW hs, Unpinned(hs), UNCHANGED <<dTracks, dOlder, dActive, dReq>>
    PROVE  StoreInv'
<1>1. SameTracks
  BY NothingTouched
<1>2. dPinned' \in [DHid -> Nat] /\ \A g \in DHid : dPinned'[g] > 0 => Stored(g)
  BY DEF StoreInv, PinnedStays, Unpinned
<1> QED
  BY <1>1, <1>2, SameReqKeeps

-----------------------------------------------------------------------------
(* Builds.                                                                 *)

BuildRec == [pc : Awaiting \cup {"idle", "stop", "over"}, h : DHid \cup {DNil},
             prep : {"none", "key", "resolve", "done", "failed", "cancelled"},
             subs : {"none", "run", "done", "cancelled"}, pins : SUBSET DHid,
             meas : DHid \cup {DNil}, synced : BOOLEAN]

\* Where a build stands says which tasks it runs, and which tracks it has pinned.
GoodBuild(t) ==
    /\ t.pc # "idle" => t.h \in DHid
    /\ t.pc = "sync" => t.meas = t.h
    /\ t.meas # DNil => t.pc \in {"bsync", "sync"}
    /\ t.pc \in {"idle", "over"} => t.pins = {}
    /\ t.pc \in {"idle", "stop", "over"} => t.prep \notin {"key", "resolve"} /\ t.subs # "run"
    /\ t.prep \in {"key", "resolve"} => t.h \notin t.pins
    /\ t.prep = "done" /\ t.pc \notin {"idle", "over"} => t.h \in t.pins
    /\ t.pc \in {"manifest", "bkey", "bresolve", "bsync"} => t.h # DBridge
    /\ t.pc \in {"manifest", "bkey", "bresolve"} => DBridge \notin t.pins
    /\ t.pc \in {"sync", "subs"} => t.prep = "done"
    /\ t.pc = "subs" => t.synced

BuildInv ==
    /\ StoreInv /\ dBuild \in [DBuild -> BuildRec]
    /\ \A b \in DBuild : GoodBuild(dBuild[b])
    /\ PinsAreHeld

\* Each pin that comes or goes is one the build takes or gives up.
Accounted(t, new) ==
    \/ new.pins = t.pins /\ new.meas = t.meas /\ dPinned' = dPinned
    \/ \E h \in DHid : /\ Pinned(h) /\ h \notin t.pins
                       /\ new.pins = t.pins \cup {h} /\ new.meas = t.meas
    \/ \E h \in DHid : Pinned(h) /\ t.meas = DNil /\ new.meas = h /\ new.pins = t.pins
    \/ \E h \in DHid : Unpinned({h}) /\ t.meas = h /\ new.meas = DNil /\ new.pins = t.pins
    \/ Unpinned(t.pins) /\ new.pins = {} /\ new.meas = t.meas

LEMMA BuildsFinite ==
    ASSUME NEW S \in SUBSET DBuild PROVE IsFiniteSet(S) /\ Cardinality(S) \in Nat
BY BuildAssumption, FS_Subset, FS_CardinalityType

\* One build more among those that hold a track, or one less.
LEMMA HoldersMoved ==
    ASSUME NEW S \in SUBSET DBuild, NEW b \in DBuild
    PROVE  /\ b \notin S => Cardinality(S \cup {b}) = Cardinality(S) + 1
           /\ b \in S => Cardinality(S \ {b}) = Cardinality(S) - 1
           /\ b \in S => Cardinality(S) > 0
<1>1. IsFiniteSet(S) /\ Cardinality(S) \in Nat /\ Cardinality(S \ {b}) \in Nat
  BY BuildsFinite
<1>2. b \notin S => Cardinality(S \cup {b}) = Cardinality(S) + 1
  BY <1>1, FS_AddElement
<1>3. b \in S => Cardinality(S \ {b}) = Cardinality(S) - 1
  BY <1>1, FS_RemoveElement
<1> QED
  BY <1>1, <1>2, <1>3

LEMMA AccountKeeps ==
    ASSUME BuildInv, NEW b \in DBuild, NEW t \in BuildRec, t = dBuild[b], NEW new \in BuildRec,
           Set(b, new), Accounted(t, new)
    PROVE  PinsAreHeld'
<1>1. /\ \A c \in DBuild \ {b} : dBuild'[c] = dBuild[c]
      /\ dBuild'[b] = new /\ dPinned \in [DHid -> Nat] /\ DNil \notin DHid
  BY DualAssumption DEF BuildInv, StoreInv, Set
<1> SUFFICES ASSUME NEW g \in DHid
             PROVE  dPinned'[g] = Cardinality({c \in DBuild : g \in dBuild'[c].pins})
                                + Cardinality({c \in DBuild : dBuild'[c].meas = g})
  BY DEF PinsAreHeld
<1>2. PICK P, Q \in SUBSET DBuild : P = {c \in DBuild : g \in dBuild[c].pins}
                                    /\ Q = {c \in DBuild : g \in dBuild'[c].pins}
  OBVIOUS
<1>3. PICK M, N \in SUBSET DBuild : M = {c \in DBuild : dBuild[c].meas = g}
                                    /\ N = {c \in DBuild : dBuild'[c].meas = g}
  OBVIOUS
<1>4. dPinned[g] = Cardinality(P) + Cardinality(M) /\ Cardinality(P) \in Nat /\ Cardinality(M) \in Nat
  BY <1>2, <1>3, BuildsFinite DEF BuildInv, PinsAreHeld
<1>5. /\ (g \in new.pins <=> g \in t.pins) => Q = P
      /\ g \in new.pins /\ g \notin t.pins => b \notin P /\ Q = P \cup {b}
      /\ g \notin new.pins /\ g \in t.pins => b \in P /\ Q = P \ {b}
  BY <1>1, <1>2
<1>6. /\ (new.meas = g <=> t.meas = g) => N = M
      /\ new.meas = g /\ t.meas # g => b \notin M /\ N = M \cup {b}
      /\ new.meas # g /\ t.meas = g => b \in M /\ N = M \ {b}
  BY <1>1, <1>3
<1> SUFFICES dPinned'[g] = Cardinality(Q) + Cardinality(N)
  BY <1>2, <1>3
<1>7. CASE new.pins = t.pins /\ new.meas = t.meas /\ dPinned' = dPinned
  BY <1>4, <1>5, <1>6, <1>7
<1>8. CASE \E h \in DHid : /\ Pinned(h) /\ h \notin t.pins
                           /\ new.pins = t.pins \cup {h} /\ new.meas = t.meas
  <2>1. PICK h \in DHid : /\ Pinned(h) /\ h \notin t.pins
                          /\ new.pins = t.pins \cup {h} /\ new.meas = t.meas
    BY <1>8
  <2>2. N = M
    BY <1>6, <2>1
  <2>3. CASE g = h
    <3>1. b \notin P /\ Q = P \cup {b} /\ dPinned'[g] = dPinned[g] + 1
      BY <1>1, <1>5, <2>1, <2>3 DEF Pinned
    <3>2. Cardinality(Q) = Cardinality(P) + 1
      BY <3>1, HoldersMoved
    <3> QED BY <1>4, <2>2, <3>1, <3>2
  <2>4. CASE g # h
    <3>1. Q = P /\ dPinned'[g] = dPinned[g]
      BY <1>1, <1>5, <2>1, <2>4 DEF Pinned
    <3> QED BY <1>4, <2>2, <3>1
  <2> QED BY <2>3, <2>4
<1>9. CASE \E h \in DHid : Pinned(h) /\ t.meas = DNil /\ new.meas = h /\ new.pins = t.pins
  <2>1. PICK h \in DHid : Pinned(h) /\ t.meas = DNil /\ new.meas = h /\ new.pins = t.pins
    BY <1>9
  <2>2. Q = P
    BY <1>5, <2>1
  <2>3. CASE g = h
    <3>1. b \notin M /\ N = M \cup {b} /\ dPinned'[g] = dPinned[g] + 1
      BY <1>1, <1>6, <2>1, <2>3 DEF Pinned
    <3>2. Cardinality(N) = Cardinality(M) + 1
      BY <3>1, HoldersMoved
    <3> QED BY <1>4, <2>2, <3>1, <3>2
  <2>4. CASE g # h
    <3>1. N = M /\ dPinned'[g] = dPinned[g]
      BY <1>1, <1>6, <2>1, <2>4 DEF Pinned
    <3> QED BY <1>4, <2>2, <3>1
  <2> QED BY <2>3, <2>4
<1>10. CASE \E h \in DHid : Unpinned({h}) /\ t.meas = h /\ new.meas = DNil /\ new.pins = t.pins
  <2>1. PICK h \in DHid : Unpinned({h}) /\ t.meas = h /\ new.meas = DNil /\ new.pins = t.pins
    BY <1>10
  <2>2. Q = P
    BY <1>5, <2>1
  <2>3. CASE g = h
    <3>1. b \in M /\ N = M \ {b}
      BY <1>1, <1>6, <2>1, <2>3
    <3>2. Cardinality(N) = Cardinality(M) - 1 /\ Cardinality(M) > 0
      BY <3>1, HoldersMoved
    <3>3. dPinned[g] > 0
      BY <1>4, <3>2
    <3>4. dPinned'[g] = dPinned[g] - 1
      BY <2>1, <2>3, <3>3 DEF Unpinned
    <3> QED BY <1>4, <2>2, <3>2, <3>4
  <2>4. CASE g # h
    <3>1. N = M /\ dPinned'[g] = dPinned[g]
      BY <1>1, <1>6, <2>1, <2>4 DEF Unpinned
    <3> QED BY <1>4, <2>2, <3>1
  <2> QED BY <2>3, <2>4
<1>11. CASE Unpinned(t.pins) /\ new.pins = {} /\ new.meas = t.meas
  <2>2. N = M
    BY <1>6, <1>11
  <2>3. CASE g \in t.pins
    <3>1. b \in P /\ Q = P \ {b}
      BY <1>5, <1>11, <2>3
    <3>2. Cardinality(Q) = Cardinality(P) - 1 /\ Cardinality(P) > 0
      BY <3>1, HoldersMoved
    <3>3. dPinned[g] > 0
      BY <1>4, <3>2
    <3>4. dPinned'[g] = dPinned[g] - 1
      BY <1>11, <2>3, <3>3 DEF Unpinned
    <3> QED BY <1>4, <2>2, <3>2, <3>4
  <2>4. CASE g \notin t.pins
    <3>1. Q = P /\ dPinned'[g] = dPinned[g]
      BY <1>1, <1>5, <1>11, <2>4 DEF Unpinned
    <3> QED BY <1>4, <2>2, <3>1
  <2> QED BY <2>3, <2>4
<1> QED
  BY <1>7, <1>8, <1>9, <1>10, <1>11 DEF Accounted

LEMMA BuildStepKeeps ==
    ASSUME BuildInv, StoreInv', NEW b \in DBuild, NEW new \in BuildRec, GoodBuild(new),
           Set(b, new), Accounted(dBuild[b], new)
    PROVE  BuildInv'
<1>1. PICK t \in BuildRec : t = dBuild[b]
  BY DEF BuildInv
<1>2. PinsAreHeld'
  BY <1>1, AccountKeeps
<1>3. /\ dBuild' \in [DBuild -> BuildRec] /\ dBuild'[b] = new
      /\ \A c \in DBuild \ {b} : dBuild'[c] = dBuild[c]
  BY DEF BuildInv, Set
<1>4. \A c \in DBuild : GoodBuild(dBuild'[c])
  BY <1>3 DEF BuildInv
<1>5. (\A c \in DBuild : GoodBuild(dBuild[c]))'
  BY <1>4 DEF GoodBuild
<1> QED
  BY <1>2, <1>3, <1>5 DEF BuildInv

\* A step of the build alone.
LEMMA QuietStepKeeps ==
    ASSUME BuildInv, NEW b \in DBuild, NEW new \in BuildRec, GoodBuild(new), Set(b, new),
           UNCHANGED storeVars, new.pins = dBuild[b].pins, new.meas = dBuild[b].meas
    PROVE  BuildInv'
<1>1. SameTracks /\ dPinned' = dPinned /\ UNCHANGED <<dActive, dReq>>
  BY NothingTouched DEF BuildInv, storeVars
<1>2. StoreInv'
  BY <1>1, SameReqKeeps DEF BuildInv, StoreInv, PinnedStays
<1>3. Accounted(dBuild[b], new)
  BY <1>1 DEF Accounted
<1> QED
  BY <1>2, <1>3, BuildStepKeeps

\* A registration for the build, kept or not.
LEMMA PrepareRegistersKeeps ==
    ASSUME BuildInv, NEW b \in DBuild, NEW h \in DHid, NEW kept \in BuildRec,
           NEW failed \in BuildRec, GoodBuild(kept), GoodBuild(failed),
           kept.pins = dBuild[b].pins, kept.meas = dBuild[b].meas,
           failed.pins = dBuild[b].pins, failed.meas = dBuild[b].meas,
           PrepareRegisters(b, h, kept, failed)
    PROVE  BuildInv'
<1>1. CASE Set(b, failed) /\ UNCHANGED storeVars
  BY <1>1, QuietStepKeeps
<1>2. CASE /\ Registered(h) /\ UNCHANGED <<dPinned, dActive>>
           /\ Set(b, IF h \in Remaining(h) THEN kept ELSE failed)
  <2>1. StoreInv'
    BY <1>2, RegisteredKeeps DEF BuildInv
  <2>2. PICK new \in {kept, failed} : Set(b, new)
    BY <1>2
  <2>3. new \in BuildRec /\ GoodBuild(new) /\ Accounted(dBuild[b], new)
    BY <1>2 DEF Accounted
  <2> QED BY <2>1, <2>2, <2>3, BuildStepKeeps
<1> QED
  BY <1>1, <1>2 DEF PrepareRegisters

LEMMA PreparePinsKeeps ==
    ASSUME BuildInv, NEW b \in DBuild, NEW h \in DHid, NEW new \in BuildRec, PreparePins(b, h, new),
           h \notin dBuild[b].pins, new.pins = dBuild[b].pins, new.meas = dBuild[b].meas,
           GoodBuild([new EXCEPT !.pins = @ \cup {h}])
    PROVE  BuildInv'
<1>1. PICK then : then = [new EXCEPT !.pins = @ \cup {h}]
  OBVIOUS
<1>2. /\ then \in BuildRec /\ then.pins = dBuild[b].pins \cup {h} /\ then.meas = dBuild[b].meas
  BY <1>1 DEF BuildRec
<1>3. GoodBuild(then) /\ Set(b, then)
  BY <1>1 DEF PreparePins
<1>4. Stored(h) /\ Touched(h) /\ Pinned(h) /\ UNCHANGED <<dActive, dReq>>
  BY DEF PreparePins
<1>5. StoreInv'
  BY <1>4, PinnedKeeps DEF BuildInv
<1>6. Accounted(dBuild[b], then)
  BY <1>2, <1>4 DEF Accounted
<1> QED
  BY <1>2, <1>3, <1>5, <1>6, BuildStepKeeps

LEMMA MeasureStartsKeeps ==
    ASSUME BuildInv, NEW b \in DBuild, NEW h \in DHid, NEW pc, MeasureStarts(b, h, pc),
           dBuild[b].meas = DNil, NEW new \in BuildRec, GoodBuild(new),
           new = [dBuild[b] EXCEPT !.pc = pc, !.meas = h]
    PROVE  BuildInv'
<1>1. dBuild[b] \in BuildRec
  BY DEF BuildInv
<1>2. new.pins = dBuild[b].pins /\ new.meas = h
  BY <1>1 DEF BuildRec
<1>3. Set(b, new)
  BY DEF MeasureStarts, To
<1>4. Stored(h) /\ Touched(h) /\ Pinned(h) /\ UNCHANGED <<dActive, dReq>>
  BY DEF MeasureStarts
<1>5. StoreInv'
  BY <1>4, PinnedKeeps DEF BuildInv
<1>6. Accounted(dBuild[b], new)
  BY <1>2, <1>4 DEF Accounted
<1> QED
  BY <1>3, <1>5, <1>6, BuildStepKeeps

LEMMA MeasuredKeeps ==
    ASSUME BuildInv, NEW b \in DBuild, dBuild[b].meas # DNil, Unpinned({dBuild[b].meas}),
           UNCHANGED <<dTracks, dOlder, dActive, dReq>>,
           NEW new \in BuildRec, GoodBuild(new), Set(b, new),
           new.pins = dBuild[b].pins, new.meas = DNil
    PROVE  BuildInv'
<1>1. dBuild[b].meas \in DHid
  BY DEF BuildInv, BuildRec
<1>2. StoreInv'
  BY UnpinnedKeeps DEF BuildInv
<1>3. Accounted(dBuild[b], new)
  BY <1>1 DEF Accounted
<1> QED
  BY <1>2, <1>3, BuildStepKeeps

\* The build leaves its try, whatever it was at.
LEMMA StoppedIsGood ==
    ASSUME BuildInv, NEW b \in DBuild, dBuild[b].pc \notin {"idle", "over"}
    PROVE  /\ Stopped(b) \in BuildRec /\ GoodBuild(Stopped(b))
           /\ Stopped(b).pins = dBuild[b].pins /\ Stopped(b).meas = DNil
<1>1. PICK t \in BuildRec : t = dBuild[b] /\ GoodBuild(t) /\ t.pc \notin {"idle", "over"}
  BY DEF BuildInv
<1>2. PICK p, u : p = Cancelled(t.prep, {"key", "resolve"}) /\ u = Cancelled(t.subs, {"run"})
  OBVIOUS
<1>3. /\ p \in {"none", "done", "failed", "cancelled"} /\ u \in {"none", "done", "cancelled"}
      /\ p = "done" => t.prep = "done"
  BY <1>2 DEF Cancelled, BuildRec
<1>4. PICK new : new = [t EXCEPT !.pc = "stop", !.prep = p, !.subs = u, !.meas = DNil]
  OBVIOUS
<1>5. Stopped(b) = new
  BY <1>1, <1>2, <1>4 DEF Stopped, To, BuildRec
<1>6. /\ new \in BuildRec /\ new.pc = "stop" /\ new.prep = p /\ new.subs = u /\ new.meas = DNil
      /\ new.h = t.h /\ new.pins = t.pins
  BY <1>3, <1>4 DEF BuildRec
<1>7. GoodBuild(new)
  BY <1>1, <1>3, <1>6 DEF GoodBuild
<1> QED
  BY <1>1, <1>5, <1>6, <1>7

LEMMA BuildStartsKeeps ==
    ASSUME BuildInv, NEW b \in DBuild, NEW h \in DHid, NEW cached \in BOOLEAN, BuildStarts(b, h, cached)
    PROVE  BuildInv'
<1>1. PICK pc \in {"wait", "manifest"} : /\ pc = IF cached \/ h = DBridge THEN "wait" ELSE "manifest"
                                         /\ pc = "manifest" => h # DBridge
  OBVIOUS
<1>2. PICK new : new = [BIdle EXCEPT !.pc = pc, !.h = h, !.prep = "key", !.subs = "run", !.synced = cached]
  OBVIOUS
<1>3. /\ new \in BuildRec /\ new.pc = pc /\ new.h = h /\ new.prep = "key" /\ new.pins = {} /\ new.meas = DNil
  BY <1>2 DEF BuildRec, BIdle, Awaiting
<1>4. GoodBuild(new)
  BY <1>1, <1>3 DEF GoodBuild
<1>5. dBuild[b].pins = {} /\ dBuild[b].meas = DNil
  BY DEF BuildStarts, BuildInv, GoodBuild
<1> QED
  BY <1>1, <1>2, <1>3, <1>4, <1>5, QuietStepKeeps DEF BuildStarts

LEMMA BridgeManifestKeeps == ASSUME BuildInv, NEW b \in DBuild, BridgeManifest(b) PROVE BuildInv'
<1>1. PICK t \in BuildRec : t = dBuild[b] /\ GoodBuild(t) /\ t.pc = "manifest"
  BY DEF BuildInv, BridgeManifest
<1>2. PICK pc \in {"bkey", "wait"} : Set(b, [t EXCEPT !.pc = pc]) /\ UNCHANGED storeVars
  BY <1>1 DEF BridgeManifest, To
<1>3. PICK new : new = [t EXCEPT !.pc = pc]
  OBVIOUS
<1>4. /\ new \in BuildRec /\ new.pc = pc /\ new.h = t.h /\ new.prep = t.prep /\ new.pins = t.pins
      /\ new.meas = t.meas
  BY <1>3 DEF BuildRec, Awaiting
<1>5. GoodBuild(new)
  BY <1>1, <1>4 DEF GoodBuild
<1> QED
  BY <1>1, <1>2, <1>3, <1>4, <1>5, QuietStepKeeps

LEMMA PrepTaskKeeps == ASSUME BuildInv, NEW b \in DBuild, PrepTask(b) PROVE BuildInv'
<1>1. PICK t \in BuildRec : t = dBuild[b] /\ GoodBuild(t)
  BY DEF BuildInv
<1>2. PICK h : h = t.h
  OBVIOUS
<1>3. PICK done, resolve, failed :
        /\ done = [t EXCEPT !.prep = "done"] /\ resolve = [t EXCEPT !.prep = "resolve"]
        /\ failed = [t EXCEPT !.prep = "failed"]
  OBVIOUS
<1>4. \A new \in {done, resolve, failed} :
        /\ new \in BuildRec /\ new.pc = t.pc /\ new.h = t.h /\ new.subs = t.subs
        /\ new.pins = t.pins /\ new.meas = t.meas /\ new.synced = t.synced
  BY <1>3 DEF BuildRec
<1>5. done.prep = "done" /\ resolve.prep = "resolve" /\ failed.prep = "failed"
  BY <1>3 DEF BuildRec
<1>6. CASE t.prep = "key" /\ PrepareRegisters(b, h, resolve, failed)
  <2>1. t.pc \notin {"idle", "stop", "over", "sync", "subs"} /\ h \in DHid /\ h \notin t.pins
    BY <1>1, <1>2, <1>6 DEF GoodBuild
  <2>2. GoodBuild(resolve) /\ GoodBuild(failed)
    BY <1>1, <1>2, <1>4, <1>5, <2>1 DEF GoodBuild
  <2> QED BY <1>1, <1>4, <1>6, <2>1, <2>2, PrepareRegistersKeeps
<1>7. CASE t.prep = "resolve" /\ PreparePins(b, h, done)
  <2>1. t.pc \notin {"idle", "stop", "over", "sync", "subs"} /\ h \in DHid /\ h \notin t.pins
    BY <1>1, <1>2, <1>7 DEF GoodBuild
  <2>2. PICK new : new = [done EXCEPT !.pins = @ \cup {h}]
    OBVIOUS
  <2>3. /\ new.pc = t.pc /\ new.h = h /\ new.subs = t.subs /\ new.prep = "done"
        /\ new.pins = t.pins \cup {h} /\ new.meas = t.meas /\ new.synced = t.synced
    BY <1>2, <1>4, <1>5, <2>2 DEF BuildRec
  <2>4. GoodBuild(new)
    BY <1>1, <1>2, <2>1, <2>3 DEF GoodBuild
  <2> QED BY <1>1, <1>4, <1>7, <2>1, <2>2, <2>4, PreparePinsKeeps
<1>8. CASE t.prep = "resolve" /\ Set(b, failed) /\ UNCHANGED storeVars
  <2>1. t.pc \notin {"idle", "stop", "over", "sync", "subs"}
    BY <1>1, <1>8 DEF GoodBuild
  <2>2. GoodBuild(failed)
    BY <1>1, <1>4, <1>5, <2>1 DEF GoodBuild
  <2> QED BY <1>1, <1>4, <1>8, <2>2, QuietStepKeeps
<1> QED
  BY <1>1, <1>2, <1>3, <1>6, <1>7, <1>8 DEF PrepTask

\* A build at another place, with all it had.
LEMMA MovedTo ==
    ASSUME NEW t \in BuildRec, NEW pc \in Awaiting \cup {"idle", "stop", "over"}
    PROVE  LET new == [t EXCEPT !.pc = pc]
           IN  /\ new \in BuildRec /\ new.pc = pc /\ new.h = t.h /\ new.prep = t.prep
               /\ new.subs = t.subs /\ new.pins = t.pins /\ new.meas = t.meas
               /\ new.synced = t.synced
BY DEF BuildRec

LEMMA BridgeRegistersKeeps == ASSUME BuildInv, NEW b \in DBuild, BridgeRegisters(b) PROVE BuildInv'
<1>1. PICK t \in BuildRec : t = dBuild[b] /\ GoodBuild(t) /\ t.pc = "bkey"
  BY DEF BuildInv, BridgeRegisters
<1>2. PICK kept, failed : kept = [t EXCEPT !.pc = "bresolve"] /\ failed = [t EXCEPT !.pc = "wait"]
  OBVIOUS
<1>3. /\ kept \in BuildRec /\ kept.pc = "bresolve" /\ kept.h = t.h /\ kept.prep = t.prep
      /\ kept.subs = t.subs /\ kept.pins = t.pins /\ kept.meas = t.meas
  BY <1>2, MovedTo DEF Awaiting
<1>4. /\ failed \in BuildRec /\ failed.pc = "wait" /\ failed.h = t.h /\ failed.prep = t.prep
      /\ failed.subs = t.subs /\ failed.pins = t.pins /\ failed.meas = t.meas
  BY <1>2, MovedTo DEF Awaiting
<1>5. GoodBuild(kept) /\ GoodBuild(failed)
  BY <1>1, <1>3, <1>4 DEF GoodBuild
<1>6. PrepareRegisters(b, DBridge, kept, failed) /\ DBridge \in DHid
  BY <1>1, <1>2, BuildAssumption DEF BridgeRegisters, To
<1> QED
  BY <1>1, <1>3, <1>4, <1>5, <1>6, PrepareRegistersKeeps

LEMMA BridgePinsKeeps == ASSUME BuildInv, NEW b \in DBuild, BridgePins(b) PROVE BuildInv'
<1>1. PICK t \in BuildRec : t = dBuild[b] /\ GoodBuild(t) /\ t.pc = "bresolve"
  BY DEF BuildInv, BridgePins
<1>2. t.meas = DNil /\ DBridge \notin t.pins /\ DBridge \in DHid /\ t.h # DBridge
  BY <1>1, BuildAssumption DEF GoodBuild
<1>3. CASE PreparePins(b, DBridge, To(b, "bsync"))
  <2>1. PICK new, then : /\ new = [t EXCEPT !.pc = "bsync"]
                         /\ then = [new EXCEPT !.pins = @ \cup {DBridge}]
    OBVIOUS
  <2>2. /\ new \in BuildRec /\ new.pc = "bsync" /\ new.h = t.h /\ new.prep = t.prep
        /\ new.subs = t.subs /\ new.pins = t.pins /\ new.meas = t.meas
    BY <2>1, MovedTo DEF Awaiting
  <2>3. /\ then.pc = "bsync" /\ then.h = t.h /\ then.prep = t.prep
        /\ then.subs = t.subs /\ then.pins = t.pins \cup {DBridge} /\ then.meas = t.meas
    BY <2>1, <2>2 DEF BuildRec
  <2>4. GoodBuild(then)
    BY <1>1, <1>2, <2>3 DEF GoodBuild
  <2>5. PreparePins(b, DBridge, new)
    BY <1>1, <1>3, <2>1 DEF To
  <2> QED BY <1>1, <1>2, <2>1, <2>2, <2>4, <2>5, PreparePinsKeeps
<1>4. CASE Set(b, To(b, "wait")) /\ UNCHANGED storeVars
  <2>1. PICK new : new = [t EXCEPT !.pc = "wait"]
    OBVIOUS
  <2>2. /\ new \in BuildRec /\ new.pc = "wait" /\ new.h = t.h /\ new.prep = t.prep
        /\ new.subs = t.subs /\ new.pins = t.pins /\ new.meas = t.meas
    BY <2>1, MovedTo DEF Awaiting
  <2>3. GoodBuild(new)
    BY <1>1, <2>2 DEF GoodBuild
  <2>4. Set(b, new)
    BY <1>1, <1>4, <2>1 DEF To
  <2> QED BY <1>1, <1>4, <2>2, <2>3, <2>4, QuietStepKeeps
<1>5. CASE Set(b, Stopped(b)) /\ UNCHANGED storeVars
  <2>1. /\ Stopped(b) \in BuildRec /\ GoodBuild(Stopped(b))
        /\ Stopped(b).pins = t.pins /\ Stopped(b).meas = t.meas
    BY <1>1, <1>2, StoppedIsGood
  <2> QED BY <1>1, <1>5, <2>1, QuietStepKeeps
<1> QED
  BY <1>3, <1>4, <1>5 DEF BridgePins

LEMMA BridgeSyncKeeps == ASSUME BuildInv, NEW b \in DBuild, BridgeSync(b) PROVE BuildInv'
<1>1. PICK t \in BuildRec : t = dBuild[b] /\ GoodBuild(t) /\ t.pc = "bsync" /\ t.meas = DNil
  BY DEF BuildInv, BridgeSync
<1>2. PICK new : new = [t EXCEPT !.pc = "bsync", !.meas = DBridge]
  OBVIOUS
<1>3. /\ new \in BuildRec /\ new.pc = "bsync" /\ new.h = t.h /\ new.prep = t.prep
      /\ new.subs = t.subs /\ new.pins = t.pins /\ new.meas = DBridge
  BY <1>2, BuildAssumption DEF BuildRec, Awaiting
<1>4. GoodBuild(new)
  BY <1>1, <1>3 DEF GoodBuild
<1> QED
  BY <1>1, <1>2, <1>3, <1>4, BuildAssumption, MeasureStartsKeeps DEF BridgeSync

LEMMA BridgeEndsKeeps ==
    ASSUME BuildInv, NEW b \in DBuild, NEW ok \in BOOLEAN, BridgeEnds(b, ok) PROVE BuildInv'
<1>1. PICK t \in BuildRec : t = dBuild[b] /\ GoodBuild(t) /\ t.pc = "bsync" /\ t.meas # DNil
  BY DEF BuildInv, BridgeEnds
<1>2. PICK new : new = [t EXCEPT !.pc = "wait", !.meas = DNil, !.synced = ok]
  OBVIOUS
<1>3. /\ new \in BuildRec /\ new.pc = "wait" /\ new.h = t.h /\ new.prep = t.prep
      /\ new.subs = t.subs /\ new.pins = t.pins /\ new.meas = DNil
  BY <1>2 DEF BuildRec, Awaiting
<1>4. GoodBuild(new)
  BY <1>1, <1>3 DEF GoodBuild
<1>5. Set(b, new) /\ Unpinned({t.meas}) /\ UNCHANGED <<dTracks, dOlder, dActive, dReq>>
  BY <1>1, <1>2 DEF BridgeEnds, Measured, To, BuildRec
<1> QED
  BY <1>1, <1>3, <1>4, <1>5, MeasuredKeeps

LEMMA PrepAwaitedKeeps == ASSUME BuildInv, NEW b \in DBuild, PrepAwaited(b) PROVE BuildInv'
<1>1. PICK t \in BuildRec : t = dBuild[b] /\ GoodBuild(t) /\ t.pc = "wait"
  BY DEF BuildInv, PrepAwaited
<1>2. t.meas = DNil /\ t.h \in DHid
  BY <1>1 DEF GoodBuild
<1>3. CASE Set(b, Stopped(b)) /\ UNCHANGED storeVars
  <2>1. /\ Stopped(b) \in BuildRec /\ GoodBuild(Stopped(b))
        /\ Stopped(b).pins = t.pins /\ Stopped(b).meas = t.meas
    BY <1>1, <1>2, StoppedIsGood
  <2> QED BY <1>1, <1>3, <2>1, QuietStepKeeps
<1>4. CASE t.prep = "done" /\ Synced(b) /\ Set(b, To(b, "subs")) /\ UNCHANGED storeVars
  <2>1. PICK new : new = [t EXCEPT !.pc = "subs"]
    OBVIOUS
  <2>2. /\ new \in BuildRec /\ new.pc = "subs" /\ new.h = t.h /\ new.prep = t.prep
        /\ new.subs = t.subs /\ new.pins = t.pins /\ new.meas = t.meas /\ new.synced = t.synced
    BY <2>1, MovedTo DEF Awaiting
  <2>3. GoodBuild(new)
    BY <1>1, <1>4, <2>2 DEF GoodBuild, Synced
  <2>4. Set(b, new)
    BY <1>1, <1>4, <2>1 DEF To
  <2> QED BY <1>1, <1>4, <2>2, <2>3, <2>4, QuietStepKeeps
<1>5. CASE t.prep = "done" /\ MeasureStarts(b, t.h, "sync")
  <2>1. PICK new : new = [t EXCEPT !.pc = "sync", !.meas = t.h]
    OBVIOUS
  <2>2. /\ new \in BuildRec /\ new.pc = "sync" /\ new.h = t.h /\ new.prep = t.prep
        /\ new.subs = t.subs /\ new.pins = t.pins /\ new.meas = t.h
    BY <2>1 DEF BuildRec, Awaiting
  <2>3. GoodBuild(new)
    BY <1>1, <1>2, <1>5, <2>2 DEF GoodBuild
  <2> QED BY <1>1, <1>2, <1>5, <2>1, <2>2, <2>3, MeasureStartsKeeps
<1> QED
  BY <1>1, <1>3, <1>4, <1>5 DEF PrepAwaited

LEMMA SyncEndsKeeps ==
    ASSUME BuildInv, NEW b \in DBuild, NEW ok \in BOOLEAN, SyncEnds(b, ok) PROVE BuildInv'
<1>1. PICK t \in BuildRec : t = dBuild[b] /\ GoodBuild(t) /\ t.pc = "sync"
  BY DEF BuildInv, SyncEnds
<1>2. t.meas = t.h /\ t.h \in DHid /\ t.meas # DNil /\ t.prep = "done"
  BY <1>1, DualAssumption DEF GoodBuild
<1>3. Unpinned({t.meas}) /\ UNCHANGED <<dTracks, dOlder, dActive, dReq>>
  BY <1>1 DEF SyncEnds, Measured
<1>4. CASE Set(b, [t EXCEPT !.pc = "subs", !.meas = DNil, !.synced = TRUE])
  <2>1. PICK new : new = [t EXCEPT !.pc = "subs", !.meas = DNil, !.synced = TRUE]
    OBVIOUS
  <2>2. /\ new \in BuildRec /\ new.pc = "subs" /\ new.h = t.h /\ new.prep = t.prep
        /\ new.subs = t.subs /\ new.pins = t.pins /\ new.meas = DNil /\ new.synced = TRUE
    BY <2>1 DEF BuildRec, Awaiting
  <2>3. GoodBuild(new)
    BY <1>1, <1>2, <2>2 DEF GoodBuild
  <2> QED BY <1>1, <1>2, <1>3, <1>4, <2>1, <2>2, <2>3, MeasuredKeeps
<1>5. CASE Set(b, Stopped(b))
  <2>1. /\ Stopped(b) \in BuildRec /\ GoodBuild(Stopped(b))
        /\ Stopped(b).pins = t.pins /\ Stopped(b).meas = DNil
    BY <1>1, StoppedIsGood
  <2> QED BY <1>1, <1>2, <1>3, <1>5, <2>1, MeasuredKeeps
<1>6. /\ ok => Set(b, [t EXCEPT !.pc = "subs", !.meas = DNil, !.synced = TRUE])
      /\ ~ok => Set(b, Stopped(b))
  <2>1. [To(b, "subs") EXCEPT !.meas = DNil, !.synced = TRUE]
          = [t EXCEPT !.pc = "subs", !.meas = DNil, !.synced = TRUE]
    BY <1>1 DEF To
  <2> QED BY <2>1 DEF SyncEnds
<1> QED
  BY <1>4, <1>5, <1>6

LEMMA SubtitlesKeep == ASSUME BuildInv, NEW b \in DBuild, SubtitlesRegistered(b) PROVE BuildInv'
<1>1. PICK t \in BuildRec : t = dBuild[b] /\ GoodBuild(t)
  BY DEF BuildInv
<1>2. PICK new : new = [t EXCEPT !.subs = "done"]
  OBVIOUS
<1>3. /\ new \in BuildRec /\ new.pc = t.pc /\ new.h = t.h /\ new.prep = t.prep
      /\ new.subs = "done" /\ new.pins = t.pins /\ new.meas = t.meas /\ new.synced = t.synced
  BY <1>2 DEF BuildRec
<1>4. GoodBuild(new)
  BY <1>1, <1>3 DEF GoodBuild
<1>5. Set(b, new) /\ UNCHANGED storeVars
  BY <1>1, <1>2 DEF SubtitlesRegistered
<1> QED
  BY <1>1, <1>3, <1>4, <1>5, QuietStepKeeps

LEMMA BuildFinishesKeeps == ASSUME BuildInv, NEW b \in DBuild, BuildFinishes(b) PROVE BuildInv'
<1>1. PICK t \in BuildRec : /\ t = dBuild[b] /\ GoodBuild(t)
                            /\ (t.pc = "subs" /\ t.subs = "done") \/ t.pc = "stop"
  BY DEF BuildInv, BuildFinishes
<1>2. t.prep \notin {"key", "resolve"} /\ t.subs # "run" /\ t.meas = DNil /\ t.h \in DHid
  BY <1>1 DEF GoodBuild
<1>3. PICK new : new = [t EXCEPT !.pc = "over", !.pins = {}]
  OBVIOUS
<1>4. /\ new \in BuildRec /\ new.pc = "over" /\ new.h = t.h /\ new.prep = t.prep
      /\ new.subs = t.subs /\ new.pins = {} /\ new.meas = t.meas
  BY <1>3 DEF BuildRec
<1>5. GoodBuild(new)
  BY <1>2, <1>4 DEF GoodBuild
<1>6. Set(b, new) /\ Unpinned(t.pins) /\ UNCHANGED <<dTracks, dOlder, dActive, dReq>>
  BY <1>1, <1>3 DEF BuildFinishes, UnpinAll, To
<1>7. StoreInv'
  BY <1>6, UnpinnedKeeps DEF BuildInv
<1>8. Accounted(dBuild[b], new)
  BY <1>1, <1>4, <1>6 DEF Accounted
<1> QED
  BY <1>4, <1>5, <1>6, <1>7, <1>8, BuildStepKeeps

LEMMA BIdleIsGood == BIdle \in BuildRec /\ GoodBuild(BIdle) /\ BIdle.pins = {} /\ BIdle.meas = DNil
BY DEF BIdle, BuildRec, GoodBuild, Awaiting

LEMMA BuildForgottenKeeps == ASSUME BuildInv, NEW b \in DBuild, BuildForgotten(b) PROVE BuildInv'
<1>1. dBuild[b].pins = {} /\ dBuild[b].meas = DNil
  BY DEF BuildForgotten, BuildInv, GoodBuild
<1> QED
  BY <1>1, BIdleIsGood, QuietStepKeeps DEF BuildForgotten

LEMMA BuildCancelledKeeps == ASSUME BuildInv, NEW b \in DBuild, BuildCancelled(b) PROVE BuildInv'
<1>1. dBuild[b].pc \notin {"idle", "over"}
  BY DEF BuildCancelled, Awaiting
<1>2. /\ Stopped(b) \in BuildRec /\ GoodBuild(Stopped(b))
      /\ Stopped(b).pins = dBuild[b].pins /\ Stopped(b).meas = DNil
  BY <1>1, StoppedIsGood
<1>3. Set(b, Stopped(b)) /\ UNCHANGED <<dTracks, dOlder, dActive, dReq>>
  BY DEF BuildCancelled
<1>4. CASE dBuild[b].meas = DNil
  <2>1. UNCHANGED storeVars
    BY <1>4 DEF BuildCancelled, storeVars
  <2> QED BY <1>2, <1>3, <1>4, <2>1, QuietStepKeeps
<1>5. CASE dBuild[b].meas # DNil
  <2>1. Unpinned({dBuild[b].meas})
    BY <1>5 DEF BuildCancelled, Measured
  <2> QED BY <1>2, <1>3, <1>5, <2>1, MeasuredKeeps
<1> QED
  BY <1>4, <1>5

-----------------------------------------------------------------------------
(* The store and the builds on it.                                         *)

LEMMA PlayPinsNothing == PlayNext => dPinned' = dPinned
BY DEF PlayNext, FragmentBytes, LockGranted, ConvertEnds, AudioPlaylist, CleanupIdle, DualTick

LEMMA BuildInitial == BuildInit => BuildInv
<1> SUFFICES ASSUME BuildInit PROVE BuildInv
  OBVIOUS
<1>1. StoreInv
  BY StoreInitial DEF BuildInit
<1>2. dBuild \in [DBuild -> BuildRec] /\ \A b \in DBuild : dBuild[b] = BIdle
  BY BIdleIsGood DEF BuildInit
<1>3. \A b \in DBuild : GoodBuild(dBuild[b])
  BY <1>2, BIdleIsGood
<1>4. PinsAreHeld
  <2> SUFFICES ASSUME NEW h \in DHid
               PROVE  dPinned[h] = Cardinality({b \in DBuild : h \in dBuild[b].pins})
                                 + Cardinality({b \in DBuild : dBuild[b].meas = h})
    BY DEF PinsAreHeld
  <2>1. PICK P, M : /\ P = {b \in DBuild : h \in dBuild[b].pins}
                    /\ M = {b \in DBuild : dBuild[b].meas = h}
    OBVIOUS
  <2>2. P = {} /\ M = {}
    BY <1>2, <2>1, BIdleIsGood, DualAssumption
  <2>3. Cardinality(P) = 0 /\ Cardinality(M) = 0
    BY <2>2, FS_EmptySet
  <2>4. dPinned[h] = 0
    BY DEF BuildInit, DualStoreInit
  <2>5. dPinned[h] = Cardinality(P) + Cardinality(M)
    BY <2>3, <2>4
  <2> QED BY <2>1, <2>5
<1> QED
  BY <1>1, <1>2, <1>3, <1>4 DEF BuildInv

LEMMA BuildInvStep == BuildInv /\ [DualNext]_buildVars => BuildInv'
<1> SUFFICES ASSUME BuildInv, [DualNext]_buildVars PROVE BuildInv'
  OBVIOUS
<1>1. CASE BuildNext
  <2>1. PICK b \in DBuild :
          \/ \E h \in DHid, cached \in BOOLEAN : BuildStarts(b, h, cached)
          \/ RequestStep(b) \/ PrepTask(b) \/ SubtitlesRegistered(b)
          \/ BuildForgotten(b) \/ BuildCancelled(b)
    BY <1>1 DEF BuildNext
  <2>2. CASE RequestStep(b)
    BY <2>2, BridgeManifestKeeps, BridgeRegistersKeeps, BridgePinsKeeps, BridgeSyncKeeps,
       PrepAwaitedKeeps, BuildFinishesKeeps, BridgeEndsKeeps, SyncEndsKeeps DEF RequestStep
  <2> QED
    BY <2>1, <2>2, BuildStartsKeeps, PrepTaskKeeps, SubtitlesKeep, BuildForgottenKeeps, BuildCancelledKeeps
<1>2. CASE PlayNext /\ UNCHANGED dBuild
  <2>1. StoreInv'
    BY <1>2, PlayKeeps DEF BuildInv
  <2>2. PinsAreHeld'
    BY <1>2, PlayPinsNothing DEF BuildInv, PinsAreHeld
  <2> QED BY <1>2, <2>1, <2>2 DEF BuildInv, GoodBuild
<1>3. CASE UNCHANGED buildVars
  <2>1. SameTracks /\ dPinned' = dPinned /\ UNCHANGED <<dActive, dReq>> /\ dBuild' = dBuild
    BY <1>3, NothingTouched DEF BuildInv, storeVars, buildVars
  <2>2. StoreInv'
    BY <2>1, SameReqKeeps DEF BuildInv, StoreInv, PinnedStays
  <2>3. PinsAreHeld'
    BY <2>1 DEF BuildInv, PinsAreHeld
  <2> QED BY <2>1, <2>2, <2>3 DEF BuildInv, GoodBuild
<1> QED
  BY <1>1, <1>2, <1>3 DEF DualNext

\* What a build holds is pinned, so it is stored.
LEMMA HeldIsStored == BuildInv => HeldTracksStored
<1> SUFFICES ASSUME BuildInv, NEW b \in DBuild, NEW h \in DHid,
                    h \in dBuild[b].pins \/ dBuild[b].meas = h
             PROVE  Stored(h)
  BY DEF HeldTracksStored
<1>1. PICK P, M \in SUBSET DBuild : /\ P = {c \in DBuild : h \in dBuild[c].pins}
                                    /\ M = {c \in DBuild : dBuild[c].meas = h}
  OBVIOUS
<1>2. b \in P \/ b \in M
  BY <1>1
<1>3. Cardinality(P) \in Nat /\ Cardinality(M) \in Nat
  BY BuildsFinite
<1>4. Cardinality(P) > 0 \/ Cardinality(M) > 0
  BY <1>2, HoldersMoved
<1>5. dPinned[h] = Cardinality(P) + Cardinality(M)
  BY <1>1 DEF BuildInv, PinsAreHeld
<1>6. dPinned[h] > 0
  BY <1>3, <1>4, <1>5
<1> QED
  BY <1>6 DEF BuildInv, StoreInv, PinnedStays

LEMMA BuildInvGivesHold == BuildInv => BuildsHold
<1> SUFFICES ASSUME BuildInv PROVE BuildsHold
  OBVIOUS
<1>1. HeldTracksStored /\ PinsAreHeld
  BY HeldIsStored DEF BuildInv
<1>2. \A b \in DBuild : dBuild[b] \in BuildRec /\ GoodBuild(dBuild[b])
  BY DEF BuildInv
<1>3. BuildTypeOK
  BY <1>2 DEF BuildTypeOK, BuildInv, BuildRec, GoodBuild
<1>4. NothingLeftRunning
  BY <1>2 DEF NothingLeftRunning, GoodBuild
<1>5. SyncedBeforeSubtitles
  BY <1>1, <1>2 DEF SyncedBeforeSubtitles, GoodBuild, HeldTracksStored
<1> QED
  BY <1>1, <1>3, <1>4, <1>5 DEF BuildsHold

LEMMA BuildInvAlways == BuildSpec => []BuildInv
<1>1. BuildInit => BuildInv
  BY BuildInitial
<1>2. BuildInv /\ [DualNext]_buildVars => BuildInv'
  BY BuildInvStep
<1> QED
  BY <1>1, <1>2, PTL DEF BuildSpec

\* The store under its players, its builds and its clean-up, for any number of them:
\* what is pinned stays, the conversions are counted, none is done twice, and MAX_TRACKS
\* holds.
THEOREM StoreStaysKept == BuildSpec => []StoreKept
<1>1. BuildInv => StoreKept
  BY StoreInvGivesKept DEF BuildInv
<1> QED
  BY <1>1, BuildInvAlways, PTL

\* A build on the store, however it ends: the pins are exactly those that builds and
\* measurements hold, what they hold is stored, no task outlives its build, and no build
\* succeeds without an offset.
THEOREM BuildsStayHeld == BuildSpec => []BuildsHold
<1>1. BuildInv => BuildsHold
  BY BuildInvGivesHold
<1> QED
  BY <1>1, BuildInvAlways, PTL

\* The clean-up never takes a track from a conversion: only the registration of a build
\* does.
THEOREM ConversionsSurvive == BuildSpec => ActiveSurvivesCleanup
<1>1. ASSUME BuildInv, [DualNext]_buildVars
      PROVE  [\A r \in DReq : /\ dReq[r].pc = "convert" /\ dReq[r].mine
                              /\ dReq'[r].pc = "convert" /\ ~dReq'[r].mine
                => \E b \in DBuild : \/ dBuild[b].prep = "key" /\ dBuild'[b].prep # "key"
                                     \/ dBuild[b].pc = "bkey" /\ dBuild'[b].pc # "bkey"]_buildVars
  <2> SUFFICES ASSUME NEW r \in DReq, dReq[r].pc = "convert", dReq[r].mine,
                      dReq'[r].pc = "convert", ~dReq'[r].mine
               PROVE  \E b \in DBuild : \/ dBuild[b].prep = "key" /\ dBuild'[b].prep # "key"
                                        \/ dBuild[b].pc = "bkey" /\ dBuild'[b].pc # "bkey"
    BY DEF buildVars
  <2>1. dReq' # dReq /\ dReq[r] \in ReqRec /\ dReq \in [DReq -> ReqRec]
    <3>1. dReq' # dReq
      OBVIOUS
    <3> QED BY <1>1, <3>1 DEF BuildInv, StoreInv
  <2>2. DualNext
    BY <1>1, <2>1 DEF buildVars, storeVars
  <2>3. ASSUME NEW q \in DReq, NEW new, dReq' = [dReq EXCEPT ![q] = new],
               dReq[q].pc # "convert" \/ new.pc # "convert"
        PROVE  FALSE
    BY <2>1, <2>3
  <2>4. CASE PlayNext
    <3>1. ASSUME NEW q \in DReq, NEW h \in DHid, NEW k \in DFrag, FragmentBytes(q, h, k)
          PROVE  FALSE
      <4>1. dReq[q].pc # "convert"
        BY <3>1 DEF FragmentBytes
      <4> QED BY <2>1, <2>3, <3>1, <4>1 DEF FragmentBytes, Convert
    <3>2. ASSUME NEW q \in DReq, LockGranted(q)
          PROVE  FALSE
      <4>1. dReq[q].pc # "convert"
        BY <3>2 DEF LockGranted
      <4> QED BY <2>1, <2>3, <3>2, <4>1 DEF LockGranted, Convert
    <3>3. ASSUME NEW q \in DReq, NEW ok \in BOOLEAN, ConvertEnds(q, ok)
          PROVE  FALSE
      <4>1. DIdle.pc # "convert" /\ dReq' = [dReq EXCEPT ![q] = DIdle]
        BY <3>3 DEF ConvertEnds, DIdle
      <4> QED BY <2>3, <4>1
    <3>4. ASSUME CleanupIdle PROVE FALSE
      <4>1. dReq[r].h \in DHid /\ dReq'[r].mine = (dReq[r].mine /\ ~Releasable(dReq[r].h))
        BY <1>1, <2>1, <3>4 DEF CleanupIdle, BuildInv, StoreInv, HoldersKnow, ReqRec
      <4>2. PICK h \in DHid : h = dReq[r].h /\ Releasable(h)
        BY <4>1
      <4>3. dActive[h] = 0
        BY <4>2 DEF Releasable
      <4>4. PICK now \in SUBSET DReq : now = {q \in DReq : dReq[q].pc = "convert" /\ dReq[q].h = h}
        OBVIOUS
      <4>5. IsFiniteSet(now) /\ dActive[h] = Cardinality(now)
        BY <1>1, <4>2, <4>4, ConversionsCounted DEF BuildInv
      <4>6. now = {}
        BY <4>3, <4>5, FS_EmptySet
      <4> QED BY <4>2, <4>4, <4>6
    <3> QED
      BY <2>1, <2>4, <3>1, <3>2, <3>3, <3>4 DEF PlayNext, AudioPlaylist, DualTick
  <2>5. CASE BuildNext
    <3>1. PICK b \in DBuild :
            \/ \E h \in DHid, cached \in BOOLEAN : BuildStarts(b, h, cached)
            \/ RequestStep(b) \/ PrepTask(b) \/ SubtitlesRegistered(b)
            \/ BuildForgotten(b) \/ BuildCancelled(b)
      BY <2>5 DEF BuildNext
    <3>2. PrepTask(b) \/ BridgeRegisters(b)
      BY <2>1, <3>1 DEF BuildStarts, RequestStep, BridgeManifest, BridgePins, BridgeSync, PrepAwaited,
         BuildFinishes, BridgeEnds, SyncEnds, SubtitlesRegistered, BuildForgotten, BuildCancelled,
         MeasureStarts, PreparePins, storeVars
    <3>3. PICK t \in BuildRec : t = dBuild[b] /\ dBuild \in [DBuild -> BuildRec]
      BY <1>1 DEF BuildInv
    <3>4. CASE PrepTask(b)
      <4>1. t.prep = "key" /\ \E new : Set(b, new) /\ new.prep # "key"
        <5>1. ASSUME NEW p \in {"resolve", "failed"}
              PROVE  [t EXCEPT !.prep = p].prep # "key"
          BY <3>3 DEF BuildRec
        <5> QED BY <2>1, <3>3, <3>4, <5>1 DEF PrepTask, PrepareRegisters, PreparePins, storeVars
      <4> QED BY <3>3, <4>1 DEF Set
    <3>5. CASE BridgeRegisters(b)
      <4>1. t.pc = "bkey" /\ \E new : Set(b, new) /\ new.pc # "bkey"
        <5>1. ASSUME NEW p \in {"bresolve", "wait"}
              PROVE  [t EXCEPT !.pc = p].pc # "bkey"
          BY <3>3 DEF BuildRec
        <5> QED BY <3>3, <3>5, <5>1 DEF BridgeRegisters, PrepareRegisters, To
      <4> QED BY <3>3, <4>1 DEF Set
    <3> QED BY <3>2, <3>4, <3>5
  <2> QED BY <2>2, <2>4, <2>5 DEF DualNext
<1> QED
  BY <1>1, BuildInvAlways, PTL DEF BuildSpec, ActiveSurvivesCleanup

-----------------------------------------------------------------------------
(* The resolutions requests share (DualResolve).                           *)

\* What is in the table was not called back yet, and what runs is in the table.
TableIsExact ==
    /\ \A k \in VKey : vTable[k] # VNil => ~vTask[vTable[k]].called
    /\ \A t \in VTask : vTask[t].pc = "run" =>
         vTask[t].k \in VKey /\ vTable[vTask[t].k] = t

\* Callers wait for requests that are being answered only.
CallersAreAsked ==
    \A c \in Caller : vCall[c].pc \in {"wait", "drain"} => vReq[c[1]] \in {"pair", "cancelling"}

\* What runs has a waiter.
RunIsWanted == \A t \in VTask : vTask[t].pc = "run" => Waiters(t) # {}

ResolveInv ==
    /\ ResolveTypeOK /\ CountIsWaiters /\ WantedNotCancelled /\ RunIsWanted /\ TableIsLive
    /\ TableIsExact /\ CallersAreAsked

LEMMA InvGivesShared == ResolveInv => ResolutionsShared
<1> SUFFICES ASSUME ResolveInv PROVE OneResolution
  BY DEF ResolveInv, ResolutionsShared
<1> SUFFICES ASSUME NEW t \in VTask, NEW u \in VTask, vTask[t].pc = "run"
             PROVE  /\ Waiters(t) # {}
                    /\ (vTask[u].pc = "run" /\ vTask[u].k = vTask[t].k => t = u)
  BY DEF OneResolution
<1> QED
  BY DEF ResolveInv, RunIsWanted, TableIsExact

-----------------------------------------------------------------------------
(* Counting.                                                               *)

LEMMA WaitersFinite ==
    ASSUME NEW t
    PROVE  /\ IsFiniteSet(Waiters(t)) /\ Cardinality(Waiters(t)) \in Nat
           /\ IsFiniteSet(Waiters(t)') /\ Cardinality(Waiters(t)') \in Nat
<1>1. IsFiniteSet({"video"}) /\ Sides = {"video"} \cup {"audio"}
  BY FS_Singleton DEF Sides
<1>2. IsFiniteSet(Sides)
  BY <1>1, FS_AddElement
<1>3. IsFiniteSet(Caller)
  BY <1>2, FS_Product, ResolveAssumption DEF Caller
<1>4. Waiters(t) \in SUBSET Caller /\ Waiters(t)' \in SUBSET Caller
  BY DEF Waiters
<1> QED
  BY <1>3, <1>4, FS_Subset, FS_CardinalityType

\* A caller that stops waiting is one waiter less for its task and none for others.
LEMMA OneLess ==
    ASSUME ResolveInv, NEW c \in Caller, NEW t \in VTask, vCall[c].pc = "wait",
           vCall[c].task = t, vCall'[c].pc # "wait",
           \A b \in Caller \ {c} : vCall'[b] = vCall[b]
    PROVE  /\ c \in Waiters(t) /\ Waiters(t)' = Waiters(t) \ {c}
           /\ \A u \in VTask \ {t} : Waiters(u)' = Waiters(u)
           /\ Cardinality(Waiters(t)') = Leaving(t) /\ Leaving(t) \in Nat
           /\ Leaving(t) = 0 <=> Waiters(t)' = {}
<1>1. c \in Waiters(t) /\ Waiters(t)' = Waiters(t) \ {c}
  BY DEF Waiters
<1>2. \A u \in VTask \ {t} : Waiters(u)' = Waiters(u)
  BY DEF Waiters
<1>3. vTask[t].count = Cardinality(Waiters(t))
  BY DEF ResolveInv, CountIsWaiters
<1>4. Cardinality(Waiters(t)') = Cardinality(Waiters(t)) - 1
  BY <1>1, WaitersFinite, FS_RemoveElement, ZenonT(60)
<1>5. Cardinality(Waiters(t)') = 0 <=> Waiters(t)' = {}
  BY WaitersFinite, FS_EmptySet
<1>6. Cardinality(Waiters(t)') \in Nat
  BY WaitersFinite
<1> QED
  BY <1>1, <1>2, <1>3, <1>4, <1>5, <1>6 DEF Leaving

\* One that begins to wait is one waiter more.
LEMMA OneMore ==
    ASSUME NEW c \in Caller, NEW t \in VTask, vCall[c].pc # "wait", vCall'[c].pc = "wait",
           vCall'[c].task = t, \A b \in Caller \ {c} : vCall'[b] = vCall[b]
    PROVE  /\ Waiters(t)' = Waiters(t) \cup {c}
           /\ \A u \in VTask \ {t} : Waiters(u)' = Waiters(u)
           /\ Cardinality(Waiters(t)') = Cardinality(Waiters(t)) + 1
<1>1. Waiters(t)' = Waiters(t) \cup {c} /\ c \notin Waiters(t)
  BY DEF Waiters
<1>2. \A u \in VTask \ {t} : Waiters(u)' = Waiters(u)
  BY DEF Waiters
<1>3. Cardinality(Waiters(t)') = Cardinality(Waiters(t)) + 1
  BY <1>1, WaitersFinite, FS_AddElement, ZenonT(60)
<1> QED
  BY <1>1, <1>2, <1>3

\* What is collected had ended, was called back, and nobody waits for it.
Unwanted(tasks, calls) ==
    {t \in VTask : /\ tasks[t].pc \in Ended /\ tasks[t].called
                   /\ \A c \in Caller : calls[c].pc \in {"wait", "drain"} => calls[c].task # t}

LEMMA WhatIsCollected ==
    ASSUME NEW tasks, NEW calls
    PROVE  \A t \in VTask : Collected(tasks, calls)[t] =
                              IF t \in Unwanted(tasks, calls) THEN VFree ELSE tasks[t]
  BY DEF Collected, Unwanted

LEMMA CollectedType ==
    ASSUME NEW S, NEW tasks \in [VTask -> S], NEW calls, VFree \in S
    PROVE  Collected(tasks, calls) \in [VTask -> S]
  BY DEF Collected

TaskType == [k : VKey \cup {VNil}, pc : Ended \cup {"free", "run", "cancelling"},
             count : Int, called : BOOLEAN]
CallType == [pc : {"out", "wait", "drain", "ok", "failed"},
             k : VKey \cup {VNil}, task : VTask \cup {VNil}]

LEMMA CancelTyped ==
    ASSUME NEW r \in TaskType, NEW n \in Int
    PROVE  [r EXCEPT !.count = n, !.pc = "cancelling"] \in TaskType
  BY DEF TaskType

LEMMA FreeTyped == VFree \in TaskType /\ VOut \in CallType
  BY DEF VFree, VOut, TaskType, CallType, Ended

-----------------------------------------------------------------------------
(* One step.                                                               *)

\* A step that ends with a collection: some callers stop waiting, the counts follow them,
\* and the table forgets ended tasks only.
Collects(mid) == mid \in [VTask -> TaskType] /\ vTask' = Collected(mid, vCall') /\ vReq' = vReq

LEMMA CollectionKeeps ==
    ASSUME ResolveInv, NEW mid, Collects(mid), vCall' \in [Caller -> CallType],
           vTable' \in [VKey -> VTask \cup {VNil}],
           \A u \in VTask : /\ mid[u].pc = vTask[u].pc /\ mid[u].k = vTask[u].k
                            /\ mid[u].count = Cardinality(Waiters(u)')
                            /\ vTask[u].pc = "run" => Waiters(u)' # {},
           \A b \in Caller : vCall'[b].pc \in {"wait", "drain"} => vCall'[b] = vCall[b],
           \A k \in VKey : /\ vTable'[k] # VNil => vTable'[k] = vTable[k] /\ ~mid[vTable[k]].called
                           /\ vTask[vTable[k]].pc = "run" => vTable'[k] = vTable[k]
    PROVE  ResolveInv'
<1> DEFINE gone == Unwanted(mid, vCall')
<1>1. vTask \in [VTask -> TaskType] /\ vCall \in [Caller -> CallType]
  BY DEF ResolveInv, ResolveTypeOK, TaskType, CallType
<1>2. /\ \A u \in VTask : vTask'[u] = IF u \in gone THEN VFree ELSE mid[u]
      /\ vTask' \in [VTask -> TaskType]
  BY WhatIsCollected, CollectedType, FreeTyped DEF Collects
<1>3. /\ gone \subseteq VTask
      /\ \A u \in gone : /\ mid[u].pc \in Ended /\ mid[u].called
                         /\ \A b \in Caller : vCall'[b].pc \in {"wait", "drain"} => vCall'[b].task # u
  BY DEF Unwanted
<1> HIDE DEF gone
<1>a. ASSUME NEW u \in VTask, u \in gone
      PROVE  /\ vTask'[u].pc = "free" /\ vTask'[u].count = 0 /\ Waiters(u)' = {}
             /\ vTask[u].pc \in Ended /\ mid[u].called
             /\ \A b \in Caller : vCall'[b].pc \in {"wait", "drain"} => vCall'[b].task # u
  <2>1. vTask'[u].pc = "free" /\ vTask'[u].count = 0
    BY <1>a, <1>2 DEF VFree
  <2>2. Waiters(u)' = {}
    BY <1>a, <1>3 DEF Waiters
  <2> QED BY <1>a, <2>1, <2>2, <1>3
<1>b. ASSUME NEW u \in VTask, u \notin gone
      PROVE  /\ vTask'[u].pc = vTask[u].pc /\ vTask'[u].k = vTask[u].k
             /\ vTask'[u].called = mid[u].called /\ vTask'[u].count = mid[u].count
  BY <1>2, <1>b
<1>4. \A u \in VTask : Waiters(u)' \subseteq Waiters(u)
  BY DEF Waiters
<1>5. ResolveTypeOK'
  <2>1. ASSUME NEW b \in Caller, vCall'[b].pc \in {"wait", "drain"}
        PROVE  vCall'[b].task # VNil /\ vTask'[vCall'[b].task].pc # "free"
    <3>1. vCall'[b] = vCall[b]
      BY <2>1
    <3>2. vCall[b].task \in VTask /\ vTask[vCall[b].task].pc # "free"
      BY <2>1, <3>1, <1>1 DEF ResolveInv, ResolveTypeOK, CallType
    <3>3. vCall[b].task \notin gone
      BY <2>1, <3>1, <3>2, <1>a
    <3> QED BY <3>1, <3>2, <3>3, <1>b, ResolveAssumption
  <2> QED BY <2>1, <1>2 DEF ResolveInv, ResolveTypeOK, TaskType, CallType, Collects
<1>6. CountIsWaiters'
  <2> SUFFICES ASSUME NEW u \in VTask PROVE vTask'[u].count = Cardinality(Waiters(u)')
    BY DEF CountIsWaiters
  <2>1. CASE u \notin gone
    BY <2>1, <1>b
  <2>2. CASE u \in gone
    BY <2>2, <1>a, FS_EmptySet
  <2> QED BY <2>1, <2>2
<1>7. WantedNotCancelled'
  <2> SUFFICES ASSUME NEW u \in VTask, Waiters(u)' # {}
               PROVE  vTask'[u].pc \notin {"cancelling", "cancelled"}
    BY DEF WantedNotCancelled
  <2> QED BY <1>4, <1>a, <1>b DEF ResolveInv, WantedNotCancelled
<1>8. RunIsWanted'
  <2> SUFFICES ASSUME NEW u \in VTask, vTask'[u].pc = "run" PROVE Waiters(u)' # {}
    BY DEF RunIsWanted
  <2> QED BY <1>a, <1>b
<1>9. TableIsLive' /\ TableIsExact'
  <2>1. ASSUME NEW k \in VKey, vTable'[k] # VNil
        PROVE  /\ vTask'[vTable'[k]].k = k /\ vTask'[vTable'[k]].pc \in {"run", "done", "failed"}
               /\ ~vTask'[vTable'[k]].called
    <3>1. vTable'[k] = vTable[k] /\ ~mid[vTable[k]].called
      BY <2>1
    <3>2. /\ vTable[k] \in VTask /\ vTask[vTable[k]].k = k
          /\ vTask[vTable[k]].pc \in {"run", "done", "failed"}
      BY <2>1, <3>1 DEF ResolveInv, ResolveTypeOK, TableIsLive
    <3> QED BY <3>1, <3>2, <1>a, <1>b
  <2>2. ASSUME NEW u \in VTask, vTask'[u].pc = "run"
        PROVE  vTask'[u].k \in VKey /\ vTable'[vTask'[u].k] = u
    <3>1. vTask[u].pc = "run" /\ vTask'[u].k = vTask[u].k
      BY <2>2, <1>a, <1>b
    <3> QED BY <3>1 DEF ResolveInv, TableIsExact
  <2> QED BY <2>1, <2>2 DEF TableIsLive, TableIsExact
<1>10. CallersAreAsked'
  BY DEF ResolveInv, CallersAreAsked, Collects
<1> QED
  BY <1>5, <1>6, <1>7, <1>8, <1>9, <1>10 DEF ResolveInv

\* A caller goes, with its task ended or others waiting for it.
Goes(c, t, pc) ==
    /\ vCall' = [vCall EXCEPT ![c] = [VOut EXCEPT !.pc = pc]]
    /\ vTask' = Collected([vTask EXCEPT ![t].count = Leaving(t)], vCall')
    /\ UNCHANGED <<vTable, vReq>>

LEMMA CallerGoes ==
    ASSUME ResolveInv, NEW c \in Caller, NEW t \in VTask, vCall[c].pc = "wait",
           vCall[c].task = t, NEW pc \in {"ok", "failed"}, Goes(c, t, pc), ~LastOne(t)
    PROVE  ResolveInv'
<1>1. vTask \in [VTask -> TaskType] /\ vCall \in [Caller -> CallType]
  BY DEF ResolveInv, ResolveTypeOK, TaskType, CallType
<1>2. vCall'[c].pc = pc /\ \A b \in Caller \ {c} : vCall'[b] = vCall[b]
  BY <1>1 DEF Goes, VOut, CallType
<1>3. /\ c \in Waiters(t) /\ Waiters(t)' = Waiters(t) \ {c}
      /\ \A u \in VTask \ {t} : Waiters(u)' = Waiters(u)
      /\ Cardinality(Waiters(t)') = Leaving(t) /\ Leaving(t) \in Nat
      /\ Leaving(t) = 0 <=> Waiters(t)' = {}
  BY <1>2, OneLess
<1> DEFINE mid == [vTask EXCEPT ![t].count = Leaving(t)]
<1>4. /\ mid \in [VTask -> TaskType]
      /\ \A u \in VTask : /\ mid[u].pc = vTask[u].pc /\ mid[u].k = vTask[u].k
                          /\ mid[u].called = vTask[u].called
                          /\ mid[u].count = IF u = t THEN Leaving(t) ELSE vTask[u].count
  BY <1>1, <1>3 DEF TaskType
<1>5. Collects(mid) /\ vTable' = vTable /\ vCall' \in [Caller -> CallType]
  BY <1>1, <1>4 DEF Goes, Collects, VOut, CallType
<1> HIDE DEF mid
<1>6. \A u \in VTask : /\ mid[u].count = Cardinality(Waiters(u)')
                       /\ vTask[u].pc = "run" => Waiters(u)' # {}
  <2>1. \A u \in VTask : /\ vTask[u].count = Cardinality(Waiters(u))
                         /\ vTask[u].pc = "run" => Waiters(u) # {}
    BY DEF ResolveInv, CountIsWaiters, RunIsWanted
  <2>2. vTask[t].pc = "run" => Waiters(t)' # {}
    BY <1>3 DEF LastOne, Ended
  <2>3. mid[t].count = Cardinality(Waiters(t)')
    BY <1>3, <1>4
  <2>4. \A u \in VTask \ {t} : mid[u].count = Cardinality(Waiters(u)')
    BY <2>1, <1>3, <1>4
  <2> QED BY <2>1, <2>2, <2>3, <2>4, <1>3
<1>7. \A k \in VKey : vTable[k] # VNil => vTable[k] \in VTask /\ ~vTask[vTable[k]].called
  BY DEF ResolveInv, ResolveTypeOK, TableIsExact
<1> QED
  BY <1>2, <1>4, <1>5, <1>6, <1>7, CollectionKeeps DEF ResolveInv, ResolveTypeOK

LEMMA CallerWakesKeeps ==
    ASSUME ResolveInv, NEW c \in Caller, CallerWakes(c) PROVE ResolveInv'
<1> DEFINE t == vCall[c].task
           pc == IF vTask[t].pc = "done" THEN "ok" ELSE "failed"
<1>1. /\ t \in VTask /\ vCall[c].pc = "wait" /\ vCall[c].task = t
      /\ pc \in {"ok", "failed"} /\ Goes(c, t, pc) /\ ~LastOne(t)
  BY DEF CallerWakes, Goes, LastOne, ResolveInv, ResolveTypeOK
<1> HIDE DEF t, pc
<1> QED
  BY <1>1, CallerGoes

LEMMA DrainedKeeps ==
    ASSUME ResolveInv, NEW c \in Caller, Drained(c) PROVE ResolveInv'
<1>1. vTask \in [VTask -> TaskType] /\ vCall \in [Caller -> CallType]
  BY DEF ResolveInv, ResolveTypeOK, TaskType, CallType
<1>2. /\ vCall[c].pc = "drain" /\ vCall'[c].pc = "failed" /\ vCall' \in [Caller -> CallType]
      /\ \A b \in Caller \ {c} : vCall'[b] = vCall[b]
  BY <1>1 DEF Drained, VOut, CallType
<1>3. Collects(vTask) /\ vTable' = vTable
  BY <1>1 DEF Drained, Collects
<1>4. \A u \in VTask : Waiters(u)' = Waiters(u)
  BY <1>2 DEF Waiters
<1>5. \A u \in VTask : /\ vTask[u].count = Cardinality(Waiters(u)')
                       /\ vTask[u].pc = "run" => Waiters(u)' # {}
  <2>1. \A u \in VTask : /\ vTask[u].count = Cardinality(Waiters(u))
                         /\ vTask[u].pc = "run" => Waiters(u) # {}
    BY DEF ResolveInv, CountIsWaiters, RunIsWanted
  <2> QED BY <2>1, <1>4
<1>6. \A k \in VKey : vTable[k] # VNil => ~vTask[vTable[k]].called
  BY DEF ResolveInv, TableIsExact
<1>7. vTable \in [VKey -> VTask \cup {VNil}]
  BY DEF ResolveInv, ResolveTypeOK
<1> QED
  BY <1>2, <1>3, <1>5, <1>6, <1>7, CollectionKeeps

LEMMA DoneCallbackKeeps ==
    ASSUME ResolveInv, NEW t \in VTask, DoneCallback(t) PROVE ResolveInv'
<1> DEFINE mid == [vTask EXCEPT ![t].called = TRUE]
<1>1. vTask \in [VTask -> TaskType] /\ vCall \in [Caller -> CallType]
  BY DEF ResolveInv, ResolveTypeOK, TaskType, CallType
<1>2. /\ mid \in [VTask -> TaskType]
      /\ \A u \in VTask : /\ mid[u].pc = vTask[u].pc /\ mid[u].k = vTask[u].k
                          /\ mid[u].count = vTask[u].count
      /\ \A u \in VTask \ {t} : mid[u].called = vTask[u].called
  BY <1>1 DEF TaskType
<1>3. Collects(mid) /\ vCall' = vCall /\ vTable' = Forgotten(t) /\ vTask[t].pc \in Ended
  BY <1>2 DEF DoneCallback, Collects
<1> HIDE DEF mid
<1>4. \A u \in VTask : /\ mid[u].count = Cardinality(Waiters(u)')
                       /\ vTask[u].pc = "run" => Waiters(u)' # {}
  <2>1. \A u \in VTask : /\ vTask[u].count = Cardinality(Waiters(u))
                         /\ vTask[u].pc = "run" => Waiters(u) # {}
    BY DEF ResolveInv, CountIsWaiters, RunIsWanted
  <2>2. \A u \in VTask : Waiters(u)' = Waiters(u)
    BY <1>3 DEF Waiters
  <2> QED BY <2>1, <2>2, <1>2
<1>5. \A k \in VKey : vTable[k] # VNil => /\ vTable[k] \in VTask /\ vTask[vTable[k]].k = k
                                          /\ ~vTask[vTable[k]].called
  BY DEF ResolveInv, ResolveTypeOK, TableIsLive, TableIsExact
<1>6. vTable \in [VKey -> VTask \cup {VNil}]
  BY DEF ResolveInv, ResolveTypeOK
<1>7. /\ vTable' \in [VKey -> VTask \cup {VNil}]
      /\ \A k \in VKey : vTable'[k] # vTable[k] => vTable[k] = t /\ vTable'[k] = VNil
      /\ \A k \in VKey : vTable[k] = t => vTable'[k] = VNil
  BY <1>3, <1>5, <1>6, ResolveAssumption DEF Forgotten
<1>8. \A k \in VKey : /\ vTable'[k] # VNil => vTable'[k] = vTable[k] /\ ~mid[vTable[k]].called
                      /\ vTask[vTable[k]].pc = "run" => vTable'[k] = vTable[k]
  BY <1>2, <1>3, <1>5, <1>7 DEF Ended
<1>9. vCall' \in [Caller -> CallType] /\ \A b \in Caller : vCall'[b] = vCall[b]
  BY <1>1, <1>3
<1> QED
  BY <1>2, <1>3, <1>4, <1>7, <1>8, <1>9, CollectionKeeps

-----------------------------------------------------------------------------
(* Steps without a collection.                                             *)

LEMMA TaskEndsKeeps ==
    ASSUME ResolveInv, NEW t \in VTask, TaskEnds(t) PROVE ResolveInv'
<1>1. vTask \in [VTask -> TaskType]
  BY DEF ResolveInv, ResolveTypeOK, TaskType
<1>2. /\ vTask' \in [VTask -> TaskType] /\ \A u \in VTask \ {t} : vTask'[u] = vTask[u]
      /\ vTask'[t].k = vTask[t].k /\ vTask'[t].count = vTask[t].count
      /\ vTask'[t].called = vTask[t].called
      /\ \/ vTask[t].pc = "run" /\ vTask'[t].pc \in {"done", "failed"}
         \/ vTask[t].pc = "cancelling" /\ vTask'[t].pc = "cancelled"
  BY <1>1 DEF TaskEnds, TaskType, Ended
<1>3. vTable' = vTable /\ vCall' = vCall /\ vReq' = vReq
  BY DEF TaskEnds
<1>4. \A u \in VTask : Waiters(u)' = Waiters(u)
  BY <1>3 DEF Waiters
<1>5. \A u \in VTask : vTask'[u].count = vTask[u].count /\ (vTask'[u].pc = "run" => vTask[u].pc = "run")
  BY <1>2
<1>6. ResolveTypeOK'
  BY <1>2, <1>3 DEF ResolveInv, ResolveTypeOK, TaskType
<1>7. CountIsWaiters' /\ RunIsWanted'
  BY <1>4, <1>5 DEF ResolveInv, CountIsWaiters, RunIsWanted
<1>8. WantedNotCancelled'
  BY <1>2, <1>4 DEF ResolveInv, WantedNotCancelled
<1>9. TableIsLive' /\ TableIsExact'
  <2>1. ASSUME NEW k \in VKey, vTable[k] # VNil
        PROVE  /\ vTask'[vTable[k]].k = k /\ vTask'[vTable[k]].pc \in {"run", "done", "failed"}
               /\ ~vTask'[vTable[k]].called
    <3>1. /\ vTable[k] \in VTask /\ vTask[vTable[k]].k = k
          /\ vTask[vTable[k]].pc \in {"run", "done", "failed"} /\ ~vTask[vTable[k]].called
      BY <2>1 DEF ResolveInv, ResolveTypeOK, TableIsLive, TableIsExact
    <3> QED BY <3>1, <1>2
  <2>2. ASSUME NEW u \in VTask, vTask'[u].pc = "run"
        PROVE  vTask'[u].k \in VKey /\ vTable[vTask'[u].k] = u
    BY <2>2, <1>2 DEF ResolveInv, TableIsExact
  <2> QED BY <2>1, <2>2, <1>3 DEF TableIsLive, TableIsExact
<1>10. CallersAreAsked'
  BY <1>3 DEF ResolveInv, CallersAreAsked
<1> QED
  BY <1>6, <1>7, <1>8, <1>9, <1>10 DEF ResolveInv

\* A step of a request that moves no waiting caller.
LEMMA QuietKeeps ==
    ASSUME ResolveInv, vTable' = vTable, vTask' = vTask, vCall' \in [Caller -> CallType],
           vReq' \in [VReq -> {"idle", "pair", "cancelling", "ok", "failed"}],
           \A c \in Caller : \/ vCall'[c] = vCall[c]
                             \/ {vCall[c].pc, vCall'[c].pc} \cap {"wait", "drain"} = {},
           \A c \in Caller : vCall'[c].pc \in {"wait", "drain"} => vReq'[c[1]] \in {"pair", "cancelling"}
    PROVE  ResolveInv'
<1>1. \A u \in VTask : Waiters(u)' = Waiters(u)
  BY DEF Waiters
<1>2. ResolveTypeOK'
  BY DEF ResolveInv, ResolveTypeOK, CallType
<1>3. CountIsWaiters' /\ RunIsWanted' /\ WantedNotCancelled'
  BY <1>1 DEF ResolveInv, CountIsWaiters, RunIsWanted, WantedNotCancelled
<1>4. TableIsLive' /\ TableIsExact' /\ CallersAreAsked'
  BY DEF ResolveInv, TableIsLive, TableIsExact, CallersAreAsked
<1> QED
  BY <1>2, <1>3, <1>4 DEF ResolveInv

\* A step that changes one task and one caller; the others are as they were.
Others(c, t) ==
    /\ vTask' \in [VTask -> TaskType] /\ vCall' \in [Caller -> CallType] /\ vReq' = vReq
    /\ \A u \in VTask \ {t} : vTask'[u] = vTask[u]
    /\ \A b \in Caller \ {c} : vCall'[b] = vCall[b]

\* A caller joins the resolution under way.
LEMMA Joins ==
    ASSUME ResolveInv, NEW c \in Caller, NEW k, NEW t \in VTask, vCall[c].k = k,
           vTable[k] = t, Join(c), Joinable(k)
    PROVE  ResolveInv'
<1>1. vTask \in [VTask -> TaskType] /\ vCall \in [Caller -> CallType]
  BY DEF ResolveInv, ResolveTypeOK, TaskType, CallType
<1>2. k \in VKey /\ t \in VTask /\ vTask[t].pc = "run"
  BY <1>1 DEF Join, Joinable, ResolveInv, ResolveTypeOK, TableIsLive, Ended, CallType
<1>3. /\ vTask' = [vTask EXCEPT ![t].count = @ + 1] /\ vTable' = vTable /\ vReq' = vReq
      /\ vCall' = [vCall EXCEPT ![c].pc = "wait", ![c].task = t]
      /\ vReq[c[1]] = "pair" /\ vCall[c].pc = "out"
  BY DEF Join
<1>a. /\ vTask' \in [VTask -> TaskType] /\ \A u \in VTask \ {t} : vTask'[u] = vTask[u]
      /\ vTask'[t].pc = vTask[t].pc /\ vTask'[t].k = vTask[t].k
      /\ vTask'[t].called = vTask[t].called /\ vTask'[t].count = vTask[t].count + 1
  BY <1>1, <1>2, <1>3 DEF TaskType
<1>b. /\ vCall' \in [Caller -> CallType] /\ \A b \in Caller \ {c} : vCall'[b] = vCall[b]
      /\ vCall'[c].pc = "wait" /\ vCall'[c].task = t /\ vCall[c].pc # "wait"
  BY <1>1, <1>2, <1>3, ZenonT(60) DEF CallType
<1>4. /\ Others(c, t) /\ vTable' = vTable /\ vReq[c[1]] = "pair"
  BY <1>3, <1>a, <1>b DEF Others
<1>5. Waiters(t)' = Waiters(t) \cup {c} /\ \A u \in VTask \ {t} : Waiters(u)' = Waiters(u)
  BY <1>2, <1>b, OneMore
<1>6. Cardinality(Waiters(t)') = Cardinality(Waiters(t)) + 1
  BY <1>2, <1>b, OneMore
<1>7. ResolveTypeOK'
  <2>1. ASSUME NEW b \in Caller, vCall'[b].pc \in {"wait", "drain"}
        PROVE  vCall'[b].task # VNil /\ vTask'[vCall'[b].task].pc # "free"
    <3>1. CASE b = c
      BY <3>1, <1>2, <1>a, <1>b, ResolveAssumption
    <3>2. CASE b # c
      BY <2>1, <3>2, <1>1, <1>a, <1>b DEF ResolveInv, ResolveTypeOK, CallType
    <3> QED BY <3>1, <3>2
  <2> QED BY <2>1, <1>4 DEF ResolveInv, ResolveTypeOK, Others, TaskType, CallType
<1>8. CountIsWaiters'
  <2> SUFFICES ASSUME NEW u \in VTask PROVE vTask'[u].count = Cardinality(Waiters(u)')
    BY DEF CountIsWaiters
  <2>1. vTask[u].count = Cardinality(Waiters(u))
    BY DEF ResolveInv, CountIsWaiters
  <2>2. CASE u = t
    BY <2>1, <2>2, <1>a, <1>6
  <2>3. CASE u # t
    BY <2>1, <2>3, <1>a, <1>5
  <2> QED BY <2>2, <2>3
<1>9. WantedNotCancelled' /\ RunIsWanted'
  <2>1. \A u \in VTask : vTask'[u].pc = vTask[u].pc /\ Waiters(u) \subseteq Waiters(u)'
    BY <1>5, <1>a
  <2>2. RunIsWanted'
    BY <2>1 DEF ResolveInv, RunIsWanted
  <2>3. WantedNotCancelled'
    BY <2>1, <1>2, <1>5 DEF ResolveInv, WantedNotCancelled
  <2> QED BY <2>2, <2>3
<1>10. TableIsLive' /\ TableIsExact'
  <2>1. \A u \in VTask : /\ vTask'[u].pc = vTask[u].pc /\ vTask'[u].k = vTask[u].k
                         /\ vTask'[u].called = vTask[u].called
    BY <1>a
  <2> QED BY <2>1, <1>4 DEF ResolveInv, ResolveTypeOK, TableIsLive, TableIsExact
<1>11. CallersAreAsked'
  BY <1>4, <1>b DEF ResolveInv, CallersAreAsked, Others
<1> QED
  BY <1>7, <1>8, <1>9, <1>10, <1>11 DEF ResolveInv

Starts(c, k, t) ==
    /\ vTask' = [vTask EXCEPT ![t] = [k |-> k, pc |-> "run", count |-> 1, called |-> FALSE]]
    /\ vTable' = [vTable EXCEPT ![k] = t] /\ UNCHANGED vReq
    /\ vCall' = [vCall EXCEPT ![c].pc = "wait", ![c].task = t]
    /\ vReq[c[1]] = "pair" /\ vCall[c].pc = "out"

\* A caller starts a resolution: whatever the table has for the source has ended.
LEMMA StartsTask ==
    ASSUME ResolveInv, NEW c \in Caller, NEW k \in VKey, NEW t \in VTask, vTask[t].pc = "free",
           Starts(c, k, t), ~Joinable(k)
    PROVE  ResolveInv'
<1>1. vTask \in [VTask -> TaskType] /\ vCall \in [Caller -> CallType]
  BY DEF ResolveInv, ResolveTypeOK, TaskType, CallType
<1>5. vTable \in [VKey -> VTask \cup {VNil}]
  BY DEF ResolveInv, ResolveTypeOK
<1>6. /\ Others(c, t) /\ vReq[c[1]] = "pair" /\ vCall[c].pc = "out"
      /\ vTable' \in [VKey -> VTask \cup {VNil}] /\ vTable'[k] = t
      /\ \A j \in VKey \ {k} : vTable'[j] = vTable[j]
      /\ vCall'[c].pc = "wait" /\ vCall'[c].task = t
      /\ vTask'[t].pc = "run" /\ vTask'[t].k = k /\ ~vTask'[t].called /\ vTask'[t].count = 1
  <2>1. [k |-> k, pc |-> "run", count |-> 1, called |-> FALSE] \in TaskType
    BY DEF TaskType
  <2> QED BY <1>1, <1>5, <2>1 DEF Starts, Others, CallType
<1>7. Waiters(t) = {}
  BY DEF Waiters, ResolveInv, ResolveTypeOK
<1>8. Waiters(t)' = {c} /\ \A u \in VTask \ {t} : Waiters(u)' = Waiters(u)
  BY <1>6, <1>7 DEF Others, Waiters
<1>9. ResolveTypeOK'
  <2>1. ASSUME NEW b \in Caller, vCall'[b].pc \in {"wait", "drain"}
        PROVE  vCall'[b].task # VNil /\ vTask'[vCall'[b].task].pc # "free"
    <3>1. CASE b = c
      BY <3>1, <1>6, ResolveAssumption
    <3>2. CASE b # c
      BY <2>1, <3>2, <1>1, <1>6 DEF ResolveInv, ResolveTypeOK, CallType, Others
    <3> QED BY <3>1, <3>2
  <2> QED BY <2>1, <1>6 DEF ResolveInv, ResolveTypeOK, Others, TaskType, CallType
<1>10. CountIsWaiters'
  <2>1. Cardinality(Waiters(t)') = 1
    BY <1>8, FS_Singleton
  <2>2. \A u \in VTask \ {t} : vTask'[u].count = Cardinality(Waiters(u)')
    BY <1>6, <1>8 DEF Others, ResolveInv, CountIsWaiters
  <2> QED BY <2>1, <2>2, <1>6 DEF CountIsWaiters
<1>11. WantedNotCancelled' /\ RunIsWanted'
  BY <1>6, <1>8, ZenonT(60) DEF Others, ResolveInv, WantedNotCancelled, RunIsWanted
<1>12. TableIsLive' /\ TableIsExact'
  <2>1. \A j \in VKey : vTable[j] # VNil => vTable[j] # t /\ vTable[j] \in VTask
    BY <1>5 DEF ResolveInv, TableIsLive
  <2>2. ASSUME NEW j \in VKey, vTable'[j] # VNil
        PROVE  /\ vTask'[vTable'[j]].k = j /\ vTask'[vTable'[j]].pc \in {"run", "done", "failed"}
               /\ ~vTask'[vTable'[j]].called
    <3>1. CASE j = k
      BY <3>1, <1>6
    <3>2. CASE j # k
      BY <2>1, <2>2, <3>2, <1>6 DEF Others, ResolveInv, TableIsLive, TableIsExact
    <3> QED BY <3>1, <3>2
  <2>3. ASSUME NEW u \in VTask, vTask'[u].pc = "run"
        PROVE  vTask'[u].k \in VKey /\ vTable'[vTask'[u].k] = u
    <3>1. CASE u = t
      BY <3>1, <1>6
    <3>2. CASE u # t
      <4>1. vTask[u].pc = "run" /\ vTask'[u].k = vTask[u].k
        BY <2>3, <3>2, <1>6 DEF Others
      <4>2. vTask[u].k \in VKey /\ vTable[vTask[u].k] = u
        BY <4>1 DEF ResolveInv, TableIsExact
      <4>3. vTable[k] # u
        BY <4>1, ResolveAssumption DEF Joinable, Ended
      <4> QED BY <4>1, <4>2, <4>3, <1>6
    <3> QED BY <3>1, <3>2
  <2> QED BY <2>2, <2>3 DEF TableIsLive, TableIsExact
<1>13. CallersAreAsked'
  BY <1>6 DEF ResolveInv, CallersAreAsked, Others
<1> QED
  BY <1>9, <1>10, <1>11, <1>12, <1>13 DEF ResolveInv

Cancels(c, t, n) ==
    /\ vTable' = Forgotten(t) /\ UNCHANGED vReq
    /\ vTask' = [vTask EXCEPT ![t].count = n, ![t].pc = "cancelling"]
    /\ vCall' = [vCall EXCEPT ![c].pc = "drain"]

LEMMA TaskCancelled ==
    ASSUME NEW c, NEW t \in VTask, NEW n \in Int, Cancels(c, t, n), vTask \in [VTask -> TaskType]
    PROVE  /\ vTask' \in [VTask -> TaskType] /\ \A u \in VTask \ {t} : vTask'[u] = vTask[u]
           /\ vTask'[t].pc = "cancelling" /\ vTask'[t].count = n
           /\ vTask'[t].k = vTask[t].k /\ vTask'[t].called = vTask[t].called
<1>1. vTask[t] \in TaskType
  OBVIOUS
<1>2. [vTask[t] EXCEPT !.count = n, !.pc = "cancelling"] \in TaskType
  BY <1>1, CancelTyped
<1>3. vTask' = [vTask EXCEPT ![t] = [vTask[t] EXCEPT !.count = n, !.pc = "cancelling"]]
  BY DEF Cancels
<1> QED
  BY <1>1, <1>2, <1>3 DEF TaskType

\* The last waiter takes the task out of the table and waits for its end.
LEMMA LastOneCancels ==
    ASSUME ResolveInv, NEW c \in Caller, NEW t \in VTask, vCall[c].task = t, CallerCancelled(c),
           LastOne(t)
    PROVE  ResolveInv'
<1>1. vTask \in [VTask -> TaskType] /\ vCall \in [Caller -> CallType]
  BY DEF ResolveInv, ResolveTypeOK, TaskType, CallType
<1>2. vCall[c].pc = "wait" /\ vReq[c[1]] = "cancelling"
  BY DEF CallerCancelled
<1>3. Cancels(c, t, Leaving(t))
  BY DEF CallerCancelled, Cancels
<1>4. vCall'[c].pc = "drain" /\ vCall'[c].task = t /\ \A b \in Caller \ {c} : vCall'[b] = vCall[b]
  BY <1>1, <1>3 DEF Cancels, CallType
<1>5. vTable \in [VKey -> VTask \cup {VNil}]
  BY DEF ResolveInv, ResolveTypeOK
<1>6. Leaving(t) <= 0 /\ vTask[t].pc = "run"
  <2>1. vTask[t].pc \notin {"free", "cancelling", "cancelled"} /\ vTask[t].pc \in Ended \cup {"free", "run", "cancelling"}
    BY <1>1, <1>2 DEF ResolveInv, ResolveTypeOK, WantedNotCancelled, Waiters, TaskType
  <2> QED BY <2>1 DEF LastOne, Ended
<1>7. /\ c \in Waiters(t) /\ Waiters(t)' = {} /\ Leaving(t) = 0
      /\ \A u \in VTask \ {t} : Waiters(u)' = Waiters(u)
  BY <1>2, <1>4, <1>6, OneLess
<1>8. /\ Others(c, t) /\ vTask'[t].pc = "cancelling" /\ vTask'[t].count = 0
      /\ vTask'[t].k = vTask[t].k /\ vTask'[t].called = vTask[t].called
  <2>1. Leaving(t) = 0
    BY <1>7
  <2>2. /\ vTask' \in [VTask -> TaskType] /\ \A u \in VTask \ {t} : vTask'[u] = vTask[u]
        /\ vTask'[t].pc = "cancelling" /\ vTask'[t].count = 0
        /\ vTask'[t].k = vTask[t].k /\ vTask'[t].called = vTask[t].called
    BY <1>1, <1>3, <2>1, TaskCancelled
  <2>3. vCall' \in [Caller -> CallType] /\ vReq' = vReq
    BY <1>1, <1>3 DEF Cancels, CallType
  <2> QED BY <1>4, <2>2, <2>3 DEF Others
<1>9. /\ vTable' \in [VKey -> VTask \cup {VNil}]
      /\ \A k \in VKey : vTable'[k] # VNil => vTable'[k] = vTable[k] /\ vTable[k] # t
      /\ \A k \in VKey : vTable[k] # t => vTable'[k] = vTable[k]
  BY <1>2, <1>3, <1>5 DEF Cancels, Forgotten, ResolveInv, TableIsLive
<1>10. ResolveTypeOK'
  <2>1. ASSUME NEW b \in Caller, vCall'[b].pc \in {"wait", "drain"}
        PROVE  vCall'[b].task # VNil /\ vTask'[vCall'[b].task].pc # "free"
    <3>1. CASE b = c
      BY <3>1, <1>4, <1>8, ResolveAssumption
    <3>2. CASE b # c
      <4>1. vCall'[b] = vCall[b] /\ vCall[b].task \in VTask /\ vTask[vCall[b].task].pc # "free"
        BY <2>1, <3>2, <1>1, <1>4 DEF ResolveInv, ResolveTypeOK, CallType
      <4>2. vTask'[vCall[b].task].pc # "free"
        BY <4>1, <1>8 DEF Others
      <4> QED BY <4>1, <4>2, ResolveAssumption
    <3> QED BY <3>1, <3>2
  <2> QED BY <2>1, <1>8, <1>9 DEF ResolveInv, ResolveTypeOK, Others, TaskType, CallType
<1>11. CountIsWaiters'
  <2>1. \A u \in VTask \ {t} : vTask'[u].count = Cardinality(Waiters(u)')
    BY <1>7, <1>8 DEF Others, ResolveInv, CountIsWaiters
  <2> QED BY <2>1, <1>7, <1>8, FS_EmptySet DEF CountIsWaiters
<1>12. WantedNotCancelled' /\ RunIsWanted'
  BY <1>7, <1>8 DEF Others, ResolveInv, WantedNotCancelled, RunIsWanted
<1>13. TableIsLive' /\ TableIsExact'
  <2>1. ASSUME NEW k \in VKey, vTable'[k] # VNil
        PROVE  vTable'[k] = vTable[k] /\ vTable[k] \in VTask \ {t}
    BY <2>1, <1>5, <1>9
  <2>2. ASSUME NEW u \in VTask, vTask'[u].pc = "run"
        PROVE  u # t /\ vTask'[u] = vTask[u]
    BY <2>2, <1>8 DEF Others
  <2>3. \A u \in VTask \ {t} : vTask'[u] = vTask[u]
    BY <1>8 DEF Others
  <2>4. TableIsLive'
    BY <2>1, <2>3 DEF ResolveInv, TableIsLive
  <2>5. TableIsExact'
    BY <2>1, <2>2, <2>3, <1>9 DEF ResolveInv, TableIsExact
  <2> QED BY <2>4, <2>5
<1>14. CallersAreAsked'
  BY <1>2, <1>4, <1>8 DEF ResolveInv, CallersAreAsked, Others
<1> QED
  BY <1>10, <1>11, <1>12, <1>13, <1>14 DEF ResolveInv

LEMMA CallerCancelledKeeps ==
    ASSUME ResolveInv, NEW c \in Caller, CallerCancelled(c) PROVE ResolveInv'
<1>1. CASE LastOne(vCall[c].task)
  <2>1. vCall[c].task \in VTask
    BY DEF CallerCancelled, ResolveInv, ResolveTypeOK
  <2> QED BY <1>1, <2>1, LastOneCancels
<1>2. CASE ~LastOne(vCall[c].task)
  <2> DEFINE t == vCall[c].task
  <2>1. /\ t \in VTask /\ vCall[c].pc = "wait" /\ vCall[c].task = t /\ Goes(c, t, "failed")
        /\ ~LastOne(t)
    BY <1>2 DEF CallerCancelled, Goes, ResolveInv, ResolveTypeOK
  <2> HIDE DEF t
  <2> QED BY <2>1, CallerGoes
<1> QED
  BY <1>1, <1>2

LEMMA PairKeeps ==
    ASSUME ResolveInv, NEW q \in VReq,
           \/ \E kv, ka \in VKey : PairStarts(q, kv, ka)
           \/ PairEnds(q) \/ PairCancelled(q) \/ PairDrained(q) \/ PairForgotten(q)
    PROVE  ResolveInv'
<1>1. /\ vCall \in [Caller -> CallType]
      /\ vReq \in [VReq -> {"idle", "pair", "cancelling", "ok", "failed"}]
      /\ \A c \in Caller : /\ c[1] \in VReq
                           /\ vCall[c].pc \in {"wait", "drain"} => vReq[c[1]] \in {"pair", "cancelling"}
                           /\ c[1] = q => vCall[c].pc \in Pair(q)
  <2>1. \A c \in Caller : c[1] \in VReq /\ c[2] \in Sides /\ c = <<c[1], c[2]>>
    BY DEF Caller
  <2>2. \A c \in Caller : c[1] = q => vCall[c].pc \in Pair(q)
    BY <2>1 DEF Pair
  <2> QED BY <2>1, <2>2 DEF ResolveInv, ResolveTypeOK, CallType, CallersAreAsked
<1>2. ASSUME NEW kv \in VKey, NEW ka \in VKey, PairStarts(q, kv, ka) PROVE ResolveInv'
  <2>1. /\ vTable' = vTable /\ vTask' = vTask
        /\ vReq[q] = "idle" /\ vReq' = [vReq EXCEPT ![q] = "pair"]
        /\ vCall' \in [Caller -> CallType]
        /\ \A c \in Caller : IF c[1] # q THEN vCall'[c] = vCall[c] ELSE vCall'[c].pc = "out"
    BY <1>1, <1>2 DEF PairStarts, VOut, CallType
  <2> QED BY <1>1, <2>1, QuietKeeps
<1>3. CASE PairEnds(q) \/ PairCancelled(q) \/ PairDrained(q)
  <2>1. /\ vTable' = vTable /\ vTask' = vTask /\ vCall' = vCall
        /\ \A p \in VReq \ {q} : vReq'[p] = vReq[p]
        /\ vReq' \in [VReq -> {"idle", "pair", "cancelling", "ok", "failed"}]
        /\ vReq'[q] = "cancelling" \/ Pair(q) \cap {"wait", "drain"} = {}
    BY <1>1, <1>3 DEF PairEnds, PairCancelled, PairDrained
  <2> QED BY <1>1, <2>1, QuietKeeps
<1>4. CASE PairForgotten(q)
  <2>1. /\ vTable' = vTable /\ vTask' = vTask
        /\ vReq[q] \in {"ok", "failed"} /\ vReq' = [vReq EXCEPT ![q] = "idle"]
        /\ vCall' \in [Caller -> CallType]
        /\ \A c \in Caller : IF c[1] # q THEN vCall'[c] = vCall[c] ELSE vCall'[c].pc = "out"
    BY <1>1, <1>4 DEF PairForgotten, VOut, CallType
  <2> QED BY <1>1, <2>1, QuietKeeps
<1> QED
  BY <1>2, <1>3, <1>4

LEMMA ResolveInitial == ResolveInit => ResolveInv
<1> SUFFICES ASSUME ResolveInit PROVE ResolveInv
  OBVIOUS
<1>1. \A t \in VTask : Waiters(t) = {} /\ vTask[t].count = 0 /\ vTask[t].pc = "free"
  BY DEF ResolveInit, Waiters, VOut, VFree
<1>2. ResolveTypeOK
  BY FreeTyped DEF ResolveInit, ResolveTypeOK, TaskType, CallType, VOut
<1>3. CountIsWaiters
  BY <1>1, FS_EmptySet DEF CountIsWaiters
<1>4. WantedNotCancelled /\ RunIsWanted
  BY <1>1 DEF WantedNotCancelled, RunIsWanted
<1>5. TableIsLive /\ TableIsExact /\ CallersAreAsked
  BY <1>1 DEF ResolveInit, TableIsLive, TableIsExact, CallersAreAsked, VOut
<1> QED
  BY <1>2, <1>3, <1>4, <1>5 DEF ResolveInv

LEMMA ResolveStep == ResolveInv /\ [ResolveNext]_resolveVars => ResolveInv'
<1> SUFFICES ASSUME ResolveInv, [ResolveNext]_resolveVars PROVE ResolveInv'
  OBVIOUS
<1>1. ASSUME NEW q \in VReq,
             \/ \E kv, ka \in VKey : PairStarts(q, kv, ka)
             \/ PairEnds(q) \/ PairCancelled(q) \/ PairDrained(q) \/ PairForgotten(q)
      PROVE  ResolveInv'
  BY <1>1, PairKeeps
<1>2. ASSUME NEW c \in Caller, CallerStep(c) PROVE ResolveInv'
  <2>1. CASE Join(c)
    <3> DEFINE k == vCall[c].k
               t == CHOOSE t \in Unused : TRUE
    <3>1. k \in VKey
      BY <2>1 DEF Join, ResolveInv, ResolveTypeOK
    <3>2. CASE Joinable(k)
      <4>1. vTable[k] \in VTask
        BY <3>1, <3>2 DEF Joinable, ResolveInv, ResolveTypeOK
      <4> QED BY <2>1, <3>2, <4>1, Joins
    <3>3. CASE ~Joinable(k)
      <4>1. t \in VTask /\ vTask[t].pc = "free" /\ Starts(c, k, t)
        BY <2>1, <3>3 DEF Join, Starts, Unused
      <4> HIDE DEF t, k
      <4> QED BY <3>1, <3>3, <4>1, StartsTask
    <3> QED BY <3>2, <3>3
  <2> QED BY <1>2, <2>1, CallerWakesKeeps, CallerCancelledKeeps, DrainedKeeps DEF CallerStep
<1>3. ASSUME NEW t \in VTask, TaskStep(t) PROVE ResolveInv'
  BY <1>3, TaskEndsKeeps, DoneCallbackKeeps DEF TaskStep
<1>4. CASE UNCHANGED resolveVars
  <2>1. \A t \in VTask : Waiters(t)' = Waiters(t)
    BY <1>4 DEF resolveVars, Waiters
  <2> QED BY <1>4, <2>1 DEF resolveVars, ResolveInv, ResolveTypeOK, CountIsWaiters, WantedNotCancelled,
                  RunIsWanted, TableIsLive, TableIsExact, CallersAreAsked
<1> QED
  BY <1>1, <1>2, <1>3, <1>4 DEF ResolveNext

\* A shared resolution (_dual_resolve_inflight) belongs to its waiters: as long as anyone
\* waits it is not cancelled, no two run for one source, the count is the number of the
\* waiters, and the table holds only what a new caller may use, in whatever order requests
\* are cancelled, tasks end and their callbacks run.
THEOREM ResolutionsAreShared == ResolveSpec => []ResolutionsShared
<1> QED
  BY ResolveInitial, ResolveStep, InvGivesShared, PTL DEF ResolveSpec

-----------------------------------------------------------------------------
(* The gate of the downloads (SyncFetch).                                  *)

DownType == [pc : {"idle", "lock", "queued", "woken", "ended"} \cup Fetching,
             url : {{}} \cup {{u} : u \in FUrl}, try : 0 .. FTries]

\* A download that has the lock of its file.
HasLock(d) == fDown[d].pc \in Fetching \cup {"queued", "woken"}

\* The lock of a file is exclusive within a measurement, and its holder still needs the file.
LocksHold ==
    \A d \in Down : HasLock(d) =>
        /\ ~(fDown[d].url \subseteq fCache[d[1]])
        /\ \A f \in Down : f # d /\ f[1] = d[1] /\ HasLock(f) => fDown[f].url # fDown[d].url

QueueHolds == /\ fQueue \in Seq(Down) /\ IsInjective(fQueue)
              /\ ToSet(fQueue) = {d \in Down : fDown[d].pc = "queued"}

FetchInv == FetchTypeOK /\ QueueHolds /\ SlotsAreHeld /\ NobodyForgotten /\ LocksHold

LEMMA FetchInvGivesExact == FetchInv => GateIsExact
  BY DEF FetchInv, GateIsExact, LocksHold, FileFetchedOnce, HasLock

Inside == {d \in Down : fDown[d].pc \in Fetching}

LEMMA InsideFinite ==
    /\ IsFiniteSet(Inside) /\ Cardinality(Inside) \in Nat
    /\ IsFiniteSet(Inside') /\ Cardinality(Inside') \in Nat
<1>1. IsFiniteSet(Down)
  BY FS_Product, FetchAssumption DEF Down
<1>2. Inside \in SUBSET Down /\ Inside' \in SUBSET Down
  BY DEF Inside
<1> QED
  BY <1>1, <1>2, FS_Subset, FS_CardinalityType

\* The count of the gate follows whoever goes in or out.
LEMMA SlotsFollow ==
    ASSUME SlotsAreHeld, NEW d \in Down,
           \A f \in Down \ {d} : fDown'[f].pc \in Fetching <=> fDown[f].pc \in Fetching
    PROVE  /\ (fDown'[d].pc \in Fetching <=> fDown[d].pc \in Fetching) /\ fIn' = fIn => SlotsAreHeld'
           /\ fDown'[d].pc \in Fetching /\ fDown[d].pc \notin Fetching /\ fIn' = fIn + 1 => SlotsAreHeld'
           /\ fDown'[d].pc \notin Fetching /\ fDown[d].pc \in Fetching /\ fIn' = fIn - 1 => SlotsAreHeld'
           /\ fDown[d].pc \in Fetching => fIn - 1 \in Nat
<1>1. fIn = Cardinality(Inside) /\ (SlotsAreHeld' <=> fIn' = Cardinality(Inside'))
  BY DEF SlotsAreHeld, Inside
<1>2. Cardinality(Inside) \in Nat /\ Cardinality(Inside') \in Nat
  BY InsideFinite
<1>3. ASSUME fDown'[d].pc \in Fetching <=> fDown[d].pc \in Fetching, fIn' = fIn PROVE SlotsAreHeld'
  <2>1. Inside' = Inside
    BY <1>3 DEF Inside
  <2> QED BY <1>1, <1>3, <2>1
<1>4. ASSUME fDown'[d].pc \in Fetching, fDown[d].pc \notin Fetching, fIn' = fIn + 1 PROVE SlotsAreHeld'
  <2>1. Inside' = Inside \cup {d} /\ d \notin Inside
    BY <1>4 DEF Inside
  <2>2. Cardinality(Inside') = Cardinality(Inside) + 1
    BY <2>1, InsideFinite, FS_AddElement
  <2> QED BY <1>1, <1>4, <2>2
<1>5. ASSUME fDown[d].pc \in Fetching PROVE fIn - 1 \in Nat
  <2>1. Inside # {}
    BY <1>5 DEF Inside
  <2>2. Cardinality(Inside) # 0
    BY <2>1, InsideFinite, FS_EmptySet
  <2> QED BY <1>1, <1>2, <2>2
<1>6. ASSUME fDown'[d].pc \notin Fetching, fDown[d].pc \in Fetching, fIn' = fIn - 1 PROVE SlotsAreHeld'
  <2>1. Inside' = Inside \ {d} /\ d \in Inside
    BY <1>6 DEF Inside
  <2>2. Cardinality(Inside') = Cardinality(Inside) - 1
    BY <2>1, InsideFinite, FS_RemoveElement
  <2> QED BY <1>1, <1>6, <2>2
<1> QED
  BY <1>3, <1>4, <1>5, <1>6

\* Of the other downloads a step at most wakes the first in the queue.
OthersKeep(d) ==
    \A f \in Down \ {d} : /\ fDown'[f].url = fDown[f].url
                         /\ \/ fDown'[f].pc = fDown[f].pc
                            \/ fDown[f].pc = "queued" /\ fDown'[f].pc = "woken"

LEMMA OthersKept ==
    ASSUME NEW d \in Down, OthersKeep(d)
    PROVE  \A f \in Down \ {d} : /\ fDown'[f].pc \in Fetching <=> fDown[f].pc \in Fetching
                                /\ HasLock(f)' <=> HasLock(f)
                                /\ fDown'[f].url = fDown[f].url
  BY DEF OthersKeep, HasLock, Fetching

\* The locks after a step: the download had its lock, or took one that was free, or has none.
LEMMA LocksKept ==
    ASSUME FetchTypeOK, LocksHold, NEW d \in Down, OthersKeep(d), fCache' = fCache,
           HasLock(d)' => \/ HasLock(d) /\ fDown'[d].url = fDown[d].url
                          \/ /\ ~(fDown'[d].url \subseteq fCache[d[1]])
                             /\ \A f \in Down : f # d /\ f[1] = d[1] /\ HasLock(f) =>
                                                   fDown[f].url # fDown'[d].url
    PROVE  LocksHold'
<1>1. \A f \in Down \ {d} : (HasLock(f)' <=> HasLock(f)) /\ fDown'[f].url = fDown[f].url
  BY DEF OthersKeep, HasLock
<1>2. ASSUME HasLock(d)'
      PROVE  /\ ~(fDown'[d].url \subseteq fCache[d[1]])
             /\ \A f \in Down : f # d /\ f[1] = d[1] /\ HasLock(f) => fDown[f].url # fDown'[d].url
  BY <1>2 DEF LocksHold
<1> SUFFICES ASSUME NEW g \in Down, HasLock(g)'
             PROVE  /\ ~(fDown'[g].url \subseteq fCache[g[1]])
                    /\ \A f \in Down : f # g /\ f[1] = g[1] /\ HasLock(f)' => fDown'[f].url # fDown'[g].url
  BY DEF LocksHold
<1>3. CASE g = d
  BY <1>1, <1>2, <1>3
<1>4. CASE g # d
  <2>1. HasLock(g) /\ fDown'[g].url = fDown[g].url /\ ~(fDown[g].url \subseteq fCache[g[1]])
    BY <1>1, <1>4 DEF LocksHold
  <2>2. ASSUME NEW f \in Down, f # g, f[1] = g[1], HasLock(f)' PROVE fDown'[f].url # fDown'[g].url
    <3>1. CASE f = d
      BY <1>2, <1>4, <2>1, <2>2, <3>1
    <3>2. CASE f # d
      BY <1>1, <2>1, <2>2, <3>2 DEF LocksHold
    <3> QED BY <3>1, <3>2
  <2> QED BY <2>1, <2>2
<1> QED
  BY <1>3, <1>4

\* A file that is complete is cached with its lock released.
LEMMA LocksReleased ==
    ASSUME FetchTypeOK, LocksHold, NEW d \in Down, OthersKeep(d), HasLock(d), ~HasLock(d)',
           fCache' = [fCache EXCEPT ![d[1]] = @ \cup fDown[d].url]
    PROVE  LocksHold'
<1>1. \A f \in Down \ {d} : (HasLock(f)' <=> HasLock(f)) /\ fDown'[f].url = fDown[f].url
  BY DEF OthersKeep, HasLock
<1>2. /\ d[1] \in FEng /\ fCache \in [FEng -> SUBSET FUrl]
      /\ \A f \in Down : fDown[f].url \in {{}} \cup {{u} : u \in FUrl}
  BY DEF FetchTypeOK, Down
<1> SUFFICES ASSUME NEW g \in Down, HasLock(g)'
             PROVE  /\ ~(fDown'[g].url \subseteq fCache'[g[1]])
                    /\ \A f \in Down : f # g /\ f[1] = g[1] /\ HasLock(f)' => fDown'[f].url # fDown'[g].url
  BY DEF LocksHold
<1>3. g # d /\ HasLock(g) /\ fDown'[g].url = fDown[g].url /\ ~(fDown[g].url \subseteq fCache[g[1]])
  BY <1>1 DEF LocksHold
<1>4. \A f \in Down : f # g /\ f[1] = g[1] /\ HasLock(f)' => fDown'[f].url # fDown'[g].url
  BY <1>1, <1>3 DEF LocksHold
<1>5. ~(fDown[g].url \subseteq fCache'[g[1]])
  <2>1. CASE g[1] # d[1]
    <3>1. g[1] \in FEng /\ fCache'[g[1]] = fCache[g[1]]
      BY <1>2, <2>1 DEF Down
    <3> QED BY <1>3, <3>1
  <2>2. CASE g[1] = d[1]
    <3>1. fDown[d].url # fDown[g].url
      BY <1>3, <2>2 DEF LocksHold
    <3>2. fCache'[g[1]] = fCache[g[1]] \cup fDown[d].url
      BY <1>2, <2>2
    <3>3. PICK u \in FUrl : fDown[g].url = {u} /\ u \notin fCache[g[1]]
      BY <1>2, <1>3
    <3>4. u \notin fDown[d].url
      BY <1>2, <3>1, <3>3
    <3> QED BY <3>2, <3>3, <3>4
  <2> QED BY <2>1, <2>2
<1> QED
  BY <1>3, <1>4, <1>5

LEMMA DownTyped ==
    /\ FIdle \in DownType /\ FIdle.pc = "idle" /\ EndedAs \in DownType /\ EndedAs.pc = "ended"
    /\ FetchTypeOK => fDown \in [Down -> DownType]
  BY FetchAssumption DEF FIdle, EndedAs, DownType, FetchTypeOK, Fetching

\* A step of one download that wakes nobody.
Becomes(d, r) == fDown' = [fDown EXCEPT ![d] = r]

LEMMA OnlyOne ==
    ASSUME FetchTypeOK, NEW d \in Down, NEW r \in DownType, Becomes(d, r)
    PROVE  /\ fDown' \in [Down -> DownType] /\ fDown'[d] = r
           /\ \A f \in Down \ {d} : fDown'[f] = fDown[f]
           /\ OthersKeep(d)
<1>1. fDown \in [Down -> DownType]
  BY DownTyped
<1>2. /\ fDown' \in [Down -> DownType] /\ fDown'[d] = r
      /\ \A f \in Down \ {d} : fDown'[f] = fDown[f]
  BY <1>1 DEF Becomes
<1> QED
  BY <1>2 DEF OthersKeep

\* A step that wakes the first in the queue.
WakesNext(d, r) == Notify([fDown EXCEPT ![d] = r])

LEMMA Woken ==
    ASSUME FetchTypeOK, QueueHolds, NEW d \in Down, fDown[d].pc # "queued",
           NEW r \in DownType, r.pc # "queued", WakesNext(d, r)
    PROVE  /\ fDown' \in [Down -> DownType] /\ fDown'[d] = r /\ OthersKeep(d) /\ QueueHolds'
           /\ fQueue' # <<>> => \E f \in Down : fDown'[f].pc = "woken"
<1>1. fDown \in [Down -> DownType]
  BY DownTyped
<1> DEFINE down == [fDown EXCEPT ![d] = r]
<1>2. /\ down \in [Down -> DownType] /\ down[d] = r /\ \A f \in Down \ {d} : down[f] = fDown[f]
  BY <1>1
<1>3. Notify(down)
  BY DEF WakesNext
<1> HIDE DEF down
<1>4. CASE fQueue = <<>>
  <2>1. fQueue' = fQueue /\ fDown' = down
    BY <1>3, <1>4 DEF Notify
  <2>2. {f \in Down : fDown'[f].pc = "queued"} = {f \in Down : fDown[f].pc = "queued"}
    BY <1>2, <2>1
  <2>3. QueueHolds'
    BY <2>1, <2>2 DEF QueueHolds
  <2> QED BY <1>2, <1>4, <2>1, <2>3 DEF OthersKeep
<1>5. CASE fQueue # <<>>
  <2> DEFINE h == Head(fQueue)
  <2>1. /\ h \in ToSet(fQueue) /\ Tail(fQueue) \in Seq(Down) /\ IsInjective(Tail(fQueue))
        /\ ToSet(Tail(fQueue)) = ToSet(fQueue) \ {h}
    BY <1>5, QueueAdvanced DEF QueueHolds
  <2>2. h \in Down /\ fDown[h].pc = "queued" /\ h # d
    BY <2>1 DEF QueueHolds
  <2>3. fQueue' = Tail(fQueue) /\ fDown' = [down EXCEPT ![h].pc = "woken"]
    BY <1>3, <1>5 DEF Notify
  <2> HIDE DEF h
  <2>4. /\ fDown' \in [Down -> DownType] /\ fDown'[h].pc = "woken" /\ fDown'[h].url = down[h].url
        /\ \A f \in Down \ {h} : fDown'[f] = down[f]
    BY <1>2, <2>2, <2>3 DEF DownType
  <2>5. fDown'[d] = r /\ OthersKeep(d)
    BY <1>2, <2>2, <2>4 DEF OthersKeep
  <2>6. {f \in Down : fDown'[f].pc = "queued"} = {f \in Down : fDown[f].pc = "queued"} \ {h}
    BY <1>2, <2>2, <2>4
  <2>7. QueueHolds'
    BY <2>1, <2>3, <2>6 DEF QueueHolds
  <2> QED BY <2>2, <2>4, <2>5, <2>7
<1> QED
  BY <1>4, <1>5

LEMMA LimitTyped ==
    ASSUME FetchTypeOK
    PROVE  /\ NoteSuccess => fLimit' \in 1 .. FMax /\ fGood' \in Nat
           /\ NoteThrottle => fLimit' \in 1 .. FMax /\ fGood' \in Nat /\ fRecent' \in BOOLEAN
<1>1. fLimit \in 1 .. FMax /\ FMax \in Nat /\ fGood \in Nat /\ FRun \in Nat
  BY FetchAssumption DEF FetchTypeOK
<1>2. Min({fGood + 1, FRun}) \in Nat
  <2> DEFINE both == {fGood + 1, FRun}
  <2>1. CASE fGood + 1 <= FRun
    BY <1>1, <2>1 DEF Min
  <2>2. CASE ~(fGood + 1 <= FRun)
    <3>1. FRun <= fGood + 1 /\ FRun <= FRun
      BY <1>1, <2>2
    <3>2. \E x \in both : \A y \in both : x <= y
      BY <3>1
    <3>3. Min(both) \in both
      BY <3>2 DEF Min
    <3> QED BY <1>1, <3>3
  <2> QED BY <2>1, <2>2
<1>3. NoteSuccess => fLimit' \in 1 .. FMax /\ fGood' \in Nat
  BY <1>1, <1>2 DEF NoteSuccess
<1>4. Halved \in 1 .. FMax
  BY <1>1, Z3 DEF Halved
<1>5. NoteThrottle => fLimit' \in 1 .. FMax /\ fGood' \in Nat /\ fRecent' \in BOOLEAN
  <2>1. CASE fRecent
    BY <2>1 DEF NoteThrottle, FetchTypeOK
  <2>2. CASE ~fRecent
    BY <1>1, <1>4, <2>2 DEF NoteThrottle
  <2> QED BY <2>1, <2>2
<1> QED
  BY <1>3, <1>5

\* A download that leaves the gate wakes the next one.
LEMMA LeavesKeeps ==
    ASSUME FetchInv, NEW d \in Down, fDown[d].pc \in Fetching, Leave(d, [fDown EXCEPT ![d] = EndedAs])
    PROVE  /\ fDown' \in [Down -> DownType] /\ fIn' \in Nat /\ OthersKeep(d) /\ QueueHolds'
           /\ SlotsAreHeld' /\ NobodyForgotten' /\ HasLock(d) /\ ~HasLock(d)'
<1>1. WakesNext(d, EndedAs) /\ fIn' = fIn - 1
  BY DEF Leave, WakesNext
<1>2. /\ fDown' \in [Down -> DownType] /\ fDown'[d] = EndedAs /\ OthersKeep(d) /\ QueueHolds'
      /\ fQueue' # <<>> => \E f \in Down : fDown'[f].pc = "woken"
  BY <1>1, Woken, DownTyped DEF FetchInv, Fetching
<1>3. fDown'[d].pc = "ended" /\ fDown'[d].pc \notin Fetching
  BY <1>2, DownTyped DEF Fetching
<1>4. SlotsAreHeld' /\ fIn - 1 \in Nat
  <2>1. \A f \in Down \ {d} : fDown'[f].pc \in Fetching <=> fDown[f].pc \in Fetching
    BY <1>2 DEF OthersKeep, Fetching
  <2> QED BY <1>1, <1>3, <2>1, SlotsFollow DEF FetchInv
<1> QED
  BY <1>1, <1>2, <1>3, <1>4 DEF NobodyForgotten, HasLock

LEMMA FileCompleteKeeps ==
    ASSUME FetchInv, NEW d \in Down, FileComplete(d) PROVE FetchInv'
<1>1. /\ fDown' \in [Down -> DownType] /\ fIn' \in Nat /\ OthersKeep(d) /\ QueueHolds'
      /\ SlotsAreHeld' /\ NobodyForgotten' /\ HasLock(d) /\ ~HasLock(d)'
  BY LeavesKeeps DEF FileComplete, Fetching
<1>2. LocksHold'
  BY <1>1, LocksReleased DEF FileComplete, FetchInv
<1>3. fLimit' \in 1 .. FMax /\ fGood' \in Nat
  BY LimitTyped DEF FetchInv, FileComplete
<1>4. fRecent' \in BOOLEAN /\ fLost' \in BOOLEAN /\ fCache' \in [FEng -> SUBSET FUrl]
  BY DEF FetchInv, FetchTypeOK, FileComplete, Down
<1> QED
  BY <1>1, <1>2, <1>3, <1>4 DEF FetchInv, FetchTypeOK, DownType, QueueHolds

LEMMA TypesFollow ==
    ASSUME fDown' \in [Down -> DownType], QueueHolds', fIn' \in Nat, fLimit' \in 1 .. FMax,
           fGood' \in Nat, fRecent' \in BOOLEAN, fLost' \in BOOLEAN, fCache' \in [FEng -> SUBSET FUrl]
    PROVE  FetchTypeOK'
  BY DEF FetchTypeOK, DownType, QueueHolds

\* A download that enters, or waits at the end of the queue, with a lock it has or takes.
LEMMA EnterKeeps ==
    ASSUME FetchInv, NEW d \in Down, fDown[d].pc \notin Fetching \cup {"queued"},
           NEW u \in {{}} \cup {{v} : v \in FUrl}, Enter(d, u), Quiet, UNCHANGED <<fCache, fLost>>,
           \/ HasLock(d) /\ u = fDown[d].url
           \/ /\ ~(u \subseteq fCache[d[1]])
              /\ \A f \in Down : f # d /\ f[1] = d[1] /\ HasLock(f) => fDown[f].url # u
    PROVE  FetchInv'
<1>1. /\ [pc |-> "range", url |-> u, try |-> 1] \in DownType
      /\ [pc |-> "queued", url |-> u, try |-> 0] \in DownType
  BY FetchAssumption DEF DownType, Fetching
<1>2. fIn \in Nat /\ fLimit \in 1 .. FMax /\ FMax \in Nat
  BY FetchAssumption DEF FetchInv, FetchTypeOK
<1>3. CASE MayEnter(d)
  <2> DEFINE r == [pc |-> "range", url |-> u, try |-> 1]
  <2>1. Becomes(d, r) /\ fIn' = fIn + 1 /\ fQueue' = fQueue
    BY <1>3 DEF Enter, Becomes
  <2>2. r \in DownType /\ r.pc = "range" /\ r.url = u
    BY <1>1
  <2> HIDE DEF r
  <2>3. /\ fDown' \in [Down -> DownType] /\ fDown'[d] = r
        /\ \A f \in Down \ {d} : fDown'[f] = fDown[f]
        /\ OthersKeep(d)
    BY <2>1, <2>2, OnlyOne DEF FetchInv
  <2>4. fDown'[d].pc \in Fetching /\ fDown[d].pc \notin Fetching
    BY <2>2, <2>3 DEF Fetching
  <2>5. SlotsAreHeld'
    BY <2>1, <2>3, <2>4, SlotsFollow DEF FetchInv
  <2>6. {f \in Down : fDown'[f].pc = "queued"} = {f \in Down : fDown[f].pc = "queued"}
    BY <2>2, <2>3
  <2>7. QueueHolds' /\ NobodyForgotten'
    BY <1>2, <2>1, <2>6 DEF FetchInv, QueueHolds, NobodyForgotten
  <2>8. LocksHold'
    BY <2>2, <2>3, LocksKept DEF FetchInv
  <2>9. FetchTypeOK'
    <3>1. /\ fIn' \in Nat /\ fLimit' \in 1 .. FMax /\ fGood' \in Nat /\ fRecent' \in BOOLEAN
          /\ fLost' \in BOOLEAN /\ fCache' \in [FEng -> SUBSET FUrl]
      BY <1>2, <2>1 DEF FetchInv, FetchTypeOK, Quiet
    <3> QED BY <2>3, <2>7, <3>1, TypesFollow
  <2> QED BY <2>5, <2>7, <2>8, <2>9 DEF FetchInv
<1>4. CASE ~MayEnter(d)
  <2> DEFINE r == [pc |-> "queued", url |-> u, try |-> 0]
  <2>1. Becomes(d, r) /\ fIn' = fIn /\ fQueue' = Append(fQueue, d)
    BY <1>4 DEF Enter, Becomes
  <2>2. r \in DownType /\ r.pc = "queued" /\ r.url = u
    BY <1>1
  <2> HIDE DEF r
  <2>3. /\ fDown' \in [Down -> DownType] /\ fDown'[d] = r
        /\ \A f \in Down \ {d} : fDown'[f] = fDown[f]
        /\ OthersKeep(d)
    BY <2>1, <2>2, OnlyOne DEF FetchInv
  <2>4. fDown'[d].pc \notin Fetching /\ fDown[d].pc \notin Fetching
    BY <2>2, <2>3 DEF Fetching
  <2>5. SlotsAreHeld'
    BY <2>1, <2>3, <2>4, SlotsFollow DEF FetchInv
  <2>6. {f \in Down : fDown'[f].pc = "queued"} = {f \in Down : fDown[f].pc = "queued"} \cup {d}
    BY <2>2, <2>3
  <2>7. d \notin ToSet(fQueue)
    BY DEF FetchInv, QueueHolds
  <2>8. QueueHolds'
    BY <2>1, <2>6, <2>7, QueueAppended DEF FetchInv, QueueHolds
  <2>9. NobodyForgotten'
    BY <1>2, <1>4, <2>1 DEF MayEnter, NobodyForgotten
  <2>10. LocksHold'
    BY <2>2, <2>3, LocksKept DEF FetchInv
  <2>11. FetchTypeOK'
    <3>1. /\ fIn' \in Nat /\ fLimit' \in 1 .. FMax /\ fGood' \in Nat /\ fRecent' \in BOOLEAN
          /\ fLost' \in BOOLEAN /\ fCache' \in [FEng -> SUBSET FUrl]
      BY <1>2, <2>1 DEF FetchInv, FetchTypeOK, Quiet
    <3> QED BY <2>3, <2>8, <3>1, TypesFollow
  <2> QED BY <2>5, <2>8, <2>9, <2>10, <2>11 DEF FetchInv
<1> QED
  BY <1>3, <1>4

\* A step of one download outside the queue that takes no lock and leaves the count alone.
LEMMA OneKeeps ==
    ASSUME FetchInv, NEW d \in Down, NEW r \in DownType, Becomes(d, r),
           fDown[d].pc # "queued", r.pc # "queued", UNCHANGED <<fQueue, fIn, fCache>>,
           fDown[d].pc \in Fetching <=> r.pc \in Fetching,
           fDown[d].pc = "woken" => r.pc = "woken" \/ fQueue = <<>> \/ fLost',
           r.pc \in Fetching \cup {"woken"} => HasLock(d) /\ r.url = fDown[d].url,
           fLimit' \in 1 .. FMax, fGood' \in Nat, fRecent' \in BOOLEAN, fLost' \in BOOLEAN,
           fLost => fLost'
    PROVE  FetchInv'
<1>1. /\ fDown' \in [Down -> DownType] /\ fDown'[d] = r
      /\ \A f \in Down \ {d} : fDown'[f] = fDown[f]
      /\ OthersKeep(d)
  BY OnlyOne DEF FetchInv
<1>2. SlotsAreHeld'
  BY <1>1, SlotsFollow DEF FetchInv
<1>3. {f \in Down : fDown'[f].pc = "queued"} = {f \in Down : fDown[f].pc = "queued"}
  BY <1>1
<1>4. QueueHolds'
  BY <1>3 DEF FetchInv, QueueHolds
<1>5. NobodyForgotten'
  <2> SUFFICES ASSUME fQueue # <<>>, ~fLost', ~(fIn > 0) PROVE \E f \in Down : fDown'[f].pc = "woken"
    BY DEF NobodyForgotten
  <2>1. PICK f \in Down : fDown[f].pc = "woken"
    BY DEF FetchInv, NobodyForgotten
  <2> QED BY <1>1, <2>1
<1>6. LocksHold'
  BY <1>1, LocksKept DEF FetchInv, HasLock
<1> QED
  BY <1>1, <1>2, <1>4, <1>5, <1>6 DEF FetchInv, FetchTypeOK, DownType, QueueHolds

LEMMA ProceedKeeps ==
    ASSUME FetchInv, NEW d \in Down, fDown[d].pc \in {"idle", "lock"},
           NEW u \in {{}} \cup {{v} : v \in FUrl}, Proceed(d, u), Quiet, UNCHANGED <<fCache, fLost>>,
           ~Locked(d[1], u)
    PROVE  FetchInv'
<1>1. \A f \in Down : f # d /\ f[1] = d[1] /\ HasLock(f) => fDown[f].url # u
  <2> SUFFICES ASSUME NEW f \in Down, f[1] = d[1], HasLock(f), fDown[f].url = u PROVE FALSE
    OBVIOUS
  <2>1. f[2] \in FSlot /\ f = <<d[1], f[2]>>
    BY DEF Down
  <2> QED BY <2>1 DEF Locked, HasLock
<1>2. CASE u \subseteq fCache[d[1]]
  <2>1. Becomes(d, EndedAs) /\ UNCHANGED <<fQueue, fIn>>
    BY <1>2 DEF Proceed, Becomes, EndedAs
  <2>2. EndedAs \in DownType /\ EndedAs.pc = "ended"
    BY DownTyped
  <2>3. /\ fLimit' \in 1 .. FMax /\ fGood' \in Nat /\ fRecent' \in BOOLEAN /\ fLost' \in BOOLEAN
        /\ fLost => fLost'
    BY DEF Quiet, FetchInv, FetchTypeOK
  <2> QED BY <2>1, <2>2, <2>3, OneKeeps DEF Fetching
<1>3. CASE ~(u \subseteq fCache[d[1]])
  <2>1. Enter(d, u) /\ fDown[d].pc \notin Fetching \cup {"queued"}
    BY <1>3 DEF Proceed, Fetching
  <2> QED BY <1>1, <1>3, <2>1, EnterKeeps
<1> QED
  BY <1>2, <1>3

LEMMA DownloadStartsKeeps ==
    ASSUME FetchInv, NEW d \in Down, NEW u \in FUrl, DownloadStarts(d, u) PROVE FetchInv'
<1>1. CASE Contended(d[1], {u})
  <2> DEFINE r == [pc |-> "lock", url |-> {u}, try |-> 0]
  <2>1. r \in DownType /\ r.pc = "lock"
    BY FetchAssumption DEF DownType, Fetching
  <2>2. Becomes(d, r) /\ UNCHANGED <<fQueue, fIn, fCache>> /\ fDown[d].pc = "idle"
    BY <1>1 DEF DownloadStarts, Becomes
  <2>3. /\ fLimit' \in 1 .. FMax /\ fGood' \in Nat /\ fRecent' \in BOOLEAN /\ fLost' \in BOOLEAN
        /\ fLost => fLost'
    BY DEF DownloadStarts, Quiet, FetchInv, FetchTypeOK
  <2> HIDE DEF r
  <2> QED BY <2>1, <2>2, <2>3, OneKeeps DEF Fetching
<1>2. CASE ~Contended(d[1], {u})
  <2>1. Proceed(d, {u}) /\ ~Locked(d[1], {u}) /\ Quiet /\ UNCHANGED <<fCache, fLost>>
        /\ fDown[d].pc = "idle"
    BY <1>2 DEF DownloadStarts, Contended
  <2> QED BY <2>1, ProceedKeeps
<1> QED
  BY <1>1, <1>2

LEMMA LockTakenKeeps ==
    ASSUME FetchInv, NEW d \in Down, LockTaken(d) PROVE FetchInv'
<1>1. /\ fDown[d].url \in {{}} \cup {{v} : v \in FUrl} /\ fDown[d].pc = "lock"
      /\ Proceed(d, fDown[d].url) /\ ~Locked(d[1], fDown[d].url) /\ Quiet /\ UNCHANGED <<fCache, fLost>>
  BY DownTyped DEF LockTaken, FetchInv, DownType
<1> QED
  BY <1>1, ProceedKeeps

LEMMA GateWakesKeeps ==
    ASSUME FetchInv, NEW d \in Down, GateWakes(d) PROVE FetchInv'
<1>1. /\ fDown[d].url \in {{}} \cup {{v} : v \in FUrl} /\ fDown[d].pc = "woken"
      /\ Enter(d, fDown[d].url) /\ Quiet /\ UNCHANGED <<fCache, fLost>>
  BY DownTyped DEF GateWakes, FetchInv, DownType
<1>2. HasLock(d) /\ fDown[d].pc \notin Fetching \cup {"queued"}
  BY <1>1 DEF HasLock, Fetching
<1> QED
  BY <1>1, <1>2, EnterKeeps

\* The answers of the CDN: the download stays inside with its file.
LEMMA AnswerKeeps ==
    ASSUME FetchInv, NEW d \in Down, NEW r \in DownType, Becomes(d, r), UNCHANGED <<fQueue, fIn, fCache, fLost>>,
           fDown[d].pc \in Fetching, r.pc \in Fetching, r.url = fDown[d].url,
           fLimit' \in 1 .. FMax, fGood' \in Nat, fRecent' \in BOOLEAN
    PROVE  FetchInv'
<1>1. fLost' \in BOOLEAN /\ (fLost => fLost')
  BY DEF FetchInv, FetchTypeOK
<1>2. fDown[d].pc # "queued" /\ r.pc # "queued" /\ fDown[d].pc # "woken" /\ HasLock(d)
  BY DEF Fetching, HasLock
<1> QED
  BY <1>1, <1>2, OneKeeps

LEMMA RangeArrivesKeeps ==
    ASSUME FetchInv, NEW d \in Down, NEW usable \in BOOLEAN, RangeArrives(d, usable) PROVE FetchInv'
<1> DEFINE pc == IF usable THEN "range" ELSE "full"
           r == [fDown[d] EXCEPT !.pc = pc]
<1>1. fDown \in [Down -> DownType] /\ pc \in Fetching
  BY DownTyped DEF FetchInv, Fetching
<1>2. r \in DownType /\ r.pc \in Fetching /\ r.url = fDown[d].url
  BY <1>1 DEF DownType
<1>3. Becomes(d, r) /\ UNCHANGED <<fQueue, fIn, fCache, fLost>> /\ fDown[d].pc \in Fetching
  BY <1>1 DEF RangeArrives, Becomes, At, Fetching
<1>4. fLimit' \in 1 .. FMax /\ fGood' \in Nat /\ fRecent' \in BOOLEAN
  BY LimitTyped DEF RangeArrives, FetchInv, FetchTypeOK
<1> HIDE DEF r
<1> QED
  BY <1>2, <1>3, <1>4, AnswerKeeps

LEMMA GetFailsKeeps ==
    ASSUME FetchInv, NEW d \in Down, NEW throttled \in BOOLEAN, GetFails(d, throttled) PROVE FetchInv'
<1> DEFINE pc == CASE fDown[d].pc = "range" -> "again"
                   [] fDown[d].pc = "again" -> "full"
                   [] OTHER -> "sleep"
           r == [fDown[d] EXCEPT !.pc = pc]
<1>1. fDown \in [Down -> DownType] /\ pc \in Fetching
  BY DownTyped DEF FetchInv, Fetching
<1>3. Becomes(d, r) /\ UNCHANGED <<fQueue, fIn, fCache, fLost>> /\ fDown[d].pc \in Fetching
  BY <1>1 DEF GetFails, Becomes, At, Fetching
<1> HIDE DEF pc
<1>2. r \in DownType /\ r.pc \in Fetching /\ r.url = fDown[d].url
  BY <1>1 DEF DownType
<1>4. fLimit' \in 1 .. FMax /\ fGood' \in Nat /\ fRecent' \in BOOLEAN
  <2>1. CASE throttled
    BY <2>1, LimitTyped DEF GetFails, FetchInv
  <2>2. CASE ~throttled
    BY <2>2 DEF GetFails, Quiet, FetchInv, FetchTypeOK
  <2> QED BY <2>1, <2>2
<1> HIDE DEF r
<1> QED
  BY <1>2, <1>3, <1>4, AnswerKeeps

\* A download that goes away from inside the gate, with everything else at rest.
LEMMA GoneKeeps ==
    ASSUME FetchInv, NEW d \in Down, fDown[d].pc \in Fetching, Leave(d, [fDown EXCEPT ![d] = EndedAs]),
           Quiet, UNCHANGED <<fCache, fLost>>
    PROVE  FetchInv'
<1>1. /\ fDown' \in [Down -> DownType] /\ fIn' \in Nat /\ OthersKeep(d) /\ QueueHolds'
      /\ SlotsAreHeld' /\ NobodyForgotten' /\ HasLock(d) /\ ~HasLock(d)'
  BY LeavesKeeps
<1>2. LocksHold'
  BY <1>1, LocksKept DEF FetchInv
<1>3. FetchTypeOK'
  BY <1>1, TypesFollow DEF FetchInv, FetchTypeOK, Quiet
<1> QED
  BY <1>1, <1>2, <1>3 DEF FetchInv

LEMMA AgainTyped ==
    ASSUME NEW x \in DownType, x.try < FTries
    PROVE  LET r == [x EXCEPT !.pc = "range", !.try = @ + 1]
           IN  r \in DownType /\ r.pc \in Fetching /\ r.url = x.url
<1>1. PICK n \in 0 .. FTries : n = x.try + 1
  BY FetchAssumption DEF DownType
<1>2. [x EXCEPT !.pc = "range", !.try = n] \in DownType
  BY DEF DownType, Fetching
<1>3. [x EXCEPT !.pc = "range", !.try = @ + 1] = [x EXCEPT !.pc = "range", !.try = n]
  BY <1>1
<1> QED
  BY <1>2, <1>3 DEF DownType, Fetching

LEMMA AttemptAgainKeeps ==
    ASSUME FetchInv, NEW d \in Down, AttemptAgain(d) PROVE FetchInv'
<1>1. CASE fDown[d].try < FTries
  <2> DEFINE r == [fDown[d] EXCEPT !.pc = "range", !.try = @ + 1]
  <2>1. fDown \in [Down -> DownType] /\ FTries \in Nat
    BY DownTyped, FetchAssumption DEF FetchInv
  <2>2. r \in DownType /\ r.pc \in Fetching /\ r.url = fDown[d].url
    BY <1>1, <2>1, AgainTyped
  <2>3. Becomes(d, r) /\ UNCHANGED <<fQueue, fIn, fCache, fLost>> /\ fDown[d].pc \in Fetching
    BY <1>1, <2>1 DEF AttemptAgain, Becomes, Fetching
  <2>4. fLimit' \in 1 .. FMax /\ fGood' \in Nat /\ fRecent' \in BOOLEAN
    BY DEF AttemptAgain, Quiet, FetchInv, FetchTypeOK
  <2> HIDE DEF r
  <2> QED BY <2>2, <2>3, <2>4, AnswerKeeps
<1>2. CASE ~(fDown[d].try < FTries)
  <2>1. /\ fDown[d].pc \in Fetching /\ Leave(d, [fDown EXCEPT ![d] = EndedAs])
        /\ Quiet /\ UNCHANGED <<fCache, fLost>>
    BY <1>2 DEF AttemptAgain, Fetching
  <2> QED BY <2>1, GoneKeeps
<1> QED
  BY <1>1, <1>2

LEMMA AbortsKeeps ==
    ASSUME FetchInv, NEW d \in Down, DownloadAborts(d) PROVE FetchInv'
<1>1. /\ EndedAs \in DownType /\ EndedAs.pc = "ended" /\ fDown \in [Down -> DownType]
      /\ Quiet /\ fCache' = fCache
  BY DownTyped DEF FetchInv, DownloadAborts
<1>2. fLimit' \in 1 .. FMax /\ fGood' \in Nat /\ fRecent' \in BOOLEAN
  BY <1>1 DEF Quiet, FetchInv, FetchTypeOK
<1>3. CASE fDown[d].pc \in Fetching
  <2>1. Leave(d, [fDown EXCEPT ![d] = EndedAs]) /\ UNCHANGED fLost
    BY <1>3 DEF DownloadAborts, Fetching
  <2> QED BY <1>1, <1>3, <2>1, GoneKeeps
<1>4. CASE fDown[d].pc = "lock"
  <2>1. Becomes(d, EndedAs) /\ UNCHANGED <<fQueue, fIn, fLost>>
    BY <1>4 DEF DownloadAborts, Fetching, Becomes
  <2>2. fLost' \in BOOLEAN /\ (fLost => fLost')
    BY <2>1 DEF FetchInv, FetchTypeOK
  <2> QED BY <1>1, <1>2, <1>4, <2>1, <2>2, OneKeeps DEF Fetching
<1>5. CASE fDown[d].pc = "queued"
  <2>1. PICK k \in DOMAIN fQueue : fQueue[k] = d /\ fQueue' = RemoveAt(fQueue, k)
    BY <1>5 DEF DownloadAborts, Fetching
  <2>2. Becomes(d, EndedAs) /\ UNCHANGED <<fIn, fLost>>
    BY <1>5 DEF DownloadAborts, Fetching, Becomes
  <2>3. /\ fDown' \in [Down -> DownType] /\ fDown'[d] = EndedAs
        /\ \A f \in Down \ {d} : fDown'[f] = fDown[f]
        /\ OthersKeep(d)
    BY <1>1, <2>2, OnlyOne DEF FetchInv
  <2>4. {f \in Down : fDown'[f].pc = "queued"} = {f \in Down : fDown[f].pc = "queued"} \ {d}
    BY <1>1, <2>3
  <2>5. QueueHolds'
    BY <2>1, <2>4, QueueLeft DEF FetchInv, QueueHolds
  <2>6. SlotsAreHeld'
    BY <1>1, <1>5, <2>2, <2>3, SlotsFollow DEF FetchInv, Fetching
  <2>7. NobodyForgotten'
    <3>1. fQueue # <<>>
      BY <2>1
    <3>2. fIn > 0 \/ fLost \/ \E f \in Down \ {d} : fDown[f].pc = "woken"
      BY <1>5, <3>1 DEF FetchInv, NobodyForgotten
    <3> QED BY <2>2, <2>3, <3>2 DEF NobodyForgotten
  <2>8. LocksHold'
    BY <1>1, <2>3, LocksKept DEF FetchInv, HasLock, Fetching
  <2>9. FetchTypeOK'
    BY <1>1, <1>2, <2>2, <2>3, <2>5, TypesFollow DEF FetchInv, FetchTypeOK
  <2> QED BY <2>5, <2>6, <2>7, <2>8, <2>9 DEF FetchInv
<1>6. CASE fDown[d].pc = "woken" /\ WakesNext(d, EndedAs) /\ UNCHANGED <<fIn, fLost>>
  <2>1. /\ fDown' \in [Down -> DownType] /\ fDown'[d] = EndedAs /\ OthersKeep(d) /\ QueueHolds'
        /\ fQueue' # <<>> => \E f \in Down : fDown'[f].pc = "woken"
    BY <1>1, <1>6, Woken DEF FetchInv
  <2>2. SlotsAreHeld'
    <3>1. \A f \in Down \ {d} : fDown'[f].pc \in Fetching <=> fDown[f].pc \in Fetching
      BY <2>1 DEF OthersKeep, Fetching
    <3>2. fDown'[d].pc \notin Fetching /\ fDown[d].pc \notin Fetching
      BY <1>1, <1>6, <2>1 DEF Fetching
    <3> QED BY <1>6, <3>1, <3>2, SlotsFollow DEF FetchInv
  <2>3. LocksHold'
    BY <1>1, <2>1, LocksKept DEF FetchInv, HasLock, Fetching
  <2>4. FetchTypeOK'
    BY <1>1, <1>2, <1>6, <2>1, TypesFollow DEF FetchInv, FetchTypeOK
  <2> QED BY <2>1, <2>2, <2>3, <2>4 DEF FetchInv, NobodyForgotten
<1>7. CASE fDown[d].pc = "woken" /\ Becomes(d, EndedAs) /\ fLost' = TRUE /\ UNCHANGED <<fQueue, fIn>>
  BY <1>1, <1>2, <1>7, OneKeeps DEF Fetching
<1> QED
  BY <1>3, <1>4, <1>5, <1>6, <1>7 DEF DownloadAborts, WakesNext, Becomes

\* A measurement ends with none of its downloads in a queue, inside or with a lock.
LEMMA MeasurementEndsKeeps ==
    ASSUME FetchInv, NEW e \in FEng, MeasurementEnds(e) PROVE FetchInv'
<1>1. /\ fDown \in [Down -> DownType] /\ FIdle \in DownType /\ FIdle.pc = "idle"
      /\ fCache \in [FEng -> SUBSET FUrl]
  BY DownTyped DEF FetchInv, FetchTypeOK
<1>2. \A d \in Down : d[1] = e => fDown[d].pc \in {"idle", "ended"}
  <2> SUFFICES ASSUME NEW d \in Down, d[1] = e PROVE fDown[d].pc \in {"idle", "ended"}
    OBVIOUS
  <2>1. d[2] \in FSlot /\ d = <<e, d[2]>>
    BY DEF Down
  <2> QED BY <2>1 DEF MeasurementEnds
<1>3. /\ fDown' \in [Down -> DownType]
      /\ \A d \in Down : d[1] = e => fDown'[d].pc = "idle"
      /\ \A d \in Down : d[1] # e => fDown'[d] = fDown[d]
  BY <1>1 DEF MeasurementEnds
<1>4. /\ fCache' \in [FEng -> SUBSET FUrl] /\ \A x \in FEng \ {e} : fCache'[x] = fCache[x]
      /\ UNCHANGED <<fLimit, fGood, fRecent, fQueue, fIn, fLost>>
  BY <1>1 DEF MeasurementEnds, Quiet
<1>5. /\ {d \in Down : fDown'[d].pc = "queued"} = {d \in Down : fDown[d].pc = "queued"}
      /\ {d \in Down : fDown'[d].pc \in Fetching} = {d \in Down : fDown[d].pc \in Fetching}
      /\ \A d \in Down : fDown[d].pc = "woken" => fDown'[d].pc = "woken"
      /\ \A d \in Down : HasLock(d)' => d[1] # e /\ HasLock(d) /\ fDown'[d].url = fDown[d].url
  BY <1>2, <1>3 DEF Fetching, HasLock
<1>6. QueueHolds' /\ SlotsAreHeld' /\ NobodyForgotten'
  BY <1>4, <1>5 DEF FetchInv, QueueHolds, SlotsAreHeld, NobodyForgotten
<1>7. LocksHold'
  <2>1. \A d \in Down : d[1] \in FEng
    BY DEF Down
  <2> QED BY <1>4, <1>5, <2>1 DEF FetchInv, LocksHold
<1>8. FetchTypeOK'
  BY <1>3, <1>4, <1>6, TypesFollow DEF FetchInv, FetchTypeOK
<1> QED
  BY <1>6, <1>7, <1>8 DEF FetchInv

LEMMA FetchInitial == FetchInit => FetchInv
<1> SUFFICES ASSUME FetchInit PROVE FetchInv
  OBVIOUS
<1>1. /\ fDown \in [Down -> DownType] /\ \A d \in Down : fDown[d].pc = "idle"
      /\ fQueue = <<>> /\ fIn = 0
  BY DownTyped DEF FetchInit
<1>2. QueueHolds
  <2>1. fQueue \in Seq(Down) /\ DOMAIN fQueue = {}
    BY <1>1
  <2> QED BY <1>1, <2>1 DEF QueueHolds, IsInjective, ToSet
<1>3. SlotsAreHeld
  <2>1. Inside = {}
    BY <1>1 DEF Inside, Fetching
  <2> QED BY <1>1, <2>1, FS_EmptySet DEF SlotsAreHeld, Inside
<1>4. NobodyForgotten /\ LocksHold
  BY <1>1 DEF NobodyForgotten, LocksHold, HasLock, Fetching
<1>5. FetchTypeOK
  <2>1. /\ FInitial \in 1 .. FMax /\ [e \in FEng |-> {}] \in [FEng -> SUBSET FUrl]
        /\ fIn \in Nat /\ fGood \in Nat
    BY FetchAssumption DEF FetchInit
  <2> QED BY <1>1, <1>2, <2>1 DEF FetchInit, FetchTypeOK, DownType, QueueHolds
<1> QED
  BY <1>2, <1>3, <1>4, <1>5 DEF FetchInv

LEMMA FetchStep == FetchInv /\ [FetchNext]_fetchVars => FetchInv'
<1> SUFFICES ASSUME FetchInv, [FetchNext]_fetchVars PROVE FetchInv'
  OBVIOUS
<1>1. CASE \E d \in Down, u \in FUrl : DownloadStarts(d, u)
  BY <1>1, DownloadStartsKeeps
<1>2. CASE \E d \in Down : \/ LockTaken(d) \/ GateWakes(d) \/ FileComplete(d) \/ AttemptAgain(d)
                          \/ DownloadAborts(d)
  BY <1>2, LockTakenKeeps, GateWakesKeeps, FileCompleteKeeps, AttemptAgainKeeps, AbortsKeeps
<1>3. CASE \E d \in Down, b \in BOOLEAN : RangeArrives(d, b) \/ GetFails(d, b)
  BY <1>3, RangeArrivesKeeps, GetFailsKeeps
<1>4. CASE \E e \in FEng : MeasurementEnds(e)
  BY <1>4, MeasurementEndsKeeps
<1>5. CASE ThrottlingForgotten \/ (\E b \in BOOLEAN : PlaylistRead(b)) \/ UNCHANGED fetchVars
  <2>1. /\ UNCHANGED <<fDown, fQueue, fIn, fCache, fLost>>
        /\ fLimit' \in 1 .. FMax /\ fGood' \in Nat /\ fRecent' \in BOOLEAN
    <3>1. ASSUME NEW b \in BOOLEAN, PlaylistRead(b)
          PROVE  /\ UNCHANGED <<fDown, fQueue, fIn, fCache, fLost>>
                 /\ fLimit' \in 1 .. FMax /\ fGood' \in Nat /\ fRecent' \in BOOLEAN
      <4>1. CASE b
        BY <3>1, <4>1, LimitTyped DEF PlaylistRead, FetchInv
      <4>2. CASE ~b
        BY <3>1, <4>2, LimitTyped DEF PlaylistRead, FetchInv, FetchTypeOK
      <4> QED BY <4>1, <4>2
    <3>2. CASE ThrottlingForgotten \/ UNCHANGED fetchVars
      BY <3>2 DEF ThrottlingForgotten, fetchVars, FetchInv, FetchTypeOK
    <3> QED BY <1>5, <3>1, <3>2
  <2>2. QueueHolds' /\ SlotsAreHeld' /\ NobodyForgotten' /\ LocksHold'
    BY <2>1 DEF FetchInv, QueueHolds, SlotsAreHeld, NobodyForgotten, LocksHold, HasLock
  <2>3. FetchTypeOK'
    BY <2>1 DEF FetchInv, FetchTypeOK
  <2> QED BY <2>2, <2>3 DEF FetchInv
<1> QED
  BY <1>1, <1>2, <1>3, <1>4, <1>5 DEF FetchNext

\* The adaptive gate and the file locks after any throttling, error and cancellation: the
\* slots in use are those of the downloads inside, nobody waits whom no one is going to
\* wake (up to a notification that is lost), and a measurement fetches no file twice.
THEOREM GateStaysExact == FetchSpec => []GateIsExact
<1> QED
  BY FetchInitial, FetchStep, FetchInvGivesExact, PTL DEF FetchSpec

\* A download enters the gate of its host only below the limit of that moment, also when
\* the limit was halved while it waited (__aenter__, note_throttle).
THEOREM EntriesWithinLimit == FetchSpec => NobodyEntersOver
<1>1. ASSUME FetchInv, [FetchNext]_fetchVars PROVE [fIn' > fIn => fIn' <= fLimit]_fetchVars
  <2> SUFFICES ASSUME FetchNext, fIn' > fIn PROVE fIn' <= fLimit
    BY <1>1
  <2>1. fIn \in Nat /\ fLimit \in Nat
    BY <1>1, FetchAssumption DEF FetchInv, FetchTypeOK
  <2>2. ASSUME NEW d, NEW u, Enter(d, u) PROVE fIn' <= fLimit
    BY <2>1, <2>2 DEF Enter, MayEnter
  <2>3. ASSUME NEW d, NEW u, Proceed(d, u) PROVE fIn' <= fLimit
    <3>1. Enter(d, u)
      BY <2>1, <2>3 DEF Proceed
    <3> QED BY <2>2, <3>1
  <2>4. CASE \E d \in Down, u \in FUrl : DownloadStarts(d, u)
    <3>1. PICK d \in Down, u \in FUrl : DownloadStarts(d, u)
      BY <2>4
    <3>2. Proceed(d, {u})
      BY <2>1, <3>1 DEF DownloadStarts
    <3> QED BY <2>3, <3>2
  <2>5. ASSUME NEW d \in Down, LockTaken(d) PROVE fIn' <= fLimit
    BY <2>3, <2>5 DEF LockTaken
  <2>6. ASSUME NEW d \in Down, GateWakes(d) PROVE fIn' <= fLimit
    BY <2>2, <2>6 DEF GateWakes
  <2>7. ASSUME NEW d \in Down, FileComplete(d) \/ AttemptAgain(d) \/ DownloadAborts(d) PROVE FALSE
    <3>1. fIn' = fIn \/ fIn' = fIn - 1
      BY <2>7 DEF FileComplete, AttemptAgain, DownloadAborts, Leave
    <3> QED BY <2>1, <3>1
  <2>8. ASSUME NEW d \in Down, NEW b \in BOOLEAN, RangeArrives(d, b) \/ GetFails(d, b) PROVE FALSE
    <3>1. fIn' = fIn
      BY <2>8 DEF RangeArrives, GetFails
    <3> QED BY <2>1, <3>1
  <2>9. ASSUME \/ ThrottlingForgotten \/ \E e \in FEng : MeasurementEnds(e)
               \/ \E b \in BOOLEAN : PlaylistRead(b)
        PROVE  FALSE
    <3>1. fIn' = fIn
      BY <2>9 DEF ThrottlingForgotten, MeasurementEnds, PlaylistRead
    <3> QED BY <2>1, <3>1
  <2> QED BY <2>4, <2>5, <2>6, <2>7, <2>8, <2>9 DEF FetchNext
<1> QED
  BY <1>1, FetchInitial, FetchStep, PTL DEF FetchSpec, NobodyEntersOver

-----------------------------------------------------------------------------
(* The decision of a measurement.                                          *)

\* The samples of at least this correlation between two offsets.
InRange(got, minimum, low, high) ==
    {s \in Sample : got[s] > 0 /\ s[2] >= minimum /\ low <= s[1] /\ s[1] <= high}

LEMMA SampleFacts ==
    IsFiniteSet(Sample) /\ BOffset \subseteq Int /\ \A s \in Sample : s[1] \in BOffset /\ s[2] \in 0 .. 3
<1>1. IsFiniteSet(0 .. 3)
  <2>1. 0 \in Int /\ 3 \in Int
    OBVIOUS
  <2> QED BY <2>1, FS_Interval
<1>3. IsFiniteSet(BOffset)
  BY ProbesAssumption
<1>2. Sample = BOffset \X (0 .. 3)
  BY DEF Sample, Weak, Strong
<1> QED BY <1>1, <1>2, <1>3, FS_Product, ProbesAssumption

LEMMA BetweenIs ==
    ASSUME NEW got, NEW m, NEW low, NEW high
    PROVE  Between(got, m, low, high) = Total(got, InRange(got, m, low, high))
  BY DEF Between, Total, InRange, MapThenSumSet, MapThenFoldSet

LEMMA BetweenTyped ==
    ASSUME NEW got \in [Sample -> Nat], NEW m, NEW low, NEW high
    PROVE  /\ InRange(got, m, low, high) \subseteq Sample
           /\ Between(got, m, low, high) \in Nat
<1>1. InRange(got, m, low, high) \subseteq Sample
  BY DEF InRange
<1> QED BY <1>1, BetweenIs, SampleFacts, SumGrows

\* A wider range holds no less.
LEMMA BetweenGrows ==
    ASSUME NEW got \in [Sample -> Nat], NEW m, NEW low, NEW high, NEW l, NEW h,
           InRange(got, m, low, high) \subseteq InRange(got, m, l, h)
    PROVE  Between(got, m, low, high) <= Between(got, m, l, h)
<1>1. InRange(got, m, l, h) \subseteq Sample /\ IsFiniteSet(InRange(got, m, l, h))
  BY BetweenTyped, SampleFacts, FS_Subset
<1>2. \A s \in InRange(got, m, l, h) : got[s] \in Nat
  BY <1>1
<1> QED BY <1>1, <1>2, BetweenIs, SumGrows

\* The k-th of the offsets in a range.
Kth(got, m, low, high, k, o) ==
    /\ Between(got, m, low, o) >= k
    /\ \A p \in BOffset : low <= p /\ p < o => Between(got, m, low, p) < k
    /\ low <= o /\ o <= high

LEMMA KthExists ==
    ASSUME NEW got \in [Sample -> Nat], NEW m, NEW low \in Int, NEW high \in Int,
           NEW k \in Nat, 1 <= k, k <= Between(got, m, low, high)
    PROVE  \E o \in BOffset : Kth(got, m, low, high, k, o)
<1> DEFINE inside == {o \in BOffset : low <= o /\ o <= high}
           enough == {o \in inside : Between(got, m, low, o) >= k}
<1>1. inside \in SUBSET Int /\ enough \in SUBSET Int /\ \A o \in inside : o \in BOffset /\ low <= o /\ o <= high
  BY SampleFacts
<1>2. inside # {}
  <2>1. InRange(got, m, low, high) # {}
    <3> SUFFICES ASSUME InRange(got, m, low, high) = {} PROVE FALSE
      OBVIOUS
    <3>1. Between(got, m, low, high) = 0
      BY BetweenIs, SumOfNone
    <3> QED BY <3>1
  <2>2. PICK s \in InRange(got, m, low, high) : TRUE
    BY <2>1
  <2>3. s \in Sample /\ low <= s[1] /\ s[1] <= high
    BY <2>2 DEF InRange
  <2>4. s[1] \in inside
    BY <2>3, SampleFacts
  <2> QED BY <2>4
<1>3. PICK top \in inside : \A o \in inside : o <= top
  <2> HIDE DEF inside
  <2> QED BY <1>1, <1>2, GreatestBelow
<1>4. InRange(got, m, low, top) = InRange(got, m, low, high)
  <2> SUFFICES ASSUME NEW s \in Sample, low <= s[1] PROVE s[1] <= top <=> s[1] <= high
    BY DEF InRange
  <2>1. s[1] \in BOffset /\ s[1] \in Int /\ top \in Int /\ top <= high
    BY <1>1, <1>3, SampleFacts
  <2>2. s[1] <= high => s[1] \in inside
    BY <2>1
  <2> QED BY <1>3, <2>1, <2>2
<1>5. top \in enough
  BY <1>4, BetweenIs
<1>6. PICK o \in enough : \A p \in enough : o <= p
  <2>1. \A p \in enough : low <= p
    BY <1>1
  <2> HIDE DEF enough
  <2> QED BY <1>1, <1>5, <2>1, LeastAbove
<1>7. ASSUME NEW p \in BOffset, low <= p, p < o PROVE Between(got, m, low, p) < k
  <2>1. p \in Int /\ o \in Int /\ o <= high
    BY <1>1, <1>6, SampleFacts
  <2>2. p \in inside /\ p \notin enough
    BY <1>6, <1>7, <2>1
  <2>3. Between(got, m, low, p) \in Nat
    BY BetweenTyped
  <2>4. ~(Between(got, m, low, p) >= k)
    BY <2>2
  <2> QED BY <2>3, <2>4
<1>8. Between(got, m, low, o) >= k /\ low <= o /\ o <= high /\ o \in BOffset
  BY <1>1, <1>6
<1> QED BY <1>7, <1>8 DEF Kth

LEMMA MedianInRange ==
    ASSUME NEW got \in [Sample -> Nat], NEW m, NEW low \in Int, NEW high \in Int,
           NEW n \in Nat, n = Between(got, m, low, high), 1 <= n
    PROVE  /\ Median(got, m, low, high, n) \in Int
           /\ low <= Median(got, m, low, high, n) /\ Median(got, m, low, high, n) <= high
<1> DEFINE kth(k) == CHOOSE o \in BOffset : Kth(got, m, low, high, k, o)
<1>1. ASSUME NEW k \in Nat, 1 <= k, k <= n
      PROVE  kth(k) \in Int /\ low <= kth(k) /\ kth(k) <= high
  <2>1. \E o \in BOffset : Kth(got, m, low, high, k, o)
    BY <1>1, KthExists
  <2>2. kth(k) \in BOffset /\ Kth(got, m, low, high, k, kth(k))
    BY <2>1
  <2> QED BY <2>2, SampleFacts DEF Kth
<1>2. Median(got, m, low, high, n) =
        IF n % 2 = 1 THEN kth((n + 1) \div 2) ELSE (kth(n \div 2) + kth(n \div 2 + 1)) \div 2
  BY DEF Median, Kth
<1> HIDE DEF kth
<1>3. CASE n % 2 = 1
  <2>1. (n + 1) \div 2 \in Nat /\ 1 <= (n + 1) \div 2 /\ (n + 1) \div 2 <= n
    BY <1>3
  <2> QED BY <1>1, <1>2, <1>3, <2>1
<1>4. CASE n % 2 # 1
  <2>1. /\ n \div 2 \in Nat /\ 1 <= n \div 2 /\ n \div 2 <= n
        /\ n \div 2 + 1 \in Nat /\ 1 <= n \div 2 + 1 /\ n \div 2 + 1 <= n
    BY <1>4
  <2> DEFINE a == kth(n \div 2)
             b == kth(n \div 2 + 1)
  <2>2. a \in Int /\ b \in Int /\ low <= a /\ a <= high /\ low <= b /\ b <= high
    BY <1>1, <2>1
  <2>3. Median(got, m, low, high, n) = (a + b) \div 2
    BY <1>2, <1>4
  <2> HIDE DEF a, b
  <2>4. (a + b) \div 2 \in Int /\ low <= (a + b) \div 2 /\ (a + b) \div 2 <= high
    BY <2>2
  <2> QED BY <2>3, <2>4
<1> QED BY <1>3, <1>4

\* An accepted offset has the majority around it.
Supported(got, m, offset) ==
    LET around == Between(got, m, offset - 2 * BDeviation, offset + 2 * BDeviation)
    IN  around >= 3 /\ 10 * around >= 6 * Between(got, m, Lowest, Highest)

LEMMA CandidateSupported ==
    ASSUME NEW got \in [Sample -> Nat], NEW m, ConstantCandidate(got, m) # BNil
    PROVE  ConstantCandidate(got, m) \in Int /\ Supported(got, m, ConstantCandidate(got, m))
<1> DEFINE n == Between(got, m, Lowest, Highest)
           median == Median(got, m, Lowest, Highest, n)
           low == median - BDeviation
           high == median + BDeviation
           near == Between(got, m, low, high)
           c == Median(got, m, low, high, near)
<1>1. n >= 3 /\ near >= 3 /\ 10 * near >= 6 * n /\ ConstantCandidate(got, m) = c
  BY DEF ConstantCandidate, Majority
<1>2. n \in Nat /\ near \in Nat /\ BDeviation \in Nat
  BY BetweenTyped, ProbesAssumption
<1>3. Lowest \in Int /\ Highest \in Int
  <2>1. BOffset # {}
    <3> SUFFICES ASSUME BOffset = {} PROVE FALSE
      OBVIOUS
    <3>1. InRange(got, m, Lowest, Highest) = {}
      BY SampleFacts DEF InRange
    <3>2. n = 0
      BY <3>1, BetweenIs, SumOfNone
    <3> QED BY <1>1, <3>2
  <2>2. /\ \E o \in BOffset : \A p \in BOffset : o <= p
        /\ \E o \in BOffset : \A p \in BOffset : p <= o
    BY <2>1, SampleFacts, ProbesAssumption, FiniteBounds
  <2>3. Lowest \in BOffset /\ Highest \in BOffset
    BY <2>2 DEF Lowest, Highest
  <2> QED BY <2>3, SampleFacts
<1>4. median \in Int
  <2> HIDE DEF n
  <2>1. n = Between(got, m, Lowest, Highest)
    BY DEF n
  <2> QED BY <1>1, <1>2, <1>3, <2>1, MedianInRange
<1> HIDE DEF median
<1>5. low \in Int /\ high \in Int /\ low = median - BDeviation /\ high = median + BDeviation
  BY <1>2, <1>4
<1> HIDE DEF low, high
<1>6. c \in Int /\ low <= c /\ c <= high
  <2> HIDE DEF near
  <2>1. near = Between(got, m, low, high)
    BY DEF near
  <2> QED BY <1>1, <1>2, <1>5, <2>1, MedianInRange
<1> HIDE DEF c
<1> DEFINE l == c - 2 * BDeviation
           h == c + 2 * BDeviation
           around == Between(got, m, l, h)
<1>7. l \in Int /\ h \in Int /\ l <= low /\ high <= h
  BY <1>2, <1>4, <1>5, <1>6
<1> HIDE DEF l, h
<1>8. near <= around
  <2>1. InRange(got, m, low, high) \subseteq InRange(got, m, l, h)
    <3> SUFFICES ASSUME NEW s \in Sample, low <= s[1], s[1] <= high PROVE l <= s[1] /\ s[1] <= h
      BY DEF InRange
    <3>1. s[1] \in Int
      BY SampleFacts
    <3> QED BY <1>5, <1>7, <3>1
  <2> QED BY <2>1, BetweenGrows
<1>9. around \in Nat
  BY BetweenTyped
<1> HIDE DEF near, n, around
<1>10. around >= 3 /\ 10 * around >= 6 * n
  BY <1>1, <1>2, <1>8, <1>9
<1>11. Supported(got, m, c) <=> around >= 3 /\ 10 * around >= 6 * n
  BY DEF Supported, around, n, l, h
<1> QED BY <1>1, <1>6, <1>10, <1>11

LEMMA CountIs ==
    ASSUME NEW got \in [Sample -> Nat]
    PROVE  Count(got) = Total(got, Sample) /\ Count(got) \in Nat
<1>1. Count(got) = Total(got, {s \in Sample : got[s] > 0})
  BY DEF Count, Total, MapThenSumSet, MapThenFoldSet
<1> QED BY <1>1, SampleFacts, SumOfCounted, SumGrows

\* One more sample.
LEMMA CountStepped ==
    ASSUME NEW got \in [Sample -> Nat], NEW s \in Sample
    PROVE  /\ [got EXCEPT ![s] = @ + 1] \in [Sample -> Nat]
           /\ Count([got EXCEPT ![s] = @ + 1]) = Count(got) + 1
<1>1. [got EXCEPT ![s] = @ + 1] \in [Sample -> Nat]
  OBVIOUS
<1>2. Total([got EXCEPT ![s] = @ + 1], Sample) = Total(got, Sample) + 1
  BY SampleFacts, SumStepped
<1> DEFINE h == [got EXCEPT ![s] = @ + 1]
<1> HIDE DEF h
<1>3. Count(h) = Total(h, Sample) /\ Count(got) = Total(got, Sample)
  BY <1>1, CountIs DEF h
<1> QED BY <1>1, <1>2, <1>3 DEF h

LEMMA NothingCounted == Nothing \in [Sample -> Nat] /\ Count(Nothing) = 0
<1>1. Nothing \in [Sample -> Nat] /\ {s \in Sample : Nothing[s] > 0} = {}
  BY DEF Nothing
<1>2. Count(Nothing) = Total(Nothing, {s \in Sample : Nothing[s] > 0})
  BY DEF Count, Total, MapThenSumSet, MapThenFoldSet
<1> QED BY <1>1, <1>2, SumOfNone

\* DecisionSound is not inductive: what a batch collects must not meet the result of
\* another one.
ProbesInv == DecisionSound /\ (bPhase # "over" => bResult = BNone)

LEMMA ProbesInitial == ProbesInit => ProbesInv
<1> SUFFICES ASSUME ProbesInit PROVE ProbesInv
  OBVIOUS
<1>1. bPhase = "idle" /\ bRun = 0 /\ bFailed = 0 /\ bGot = Nothing /\ bResult = BNone
  BY DEF ProbesInit
<1>2. bResult.kind = "none" /\ bResult.offset = BNil
  BY <1>1 DEF BNone
<1> QED
  BY <1>1, <1>2, NothingCounted
     DEF ProbesInv, DecisionSound, ProbesTypeOK, AcceptedByMajority, ProbesStopped

\* The samples so far, and a measurement that goes on.
LEMMA GoesOn ==
    ASSUME bPhase' \in {"idle", "main", "linear"}, bRun' \in Nat, bFailed' \in Nat,
           bGot' \in [Sample -> Nat], bResult' = BNone, bPhase' = "idle" => bRun' = 0,
           bPhase' = "main" => bRun' + bFailed' + Count(bGot') = BMain
    PROVE  ProbesInv'
<1>1. bResult'.kind = "none" /\ bResult'.offset = BNil
  BY DEF BNone
<1> QED BY <1>1 DEF ProbesInv, DecisionSound, ProbesTypeOK, AcceptedByMajority, ProbesStopped

Minimum(kind) == IF kind = "fast" THEN Early ELSE Sure

LEMMA Decides ==
    ASSUME NEW kind \in {"fast", "constant", "linear", "incompatible", "error"}, NEW offset,
           Over(kind, offset), offset # BNil => offset \in Int,
           kind \in {"fast", "constant"} => Supported(bGot', Minimum(kind), offset),
           bRun' = 0, bFailed' \in Nat, bGot' \in [Sample -> Nat]
    PROVE  ProbesInv'
<1>1. bPhase' = "over" /\ bResult'.kind = kind /\ bResult'.offset = offset
  BY DEF Over
<1>2. kind \in {"fast", "constant"} =>
        LET minimum == IF kind = "fast" THEN Early ELSE Sure
            around  == Between(bGot', minimum, offset - 2 * BDeviation, offset + 2 * BDeviation)
        IN  around >= 3 /\ 10 * around >= 6 * Between(bGot', minimum, Lowest, Highest)
  BY DEF Supported, Minimum
<1>3. AcceptedByMajority'
  BY <1>1, <1>2 DEF AcceptedByMajority
<1> QED BY <1>1, <1>3 DEF ProbesInv, DecisionSound, ProbesTypeOK, ProbesStopped

LEMMA ClassifiedKeeps ==
    ASSUME ProbesInv, NEW else, Classified(bGot, else), else => ProbesInv',
           UNCHANGED <<bRun, bFailed, bGot>>, bRun = 0
    PROVE  ProbesInv'
<1>1. bFailed \in Nat /\ bGot \in [Sample -> Nat]
  BY DEF ProbesInv, DecisionSound, ProbesTypeOK
<1> DEFINE c == ConstantCandidate(bGot, Sure)
<1>2. CASE c # BNil
  <2>1. Over("constant", c)
    BY <1>2 DEF Classified
  <2>2. c \in Int /\ Supported(bGot, Sure, c)
    BY <1>1, <1>2, CandidateSupported
  <2> HIDE DEF c
  <2>3. Supported(bGot', Minimum("constant"), c)
    BY <2>2 DEF Minimum
  <2> QED BY <1>1, <2>1, <2>2, <2>3, Decides
<1>3. ASSUME NEW s \in Sample, Over("linear", s[1]) PROVE ProbesInv'
  <2>1. s[1] \in Int
    BY SampleFacts
  <2> QED BY <1>1, <1>3, <2>1, Decides
<1>4. CASE c = BNil
  <2>1. else \/ \E s \in Sample : Over("linear", s[1])
    BY <1>4 DEF Classified
  <2> QED BY <1>3, <2>1
<1> QED BY <1>2, <1>4

LEMMA ProbesStep == ProbesInv /\ [ProbesNext]_probesVars => ProbesInv'
<1> SUFFICES ASSUME ProbesInv, [ProbesNext]_probesVars PROVE ProbesInv'
  OBVIOUS
<1> USE ProbesAssumption
<1>1. /\ bRun \in Nat /\ bFailed \in Nat /\ bGot \in [Sample -> Nat] /\ Count(bGot) \in Nat
      /\ bPhase = "main" => bRun + bFailed + Count(bGot) = BMain
      /\ bPhase \in {"idle", "main", "linear", "over"}
      /\ bPhase \in {"main", "linear", "idle"} => bResult = BNone
  BY CountIs DEF ProbesInv, DecisionSound, ProbesTypeOK
<1>2. CASE BatchStarts
  BY <1>2, GoesOn, NothingCounted DEF BatchStarts
<1>3. CASE MeasureAgain
  BY <1>3, GoesOn, NothingCounted DEF MeasureAgain
<1>4. CASE ProbeFails
  BY <1>1, <1>4, GoesOn DEF ProbeFails, FailedOne
<1>5. ASSUME NEW s \in Sample, ProbeEnds(s) PROVE ProbesInv'
  <2> DEFINE got == [bGot EXCEPT ![s] = @ + 1]
             c == ConstantCandidate(got, Early)
  <2>1. got \in [Sample -> Nat] /\ Count(got) = Count(bGot) + 1
    BY <1>1, CountStepped
  <2>2. bPhase = "main" /\ bRun > 0 /\ bGot' = got /\ bFailed' = bFailed
    BY <1>5 DEF ProbeEnds
  <2>3. \/ c # BNil /\ bRun' = 0 /\ Over("fast", c)
        \/ bRun' = bRun - 1 /\ bPhase' = bPhase /\ bResult' = bResult
    BY <1>5 DEF ProbeEnds, Rest
  <2>4. c # BNil => c \in Int /\ Supported(got, Early, c)
    BY <2>1, CandidateSupported
  <2> HIDE DEF got, c
  <2>5. CASE c # BNil /\ bRun' = 0 /\ Over("fast", c)
    <3>1. Supported(bGot', Minimum("fast"), c)
      BY <2>2, <2>4, <2>5 DEF Minimum
    <3> QED BY <1>1, <2>1, <2>2, <2>4, <2>5, <3>1, Decides
  <2>6. CASE bRun' = bRun - 1 /\ bPhase' = bPhase /\ bResult' = bResult
    <3>1. bRun' \in Nat /\ bRun' + bFailed' + Count(bGot') = BMain
      BY <1>1, <2>1, <2>2, <2>6
    <3> QED BY <1>1, <2>1, <2>2, <2>6, <3>1, GoesOn
  <2> QED BY <2>3, <2>5, <2>6
<1>6. ASSUME NEW s \in Sample, LinearEnds(s) PROVE ProbesInv'
  <2>1. /\ bPhase = "linear" /\ bPhase' = "linear" /\ bRun' \in Nat /\ bFailed' \in Nat
        /\ bResult' = BNone /\ bGot' = [bGot EXCEPT ![s] = @ + 1]
    BY <1>1, <1>6 DEF LinearEnds
  <2>2. bGot' \in [Sample -> Nat]
    BY <1>1, <2>1, CountStepped
  <2> QED BY <2>1, <2>2, GoesOn
<1>7. CASE BatchEnds
  <2>1. bPhase = "main" /\ bRun = 0
    BY <1>7 DEF BatchEnds
  <2>2. CASE Over("error", BNil) /\ UNCHANGED <<bRun, bFailed, bGot>>
    BY <1>1, <2>1, <2>2, Decides
  <2>3. CASE Classified(bGot, FALSE) /\ UNCHANGED <<bRun, bFailed, bGot>>
    BY <2>1, <2>3, ClassifiedKeeps
  <2>4. CASE /\ bPhase' = "linear" /\ bRun' = BLinear /\ bFailed' = 0 /\ bGot' = Nothing
             /\ UNCHANGED bResult
    BY <1>1, <2>1, <2>4, GoesOn, NothingCounted
  <2> QED BY <1>7, <2>2, <2>3, <2>4 DEF BatchEnds
<1>8. CASE Rejected
  <2>1. /\ bRun = 0 /\ UNCHANGED <<bRun, bFailed, bGot>>
        /\ Classified(bGot, Over("incompatible", BNil))
    BY <1>8 DEF Rejected
  <2>2. Over("incompatible", BNil) => ProbesInv'
    BY <1>1, <2>1, Decides
  <2> QED BY <2>1, <2>2, ClassifiedKeeps
<1>9. CASE UNCHANGED probesVars
  BY <1>9 DEF probesVars, ProbesInv, DecisionSound, ProbesTypeOK, AcceptedByMajority, ProbesStopped
<1> QED
  BY <1>2, <1>3, <1>4, <1>5, <1>6, <1>7, <1>8, <1>9 DEF ProbesNext

\* What a measurement decides rests on its samples: a constant offset has three confident
\* samples and 60 % of all around it, in whatever order probes answer or fail, and no probe
\* outlives the decision (_constant_candidate, collect_batch).
THEOREM DecisionsAreSound == ProbesSpec => []DecisionSound
<1>1. ProbesInv => DecisionSound
  BY DEF ProbesInv
<1> QED
  BY <1>1, ProbesInitial, ProbesStep, PTL DEF ProbesSpec

\* Failed probes never pass for samples that disagree (collect_batch raises first).
THEOREM DriftAfterSamples == ProbesSpec => RejectedOnSamples
<1>1. ProbesInv /\ [ProbesNext]_probesVars =>
        [bPhase = "main" /\ bPhase' = "linear" => Count(bGot) >= 3]_probesVars
  <2> SUFFICES ASSUME ProbesInv, ProbesNext, bPhase = "main", bPhase' = "linear"
               PROVE  Count(bGot) >= 3
    OBVIOUS
  <2>1. /\ bRun \in Nat /\ bFailed \in Nat /\ Count(bGot) \in Nat
        /\ bRun + bFailed + Count(bGot) = BMain
    BY CountIs DEF ProbesInv, DecisionSound, ProbesTypeOK
  <2>2. BatchEnds
    BY DEF ProbesNext, BatchStarts, ProbeFails, Rejected, MeasureAgain, ProbeEnds, LinearEnds, Over
  <2>3. bRun = 0 /\ ~TooFew(bFailed, bGot)
    BY <2>2 DEF BatchEnds, Over
  <2> QED BY <2>1, <2>3, ProbesAssumption DEF TooFew
<1> QED
  BY <1>1, ProbesInitial, ProbesStep, PTL DEF ProbesSpec, RejectedOnSamples

\* No step of the whole does what none may do: the clean-up takes no track from a conversion,
\* nobody enters a gate above its limit, and no drift is looked for on failures.
THEOREM NoStepUnsound == Spec => StepsSound
<1>1. Init => BuildInit /\ FetchInit /\ ProbesInit
  BY DEF Init
<1>2. [Next]_<<focus, buildVars, resolveVars, fetchVars, probesVars>> =>
        [DualNext]_buildVars /\ [FetchNext]_fetchVars /\ [ProbesNext]_probesVars
  <2> SUFFICES ASSUME [Next]_<<focus, buildVars, resolveVars, fetchVars, probesVars>>
               PROVE  [DualNext]_buildVars /\ [FetchNext]_fetchVars /\ [ProbesNext]_probesVars
    OBVIOUS
  <2>1. PlayStep \/ BuildStep => DualNext
    BY DEF PlayStep, BuildStep, DualNext, PlayNext
  <2>2. CASE Next
    BY <2>1, <2>2 DEF Next
  <2>3. CASE UNCHANGED <<focus, buildVars, resolveVars, fetchVars, probesVars>>
    BY <2>3
  <2> QED BY <2>2, <2>3
<1> QED
  BY <1>1, <1>2, ConversionsSurvive, EntriesWithinLimit, DriftAfterSamples, PTL
     DEF Spec, BuildSpec, FetchSpec, ProbesSpec, StepsSound
=============================================================================
