----------------------------- MODULE DualStore -----------------------------
(***************************************************************************)
(* The audio tracks of DUAL playback (services/dual/audio.py AudioStore,   *)
(* served by services/dual/service.py): registered playlists with the      *)
(* fragments converted from them, all in memory.  A track leaves by age, by *)
(* the limit on tracks, or by replacement, unless somebody pinned it; a    *)
(* request that already holds the old track goes on with it.               *)
(***************************************************************************)
EXTENDS Integers, Sequences, FiniteSets, SequencesExt

CONSTANTS
    DHid,        \* identities of tracks (hid)
    DFrag,       \* fragments of a track: segment, offset and rate
    DReq,        \* player requests and prefetch tasks for fragments
    DMaxTracks,  \* MAX_TRACKS
    DMaxFrags,   \* MAX_CACHED_FRAGMENTS
    DNil

Idle    == 1  \* age of a track no player asked for in TRACK_IDLE_SECONDS
Expired == 2  \* ... in TRACK_TTL_SECONDS

Track == [age : 0 .. Expired, frags : Seq(DFrag)]

ASSUME DualAssumption ==
    /\ DMaxTracks \in Nat \ {0} /\ DMaxFrags \in Nat \ {0}
    /\ DNil \notin DHid \cup DFrag \cup Track
    /\ IsFiniteSet(DHid) /\ IsFiniteSet(DReq)

VARIABLES
    dTracks,  \* dTracks[h]: age and fragments of the stored track, or DNil
    dOlder,   \* dOlder[h]: the stored tracks used less recently than h (last_used)
    dPinned,  \* dPinned[h]: the count in _pinned (0: no entry)
    dActive,  \* dActive[h]: the count in _active
    dReq      \* fragment requests: "mine" while the track they hold is the stored one

storeVars == <<dTracks, dOlder, dPinned, dActive, dReq>>

DIdle == [pc |-> "idle", h |-> DNil, k |-> DNil, mine |-> FALSE]
Stored(h) == dTracks[h] # DNil

DualStoreInit ==
    /\ dTracks = [h \in DHid |-> DNil] /\ dOlder = [h \in DHid |-> {}]
    /\ dPinned = [h \in DHid |-> 0] /\ dActive = [h \in DHid |-> 0]
    /\ dReq = [r \in DReq |-> DIdle]

\* Types; the times of last use order the stored tracks.
DualStoreTypeOK ==
    /\ dTracks \in [DHid -> Track \cup {DNil}]
    /\ \A h \in DHid : Stored(h) => IsInjective(dTracks[h].frags)
    /\ dOlder \in [DHid -> SUBSET DHid]
    /\ \A h \in DHid : \A g \in dOlder[h] :
         Stored(h) /\ Stored(g) /\ h \notin dOlder[g] /\ dOlder[g] \subseteq dOlder[h]
    /\ \A g, h \in DHid : Stored(g) /\ Stored(h) => g = h \/ g \in dOlder[h] \/ h \in dOlder[g]
    /\ dPinned \in [DHid -> Nat] /\ dActive \in [DHid -> Nat]
    /\ dReq \in [DReq -> [pc : {"idle", "lock", "convert"}, h : DHid \cup {DNil},
                          k : DFrag \cup {DNil}, mine : BOOLEAN]]

-----------------------------------------------------------------------------
(* The table of tracks.                                                    *)

Tracks == {h \in DHid : Stored(h)}

\* The order of use when h is the last one used.
UsedLast(h) == [g \in DHid |-> IF g = h THEN Tracks \ {h} ELSE dOlder[g] \ {h}]

\* _track: a lookup makes the track the most recently used one.
Touched(h) ==
    /\ dTracks' = [dTracks EXCEPT ![h].age = 0]
    /\ dOlder' = UsedLast(h)

\* What _remember may drop: tracks nobody pinned.
Evictable(hs) == {h \in hs : dPinned[h] = 0}

\* The least recently used of kept (the new track h is the last of all), as many
\* as are over the limit.
Overdue(h, kept) ==
    LET loose == Evictable(kept)
        over  == Cardinality(kept) - DMaxTracks
    IN  {g \in loose : Cardinality(UsedLast(h)[g] \cap loose) < over}

\* The tracks that stay when _remember stores h: not those over their TTL, then
\* as few of the least recently used ones gone as the limit asks for.
Remaining(h) ==
    LET all     == Tracks \cup {h}
        expired == {g \in Evictable(all \ {h}) : dTracks[g].age = Expired}
        kept    == all \ expired
    IN  kept \ Overdue(h, kept)

\* register and _remember: a new track object takes the place of the old one.
Registered(h) ==
    LET rest == Remaining(h)
    IN  /\ dTracks' = [g \in DHid |-> IF g \notin rest THEN DNil
                                      ELSE IF g = h THEN [age |-> 0, frags |-> <<>>]
                                      ELSE dTracks[g]]
        /\ dOlder' = [g \in DHid |-> IF g \in rest THEN UsedLast(h)[g] \cap rest ELSE {}]
        /\ dReq' = [r \in DReq |-> [dReq[r] EXCEPT !.mine = @ /\ dReq[r].h \in rest \ {h}]]

Pinned(h)   == dPinned' = [dPinned EXCEPT ![h] = @ + 1]
Unpinned(hs) == dPinned' = [h \in DHid |-> IF h \in hs /\ dPinned[h] > 0
                                           THEN dPinned[h] - 1 ELSE dPinned[h]]

-----------------------------------------------------------------------------
(* Fragments: one conversion at a time for each, shared by its requests.   *)

Holding(h, k) == {r \in DReq : dReq[r].pc = "convert" /\ dReq[r].h = h /\ dReq[r].k = k}
Waiting(h, k) == {r \in DReq : dReq[r].pc = "lock" /\ dReq[r].h = h /\ dReq[r].k = k}

\* fragment_bytes, with the lock: ffmpeg runs, and the track counts as active.
Convert(r, h, k, mine) ==
    /\ dReq' = [dReq EXCEPT ![r] = [pc |-> "convert", h |-> h, k |-> k, mine |-> mine]]
    /\ dActive' = [dActive EXCEPT ![h] = @ + 1]

\* audio_segment, audio_init, _prefetch_one: from the cache, or through the lock.
\* An unknown track is an error 410 and changes nothing.
FragmentBytes(r, h, k) ==
    /\ dReq[r].pc = "idle" /\ Stored(h) /\ Touched(h)
    /\ \/ k \in ToSet(dTracks[h].frags) /\ UNCHANGED <<dActive, dReq>>
       \/ /\ k \notin ToSet(dTracks[h].frags)
          /\ Holding(h, k) \cup Waiting(h, k) # {}
          /\ dReq' = [dReq EXCEPT ![r] = [pc |-> "lock", h |-> h, k |-> k, mine |-> TRUE]]
          /\ UNCHANGED dActive
       \/ /\ k \notin ToSet(dTracks[h].frags)
          /\ Holding(h, k) \cup Waiting(h, k) = {}
          /\ Convert(r, h, k, TRUE)
    /\ UNCHANGED dPinned

\* audio_playlist: the timeline of the track; the prefetch it starts is FragmentBytes.
AudioPlaylist(h) == Stored(h) /\ Touched(h) /\ UNCHANGED <<dPinned, dActive, dReq>>

\* Another request converted the fragment meanwhile.  (What a replaced track
\* holds is not kept: a request that has one may find it there or not.)
FoundNow(r) == dReq[r].mine => dReq[r].k \in ToSet(dTracks[dReq[r].h].frags)

\* The lock is free: look at the cache again, else convert.
LockGranted(r) ==
    /\ dReq[r].pc = "lock" /\ Holding(dReq[r].h, dReq[r].k) = {}
    /\ \/ FoundNow(r) /\ dReq' = [dReq EXCEPT ![r] = DIdle] /\ UNCHANGED dActive
       \/ ~(dReq[r].mine /\ FoundNow(r)) /\ Convert(r, dReq[r].h, dReq[r].k, dReq[r].mine)
    /\ UNCHANGED <<dTracks, dOlder, dPinned>>

\* Mutant of Released: a failed conversion keeps its count.
ReleasedOnSuccess(r, ok) ==
    dActive' = [dActive EXCEPT ![dReq[r].h] = IF ok THEN @ - 1 ELSE @]

\* The finally of fragment_bytes.
Released(r, ok) == dActive' = [dActive EXCEPT ![dReq[r].h] = @ - 1]

\* The newest DMaxFrags fragments stay cached.
Cache(frags, k) ==
    LET all == Append(frags, k) IN SubSeq(all, Len(all) - Min({Len(all), DMaxFrags}) + 1, Len(all))

\* ffmpeg ends; the fragment is kept in the track the request holds.
ConvertEnds(r, ok) ==
    /\ dReq[r].pc = "convert" /\ Released(r, ok)
    /\ dTracks' = IF ok /\ dReq[r].mine
                  THEN [dTracks EXCEPT ![dReq[r].h].frags = Cache(@, dReq[r].k)] ELSE dTracks
    /\ dReq' = [dReq EXCEPT ![r] = DIdle]
    /\ UNCHANGED <<dOlder, dPinned>>

-----------------------------------------------------------------------------
(* The clean-up loop.                                                      *)

\* cleanup_idle, track by track in one step of the event loop.  (The lock it
\* looks at is the one of register, never held across an await.)
Releasable(h) ==
    Stored(h) /\ dPinned[h] = 0 /\ dActive[h] = 0 /\ dTracks[h].age >= Idle

CleanupIdle ==
    LET gone == {h \in DHid : Releasable(h)}
    IN  /\ gone # {}
        /\ dTracks' = [h \in DHid |-> IF h \in gone THEN DNil ELSE dTracks[h]]
        /\ dOlder' = [h \in DHid |-> IF h \in gone THEN {} ELSE dOlder[h] \ gone]
        /\ dReq' = [r \in DReq |-> [dReq[r] EXCEPT !.mine = @ /\ dReq[r].h \notin gone]]
        /\ UNCHANGED <<dPinned, dActive>>

\* Time passes: a track, and all less recently used than it, get older.
DualTick ==
    \E g \in Tracks :
        /\ dTracks[g].age < Expired
        /\ dTracks' = [h \in DHid |->
             IF h \in dOlder[g] \cup {g} /\ dTracks[h].age < dTracks[g].age + 1
             THEN [dTracks[h] EXCEPT !.age = dTracks[g].age + 1] ELSE dTracks[h]]
        /\ UNCHANGED <<dOlder, dPinned, dActive, dReq>>

PlayNext ==
    \/ \E r \in DReq, h \in DHid, k \in DFrag : FragmentBytes(r, h, k)
    \/ \E r \in DReq : LockGranted(r) \/ (\E ok \in BOOLEAN : ConvertEnds(r, ok))
    \/ \E h \in DHid : AudioPlaylist(h)
    \/ CleanupIdle
    \/ DualTick

-----------------------------------------------------------------------------
(* Properties.                                                             *)

\* A pinned track is there, whatever ages, limits and registrations did since the
\* pin: a measurement that waits longer than the idle limit finds its audio.
PinnedStays == \A h \in DHid : dPinned[h] > 0 => Stored(h)

\* The count of active conversions is the number of conversions that run, also
\* after failures and replaced tracks: a wrong one would keep a track for ever,
\* or let the clean-up release one in use.
ActiveIsConversions ==
    \A h \in DHid : dActive[h] = Cardinality({r \in DReq : dReq[r].pc = "convert"
                                                            /\ dReq[r].h = h})

\* ffmpeg never runs on a fragment the stored track already holds: requests for
\* the same fragment share a conversion, the player's and the prefetch's.
ConvertedOnce ==
    \A r \in DReq : dReq[r].pc = "convert" /\ dReq[r].mine =>
        /\ dReq[r].k \notin ToSet(dTracks[dReq[r].h].frags)
        /\ Holding(dReq[r].h, dReq[r].k) = {r}

\* No more than MAX_TRACKS tracks, pinned ones included: a registration that finds all
\* others pinned drops its own, and the "break" of _remember is never reached.
TracksBounded == Cardinality(Tracks) <= DMaxTracks

\* The store under its players, prefetches, registrations and clean-up: what is pinned
\* stays, conversions are counted, nothing is converted twice, and the limit holds (with
\* the types: last_used orders the tracks).
StoreKept ==
    DualStoreTypeOK /\ PinnedStays /\ ActiveIsConversions /\ ConvertedOnce /\ TracksBounded
=============================================================================
