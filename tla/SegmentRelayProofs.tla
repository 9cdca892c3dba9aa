------------------------- MODULE SegmentRelayProofs -------------------------
(* Proofs about SegmentRelay, for any numbers of requests, playbacks and   *)
(* proxies and any routing chain.                                          *)
(*                                                                         *)
(* A step of a request does one of three things to req and inflight: it    *)
(* moves on (Goto), it becomes a fetch or a follower (Begin), or it ends   *)
(* its frames (Release).  One lemma for each shows that the futures stay   *)
(* owned; the proof that a step keeps the invariant then only has to say   *)
(* which of them an action is.  What the futures are about is shown in the *)
(* same way, after that.                                                   *)
EXTENDS SegmentRelay, TLAPS

\* A request that has not been retried is still in its first frame.
OneRetry == \A v \in Slot : ~req[v].retried => req[v].depth = 1

\* What the three kinds of step keep
Core ==
    /\ req \in [Slot -> Request]
    /\ inflight \in [Base -> Frame \cup {Nil}]
    /\ FuturesAreOwned
    /\ OneRetry

IInv == TypeOK /\ FuturesAreOwned /\ OneRetry

\* The step takes an entry off the map only with the frame it belongs to.
Leaves == \A b \in Base : inflight[b] # Nil /\ inflight'[b] = Nil =>
                            inflight[b][2] \notin req'[inflight[b][1]].leads

Kept == Core' /\ Leaves

\* A value that the record of v may take without ending a frame
Fits(v, r) ==
    /\ r \in Request
    /\ r.leads = req[v].leads
    /\ ~r.retried => r.depth = 1

-----------------------------------------------------------------------------
LEMMA IdleFits == Idle \in Request /\ Idle.leads = {} /\ Idle.depth = 1
                  /\ Idle.pc # "wait" /\ ~Idle.retried
  BY RelayAssumption DEF Idle, Request, Pcs, Base

LEMMA AtFits ==
  ASSUME NEW v \in Slot, Core, NEW pc \in Pcs
  PROVE  Fits(v, At(v, pc)) /\ At(v, pc).pc = pc
  <1>1. req[v] \in Request /\ (~req[v].retried => req[v].depth = 1)
    BY DEF Core, OneRetry
  <1>2. At(v, pc) \in Request
    BY <1>1, ZenonT(60) DEF At, Request
  <1>3. /\ At(v, pc).pc = pc
        /\ At(v, pc).leads = req[v].leads
        /\ At(v, pc).retried = req[v].retried
        /\ At(v, pc).depth = req[v].depth
    BY <1>1, ZenonT(60) DEF At, Request
  <1> QED BY <1>1, <1>2, <1>3, ZenonT(60) DEF Fits

LEMMA GotoKeeps ==
  ASSUME Core, NEW v \in Slot, NEW r, Fits(v, r), r.pc # "wait", Goto(v, r)
  PROVE  Kept
  <1>1. req' \in [Slot -> Request] /\ inflight' \in [Base -> Frame \cup {Nil}]
    BY DEF Core, Fits, Goto
  <1>2. \A w \in Slot : req'[w].leads = req[w].leads
    BY DEF Core, Fits, Goto
  <1>3. FuturesAreOwned'
    BY <1>1, <1>2, RelayAssumption DEF Core, FuturesAreOwned, Goto, Frame
  <1>4. OneRetry'
    BY <1>1 DEF Core, OneRetry, Fits, Goto
  <1>5. Leaves
    BY DEF Leaves, Goto
  <1> QED BY <1>1, <1>3, <1>4, <1>5 DEF Core, Kept

LEMMA RouteIsProxy == ASSUME NEW f \in Proxy \cup {Nil}, dead \subseteq Proxy
                      PROVE  RoutesFor(f) \subseteq Proxy \cup {Nil}
  BY RelayAssumption DEF RoutesFor, Routes, Choices

LEMMA LeadKeeps ==
  ASSUME Core, dead \subseteq Proxy, NEW v \in Slot, NEW r, Fits(v, r), Lead(v, r)
  PROVE  Kept
  <1>1. PICK p \in RoutesFor(r.forced) :
          /\ req' = [req EXCEPT ![v] =
               [r EXCEPT !.pc = IF r.kind = "segment" THEN "parallel" ELSE "fetch",
                         !.route = p,
                         !.leads = IF r.whole THEN @ \cup {r.depth} ELSE @]]
          /\ inflight' = IF r.whole THEN [inflight EXCEPT ![r.url] = <<v, r.depth>>]
                                    ELSE inflight
    BY DEF Lead
  <1> DEFINE pc == IF r.kind = "segment" THEN "parallel" ELSE "fetch"
             l  == IF r.whole THEN r.leads \cup {r.depth} ELSE r.leads
             s  == [r EXCEPT !.pc = pc, !.route = p, !.leads = l]
  <1>2. p \in Proxy \cup {Nil}
    BY RouteIsProxy DEF Fits, Request
  <1>9. pc \in Pcs /\ pc # "wait" /\ l \in SUBSET {1, 2}
    BY DEF Pcs, Fits, Request
  <1>10. s = [r EXCEPT !.pc = IF r.kind = "segment" THEN "parallel" ELSE "fetch",
                       !.route = p,
                       !.leads = IF r.whole THEN @ \cup {r.depth} ELSE @]
    OBVIOUS
  <1>11. req'[v] = s
    BY <1>1, <1>10 DEF Core
  <1> HIDE DEF pc, l
  <1>14. r \in Request
    BY DEF Fits
  <1>12. s \in Request /\ s.pc = pc /\ s.leads = l /\ s.retried = r.retried
         /\ s.depth = r.depth
    <2>1. s \in Request
      BY <1>2, <1>9, <1>14, ZenonT(60) DEF Request
    <2> QED BY <1>14, <2>1, ZenonT(60) DEF Request
  <1>3. /\ req'[v] \in Request /\ req'[v].pc # "wait"
        /\ req[v].leads \subseteq req'[v].leads
        /\ r.whole => r.depth \in req'[v].leads
        /\ ~req'[v].retried => req'[v].depth = 1
    BY <1>9, <1>11, <1>12 DEF Fits, l
  <1>4. req' \in [Slot -> Request] /\ \A w \in Slot : w # v => req'[w] = req[w]
    BY <1>1, <1>3 DEF Core
  <1>5. r.url \in Base /\ <<v, r.depth>> \in Frame
    BY DEF Fits, Request, Frame
  <1>6. inflight' \in [Base -> Frame \cup {Nil}]
    BY <1>1, <1>5 DEF Core
  <1>7. FuturesAreOwned'
    <2>1. ASSUME NEW b \in Base, inflight'[b] # Nil
          PROVE  inflight'[b][2] \in req'[inflight'[b][1]].leads
      <3>1. CASE r.whole /\ b = r.url
        BY <1>1, <1>3, <3>1 DEF Core
      <3>2. CASE ~(r.whole /\ b = r.url)
        <4>1. inflight'[b] = inflight[b] /\ inflight[b] \in Frame
          BY <1>1, <2>1, <3>2 DEF Core
        <4> QED BY <4>1, <2>1, <1>3, <1>4 DEF Core, FuturesAreOwned, Frame
      <3> QED BY <3>1, <3>2
    <2>2. ASSUME NEW w \in Slot, req'[w].pc = "wait"
          PROVE  /\ req'[w].waitOn # Nil
                 /\ req'[w].waitOn[2] \in req'[req'[w].waitOn[1]].leads
      <3>1. w # v /\ req'[w] = req[w]
        BY <2>2, <1>3, <1>4
      <3>2. req[w].waitOn \in Frame /\ req[w].waitOn[2] \in req[req[w].waitOn[1]].leads
        BY <2>2, <3>1 DEF Core, FuturesAreOwned, Request
      <3> QED BY <3>1, <3>2, <1>3, <1>4, RelayAssumption DEF Frame
    <2> QED BY <2>1, <2>2 DEF FuturesAreOwned
  <1>8. OneRetry'
    BY <1>3, <1>4 DEF Core, OneRetry
  <1>13. Leaves
    BY <1>1, <1>5, RelayAssumption DEF Core, Leaves, Frame
  <1> QED BY <1>4, <1>6, <1>7, <1>8, <1>13 DEF Core, Kept

LEMMA BeginKeeps ==
  ASSUME Core, dead \subseteq Proxy, NEW v \in Slot, NEW r, Fits(v, r), Begin(v, r)
  PROVE  Kept
  <1>1. CASE r.whole /\ inflight[r.url] # Nil
    <2> DEFINE s == [r EXCEPT !.pc = "wait", !.waitOn = inflight[r.url]]
    <2>1. req' = [req EXCEPT ![v] = s] /\ inflight' = inflight
      BY <1>1 DEF Begin, Goto
    <2>2. inflight[r.url] \in Frame
      BY <1>1 DEF Core, Fits, Request
    <2>3. /\ s \in Request /\ s.leads = req[v].leads /\ s.waitOn = inflight[r.url]
          /\ ~s.retried => s.depth = 1
      <3>1. r \in Request /\ r.leads = req[v].leads /\ (~r.retried => r.depth = 1)
        BY DEF Fits
      <3>2. s \in Request
        BY <2>2, <3>1, ZenonT(60) DEF Request, Pcs
      <3>3. /\ s.leads = r.leads /\ s.waitOn = inflight[r.url]
            /\ s.retried = r.retried /\ s.depth = r.depth
        BY <3>1, ZenonT(60) DEF Request
      <3> QED BY <3>1, <3>2, <3>3, Zenon
    <2>4. /\ req' \in [Slot -> Request]
          /\ \A w \in Slot : req'[w].leads = req[w].leads
          /\ \A w \in Slot : req'[w] = IF w = v THEN s ELSE req[w]
      BY <2>1, <2>3 DEF Core
    <2>5. FuturesAreOwned'
      <3>1. ASSUME NEW b \in Base, inflight'[b] # Nil
            PROVE  inflight'[b][2] \in req'[inflight'[b][1]].leads
        BY <2>1, <2>4, <3>1 DEF Core, FuturesAreOwned, Frame
      <3>2. ASSUME NEW w \in Slot, req'[w].pc = "wait"
            PROVE  /\ req'[w].waitOn # Nil
                   /\ req'[w].waitOn[2] \in req'[req'[w].waitOn[1]].leads
        <4>1. CASE w = v
          <5>1. r.url \in Base
            BY ZenonT(60) DEF Fits, Request
          <5>2. req'[w] = s
            BY <2>4, <4>1
          <5>3. req'[w].waitOn = inflight[r.url]
            BY <2>3, <5>2
          <5> QED BY <1>1, <5>1, <5>3, <2>1, <3>1
        <4>2. CASE w # v
          <5>1. req'[w] = req[w] /\ req[w].waitOn \in Frame
            BY <2>4, <3>2, <4>2 DEF Core, FuturesAreOwned, Request
          <5> QED BY <5>1, <2>4, <3>2, RelayAssumption DEF Core, FuturesAreOwned, Frame
        <4> QED BY <4>1, <4>2
      <3> QED BY <3>1, <3>2 DEF FuturesAreOwned
    <2>6. OneRetry'
      BY <2>3, <2>4 DEF Core, OneRetry
    <2>7. Leaves
      BY <2>1 DEF Leaves
    <2> QED BY <2>1, <2>4, <2>5, <2>6, <2>7 DEF Core, Kept
  <1>2. CASE ~(r.whole /\ inflight[r.url] # Nil)
    BY <1>2, LeadKeeps DEF Begin
  <1> QED BY <1>1, <1>2

\* What Release makes of a follower
LEMMA WakingFits ==
  ASSUME NEW r \in Request, NEW g \in {"none", "whole", "part"}
  PROVE  /\ Woken(r, g) \in Request
         /\ Woken(r, g).pc = "woken"
         /\ Woken(r, g).leads = r.leads
         /\ Woken(r, g).retried = r.retried
         /\ Woken(r, g).depth = r.depth
  <1>1. Woken(r, g) \in Request
    BY ZenonT(60) DEF Woken, Request, Pcs
  <1> QED BY <1>1, ZenonT(60) DEF Woken, Request

LEMMA ReleaseOwned ==
  ASSUME Core, NEW v \in Slot, NEW result \in {"none", "whole", "part"}, NEW next \in Request,
         next.leads = {}, next.pc # "wait", ~next.retried => next.depth = 1,
         Release(v, result, next)
  PROVE  Kept
  <1>1. \A w \in Slot : req'[w] =
          IF w = v THEN next
          ELSE IF req[w].waitOn \in Futures(v)
          THEN Woken(req[w], IF req[w].waitOn = <<v, req[v].depth>> THEN result ELSE "none")
          ELSE req[w]
    BY DEF Release
  <1>2. ASSUME NEW w \in Slot, w # v
        PROVE  /\ req'[w] \in Request
               /\ req'[w].leads = req[w].leads
               /\ req'[w].retried = req[w].retried
               /\ req'[w].depth = req[w].depth
               /\ req[w].waitOn \in Futures(v) => req'[w].pc = "woken"
    <2> DEFINE g == IF req[w].waitOn = <<v, req[v].depth>> THEN result ELSE "none"
    <2>1. g \in {"none", "whole", "part"} /\ req[w] \in Request
      BY DEF Core
    <2>2. CASE req[w].waitOn \in Futures(v)
      <3>1. req'[w] = Woken(req[w], g)
        BY <1>1, <1>2, <2>2
      <3> HIDE DEF g
      <3> QED BY <2>1, <3>1, WakingFits
    <2>3. CASE req[w].waitOn \notin Futures(v)
      BY <1>1, <1>2, <2>1, <2>3
    <2> QED BY <2>2, <2>3
  <1>3. req' \in [Slot -> Request]
    BY <1>1, <1>2 DEF Release
  <1>4. \A w \in Slot : w # v => /\ req'[w].leads = req[w].leads
                                 /\ req'[w].retried = req[w].retried
                                 /\ req'[w].depth = req[w].depth
    BY <1>2
  <1>5. inflight' \in [Base -> Frame \cup {Nil}]
    BY DEF Core, Release
  <1>6. ASSUME NEW f \in Frame, f \notin Futures(v), f[2] \in req[f[1]].leads
        PROVE  f[2] \in req'[f[1]].leads
    <2>1. f[1] \in Slot /\ f = <<f[1], f[2]>>
      BY DEF Frame
    <2>2. f[1] # v
      BY <1>6, <2>1 DEF Futures
    <2> QED BY <1>4, <1>6, <2>1, <2>2
  <1>7. ASSUME NEW b \in Base, inflight'[b] # Nil
        PROVE  inflight'[b][2] \in req'[inflight'[b][1]].leads
    <2>1. inflight'[b] = inflight[b] /\ inflight[b] \notin Futures(v)
      BY <1>7 DEF Release, Core
    <2> QED BY <1>6, <1>7, <2>1 DEF Core, FuturesAreOwned
  <1>8. ASSUME NEW w \in Slot, req'[w].pc = "wait"
        PROVE  /\ req'[w].waitOn # Nil
               /\ req'[w].waitOn[2] \in req'[req'[w].waitOn[1]].leads
    <2>1. w # v
      BY <1>1, <1>8
    <2>2. req[w].waitOn \notin Futures(v)
      <3> SUFFICES ASSUME req[w].waitOn \in Futures(v) PROVE FALSE
        OBVIOUS
      <3>1. req'[w].pc = "woken"
        BY <1>2, <2>1
      <3> QED BY <3>1, <1>8
    <2>3. req'[w] = req[w]
      BY <1>1, <2>1, <2>2
    <2>4. req[w].waitOn \in Frame /\ req[w].waitOn # Nil
          /\ req[w].waitOn[2] \in req[req[w].waitOn[1]].leads
      BY <1>8, <2>3 DEF Core, FuturesAreOwned, Request
    <2> QED BY <1>6, <2>2, <2>3, <2>4
  <1>9. OneRetry'
    BY <1>1, <1>4 DEF Core, OneRetry
  <1>10. Leaves
    <2> SUFFICES ASSUME NEW b \in Base, inflight[b] # Nil, inflight'[b] = Nil
                 PROVE  inflight[b][2] \notin req'[inflight[b][1]].leads
      BY DEF Leaves
    <2>1. inflight[b] \in Futures(v)
      BY DEF Core, Release
    <2>2. inflight[b][1] = v
      BY <2>1 DEF Futures
    <2> QED BY <1>1, <2>2
  <1> QED BY <1>1, <1>3, <1>5, <1>7, <1>8, <1>9, <1>10 DEF Core, FuturesAreOwned, Kept

LEMMA AnswerKeeps ==
  ASSUME Core, NEW v \in Slot, NEW result \in {"none", "whole", "part"}, Answer(v, result)
  PROVE  Kept
  BY IdleFits, ReleaseOwned DEF Answer
-----------------------------------------------------------------------------
(* The inductive invariant.                                                *)

LEMMA Initially == ASSUME Init PROVE IInv
  BY IdleFits, RelayAssumption
  DEF Init, IInv, TypeOK, FuturesAreOwned, OneRetry, Base, Idle

\* The other variables stay in their types when a step moves no base.
LEMMA CoreSuffices ==
  ASSUME IInv, Core', UNCHANGED <<tokens, held, live>>, dead' \subseteq Proxy
  PROVE  IInv'
  BY DEF IInv, TypeOK, Core, FuturesAreOwned, OneRetry

LEMMA MarkedIsProxy == ASSUME NEW p \in Proxy \cup {Nil}, dead \subseteq Proxy
                       PROVE  Marked(p) \subseteq Proxy
  BY DEF Marked

LEMMA BaseTypes ==
  ASSUME IInv, NEW k \in Play, NEW b \in Base
  PROVE  Substituted(k, b) \in Base /\ live \in Base
  BY RelayAssumption DEF IInv, TypeOK, Substituted, Base

LEMMA HasCore == ASSUME IInv PROVE Core
  BY DEF IInv, Core, TypeOK

LEMMA EnterKeeps ==
  ASSUME IInv, NEW v \in Slot, Enter(v)
  PROVE  IInv' /\ Leaves
  <1>1. PICK kind \in {"segment", "playlist"}, whole \in BOOLEAN, f \in Forced :
          Begin(v, [Idle EXCEPT !.kind = kind, !.whole = whole, !.forced = f,
                                !.url = Substituted(Of[v], held[Of[v]]),
                                !.dir = Substituted(Of[v], held[Of[v]])])
    BY DEF Enter
  <1> DEFINE b == Substituted(Of[v], held[Of[v]])
             r == [Idle EXCEPT !.kind = kind, !.whole = whole, !.forced = f,
                               !.url = b, !.dir = b]
  <1>2. b \in Base
    BY BaseTypes, RelayAssumption DEF IInv, TypeOK
  <1>3. req[v] = Idle
    BY DEF Enter
  <1>6. f \in Proxy \cup {Nil}
    BY RelayAssumption
  <1> HIDE DEF b
  <1>7. r \in Request
    BY <1>2, <1>6, IdleFits, ZenonT(60) DEF Request
  <1>8. r.leads = Idle.leads /\ r.depth = Idle.depth
    BY IdleFits, ZenonT(60) DEF Request
  <1>4. Fits(v, r)
    BY <1>3, <1>7, <1>8, IdleFits DEF Fits
  <1>5. Kept
    BY <1>1, <1>4, HasCore, BeginKeeps DEF IInv, TypeOK, b
  <1> QED BY <1>5, CoreSuffices DEF Enter, IInv, TypeOK, Kept

LEMMA MoveKeeps ==
  ASSUME Core, NEW v \in Slot, NEW pc \in Pcs \ {"wait"}, Goto(v, At(v, pc))
  PROVE  Kept
  BY AtFits, GotoKeeps

LEMMA RenewalKeeps ==
  ASSUME Core, NEW v \in Slot, Renewal(v)
  PROVE  Kept
  <1>1. CASE Goto(v, At(v, "extract"))
    BY <1>1, MoveKeeps DEF Pcs
  <1>2. CASE Goto(v, [At(v, "extract") EXCEPT !.renewed = TRUE])
    <2> DEFINE r == [At(v, "extract") EXCEPT !.renewed = TRUE]
    <2>1. Fits(v, At(v, "extract")) /\ At(v, "extract").pc = "extract"
      BY AtFits DEF Pcs
    <2>2. r \in Request
      BY <2>1, ZenonT(60) DEF Fits, Request
    <2>3. r.leads = At(v, "extract").leads /\ r.depth = At(v, "extract").depth /\ r.pc = "extract"
      BY <2>1, ZenonT(60) DEF Fits, Request
    <2>4. r.retried = At(v, "extract").retried
      BY <2>1, ZenonT(60) DEF Fits, Request
    <2>5. Fits(v, r)
      BY <2>1, <2>2, <2>3, <2>4, ZenonT(60) DEF Fits
    <2> HIDE DEF r
    <2>6. Goto(v, r)
      BY <1>2 DEF r
    <2> QED BY <2>3, <2>5, <2>6, GotoKeeps
  <1>3. CASE Answer(v, "none")
    BY <1>3, AnswerKeeps
  <1> QED BY <1>1, <1>2, <1>3 DEF Renewal

\* The retry after a tunnel came back is the second frame.
LEMMA AgainKeeps ==
  ASSUME IInv, NEW v \in Slot, ~req[v].retried, Again(v)
  PROVE  Kept
  <1> DEFINE b == IF req[v].url = 0 THEN 0 ELSE Substituted(Of[v], req[v].url)
             d == IF b = 0 THEN req[v].dir ELSE b
             q == At(v, "fetch")
             r == [q EXCEPT !.retried = TRUE, !.depth = 2, !.url = b, !.dir = d]
  <1>1. req[v] \in Request /\ req[v].depth = 1
    BY DEF IInv, TypeOK, OneRetry
  <1>2. Fits(v, q) /\ q.depth = 1 /\ q.dir = req[v].dir
    <2>1. Fits(v, q)
      BY HasCore, AtFits DEF Pcs
    <2> QED BY <1>1, <2>1 DEF At, Request
  <1>3. b \in Base /\ d \in Base
    <2>1. req[v].url \in Base /\ req[v].dir \in Base
      BY <1>1 DEF Request
    <2>2. Of[v] \in Play
      BY RelayAssumption
    <2>3. Substituted(Of[v], req[v].url) \in Base
      BY <2>1, <2>2, BaseTypes
    <2>4. 0 \in Base
      BY RelayAssumption DEF Base
    <2> QED BY <2>1, <2>3, <2>4
  <1>4. Begin(v, r)
    <2>1. Begin(v, [q EXCEPT !.retried = TRUE, !.depth = q.depth + 1, !.url = b,
                             !.dir = IF b = 0 THEN q.dir ELSE b])
      BY DEF Again
    <2>2. q.depth + 1 = 2
      BY <1>2
    <2>3. (IF b = 0 THEN q.dir ELSE b) = d
      BY <1>2
    <2> HIDE DEF b, d, q
    <2> QED BY <2>1, <2>2, <2>3, Zenon
  <1> HIDE DEF b, d, q
  <1>5. r \in Request
    BY <1>2, <1>3, ZenonT(60) DEF Fits, Request
  <1>6. r.leads = q.leads /\ r.retried = TRUE
    BY <1>2, ZenonT(60) DEF Fits, Request
  <1>7. Fits(v, r)
    BY <1>2, <1>5, <1>6, ZenonT(60) DEF Fits
  <1> HIDE DEF r
  <1> QED BY <1>4, <1>7, BeginKeeps, HasCore DEF IInv, TypeOK

\* A step of a request in which no base changes
Routine(v) ==
    \/ Wake(v) \/ Parallel(v) \/ Served(v) \/ Buffers(v) \/ Read(v) \/ ReadAgain(v)
    \/ Fails(v) \/ RouteFails(v) \/ Recover(v)
    \/ Forbidden(v) \/ Quick(v) \/ Rotate(v)
    \/ RenewSegment(v) \/ Refetched(v) \/ RenewalFails(v)
    \/ ForcedFails(v) \/ Reprobe(v) \/ Restart(v)

LEMMA RoutineKeeps ==
  ASSUME IInv, NEW v \in Slot, Routine(v)
  PROVE  Kept /\ dead' \subseteq Proxy
  <1>0. Core
    BY HasCore
  <1>1. dead \subseteq Proxy /\ req[v] \in Request /\ live \in Base
    BY RelayAssumption DEF IInv, TypeOK, Base
  <1>2. Marked(req[v].route) \subseteq Proxy /\ Marked(req[v].forced) \subseteq Proxy
    BY <1>1, MarkedIsProxy DEF Request
  <1>3. dead' \subseteq Proxy
    BY <1>1, <1>2 DEF Routine, Wake, Served, Parallel, Buffers, Read, ReadAgain, Fails, RouteFails,
         Recover, Forbidden, Quick, Rotate, RenewSegment, Refetched, RenewalFails,
         ForcedFails, Reprobe, Restart
  <1> SUFFICES Kept
    BY <1>3
  <1>4. CASE Wake(v)
    <2>1. Fits(v, req[v])
      BY <1>0, <1>1 DEF Fits, Core, OneRetry
    <2> QED BY <1>0, <1>1, <1>4, <2>1, LeadKeeps, AnswerKeeps DEF Wake
  <1>5. CASE Parallel(v)
    BY <1>0, <1>5, AnswerKeeps, MoveKeeps DEF Parallel, Pcs
  <1>6. CASE Buffers(v)
    <2>1. PICK t \in {200, 206} : Goto(v, [At(v, "body") EXCEPT !.status = t])
      BY <1>6 DEF Buffers
    <2> DEFINE q == At(v, "body")
               r == [q EXCEPT !.status = t]
    <2>2. Fits(v, q) /\ q.pc = "body"
      BY <1>0, AtFits DEF Pcs
    <2> HIDE DEF q
    <2>3. r \in Request
      BY <2>2, ZenonT(60) DEF Fits, Request
    <2>4. r.leads = q.leads /\ r.depth = q.depth /\ r.pc = q.pc /\ r.retried = q.retried
      BY <2>2, ZenonT(60) DEF Fits, Request
    <2>5. Fits(v, r) /\ r.pc # "wait"
      <3>1. r.pc # "wait"
        BY <2>2, <2>4
      <3> QED BY <2>2, <2>3, <2>4, <3>1, ZenonT(60) DEF Fits
    <2> HIDE DEF r
    <2>6. Goto(v, r)
      BY <2>1 DEF r, q
    <2> QED BY <1>0, <2>5, <2>6, GotoKeeps
  <1>7. CASE Read(v)
    BY <1>0, <1>7, AnswerKeeps, MoveKeeps DEF Read, Result, Pcs
  <1>8. CASE ReadAgain(v)
    BY <1>0, <1>8, AnswerKeeps DEF ReadAgain, Result
  <1>9. CASE Fails(v)
    BY <1>0, <1>9, AnswerKeeps DEF Fails
  <1>10. CASE RouteFails(v)
    BY <1>0, <1>10, AnswerKeeps, MoveKeeps DEF RouteFails, Pcs
  <1>11. CASE Recover(v)
    BY <1>0, <1>11, AnswerKeeps, AgainKeeps DEF Recover
  <1>12. CASE Forbidden(v)
    BY <1>0, <1>12, MoveKeeps DEF Forbidden, Pcs
  <1>13. CASE Quick(v)
    BY <1>0, <1>13, AnswerKeeps, MoveKeeps, RenewalKeeps DEF Quick, Pcs
  <1>14. CASE Rotate(v)
    BY <1>0, <1>14, AnswerKeeps, RenewalKeeps DEF Rotate
  <1>15. CASE RenewSegment(v)
    <2> DEFINE q == At(v, "refetch")
               r == [q EXCEPT !.fresh = live]
    <2>1. Fits(v, q) /\ q.pc = "refetch"
      BY <1>0, AtFits DEF Pcs
    <2> HIDE DEF q
    <2>6. live \in Base
      BY <1>1
    <2>2. r \in Request
      BY <2>1, <2>6, ZenonT(60) DEF Fits, Request
    <2>3. r.leads = q.leads /\ r.depth = q.depth /\ r.pc = q.pc /\ r.retried = q.retried
      BY <2>1, ZenonT(60) DEF Fits, Request
    <2>4. Fits(v, r) /\ r.pc # "wait"
      <3>1. r.pc # "wait"
        BY <2>1, <2>3
      <3> QED BY <2>1, <2>2, <2>3, <3>1, ZenonT(60) DEF Fits
    <2> HIDE DEF r
    <2>5. Goto(v, r)
      BY <1>15 DEF RenewSegment, r, q
    <2> QED BY <1>0, <2>4, <2>5, GotoKeeps
  <1>16. CASE Refetched(v)
    BY <1>0, <1>16, MoveKeeps DEF Refetched, Pcs
  <1>17. CASE RenewalFails(v)
    BY <1>0, <1>17, AnswerKeeps DEF RenewalFails
  <1>18. CASE ForcedFails(v)
    <2> DEFINE q == At(v, "reprobe")
               r == [q EXCEPT !.retried = TRUE]
    <2>1. Fits(v, q) /\ q.pc = "reprobe"
      BY <1>0, AtFits DEF Pcs
    <2> HIDE DEF q
    <2>2. r \in Request
      BY <2>1, ZenonT(60) DEF Fits, Request
    <2>3. r.leads = q.leads /\ r.pc = q.pc /\ r.retried = TRUE
      BY <2>1, ZenonT(60) DEF Fits, Request
    <2>4. Fits(v, r) /\ r.pc # "wait"
      <3>1. r.pc # "wait"
        BY <2>1, <2>3
      <3> QED BY <2>1, <2>2, <2>3, <3>1, ZenonT(60) DEF Fits
    <2> HIDE DEF r
    <2>5. Goto(v, r)
      BY <1>18 DEF ForcedFails, r, q
    <2> QED BY <1>0, <2>4, <2>5, GotoKeeps
  <1>19. CASE Reprobe(v)
    <2> DEFINE q == At(v, "restart")
               r == [q EXCEPT !.leads = {}]
    <2>1. Fits(v, q) /\ q.pc = "restart"
      BY <1>0, AtFits DEF Pcs
    <2> HIDE DEF q
    <2>2. r \in Request
      BY <2>1, ZenonT(60) DEF Fits, Request
    <2>3. r.leads = {} /\ r.pc = q.pc /\ r.retried = q.retried /\ r.depth = q.depth
      BY <2>1, ZenonT(60) DEF Fits, Request
    <2>4. r.pc # "wait"
      BY <2>1, <2>3
    <2>5. ~r.retried => r.depth = 1
      BY <2>1, <2>3, ZenonT(60) DEF Fits
    <2> HIDE DEF r
    <2>6. Answer(v, "none") \/ Release(v, "none", r)
      BY <1>19 DEF Reprobe, Raised, r, q
    <2> QED BY <1>0, <2>2, <2>3, <2>4, <2>5, <2>6, AnswerKeeps, ReleaseOwned
  <1>20. CASE Restart(v)
    <2>1. CASE Answer(v, "none")
      BY <1>0, <2>1, AnswerKeeps
    <2>2. ASSUME NEW f \in Forced \cup Routes,
                 Begin(v, [At(v, "fetch") EXCEPT !.url = 0, !.dir = live, !.forced = f])
          PROVE  Kept
      <3> DEFINE q == At(v, "fetch")
                 r == [q EXCEPT !.url = 0, !.dir = live, !.forced = f]
      <3>1. Fits(v, q)
        BY <1>0, AtFits DEF Pcs
      <3>2. f \in Proxy \cup {Nil} /\ 0 \in Base /\ live \in Base
        <4>1. f \in Proxy \cup {Nil}
          BY <1>1, RouteIsProxy, RelayAssumption DEF RoutesFor
        <4>2. 0 \in Base
          BY RelayAssumption DEF Base
        <4> QED BY <1>1, <4>1, <4>2
      <3> HIDE DEF q
      <3>3. r \in Request
        BY <3>1, <3>2, ZenonT(60) DEF Fits, Request
      <3>4. r.leads = q.leads /\ r.depth = q.depth /\ r.retried = q.retried
        BY <3>1, ZenonT(60) DEF Fits, Request
      <3>5. Fits(v, r)
        BY <3>1, <3>3, <3>4, ZenonT(60) DEF Fits
      <3> HIDE DEF r
      <3>6. Begin(v, r)
        BY <2>2 DEF r, q
      <3> QED BY <1>0, <1>1, <3>5, <3>6, BeginKeeps
    <2> QED BY <1>20, <2>1, <2>2 DEF Restart
  <1>21. CASE Served(v)
    BY <1>0, <1>21, AnswerKeeps DEF Served
  <1> QED BY <1>4, <1>5, <1>6, <1>7, <1>8, <1>9, <1>10, <1>11, <1>12, <1>13, <1>14,
             <1>15, <1>16, <1>17, <1>18, <1>19, <1>20, <1>21 DEF Routine

LEMMA RelayedKeeps ==
  ASSUME IInv, NEW v \in Slot, Relayed(v)
  PROVE  IInv' /\ Leaves
  <1>1. Kept
    BY HasCore, AnswerKeeps, MoveKeeps DEF Relayed, Pcs
  <1>2. req[v].dir \in Base /\ Of[v] \in Play
    BY RelayAssumption DEF IInv, TypeOK, Request
  <1>3. held' \in [Play -> Base]
    BY <1>2 DEF Relayed, IInv, TypeOK
  <1> QED BY <1>1, <1>3 DEF Relayed, IInv, TypeOK, Core, FuturesAreOwned, OneRetry, Kept

LEMMA RenewPlaylistKeeps ==
  ASSUME IInv, NEW v \in Slot, RenewPlaylist(v)
  PROVE  IInv' /\ Leaves
  <1> DEFINE q == At(v, "fetch")
             r == [q EXCEPT !.url = live, !.dir = live]
  <1>1. Core /\ dead \subseteq Proxy /\ live \in Base /\ req[v].dir \in Base /\ Of[v] \in Play
    BY HasCore, RelayAssumption DEF IInv, TypeOK, Base, Request
  <1>2. Fits(v, q) /\ live \in Base
    BY <1>1, AtFits DEF Pcs
  <1> HIDE DEF q
  <1>3. r \in Request
    BY <1>2, ZenonT(60) DEF Fits, Request
  <1>4. r.leads = q.leads /\ r.depth = q.depth /\ r.retried = q.retried
    BY <1>2, ZenonT(60) DEF Fits, Request
  <1>5. Fits(v, r)
    BY <1>2, <1>3, <1>4, ZenonT(60) DEF Fits
  <1> HIDE DEF r
  <1>6. Begin(v, r)
    BY DEF RenewPlaylist, r, q
  <1>7. Kept
    BY <1>1, <1>5, <1>6, BeginKeeps
  <1>8. tokens' \in [Play -> (Base \X Base) \cup {Nil}]
    BY <1>1 DEF RenewPlaylist, IInv, TypeOK
  <1> QED BY <1>7, <1>8 DEF RenewPlaylist, IInv, TypeOK, Core, FuturesAreOwned, OneRetry, Kept

LEMMA SaveKeeps ==
  ASSUME IInv, NEW v \in Slot, Save(v)
  PROVE  IInv' /\ Leaves
  <1>1. Kept
    BY HasCore, AnswerKeeps DEF Save
  <1>2. req[v].dir \in Base /\ req[v].fresh \in Base /\ Of[v] \in Play
    BY RelayAssumption DEF IInv, TypeOK, Request
  <1>3. tokens' \in [Play -> (Base \X Base) \cup {Nil}]
    BY <1>2 DEF Save, IInv, TypeOK
  <1> QED BY <1>1, <1>3 DEF Save, IInv, TypeOK, Core, FuturesAreOwned, OneRetry, Kept

LEMMA Inductive ==
  ASSUME IInv, [Next]_vars
  PROVE  IInv' /\ Leaves
  <1> USE DEF IInv, TypeOK, FuturesAreOwned, OneRetry, Leaves
  <1>1. ASSUME NEW v \in Slot, Enter(v) PROVE IInv' /\ Leaves
    BY <1>1, EnterKeeps
  <1>2. ASSUME NEW v \in Slot, Step(v) \/ Served(v) PROVE IInv' /\ Leaves
    <2>1. CASE Routine(v)
      <3>1. Kept /\ dead' \subseteq Proxy
        BY <2>1, RoutineKeeps
      <3>2. UNCHANGED <<tokens, held, live>>
        BY <2>1 DEF Routine, Wake, Served, Parallel, Buffers, Read, ReadAgain, Fails, RouteFails,
           Recover, Forbidden, Quick, Rotate, RenewSegment, Refetched, RenewalFails,
           ForcedFails, Reprobe, Restart
      <3> QED BY <3>1, <3>2, CoreSuffices DEF Kept
    <2>2. CASE Relayed(v)
      BY <2>2, RelayedKeeps
    <2>3. CASE RenewPlaylist(v)
      BY <2>3, RenewPlaylistKeeps
    <2>4. CASE Save(v)
      BY <2>4, SaveKeeps
    <2> QED BY <1>2, <2>1, <2>2, <2>3, <2>4 DEF Step, Routine
  <1>3. CASE SourceRenews
    BY <1>3, RelayAssumption DEF SourceRenews
  <1>4. ASSUME NEW k \in Play, TokenExpires(k) PROVE IInv' /\ Leaves
    BY <1>4 DEF TokenExpires
  <1>5. ASSUME NEW p \in Proxy, DeadExpires(p) PROVE IInv' /\ Leaves
    BY <1>5 DEF DeadExpires
  <1>6. CASE UNCHANGED vars
    BY <1>6 DEF vars
  <1> QED BY <1>1, <1>2, <1>3, <1>4, <1>5, <1>6 DEF Next

\* The inductive invariant of the relay: types, owned futures, and at most one
\* retry frame, which is what keeps the frames of a request at two.
THEOREM RelayInvariant == Spec => []IInv
  <1>1. Init => IInv
    BY Initially
  <1>2. IInv /\ [Next]_vars => IInv'
    BY Inductive
  <1> QED BY <1>1, <1>2, PTL DEF Spec

\* Every value stays in its type; in particular no request ever opens a third
\* frame of _proxy_stream.
THEOREM RelayTypes == Spec => []TypeOK
  BY RelayInvariant, PTL DEF IInv

\* No request waits for a future that nobody will resolve, and the map holds
\* none, whatever the number of viewers and however their fetches end.
THEOREM NoLostFuture == Spec => []FuturesAreOwned
  BY RelayInvariant, PTL DEF IInv

\* A fetch that ends leaves the futures of the others in the map.
THEOREM EntriesLeaveWithOwner == Spec => EntryLeavesWithOwner
  <1>1. IInv /\ [Next]_vars =>
          [\A b \in Base : inflight[b] # Nil /\ inflight'[b] = Nil =>
             inflight[b][2] \notin req'[inflight[b][1]].leads]_vars
    BY Inductive DEF Leaves
  <1> QED BY <1>1, RelayInvariant, PTL DEF Spec, EntryLeavesWithOwner

------------------------------------------------------------------------------
-----------------------------------------------------------------------------
(* What is shared.                                                         *)

\* The frames of a request are numbered from outside; one that waits, or was woken, has not
\* registered its innermost frame; only what may be shared, a segment, is registered.
FrameOK(r) ==
    /\ \A d \in r.leads : d <= r.depth
    /\ r.leads # {} => r.whole
    /\ r.whole => r.kind = "segment"
    /\ r.pc \in {"wait", "woken"} => r.depth \notin r.leads
    /\ r.pc = "restart" => r.leads = {}
    /\ r.waitOn # Nil => r.pc = "wait"

FramesOK == \A v \in Slot : FrameOK(req[v])

\* The innermost frame of a request fetches the URL its future is under, ...
EntryIsOfUrl ==
    \A b \in Base : inflight[b] # Nil /\ inflight[b][2] = req[inflight[b][1]].depth =>
                      req[inflight[b][1]].url = b

\* ... which is the URL of those that wait for it.
WaitIsOfUrl ==
    \A w \in Slot : req[w].pc = "wait" /\ req[w].waitOn[2] = req[req[w].waitOn[1]].depth =>
                      req[req[w].waitOn[1]].url = req[w].url

Sharing == FramesOK /\ EntryIsOfUrl /\ WaitIsOfUrl

\* What SharedIsExact says of a step.
Exact ==
    \A w \in Slot :
      req[w].pc = "wait" /\ req'[w].pc = "woken" /\ req'[w].got # "none" =>
        /\ req'[w].got = "whole"
        /\ req[req[w].waitOn[1]].url = req[w].url

\* A request goes on in its frame.
Same(v, r) == /\ Fits(v, r)
              /\ r.depth = req[v].depth /\ r.url = req[v].url
              /\ r.whole = req[v].whole /\ r.kind = req[v].kind /\ r.waitOn = Nil

\* It goes on in a frame that has no future yet.
NewFrame(v, r) == /\ Fits(v, r) /\ r.depth \notin r.leads /\ r.waitOn = Nil
                  /\ \A d \in r.leads : d <= r.depth
                  /\ r.leads # {} => r.whole
                  /\ r.whole => r.kind = "segment"

LEMMA AtSame ==
  ASSUME NEW v \in Slot, Core, Sharing, req[v].pc # "wait", NEW pc \in Pcs
  PROVE  /\ Same(v, At(v, pc)) /\ At(v, pc).pc = pc /\ At(v, pc) \in Request
         /\ At(v, pc).dir = req[v].dir
  <1>1. req[v] \in Request
    BY DEF Core
  <1>2. /\ At(v, pc).depth = req[v].depth /\ At(v, pc).url = req[v].url
        /\ At(v, pc).whole = req[v].whole /\ At(v, pc).kind = req[v].kind
        /\ At(v, pc).dir = req[v].dir /\ At(v, pc).waitOn = req[v].waitOn
    BY <1>1, ZenonT(60) DEF At, Request
  <1>3. Fits(v, At(v, pc)) /\ At(v, pc).pc = pc
    BY AtFits
  <1>4. req[v].waitOn = Nil
    BY DEF Sharing, FramesOK, FrameOK
  <1> QED BY <1>2, <1>3, <1>4 DEF Same, Fits

\* Where a future leads.
LEMMA Owners ==
  ASSUME Core
  PROVE  /\ \A b \in Base : inflight[b] # Nil =>
              /\ inflight[b][1] \in Slot /\ inflight[b][2] \in {1, 2}
              /\ inflight[b] = <<inflight[b][1], inflight[b][2]>>
              /\ inflight[b][2] \in req[inflight[b][1]].leads
         /\ \A w \in Slot : req[w].pc = "wait" =>
              /\ req[w].waitOn[1] \in Slot /\ req[w].waitOn[2] \in {1, 2}
              /\ req[w].waitOn = <<req[w].waitOn[1], req[w].waitOn[2]>>
              /\ req[w].waitOn[2] \in req[req[w].waitOn[1]].leads
  <1>1. ASSUME NEW f \in Frame PROVE f[1] \in Slot /\ f[2] \in {1, 2} /\ f = <<f[1], f[2]>>
    BY DEF Frame
  <1>2. ASSUME NEW b \in Base, inflight[b] # Nil PROVE inflight[b] \in Frame
    BY <1>2 DEF Core
  <1>3. ASSUME NEW w \in Slot, req[w].pc = "wait" PROVE req[w].waitOn \in Frame
    <2>1. req[w] \in Request /\ req[w].waitOn # Nil
      BY <1>3 DEF Core, FuturesAreOwned
    <2>2. req[w].waitOn \in Frame \cup {Nil}
      BY <2>1 DEF Request
    <2> QED BY <2>1, <2>2
  <1> QED BY <1>1, <1>2, <1>3 DEF Core, FuturesAreOwned

LEMMA GotoShares ==
  ASSUME Core, Sharing, NEW v \in Slot, NEW r, Same(v, r),
         r.pc \notin {"wait", "woken", "restart"}, Goto(v, r)
  PROVE  Sharing' /\ Exact
  <1>1. /\ \A w \in Slot : /\ w # v => req'[w] = req[w]
                           /\ req'[w].depth = req[w].depth /\ req'[w].url = req[w].url
                           /\ req'[w].leads = req[w].leads
        /\ req'[v].pc \notin {"wait", "woken", "restart"}
        /\ req'[v].whole = req[v].whole /\ req'[v].kind = req[v].kind /\ req'[v].waitOn = Nil
        /\ inflight' = inflight
    BY DEF Core, Same, Fits, Goto
  <1>2. FramesOK'
    BY <1>1 DEF Sharing, FramesOK, FrameOK
  <1>3. EntryIsOfUrl'
    BY <1>1, Owners DEF Sharing, EntryIsOfUrl
  <1>4. WaitIsOfUrl'
    <2> SUFFICES ASSUME NEW w \in Slot, req'[w].pc = "wait",
                        req'[w].waitOn[2] = req'[req'[w].waitOn[1]].depth
                 PROVE  req'[req'[w].waitOn[1]].url = req'[w].url
      BY DEF WaitIsOfUrl
    <2>1. w # v /\ req'[w] = req[w]
      BY <1>1
    <2>2. req[w].pc = "wait" /\ req[w].waitOn[1] \in Slot
      BY <2>1, Owners
    <2> QED BY <1>1, <2>1, <2>2 DEF Sharing, WaitIsOfUrl
  <1>5. Exact
    BY <1>1 DEF Exact
  <1> QED BY <1>2, <1>3, <1>4, <1>5 DEF Sharing

\* The frame of v is new: what is known of its earlier frames is not about it.
LEMMA LeadShares ==
  ASSUME Core, Sharing, NEW v \in Slot, NEW r, NewFrame(v, r), Lead(v, r)
  PROVE  Sharing' /\ Exact
  <1>1. PICK p \in RoutesFor(r.forced) :
          /\ req' = [req EXCEPT ![v] =
               [r EXCEPT !.pc = IF r.kind = "segment" THEN "parallel" ELSE "fetch",
                         !.route = p,
                         !.leads = IF r.whole THEN @ \cup {r.depth} ELSE @]]
          /\ inflight' = IF r.whole THEN [inflight EXCEPT ![r.url] = <<v, r.depth>>]
                                    ELSE inflight
    BY DEF Lead
  <1> DEFINE pc == IF r.kind = "segment" THEN "parallel" ELSE "fetch"
             l  == IF r.whole THEN r.leads \cup {r.depth} ELSE r.leads
             s  == [r EXCEPT !.pc = pc, !.route = p, !.leads = l]
  <1>2. pc \in {"parallel", "fetch"}
    OBVIOUS
  <1>3. s = [r EXCEPT !.pc = IF r.kind = "segment" THEN "parallel" ELSE "fetch",
                      !.route = p,
                      !.leads = IF r.whole THEN @ \cup {r.depth} ELSE @]
    OBVIOUS
  <1>4. req'[v] = s /\ \A w \in Slot \ {v} : req'[w] = req[w]
    BY <1>1, <1>3 DEF Core
  <1> HIDE DEF pc, l
  <1>5. r \in Request /\ r.leads = req[v].leads
    BY DEF NewFrame, Fits
  <1>6. /\ s.pc = pc /\ s.leads = l /\ s.depth = r.depth /\ s.url = r.url
        /\ s.whole = r.whole /\ s.kind = r.kind /\ s.waitOn = r.waitOn
    BY <1>5, ZenonT(60) DEF Request
  <1> HIDE DEF s
  <1>7. /\ req'[v].pc \in {"parallel", "fetch"} /\ req'[v].leads = l /\ req'[v].depth = r.depth
        /\ req'[v].url = r.url /\ req'[v].whole = r.whole /\ req'[v].kind = r.kind
        /\ req'[v].waitOn = r.waitOn
    BY <1>2, <1>4, <1>6
  <1>8. r.depth \in {1, 2} /\ r.url \in Base /\ r.whole \in BOOLEAN
    BY <1>5 DEF Request
  <1>9. FramesOK'
    <2>1. \A d \in l : d <= r.depth
      BY <1>8 DEF l, NewFrame
    <2>2. l # {} => r.whole
      BY DEF l, NewFrame
    <2>3. FrameOK(req'[v])
      BY <1>7, <2>1, <2>2 DEF FrameOK, NewFrame
    <2>4. \A w \in Slot \ {v} : FrameOK(req'[w])
      BY <1>4 DEF Sharing, FramesOK
    <2> QED BY <2>3, <2>4 DEF FramesOK, FrameOK
  <1>10. EntryIsOfUrl'
    <2> SUFFICES ASSUME NEW b \in Base, inflight'[b] # Nil,
                        inflight'[b][2] = req'[inflight'[b][1]].depth
                 PROVE  req'[inflight'[b][1]].url = b
      BY DEF EntryIsOfUrl
    <2>1. CASE r.whole /\ b = r.url
      <3>1. inflight'[b] = <<v, r.depth>>
        BY <1>1, <2>1 DEF Core
      <3> QED BY <1>7, <2>1, <3>1
    <2>2. CASE ~(r.whole /\ b = r.url)
      <3>1. inflight'[b] = inflight[b]
        BY <1>1, <2>2 DEF Core
      <3>2. inflight[b][1] \in Slot /\ inflight[b][2] \in req[inflight[b][1]].leads
        BY <3>1, Owners
      <3>3. inflight[b][1] # v
        BY <1>5, <1>7, <3>1, <3>2 DEF NewFrame
      <3> QED BY <1>4, <3>1, <3>2, <3>3 DEF Sharing, EntryIsOfUrl
    <2> QED BY <2>1, <2>2
  <1>11. WaitIsOfUrl'
    <2> SUFFICES ASSUME NEW w \in Slot, req'[w].pc = "wait",
                        req'[w].waitOn[2] = req'[req'[w].waitOn[1]].depth
                 PROVE  req'[req'[w].waitOn[1]].url = req'[w].url
      BY DEF WaitIsOfUrl
    <2>1. w # v /\ req'[w] = req[w]
      BY <1>4, <1>7
    <2>2. /\ req[w].pc = "wait" /\ req[w].waitOn[1] \in Slot
          /\ req[w].waitOn[2] \in req[req[w].waitOn[1]].leads
      BY <2>1, Owners
    <2>3. req[w].waitOn[1] # v
      BY <1>5, <1>7, <2>1, <2>2 DEF NewFrame
    <2> QED BY <1>4, <2>1, <2>2, <2>3 DEF Sharing, WaitIsOfUrl
  <1>12. Exact
    BY <1>4, <1>7 DEF Exact
  <1> QED BY <1>9, <1>10, <1>11, <1>12 DEF Sharing

LEMMA BeginShares ==
  ASSUME Core, Sharing, NEW v \in Slot, NEW r, NewFrame(v, r), Begin(v, r)
  PROVE  Sharing' /\ Exact
  <1>1. CASE r.whole /\ inflight[r.url] # Nil
    <2> DEFINE s == [r EXCEPT !.pc = "wait", !.waitOn = inflight[r.url]]
    <2>1. req' = [req EXCEPT ![v] = s] /\ inflight' = inflight
      BY <1>1 DEF Begin, Goto
    <2>2. r \in Request /\ r.leads = req[v].leads
      BY DEF NewFrame, Fits
    <2>3. /\ s.pc = "wait" /\ s.waitOn = inflight[r.url] /\ s.leads = r.leads
          /\ s.depth = r.depth /\ s.url = r.url /\ s.whole = r.whole /\ s.kind = r.kind
      BY <2>2, ZenonT(60) DEF Request
    <2> HIDE DEF s
    <2>4. req'[v] = s /\ \A w \in Slot \ {v} : req'[w] = req[w]
      BY <2>1 DEF Core
    <2>5. r.url \in Base
      BY <2>2, ZenonT(60) DEF Request
    <2>6. FramesOK'
      <3>1. FrameOK(req'[v])
        BY <2>3, <2>4 DEF FrameOK, NewFrame
      <3>2. \A w \in Slot \ {v} : FrameOK(req'[w])
        BY <2>4 DEF Sharing, FramesOK
      <3> QED BY <3>1, <3>2 DEF FramesOK, FrameOK
    <2>7. ASSUME NEW f, f[1] \in Slot, f[2] \in req[f[1]].leads, f[2] = req'[f[1]].depth
          PROVE  f[1] # v
      BY <2>2, <2>3, <2>4, <2>7 DEF NewFrame
    <2>8. EntryIsOfUrl'
      <3> SUFFICES ASSUME NEW b \in Base, inflight[b] # Nil,
                          inflight[b][2] = req'[inflight[b][1]].depth
                   PROVE  req'[inflight[b][1]].url = b
        BY <2>1 DEF EntryIsOfUrl
      <3>1. inflight[b][1] \in Slot /\ inflight[b][2] \in req[inflight[b][1]].leads
        BY Owners
      <3> QED BY <2>4, <2>7, <3>1 DEF Sharing, EntryIsOfUrl
    <2>9. WaitIsOfUrl'
      <3> SUFFICES ASSUME NEW w \in Slot, req'[w].pc = "wait",
                          req'[w].waitOn[2] = req'[req'[w].waitOn[1]].depth
                   PROVE  req'[req'[w].waitOn[1]].url = req'[w].url
        BY DEF WaitIsOfUrl
      <3>1. CASE w = v
        <4>1. req'[w].waitOn = inflight[r.url] /\ req'[w].url = r.url
          BY <2>3, <2>4, <3>1
        <4>2. /\ inflight[r.url][1] \in Slot
              /\ inflight[r.url][2] \in req[inflight[r.url][1]].leads
          BY <1>1, <2>5, Owners
        <4>3. inflight[r.url][1] # v
          BY <2>7, <4>1, <4>2
        <4> QED BY <1>1, <2>4, <2>5, <4>1, <4>2, <4>3 DEF Sharing, EntryIsOfUrl
      <3>2. CASE w # v
        <4>1. req'[w] = req[w]
          BY <2>4, <3>2
        <4>2. req[w].waitOn[1] \in Slot /\ req[w].waitOn[2] \in req[req[w].waitOn[1]].leads
          BY <4>1, Owners
        <4>3. req[w].waitOn[1] # v
          BY <2>7, <4>1, <4>2
        <4> QED BY <2>4, <4>1, <4>2, <4>3 DEF Sharing, WaitIsOfUrl
      <3> QED BY <3>1, <3>2
    <2>10. Exact
      BY <2>3, <2>4 DEF Exact
    <2> QED BY <2>6, <2>8, <2>9, <2>10 DEF Sharing
  <1>2. CASE ~(r.whole /\ inflight[r.url] # Nil)
    BY <1>2, LeadShares DEF Begin
  <1> QED BY <1>1, <1>2

LEMMA WokenFields ==
  ASSUME NEW q \in Request, NEW g
  PROVE  /\ Woken(q, g).leads = q.leads /\ Woken(q, g).depth = q.depth
         /\ Woken(q, g).url = q.url /\ Woken(q, g).whole = q.whole
         /\ Woken(q, g).kind = q.kind /\ Woken(q, g).waitOn = Nil
         /\ Woken(q, g).pc = "woken" /\ Woken(q, g).got = g
  BY ZenonT(60) DEF Woken, Request

LEMMA ReleaseShares ==
  ASSUME Core, Kept, Sharing, NEW v \in Slot, NEW result \in {"none", "whole"},
         NEW next \in Request, FrameOK(next), next.leads = {}, next.pc \notin {"wait", "woken"},
         Release(v, result, next)
  PROVE  Sharing' /\ Exact
  <1>1. \A w \in Slot : req'[w] =
          IF w = v THEN next
          ELSE IF req[w].waitOn \in Futures(v)
          THEN Woken(req[w], IF req[w].waitOn = <<v, req[v].depth>> THEN result ELSE "none")
          ELSE req[w]
    BY DEF Release
  <1>2. Nil \notin Futures(v)
    <2>1. req[v].leads \subseteq {1, 2}
      <3>1. req[v] \in Request
        BY DEF Core
      <3> QED BY <3>1, ZenonT(60) DEF Request
    <2> QED BY <2>1, RelayAssumption DEF Futures
  <1>3. ASSUME NEW w \in Slot, w # v
        PROVE  /\ req'[w].leads = req[w].leads /\ req'[w].depth = req[w].depth
               /\ req'[w].url = req[w].url /\ req'[w].whole = req[w].whole
               /\ req'[w].kind = req[w].kind
               /\ \/ req'[w] = req[w] /\ req[w].waitOn \notin Futures(v)
                  \/ /\ req[w].waitOn \in Futures(v) /\ req[w].pc = "wait" /\ req'[w].waitOn = Nil
                     /\ req'[w].pc = "woken"
                     /\ req'[w].got # "none" => req'[w].got = result /\ req[w].waitOn = <<v, req[v].depth>>
    <2>1. CASE req[w].waitOn \in Futures(v)
      <3> DEFINE g == IF req[w].waitOn = <<v, req[v].depth>> THEN result ELSE "none"
      <3>1. req'[w] = Woken(req[w], g)
        BY <1>1, <1>3, <2>1
      <3>2. req[w].pc = "wait"
        BY <1>2, <2>1 DEF Sharing, FramesOK, FrameOK
      <3>3. req[w] \in Request
        BY DEF Core
      <3>4. g # "none" => g = result /\ req[w].waitOn = <<v, req[v].depth>>
        OBVIOUS
      <3> HIDE DEF g
      <3>5. /\ req'[w].leads = req[w].leads /\ req'[w].depth = req[w].depth
            /\ req'[w].url = req[w].url /\ req'[w].whole = req[w].whole
            /\ req'[w].kind = req[w].kind /\ req'[w].waitOn = Nil
            /\ req'[w].pc = "woken" /\ req'[w].got = g
        BY <3>1, <3>3, WokenFields
      <3> QED BY <2>1, <3>2, <3>4, <3>5
    <2>2. CASE req[w].waitOn \notin Futures(v)
      BY <1>1, <1>3, <2>2
    <2> QED BY <2>1, <2>2
  <1>4. req'[v] = next
    BY <1>1
  <1>5. FramesOK'
    <2>1. ASSUME NEW w \in Slot, w # v PROVE FrameOK(req'[w])
      <3>1. FrameOK(req[w])
        BY DEF Sharing, FramesOK
      <3> QED BY <1>3, <2>1, <3>1 DEF FrameOK
    <2> QED BY <1>4, <2>1 DEF FramesOK, FrameOK
  <1>6. EntryIsOfUrl'
    <2> SUFFICES ASSUME NEW b \in Base, inflight'[b] # Nil,
                        inflight'[b][2] = req'[inflight'[b][1]].depth
                 PROVE  req'[inflight'[b][1]].url = b
      BY DEF EntryIsOfUrl
    <2>1. inflight'[b] = inflight[b]
      BY DEF Release
    <2>2. inflight[b][1] \in Slot /\ inflight[b][2] \in req'[inflight[b][1]].leads
      BY <2>1, Owners DEF Kept, Core, FuturesAreOwned
    <2>3. inflight[b][1] # v
      BY <1>4, <2>2
    <2> QED BY <1>3, <2>1, <2>2, <2>3 DEF Sharing, EntryIsOfUrl
  <1>7. WaitIsOfUrl'
    <2> SUFFICES ASSUME NEW w \in Slot, req'[w].pc = "wait",
                        req'[w].waitOn[2] = req'[req'[w].waitOn[1]].depth
                 PROVE  req'[req'[w].waitOn[1]].url = req'[w].url
      BY DEF WaitIsOfUrl
    <2>1. w # v /\ req'[w] = req[w]
      BY <1>3, <1>4
    <2>2. req[w].waitOn[1] \in Slot /\ req[w].waitOn[2] \in req'[req[w].waitOn[1]].leads
      BY <2>1, Owners DEF Kept, Core, FuturesAreOwned
    <2>3. req[w].waitOn[1] # v
      BY <1>4, <2>2
    <2> QED BY <1>3, <2>1, <2>2, <2>3 DEF Sharing, WaitIsOfUrl
  <1>8. Exact
    <2> SUFFICES ASSUME NEW w \in Slot, req[w].pc = "wait", req'[w].pc = "woken",
                        req'[w].got # "none"
                 PROVE  req'[w].got = "whole" /\ req[req[w].waitOn[1]].url = req[w].url
      BY DEF Exact
    <2>1. w # v /\ req'[w] # req[w]
      BY <1>4
    <2>2. req'[w].got = result /\ req[w].waitOn = <<v, req[v].depth>>
      BY <1>3, <2>1
    <2>3. req[w].waitOn[1] = v /\ req[w].waitOn[2] = req[v].depth
      BY <2>2
    <2>4. req[v].url = req[w].url
      BY <2>3 DEF Sharing, WaitIsOfUrl
    <2> QED BY <2>2, <2>3, <2>4
  <1> QED BY <1>5, <1>6, <1>7, <1>8 DEF Sharing

LEMMA AnswerShares ==
  ASSUME Core, Kept, Sharing, NEW v \in Slot, NEW result \in {"none", "whole"}, Answer(v, result)
  PROVE  Sharing' /\ Exact
  <1>1. FrameOK(Idle) /\ Idle.pc = "idle"
    BY DEF FrameOK, Idle
  <1> QED BY <1>1, IdleFits, ReleaseShares DEF Answer

LEMMA MoveShares ==
  ASSUME Core, Sharing, NEW v \in Slot, req[v].pc # "wait",
         NEW pc \in Pcs \ {"wait", "woken", "restart"}, Goto(v, At(v, pc))
  PROVE  Sharing' /\ Exact
  BY AtSame, GotoShares

\* A field is noted on the way that has nothing to do with futures.
LEMMA NotedShares ==
  ASSUME Core, Sharing, NEW v \in Slot, req[v].pc # "wait",
         NEW pc \in Pcs \ {"wait", "woken", "restart"}, NEW r, Goto(v, r),
         \/ r = [At(v, pc) EXCEPT !.renewed = TRUE]
         \/ r = [At(v, pc) EXCEPT !.retried = TRUE]
         \/ \E t \in {200, 206} : r = [At(v, pc) EXCEPT !.status = t]
         \/ \E b \in Base : r = [At(v, pc) EXCEPT !.fresh = b]
  PROVE  Sharing' /\ Exact
  <1>1. PICK q \in Request : q = At(v, pc)
    BY AtSame
  <1>2. Same(v, q) /\ q.pc = pc
    BY <1>1, AtSame
  <1>2a. \/ r = [q EXCEPT !.renewed = TRUE]
         \/ r = [q EXCEPT !.retried = TRUE]
         \/ \E t \in {200, 206} : r = [q EXCEPT !.status = t]
         \/ \E b \in Base : r = [q EXCEPT !.fresh = b]
    BY <1>1, ZenonT(60)
  <1> DEFINE Noted ==
        /\ r \in Request /\ r.pc = q.pc /\ r.leads = q.leads /\ r.depth = q.depth
        /\ r.url = q.url /\ r.whole = q.whole /\ r.kind = q.kind /\ r.waitOn = q.waitOn
        /\ r.retried = q.retried \/ r.retried = TRUE
  <1>3. Noted
    <2>1. CASE r = [q EXCEPT !.renewed = TRUE]
      <3> DEFINE x == [q EXCEPT !.renewed = TRUE]
      <3>1. x \in Request
        BY ZenonT(60) DEF Request
      <3>2. /\ x.pc = q.pc /\ x.leads = q.leads /\ x.depth = q.depth /\ x.url = q.url
            /\ x.whole = q.whole /\ x.kind = q.kind /\ x.waitOn = q.waitOn
            /\ x.retried = q.retried
        BY ZenonT(60) DEF Request
      <3>3. r = x
        BY <2>1
      <3> HIDE DEF x
      <3> QED BY <3>1, <3>2, <3>3
    <2>2. CASE r = [q EXCEPT !.retried = TRUE]
      <3> DEFINE x == [q EXCEPT !.retried = TRUE]
      <3>1. x \in Request
        BY ZenonT(60) DEF Request
      <3>2. /\ x.pc = q.pc /\ x.leads = q.leads /\ x.depth = q.depth /\ x.url = q.url
            /\ x.whole = q.whole /\ x.kind = q.kind /\ x.waitOn = q.waitOn
            /\ x.retried = TRUE
        BY ZenonT(60) DEF Request
      <3>3. r = x
        BY <2>2
      <3> HIDE DEF x
      <3> QED BY <3>1, <3>2, <3>3
    <2>3. ASSUME NEW t \in {200, 206}, r = [q EXCEPT !.status = t]
          PROVE  Noted
      <3> DEFINE x == [q EXCEPT !.status = t]
      <3>1. x \in Request
        BY ZenonT(60) DEF Request
      <3>2. /\ x.pc = q.pc /\ x.leads = q.leads /\ x.depth = q.depth /\ x.url = q.url
            /\ x.whole = q.whole /\ x.kind = q.kind /\ x.waitOn = q.waitOn
            /\ x.retried = q.retried
        BY ZenonT(60) DEF Request
      <3>3. r = x
        BY <2>3
      <3> HIDE DEF x
      <3> QED BY <3>1, <3>2, <3>3
    <2>4. ASSUME NEW b \in Base, r = [q EXCEPT !.fresh = b]
          PROVE  Noted
      <3> DEFINE x == [q EXCEPT !.fresh = b]
      <3>1. x \in Request
        BY ZenonT(60) DEF Request
      <3>2. /\ x.pc = q.pc /\ x.leads = q.leads /\ x.depth = q.depth /\ x.url = q.url
            /\ x.whole = q.whole /\ x.kind = q.kind /\ x.waitOn = q.waitOn
            /\ x.retried = q.retried
        BY ZenonT(60) DEF Request
      <3>3. r = x
        BY <2>4
      <3> HIDE DEF x
      <3> QED BY <3>1, <3>2, <3>3
    <2> HIDE DEF Noted
    <2> QED BY <1>2a, <2>1, <2>2, <2>3, <2>4, ZenonT(60)
  <1>4. ~r.retried => r.depth = 1
    BY <1>2, <1>3 DEF Same, Fits
  <1>5. Same(v, r)
    BY <1>2, <1>3, <1>4 DEF Same, Fits
  <1>6. r.pc \notin {"wait", "woken", "restart"}
    BY <1>2, <1>3
  <1> HIDE DEF Same
  <1> QED BY <1>5, <1>6, GotoShares

LEMMA RenewalShares ==
  ASSUME Core, Kept, Sharing, NEW v \in Slot, req[v].pc # "wait", Renewal(v)
  PROVE  Sharing' /\ Exact
  BY MoveShares, NotedShares, AnswerShares DEF Renewal, Pcs

LEMMA AgainShares ==
  ASSUME IInv, Sharing, NEW v \in Slot, req[v].pc = "recover", ~req[v].retried, Again(v)
  PROVE  Sharing' /\ Exact
  <1> DEFINE b == IF req[v].url = 0 THEN 0 ELSE Substituted(Of[v], req[v].url)
             d == IF b = 0 THEN req[v].dir ELSE b
             q == At(v, "fetch")
             r == [q EXCEPT !.retried = TRUE, !.depth = 2, !.url = b, !.dir = d]
  <1>0. Core
    BY HasCore
  <1>1. req[v] \in Request /\ req[v].depth = 1
    BY DEF IInv, TypeOK, OneRetry
  <1>2. Same(v, q) /\ q \in Request /\ q.depth = 1 /\ q.dir = req[v].dir
    BY <1>0, <1>1, AtSame DEF Same, Pcs
  <1>3. b \in Base /\ d \in Base
    <2>1. req[v].url \in Base /\ req[v].dir \in Base
      BY <1>1, ZenonT(60) DEF Request
    <2>2. Of[v] \in Play
      BY RelayAssumption
    <2>3. Substituted(Of[v], req[v].url) \in Base
      BY <2>1, <2>2, BaseTypes
    <2>4. 0 \in Base
      BY RelayAssumption DEF Base
    <2> QED BY <2>1, <2>3, <2>4
  <1>4. Begin(v, r)
    <2>1. Begin(v, [q EXCEPT !.retried = TRUE, !.depth = q.depth + 1, !.url = b,
                             !.dir = IF b = 0 THEN q.dir ELSE b])
      BY DEF Again
    <2>2. q.depth + 1 = 2
      BY <1>2
    <2>3. (IF b = 0 THEN q.dir ELSE b) = d
      BY <1>2
    <2> HIDE DEF b, d, q
    <2> QED BY <2>1, <2>2, <2>3, Zenon
  <1> HIDE DEF b, d, q
  <1>5. r \in Request
    BY <1>2, <1>3, ZenonT(60) DEF Request
  <1>6. /\ r.leads = q.leads /\ r.retried = TRUE /\ r.depth = 2 /\ r.whole = q.whole
        /\ r.kind = q.kind /\ r.waitOn = q.waitOn
    BY <1>2, ZenonT(60) DEF Request
  <1> HIDE DEF r
  <1>7. FrameOK(req[v])
    BY DEF Sharing, FramesOK
  <1>8. /\ \A n \in req[v].leads : n <= 1
        /\ req[v].leads # {} => req[v].whole
        /\ req[v].whole => req[v].kind = "segment"
        /\ req[v].leads \subseteq {1, 2}
    <2>1. req[v].leads \subseteq {1, 2}
      BY <1>1, ZenonT(60) DEF Request
    <2> QED BY <1>1, <1>7, <2>1 DEF FrameOK
  <1>9. Fits(v, r)
    BY <1>2, <1>5, <1>6 DEF Fits, Same
  <1>11. /\ q.leads = req[v].leads /\ q.whole = req[v].whole /\ q.kind = req[v].kind
         /\ q.waitOn = Nil
    BY <1>2 DEF Same, Fits
  <1>12. 2 \notin req[v].leads /\ \A n \in req[v].leads : n <= 2
    BY <1>8
  <1>10. NewFrame(v, r)
    BY <1>6, <1>8, <1>9, <1>11, <1>12 DEF NewFrame
  <1> QED BY <1>0, <1>4, <1>10, BeginShares

LEMMA EnterShares ==
  ASSUME IInv, Sharing, NEW v \in Slot, Enter(v)
  PROVE  Sharing' /\ Exact
  <1>1. PICK kind \in {"segment", "playlist"}, whole \in BOOLEAN, f \in Forced :
          /\ whole => kind = "segment"
          /\ Begin(v, [Idle EXCEPT !.kind = kind, !.whole = whole, !.forced = f,
                                   !.url = Substituted(Of[v], held[Of[v]]),
                                   !.dir = Substituted(Of[v], held[Of[v]])])
    BY DEF Enter
  <1> DEFINE b == Substituted(Of[v], held[Of[v]])
             r == [Idle EXCEPT !.kind = kind, !.whole = whole, !.forced = f,
                               !.url = b, !.dir = b]
  <1>2. b \in Base
    BY BaseTypes, RelayAssumption DEF IInv, TypeOK
  <1>3. req[v] = Idle
    BY DEF Enter
  <1>4. f \in Proxy \cup {Nil}
    BY RelayAssumption
  <1> HIDE DEF b
  <1>5. r \in Request
    BY <1>2, <1>4, IdleFits, ZenonT(60) DEF Request
  <1>6. /\ r.leads = Idle.leads /\ r.depth = Idle.depth /\ r.waitOn = Idle.waitOn
        /\ r.whole = whole /\ r.kind = kind
    BY IdleFits, ZenonT(60) DEF Request
  <1>7. Idle.waitOn = Nil
    BY DEF Idle
  <1>8. Begin(v, r)
    BY <1>1 DEF b
  <1> HIDE DEF r
  <1>9. Fits(v, r)
    BY <1>3, <1>5, <1>6, IdleFits DEF Fits
  <1>10. NewFrame(v, r)
    BY <1>1, <1>6, <1>7, <1>9, IdleFits DEF NewFrame
  <1> QED BY <1>8, <1>10, HasCore, BeginShares

LEMMA WakeShares ==
  ASSUME IInv, Kept, Sharing, NEW v \in Slot, Wake(v)
  PROVE  Sharing' /\ Exact
  <1>1. Core /\ req[v] \in Request /\ FrameOK(req[v]) /\ req[v].pc = "woken"
    BY HasCore DEF IInv, TypeOK, Sharing, FramesOK, Wake
  <1>2. NewFrame(v, req[v])
    BY <1>1 DEF NewFrame, Fits, FrameOK, Core, OneRetry
  <1> QED BY <1>1, <1>2, LeadShares, AnswerShares DEF Wake

LEMMA TwoFields ==
  ASSUME NEW q \in Request, NEW b \in Base, NEW d \in Base
  PROVE  [q EXCEPT !.url = b, !.dir = d] \in Request
  <1> DEFINE x == [q EXCEPT !.url = b, !.dir = d]
  <1>1. x \in Request
    BY ZenonT(60) DEF Request
  <1> QED BY <1>1

LEMMA ThreeFields ==
  ASSUME NEW q \in Request, NEW b \in Base, NEW d \in Base, NEW f \in Proxy \cup {Nil}
  PROVE  [q EXCEPT !.url = b, !.dir = d, !.forced = f] \in Request
  <1> DEFINE x == [q EXCEPT !.url = b, !.dir = d, !.forced = f]
  <1>1. x \in Request
    BY ZenonT(60) DEF Request
  <1> QED BY <1>1

\* r is q, which fetches another URL, perhaps through a proxy that is named.
Fetching(q, r) ==
    \E b \in Base, d \in Base, f \in Proxy \cup {Nil} :
      r = [q EXCEPT !.url = b, !.dir = d] \/ r = [q EXCEPT !.url = b, !.dir = d, !.forced = f]

\* The relay of a playlist, renewed or extracted again, is not shared.
LEMMA PlaylistShares ==
  ASSUME Core, Sharing, NEW v \in Slot, NEW q \in Request, q = At(v, "fetch"),
         req[v].pc # "wait", req[v].leads = {},
         NEW r, Begin(v, r), Fetching(q, r)
  PROVE  Sharing' /\ Exact
  <1>0. PICK b \in Base, d \in Base, f \in Proxy \cup {Nil} :
           r = [q EXCEPT !.url = b, !.dir = d] \/ r = [q EXCEPT !.url = b, !.dir = d, !.forced = f]
    BY DEF Fetching
  <1>1. Same(v, q) /\ FrameOK(req[v])
    BY AtSame DEF Sharing, FramesOK, Pcs
  <1>2. /\ r \in Request /\ r.leads = q.leads /\ r.depth = q.depth /\ r.waitOn = q.waitOn
        /\ r.whole = q.whole /\ r.kind = q.kind /\ r.retried = q.retried
    <2>1. CASE r = [q EXCEPT !.url = b, !.dir = d]
      <3> DEFINE x == [q EXCEPT !.url = b, !.dir = d]
      <3>1. x \in Request
        BY TwoFields
      <3>2. /\ x.leads = q.leads /\ x.depth = q.depth /\ x.waitOn = q.waitOn
            /\ x.whole = q.whole /\ x.kind = q.kind /\ x.retried = q.retried
        BY ZenonT(60) DEF Request
      <3>3. r = x
        BY <2>1
      <3> HIDE DEF x
      <3> QED BY <3>1, <3>2, <3>3
    <2>2. CASE r = [q EXCEPT !.url = b, !.dir = d, !.forced = f]
      <3> DEFINE x == [q EXCEPT !.url = b, !.dir = d, !.forced = f]
      <3>1. x \in Request
        BY ThreeFields
      <3>2. /\ x.leads = q.leads /\ x.depth = q.depth /\ x.waitOn = q.waitOn
            /\ x.whole = q.whole /\ x.kind = q.kind /\ x.retried = q.retried
        BY ZenonT(60) DEF Request
      <3>3. r = x
        BY <2>2
      <3> HIDE DEF x
      <3> QED BY <3>1, <3>2, <3>3
    <2> QED BY <1>0, <2>1, <2>2
  <1>3. Fits(v, r)
    BY <1>1, <1>2 DEF Same, Fits
  <1>4. /\ q.leads = {} /\ q.waitOn = Nil /\ q.whole = req[v].whole /\ q.kind = req[v].kind
        /\ req[v].whole => req[v].kind = "segment"
    BY <1>1 DEF Same, Fits, FrameOK
  <1>5. NewFrame(v, r)
    BY <1>2, <1>3, <1>4 DEF NewFrame
  <1> QED BY <1>5, BeginShares

LEMMA ReprobeShares ==
  ASSUME IInv, Kept, Sharing, NEW v \in Slot, Reprobe(v)
  PROVE  Sharing' /\ Exact
  <1> DEFINE q == At(v, "restart")
             r == [q EXCEPT !.leads = {}]
  <1>1. Core /\ req[v].pc = "reprobe"
    BY HasCore DEF Reprobe
  <1>2. Same(v, q) /\ q.pc = "restart" /\ q \in Request /\ FrameOK(req[v])
    BY <1>1, AtSame DEF Pcs, Sharing, FramesOK
  <1>3. /\ q.whole = req[v].whole /\ q.kind = req[v].kind /\ q.waitOn = Nil
        /\ req[v].whole => req[v].kind = "segment"
    BY <1>2 DEF Same, FrameOK
  <1> HIDE DEF q
  <1>4. r \in Request
    BY <1>2, ZenonT(60) DEF Request
  <1>5. /\ r.leads = {} /\ r.pc = q.pc /\ r.whole = q.whole /\ r.kind = q.kind
        /\ r.waitOn = q.waitOn
    BY <1>2, ZenonT(60) DEF Request
  <1> HIDE DEF r
  <1>6. FrameOK(r) /\ r.pc \notin {"wait", "woken"}
    BY <1>2, <1>3, <1>5 DEF FrameOK
  <1>7. Answer(v, "none") \/ Release(v, "none", r)
    BY DEF Reprobe, Raised, r, q
  <1> QED BY <1>1, <1>4, <1>5, <1>6, <1>7, AnswerShares, ReleaseShares

LEMMA RestartShares ==
  ASSUME IInv, Kept, Sharing, NEW v \in Slot, Restart(v)
  PROVE  Sharing' /\ Exact
  <1>2a. live \in Base /\ 0 \in Base
    BY RelayAssumption DEF IInv, TypeOK, Base
  <1>1. /\ Core /\ dead \subseteq Proxy /\ req[v].pc = "restart" /\ FrameOK(req[v])
    BY HasCore DEF IInv, TypeOK, Restart, Sharing, FramesOK
  <1>2. req[v].leads = {}
    BY <1>1 DEF FrameOK
  <1>3. CASE Answer(v, "none")
    BY <1>1, <1>3, AnswerShares
  <1>4. ASSUME NEW f \in Forced \cup Routes,
               Begin(v, [At(v, "fetch") EXCEPT !.url = 0, !.dir = live, !.forced = f])
        PROVE  Sharing' /\ Exact
    <2>1. f \in Proxy \cup {Nil}
      BY <1>1, RouteIsProxy, RelayAssumption DEF RoutesFor
    <2>2. PICK q \in Request : q = At(v, "fetch")
      BY <1>1, AtSame DEF Pcs
    <2>3. PICK r : r = [q EXCEPT !.url = 0, !.dir = live, !.forced = f]
      OBVIOUS
    <2>4. Begin(v, r)
      BY <1>4, <2>2, <2>3
    <2>5. Fetching(q, r)
      BY <1>2a, <2>1, <2>3 DEF Fetching
    <2>6. req[v].pc # "wait"
      BY <1>1
    <2> QED BY <1>1, <1>2, <2>2, <2>4, <2>5, <2>6, PlaylistShares
  <1> QED BY <1>3, <1>4 DEF Restart

LEMMA RenewPlaylistShares ==
  ASSUME IInv, Sharing, NEW v \in Slot, RenewPlaylist(v)
  PROVE  Sharing' /\ Exact
  <1>1. /\ Core /\ live \in Base /\ FrameOK(req[v])
        /\ req[v].pc = "extract" /\ req[v].kind = "playlist"
        /\ Begin(v, [At(v, "fetch") EXCEPT !.url = live, !.dir = live])
    BY HasCore, RelayAssumption DEF IInv, TypeOK, Base, RenewPlaylist, Sharing, FramesOK
  <1>2. req[v].leads = {}
    BY <1>1 DEF FrameOK
  <1>3. PICK q \in Request : q = At(v, "fetch")
    BY <1>1, AtSame DEF Pcs
  <1>4. PICK r : r = [q EXCEPT !.url = live, !.dir = live]
    OBVIOUS
  <1>5. Begin(v, r) /\ Nil \in Proxy \cup {Nil} /\ req[v].pc # "wait"
    BY <1>1, <1>3, <1>4
  <1>6. Fetching(q, r)
    BY <1>1, <1>4, <1>5 DEF Fetching
  <1> QED BY <1>1, <1>2, <1>3, <1>5, <1>6, PlaylistShares

LEMMA StepShares ==
  ASSUME IInv, Sharing, NEW v \in Slot, Step(v) \/ Served(v)
  PROVE  Sharing' /\ Exact
  <1>1. Core /\ live \in Base
    BY HasCore, RelayAssumption DEF IInv, TypeOK, Base
  <1>2. Kept
    <2>1. Next
      BY DEF Next
    <2>2. IInv' /\ Leaves
      BY <2>1, Inductive
    <2> QED BY <2>2 DEF Kept, Core, IInv, TypeOK
  <1>3. CASE Wake(v) \/ Reprobe(v) \/ Restart(v) \/ RenewPlaylist(v)
    BY <1>2, <1>3, WakeShares, ReprobeShares, RestartShares, RenewPlaylistShares
  <1>4. CASE Parallel(v) \/ Relayed(v) \/ Served(v) \/ Fails(v) \/ Save(v) \/ RenewalFails(v)
    BY <1>1, <1>2, <1>4, AnswerShares, MoveShares
       DEF Parallel, Relayed, Served, Fails, Save, RenewalFails, Pcs
  <1>5. CASE Buffers(v) \/ RenewSegment(v) \/ ForcedFails(v)
    <2>1. CASE Buffers(v)
      BY <1>1, <2>1, NotedShares DEF Buffers, Pcs
    <2>2. CASE RenewSegment(v)
      BY <1>1, <2>2, NotedShares DEF RenewSegment, Pcs
    <2>3. CASE ForcedFails(v)
      BY <1>1, <2>3, NotedShares DEF ForcedFails, Pcs
    <2> QED BY <1>5, <2>1, <2>2, <2>3
  <1>6. CASE Read(v) \/ ReadAgain(v)
    BY <1>1, <1>2, <1>6, AnswerShares, MoveShares DEF Read, ReadAgain, Result, Pcs
  <1>7. CASE RouteFails(v) \/ Forbidden(v) \/ Refetched(v)
    BY <1>1, <1>2, <1>7, AnswerShares, MoveShares DEF RouteFails, Forbidden, Refetched, Pcs
  <1>8. CASE Recover(v)
    BY <1>1, <1>2, <1>8, AnswerShares, AgainShares DEF Recover
  <1>9. CASE Quick(v) \/ Rotate(v)
    BY <1>1, <1>2, <1>9, AnswerShares, MoveShares, RenewalShares DEF Quick, Rotate, Pcs
  <1> QED BY <1>3, <1>4, <1>5, <1>6, <1>7, <1>8, <1>9 DEF Step

\* The steps of the source, of the expiries, and none.
LEMMA ElsewhereShares ==
  ASSUME Sharing, UNCHANGED <<req, inflight>>
  PROVE  Sharing' /\ Exact
  BY DEF Sharing, FramesOK, FrameOK, EntryIsOfUrl, WaitIsOfUrl, Exact

LEMMA SharingInductive ==
  ASSUME IInv, Sharing, [Next]_vars
  PROVE  Sharing' /\ Exact
  <1>1. ASSUME NEW v \in Slot, Enter(v) \/ Step(v) \/ Served(v) PROVE Sharing' /\ Exact
    BY <1>1, EnterShares, StepShares
  <1>2. CASE SourceRenews \/ UNCHANGED vars
    BY <1>2, ElsewhereShares DEF SourceRenews, vars
  <1>3. ASSUME NEW k \in Play, TokenExpires(k) PROVE Sharing' /\ Exact
    BY <1>3, ElsewhereShares DEF TokenExpires
  <1>4. ASSUME NEW p \in Proxy, DeadExpires(p) PROVE Sharing' /\ Exact
    BY <1>4, ElsewhereShares DEF DeadExpires
  <1> QED BY <1>1, <1>2, <1>3, <1>4 DEF Next

\* A request that answers with the body of another's fetch (_segment_inflight) has the
\* whole body, and the one of the URL it asked for: whatever retries and renewals the
\* fetch went through, only the frame that asked for that very URL resolves its future
\* with a body.
THEOREM SharedBodiesAreExact == Spec => SharedIsExact
  <1>1. Init => Sharing
    <2> SUFFICES ASSUME Init PROVE Sharing
      OBVIOUS
    <2>1. \A v \in Slot : req[v] = Idle
      BY DEF Init
    <2>2. FrameOK(Idle) /\ Idle.pc = "idle"
      BY DEF FrameOK, Idle
    <2>3. \A b \in Base : inflight[b] = Nil
      BY DEF Init
    <2> QED BY <2>1, <2>2, <2>3 DEF Sharing, FramesOK, EntryIsOfUrl, WaitIsOfUrl
  <1>2. IInv /\ Sharing /\ [Next]_vars => Sharing'
    BY SharingInductive
  <1>3. IInv /\ Sharing /\ [Next]_vars =>
          [\A w \in Slot :
             req[w].pc = "wait" /\ req'[w].pc = "woken" /\ req'[w].got # "none" =>
               /\ req'[w].got = "whole"
               /\ req[req[w].waitOn[1]].url = req[w].url]_vars
    BY SharingInductive DEF Exact
  <1> QED BY <1>1, <1>2, <1>3, RelayInvariant, PTL DEF Spec, SharedIsExact
=============================================================================
