--------------------------- MODULE RecordingLedger ---------------------------
(***************************************************************************)
(* What the table "recordings" promises to its readers, whoever writes it: *)
(* every recording id goes once through                                    *)
(*     none -> claimed -> live -> over -> gone                             *)
(* (it may leave out stages, never return to one), and at any moment a URL *)
(* is held by at most one recording that is claimed or live.               *)
(***************************************************************************)
CONSTANTS Rec, Url, Nil

VARIABLES life,   \* the stage of each recording
          src     \* the URL it was claimed for

vars == <<life, src>>

Stage == {"none", "claimed", "live", "over", "gone"}
Held  == {"claimed", "live"}

Init == life = [r \in Rec |-> "none"] /\ src = [r \in Rec |-> Nil]

Claim(r, u) ==
    /\ life[r] = "none"
    /\ ~ \E s \in Rec : life[s] \in Held /\ src[s] = u
    /\ life' = [life EXCEPT ![r] = "claimed"]
    /\ src' = [src EXCEPT ![r] = u]

Advance(r, from, to) ==
    /\ life[r] \in from
    /\ life' = [life EXCEPT ![r] = to]
    /\ UNCHANGED src

GoLive(r) == Advance(r, {"claimed"}, "live")
End(r)    == Advance(r, Held, "over")
Erase(r)  == Advance(r, {"claimed", "live", "over"}, "gone")

Next == \E r \in Rec : (\E u \in Url : Claim(r, u)) \/ GoLive(r) \/ End(r) \/ Erase(r)

Spec == Init /\ [][Next]_vars
=============================================================================
