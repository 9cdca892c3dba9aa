----------------------------- MODULE MCWgTunnel -----------------------------
(* Small instances of WgTunnel.                                            *)
EXTENDS WgTunnel, TLC

CONSTANTS p1, p2, p3, p4, a1, a2, r1, k

TwoPids   == {p1, p2}
ThreePids == {p1, p2, p3}
FourPids  == {p1, p2, p3, p4}
OnePanel  == {a1}
OneReq    == {r1}
NoOne     == {}
=============================================================================
