--------------------------- MODULE MCSegmentRelay ---------------------------
(* Small instances of SegmentRelay.                                        *)
EXTENDS SegmentRelay

CONSTANTS s1, s2, k1, k2, tun, px

OneSlot   == {s1}
TwoSlots  == {s1, s2}
OnePlay   == {k1}
ForAll    == [v \in Slot |-> k1]
Proxies   == {tun, px}
OneTunnel == {tun}
ViaBoth   == <<px, tun>>
ViaTunnel == <<tun>>
NoForced  == {Nil}
SomeForced == {Nil, px}
NoProxy   == {}
=============================================================================
