----------------------------- MODULE MCRtosTests -----------------------------
EXTENDS RtosTests
MCOrder == SubSeq(RtosOrder, 1, 19) \o SubSeq(RtosOrder, 30, 31)
MCSlots == 1..3
=============================================================================
