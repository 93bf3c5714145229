----------------------------- MODULE MCWlanMac -----------------------------
(* Three addresses: enough for a saved one, a stale one and a new one.      *)
EXTENDS WlanMac, TLC

CONSTANTS m1, m2, m3

MCMacs == {m1, m2, m3}
MCSymmetry == Permutations(MCMacs)
============================================================================
