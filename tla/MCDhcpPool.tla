----------------------------- MODULE MCDhcpPool -----------------------------
(* Small instances of DhcpPool: two slots, and as many phones or one more.   *)
EXTENDS DhcpPool, TLC

AnyPhone == Permutations(Macs)
=============================================================================
