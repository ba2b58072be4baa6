---------------------------- MODULE MCDisconnect ----------------------------
(* Two requests: a write that passes the cache by and a read that meets    *)
(* what the cache still holds.                                             *)
EXTENDS Disconnect, TLC

CONSTANTS b1, b2

MCBios == {b1, b2}
Symmetry == Permutations(MCBios)

FlushWays == {"default", "pass through"}
PassThroughOnly == {"pass through"}
DefaultOnly == {"default"}
=============================================================================
