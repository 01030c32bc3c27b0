---------------------------- MODULE MCBroadcast ----------------------------
(* Small instances of Broadcast for TLC. *)
EXTENDS Broadcast

CONSTANTS b1, b2

MCKeys == {b1, b2}
(* A lone node, a pair (limit 4) and ten members (limit 8): the last two   *)
(* straddle a decade of log10(N+1).                                        *)
MCMemberCounts == {1, 2, 10}
AllOutcomes == {"configErr", "createErr", "joinErr", "ok"}
=============================================================================
