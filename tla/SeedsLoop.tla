----------------------------- MODULE SeedsLoop -----------------------------
(***************************************************************************)
(* What the loop of seeds() (framework/registry/node.go:40-53) promises,   *)
(* with the order of its iterations left open: every element of the split *)
(* list is replaced, once, by the rewrite of its original value, and       *)
(* eventually all of them are.  `fixed` is the set of positions already    *)
(* rewritten.                                                              *)
(***************************************************************************)
EXTENDS Naturals, Sequences

CONSTANTS
    Inputs,      \* the argument strings
    Fields(_),   \* the list an argument is split into
    Fix(_)       \* the rewrite of one element

VARIABLES arg, out, fixed

Init ==
    /\ arg \in Inputs
    /\ out = Fields(arg)
    /\ fixed = {}

(* Some element not yet rewritten is rewritten. *)
Rewrite(j) ==
    /\ j \in DOMAIN out \ fixed
    /\ out' = [out EXCEPT ![j] = Fix(out[j])]
    /\ fixed' = fixed \cup {j}
    /\ UNCHANGED arg

Next == \E j \in DOMAIN out : Rewrite(j)

Spec == Init /\ [][Next]_<<arg, out, fixed>> /\ WF_<<arg, out, fixed>>(Next)
=============================================================================
