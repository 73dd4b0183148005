-------------------------- MODULE MCDreamWorkspace --------------------------
(* Two dreams, the earlier one stamped first, over one or two outputs.          *)
EXTENDS DreamWorkspace, TLC

CONSTANTS d1, d2, w1, e1, k1, o1, o2

Same == d1 :> o1 @@ d2 :> o1
Own == d1 :> o1 @@ d2 :> o2

(* One output for both, beside a writer and a person or an init; an output each.*)
MCCasts == {[others |-> {w1, e1}, where |-> Same], [others |-> {w1, k1}, where |-> Same],
            [others |-> {}, where |-> Own]}
MCAt == d1 :> 1 @@ d2 :> 2
=============================================================================
