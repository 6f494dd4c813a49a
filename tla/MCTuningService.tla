-------------------------- MODULE MCTuningService --------------------------
(***************************************************************************)
(* TuningService with two wheels and three tunings: the built-in one, one  *)
(* that is accepted because its limit is NaN, and one that is rejected; a  *)
(* torn file may yield any of them.  Three providers of positive and       *)
(* negative priority compete for a table of two.                           *)
(***************************************************************************)
EXTENDS TuningService

WithLimits(name, i_limit, out_limit) ==
  [k |-> name, i_limit |-> i_limit, out_limit |-> out_limit]

MCDefault == WithLimits("built-in", "positive", "positive")

MCTuning ==
  {MCDefault, WithLimits("new", "nan", "positive"), WithLimits("bad", "positive", "notPositive")}

MCPriority == {-1, 1}
=============================================================================
