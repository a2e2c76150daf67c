------------------------- MODULE MCRequestPipeline ---------------------------
(***************************************************************************)
(* RequestPipeline for TLC: the router main.ts makes, and the one without  *)
(* its own limiter and validation.                                         *)
(***************************************************************************)
EXTENDS RequestPipeline

TwoRouters ==
  {[enableRateLimit |-> TRUE, enableValidation |-> TRUE],
   [enableRateLimit |-> FALSE, enableValidation |-> FALSE]}
==============================================================================
