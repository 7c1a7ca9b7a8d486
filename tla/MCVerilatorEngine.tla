-------------------------- MODULE MCVerilatorEngine --------------------------
(* VerilatorEngine on two lanes; the operations come from the .cfg.        *)
EXTENDS VerilatorEngine

TwoLanes == {0, 1}
MacOps == {"mac", "mac16", "enqueue", "flush", "af"}
AllOps == MacOps \union {"ewmul"}
EwmulOps == {"mac", "ewmul"}
=============================================================================
