---------------------------- MODULE MCInference ----------------------------
EXTENDS Inference, TLC

CONSTANTS daemon, audit

MCOps == (daemon :> {"index", "marpa", "harvest"}) @@ (audit :> {"marpa"})
=============================================================================
