------------------------- MODULE MCApprovalPipeline -------------------------
(* ApprovalPipeline on the bounds of ApprovalPipeline_safety.cfg.          *)
EXTENDS ApprovalPipeline
=============================================================================
