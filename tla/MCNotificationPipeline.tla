----------------------- MODULE MCNotificationPipeline -----------------------
(* Instances of NotificationPipeline. *)
EXTENDS NotificationPipeline, TLC

MCPipelineSymmetry == Permutations(Relays) \cup Permutations(Consumers)
=============================================================================
