---------------------------- MODULE MCSidecarRpc ----------------------------
(* Instance of SidecarRpc for TLC; the constants are in the cfg file. *)
EXTENDS SidecarRpc
=============================================================================
