------------------------- MODULE MCStreamSupervisor -------------------------
(* StreamSupervisor alone; the constants are in the cfg file.              *)
EXTENDS StreamSupervisor
=============================================================================
