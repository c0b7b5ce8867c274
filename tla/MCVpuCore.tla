------------------------------ MODULE MCVpuCore ------------------------------
(* The idle thread and two others, on a timer whose word wraps around.     *)
EXTENDS VpuCore
=============================================================================
