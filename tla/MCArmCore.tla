------------------------------ MODULE MCArmCore ------------------------------
(* Both drivers on a timer whose word wraps around.                        *)
EXTENDS ArmCore
=============================================================================
