------------------------------- MODULE MCVideo -------------------------------
(* The last words of the memory are not wiped.                             *)
EXTENDS Video
=============================================================================
