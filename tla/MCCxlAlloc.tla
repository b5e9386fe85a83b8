----------------------------- MODULE MCCxlAlloc -----------------------------
(* CxlAlloc with frees of the first header of several. *)
EXTENDS CxlAlloc

FirstPlace == {"first"}
=============================================================================
