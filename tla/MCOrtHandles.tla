----------------------------- MODULE MCOrtHandles -----------------------------
(***************************************************************************)
(* OrtHandles for TLC: it is finite as it stands.                          *)
(***************************************************************************)
EXTENDS OrtHandles
=============================================================================
