------------------------------ MODULE GoValues ------------------------------
(***************************************************************************)
(* What the modules share of Go: the zero value of a string.               *)
(***************************************************************************)

CONSTANT Empty \* the zero value "" of a Go string
=============================================================================
