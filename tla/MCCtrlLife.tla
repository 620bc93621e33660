------------------------------ MODULE MCCtrlLife ------------------------------
(* A discovery controller and an I/O controller. *)
EXTENDS CtrlLife

CONSTANTS d, i
================================================================================
