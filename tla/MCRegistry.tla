------------------------------ MODULE MCRegistry ------------------------------
EXTENDS Registry

(* Two programs: another one could only do what one of them does. *)
CONSTANTS a, b
================================================================================
