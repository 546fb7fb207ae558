---------------------------- MODULE MCController -----------------------------
(* Controller with small constants for TLC, and the mutants of its actions. *)
EXTENDS Controller
====================
