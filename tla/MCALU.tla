------------------------------- MODULE MCALU --------------------------------
(***************************************************************************)
(* The ALU with the bitwise operators of the community modules.            *)
(***************************************************************************)
EXTENDS ALU, Bitwise, TLC

AndOf(a, b) == a & b
OrOf(a, b) == a | b
XorOf(a, b) == a ^^ b
=============================================================================
