------------------------------ MODULE MCMainProgram ------------------------------
(* Small instances of XappRuntime and MainProgram for TLC.                 *)
EXTENDS MainProgram

CONSTANTS owner

OnlyOwner == {owner}
==================================================================================
