------------------------------ MODULE MCXappRuntime ------------------------------
(* Small instances of XappRuntime for TLC.                                 *)
EXTENDS XappRuntime

CONSTANTS owner, helper   \* threads that control the runtime

TwoControllers == {owner, helper}
==================================================================================
