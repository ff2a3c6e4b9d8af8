----------------------------- MODULE MCSubscribeLoop -----------------------------
(* A small instance of SubscribeLoop for TLC.                              *)
EXTENDS SubscribeLoop

CONSTANTS g1, g2, g3

ThreeNodes == <<g1, g2, g3>>
AnyOutages == {0, 1, 4, Never}
==================================================================================
