---------------------------- MODULE MCSubscriptionSystem ----------------------------
(* Small instances of SubscriptionSystem for TLC.                          *)
EXTENDS SubscriptionSystem

CONSTANTS l1, l2   \* listener threads

JustMain     == {main}
TwoListeners == {l1, l2}
NoMessages   == {}
TwoGNodeBs   == <<"gnb1", "gnb2">>
=====================================================================================
