------------------------- MODULE MCSubscriptionHandler -------------------------
(* Small instances of SubscriptionHandler for TLC.                         *)
EXTENDS SubscriptionHandler, TLC

CONSTANTS main, other,   \* requester threads
          l1, l2         \* listener threads

TwoRequesters == {main, other}
OneListener   == {l1}
TwoListeners  == {l1, l2}

NoMessages  == {}
(* Every verdict for an id that can be encoded, asked for or not.          *)
AnyVerdict == [kind : {"accept", "reject"}, id : 0 .. MaxRequestorId]
              \cup {NoMessage}

(* Requesters run the same code.                                           *)
RequesterSymmetry == Permutations(TwoRequesters)
================================================================================
