--------------------------- MODULE MCSubscriptionCodec ---------------------------
(* Lists for SubscriptionCodec: empty, as long as a block, longer, with the *)
(* same action twice, and with an illegal cause first, last or in between.  *)
EXTENDS SubscriptionCodec

CONSTANT Setup  (* lengths of the lists of actions and of conditions        *)

Item(n, c) == [id |-> n, cause |-> c]
Plain   == {<<>>, <<Item(1, "plain")>>, <<Item(2, "plain"), Item(1, "plain")>>,
            <<Item(1, "plain"), Item(2, "plain"), Item(2, "plain")>>}
Refused == {<<>>, <<Item(1, "legal")>>, <<Item(2, "legal"), Item(1, "illegal")>>,
            <<Item(2, "legal"), Item(1, "legal"), Item(2, "legal")>>,
            <<Item(1, "legal"), Item(2, "illegal"), Item(2, "legal")>>,
            <<Item(1, "illegal"), Item(2, "legal"), Item(1, "legal")>>}
Short(lists) == {s \in lists : Len(s) \in Setup}

MCHelperLists ==
  [l \in Lists |->
     CASE l = "setup" -> Short(Plain) [] l = "admitted" -> Plain
       [] l = "conditions" -> Short(Refused) [] OTHER -> Refused]
==================================================================================
