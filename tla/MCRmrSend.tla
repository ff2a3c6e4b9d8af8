--------------------------------- MODULE MCRmrSend ---------------------------------
(* A small instance of RmrSend for TLC: the program's overload, the other  *)
(* two, and two messages that do not pass the tests of their length.       *)
EXTENDS RmrSend, TLC

CONSTANTS sub, tlv, own, long, empty   \* messages

AllMessages  == {sub, tlv, own, long, empty}
AllOverloads == sub :> "meid" @@ tlv :> "tlv" @@ own :> "buffer" @@ long :> "tlv"
                  @@ empty :> "tlv"
AllLengths   == sub :> 2 @@ tlv :> 4 @@ own :> 1 @@ long :> 5 @@ empty :> 0
====================================================================================
