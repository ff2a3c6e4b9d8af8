--------------------------- MODULE MCConfiguration ---------------------------
(* Texts for Configuration: no name, one, two with an empty one in between. *)
EXTENDS Configuration

MCNumbers == {0, 1, 2, 3}
MCTexts   == {<<>>, <<"g1">>, <<"g2", "", "g1">>}
==============================================================================
