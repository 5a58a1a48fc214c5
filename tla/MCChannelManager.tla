------------------------ MODULE MCChannelManager ------------------------
(***************************************************************************)
(* Small managers.  Bounds are given per lane.                             *)
(***************************************************************************)
EXTENDS ChannelManager

TwoTextOneMedia == [text |-> 2, media |-> 1]
FourText == [text |-> 4, media |-> 0]
=============================================================================
