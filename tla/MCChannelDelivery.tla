--------------------------- MODULE MCChannelDelivery ---------------------------
(***************************************************************************)
(* ChannelDelivery for TLC: model values for channels and callers are      *)
(* given in the configurations.                                            *)
(***************************************************************************)
EXTENDS ChannelDelivery
=============================================================================
