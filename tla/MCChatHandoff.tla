---------------------------- MODULE MCChatHandoff ----------------------------
(* Instances of ChatHandoff for TLC; the sets are given in the .cfg files. *)
EXTENDS ChatHandoff
=============================================================================
