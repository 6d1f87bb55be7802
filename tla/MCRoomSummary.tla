--------------------------- MODULE MCRoomSummary ---------------------------
(* Instances of RoomSummary for TLC. *)
EXTENDS RoomSummary
=============================================================================
