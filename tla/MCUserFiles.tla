---------------------------- MODULE MCUserFiles ----------------------------
(***************************************************************************)
(* Values of the constants of UserFiles for TLC: two bundled templates and *)
(* three v0.2 overlays, two with the same name, so that the second of them *)
(* is suffixed, and one with a name of its own, which an interrupted       *)
(* migration must not lose.                                                *)
(***************************************************************************)
EXTENDS UserFiles

MCStarters == <<"cq", "reply">>
MCLegacy == <<"old", "old", "other">>
=============================================================================
