----------------------- MODULE MCMultiUserMediaCollector -----------------------
(***************************************************************************)
(* MultiUserMediaCollector for TLC.  A temporal property is checked, so no *)
(* symmetry is used.                                                       *)
(***************************************************************************)
EXTENDS MultiUserMediaCollector

=============================================================================
