------------------------- MODULE MCSingleUserRecording -------------------------
(***************************************************************************)
(* SingleUserRecording for TLC: the resolution stays, changes and comes    *)
(* back.  A temporal property is checked, so no symmetry is used.          *)
(***************************************************************************)
EXTENDS SingleUserRecording

MCVideo == <<"large", "large", "small", "large">>

=============================================================================
