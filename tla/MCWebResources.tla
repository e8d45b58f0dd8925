---------------------------- MODULE MCWebResources ----------------------------
(***************************************************************************)
(* WebResources for TLC: the layouts are interchangeable.                  *)
(***************************************************************************)
EXTENDS WebResources, TLC

LayoutSymmetry == Permutations(Layouts)

=============================================================================
