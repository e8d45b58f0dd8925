-------------------------- MODULE MCResourceManager --------------------------
(***************************************************************************)
(* ResourceManager for TLC: sessions, keys and names are interchangeable.  *)
(***************************************************************************)
EXTENDS ResourceManager, TLC

ResourceSymmetry ==
  Permutations(Sessions) \cup Permutations(Keys) \cup Permutations(Names)

=============================================================================
