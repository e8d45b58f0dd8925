----------------------------- MODULE MCWebSession -----------------------------
(***************************************************************************)
(* WebSession for TLC.  Liveness is checked, so that no symmetry is        *)
(* declared; one section type is enough for a report to hold something or  *)
(* nothing that the allowlist lets through.                                *)
(***************************************************************************)
EXTENDS WebSession

=============================================================================
