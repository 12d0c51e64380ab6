----------------------------- MODULE MCUserAgent -----------------------------
(***************************************************************************)
(* A small user agent for TLC: every SLA helps on the way everywhere.      *)
(***************************************************************************)
EXTENDS UserAgent

MCCovering == [d \in Destinations |-> SLAs]
=============================================================================
