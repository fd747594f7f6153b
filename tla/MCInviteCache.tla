---------------------------- MODULE MCInviteCache ----------------------------
(***************************************************************************)
(* An invite that exists at the start and two that may be created, with a  *)
(* few events and fetches among them.                                      *)
(***************************************************************************)
EXTENDS InviteCache
=============================================================================
