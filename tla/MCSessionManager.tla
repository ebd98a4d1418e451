-------------------------- MODULE MCSessionManager --------------------------
(***************************************************************************)
(* SessionManager for TLC.  The calls of handle_text are interchangeable.  *)
(***************************************************************************)
EXTENDS SessionManager, TLC

Symmetry == Permutations(Submits)

=============================================================================
