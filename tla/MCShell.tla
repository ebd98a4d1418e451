------------------------------ MODULE MCShell ------------------------------
(* The shell for TLC: messages are alike, and so are the calls of /shell.  The
   row has the overlay on at first; the first /shell turns it off. *)
EXTENDS Shell, TLC

ASSUME ShellConstants == ShellAssumption

Alike  == Permutations(Messages) \cup Permutations(Toggles)
MCInit == ShellInit /\ row = TRUE
=============================================================================
