--------------------------- MODULE MCQualification ---------------------------
(* A small instance of Qualification for TLC.  The commands are symmetric. *)
EXTENDS Qualification

CONSTANTS p1, p2

MCReleases == {"r1", "r2"}
MCCommands == {p1, p2}
MCSymmetry == Permutations(MCCommands)
=============================================================================
