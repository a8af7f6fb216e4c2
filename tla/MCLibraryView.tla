--------------------------- MODULE MCLibraryView ---------------------------
(* Instances of LibraryView for TLC.                                       *)
EXTENDS LibraryView

CONSTANTS ann, bob

\* Ann likes every track, Bob none.
AnnLikesAll == {ann} \X (1..NumTracks)
=============================================================================
