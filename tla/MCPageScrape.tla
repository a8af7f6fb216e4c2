---------------------------- MODULE MCPageScrape ----------------------------
(* Instances of PageScrape for TLC.                                        *)
EXTENDS PageScrape, TLC

CONSTANTS ann, bob, s, t

\* A track of the owner of some page, and one of somebody else.
OneEach == (s :> ann) @@ (t :> bob)
=============================================================================
