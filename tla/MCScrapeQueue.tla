--------------------------- MODULE MCScrapeQueue ---------------------------
(* Instances of ScrapeQueue for TLC.                                       *)
EXTENDS ScrapeQueue

CONSTANTS u1, u2

\* A "scrape all" of one page, or of two.
AllPlans == {<<u1>>, <<u1, u2>>}
PairPlan == {<<u1, u2>>}
=============================================================================
