----------------------------- MODULE MCFeedSync ------------------------------
(* Instances of FeedSync for TLC *)
EXTENDS FeedSync

CONSTANTS r1, r2, r3, r4, alice, bob, carol

\* r1 and r2 are requests of one account.
Actors ==
    [r \in Requests |-> CASE r \in {r1, r2} -> alice [] r = r3 -> bob [] r = r4 -> carol]
==============================================================================
