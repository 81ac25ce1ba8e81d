-------------------------------- MODULE MCReview -------------------------------
(***************************************************************************)
(* A small review: every kind of choice once, and four ways to begin.      *)
(***************************************************************************)
EXTENDS Review

MCPairs == {<<"home", "project">>}
MCRequests == {<<"secret", "TOKEN">>, <<"ro", "project">>}

From(s, was, first, requests) ==
    [sel |-> s, approved |-> was, first |-> first, requests |-> requests]

MCReviews ==
    {From({}, {}, TRUE, {}),
     From({}, {}, TRUE, MCRequests),
     From({Github, <<"env", "TOKEN">>, <<"ro", "project">>} \union MCRequests, MCRequests, FALSE, MCRequests),
     From({<<"key", "k">>, Destinations, <<"rw", "home">>, <<"extra", "x11">>}, {}, FALSE, {})}
================================================================================
