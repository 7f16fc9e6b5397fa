--------------------------- MODULE MCFeedHandler ---------------------------
(* FeedHandler on a small instance.                                         *)
EXTENDS FeedHandler

Ids == Permutations(OrderId)
=============================================================================
