---------------------------- MODULE MCHumanReviews ----------------------------
\* Two decisions about one resource, one of them with two reasons, and a review.
EXTENDS HumanReviews

Decision(meta, rest) ==
    [action |-> "decision", resource |-> "invitation", meta |-> meta, rest |-> rest]

MCPayloads == {Decision("hold", "reason"), Decision("advance", "reason"),
               [action |-> "review", resource |-> "item", meta |-> "confirmed", rest |-> "reason"],
               [action |-> "deletion", resource |-> "none", meta |-> "none", rest |-> "reason"]}
=============================================================================
