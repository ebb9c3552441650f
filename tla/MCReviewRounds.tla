--------------------------- MODULE MCReviewRounds ---------------------------
(***************************************************************************)
(* Review rounds on one pull request.                                      *)
(***************************************************************************)
EXTENDS ReviewRounds, TLC

CONSTANTS
    h1,         \* a handler thread
    t1,         \* the reconciler of a dispatch pass
    b1          \* /reconcile in the bot
=============================================================================
