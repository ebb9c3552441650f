----------------------------- MODULE MCRelease ------------------------------
(***************************************************************************)
(* One issue from its run to its release.                                  *)
(***************************************************************************)
EXTENDS Release, TLC

CONSTANTS
    h1,         \* a handler thread
    t1,         \* the reconciler of a dispatch pass
    b1          \* /reconcile in the bot
=============================================================================
