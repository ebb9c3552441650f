---------------------------- MODULE MCDispatch ------------------------------
(***************************************************************************)
(* Dispatch on one or two issues and a review round, with a few mishaps of *)
(* each kind.                                                              *)
(***************************************************************************)
EXTENDS Dispatch, TLC

CONSTANTS i1, i2, f1, t1, b1

Order == [i \in Items |-> IF i = i1 THEN 1 ELSE IF i = i2 THEN 2 ELSE 0]

\* What goes wrong in and around a pass; the pass may die twice.
Mishaps == [k \in Kinds |->
    CASE k = "crash" -> 2
      [] k \in {"fault", "limit", "retry"} -> 1
      [] OTHER -> 0]

\* What makes a brief wait, each once, and two midnights.  One pull request is
\* closed.
Waits == [k \in Kinds |->
    CASE k = "age" -> 2
      [] k \in {"limit", "pause", "window", "close"} -> 1
      [] OTHER -> 0]
=============================================================================
