---------------------------- MODULE MCAdmission -----------------------------
(***************************************************************************)
(* Admission on one or two items.  Three briefs per item are enough for    *)
(* every mishap of the budgets below; WriteBrief would stop at the bound.  *)
(***************************************************************************)
EXTENDS Admission, TLC

CONSTANTS
    i1,         \* a GitHub issue
    s1,         \* a Sentry issue
    h1, h2,     \* handler threads
    t1,         \* a dispatch pass that reconciles
    b1          \* a bot command

Threads == Permutations({h1, h2})

\* One of everything: a write that fails, a process that dies, a mode switch.
Mishaps == [edit |-> 2, mode |-> 1, fault |-> 1, crash |-> 1]

\* Writes fail, but no process dies.
Faults == [edit |-> 2, mode |-> 1, fault |-> 1, crash |-> 0]

\* The repository changes its mode.
Change == [edit |-> 2, mode |-> 1, fault |-> 0, crash |-> 0]

\* A process dies.
Crash == [edit |-> 1, mode |-> 0, fault |-> 0, crash |-> 1]

\* One issue is opened, and one UPDATE of the ledger is lost.
Slip == [edit |-> 1, mode |-> 0, fault |-> 1, crash |-> 0]

\* Nothing goes wrong.
Calm == [edit |-> 2, mode |-> 0, fault |-> 0, crash |-> 0]
=============================================================================
