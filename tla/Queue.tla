------------------------------- MODULE Queue --------------------------------
(***************************************************************************)
(* What the dispatcher does to rows and briefs, seen from the outside: the *)
(* environment of the admission side, and the abstract specification the   *)
(* module Dispatch implements.                                             *)
(*                                                                         *)
(* The dispatcher holds a file lock, so it has at most one brief in hand.  *)
(* It decides from the front matter alone, writes the front matter first   *)
(* and mirrors the outcome into the ledger afterwards, in a transaction of *)
(* its own that may fail without stopping the pass.  Between the two       *)
(* writes anything else can happen, a crash included.                      *)
(***************************************************************************)
EXTENDS Ledger

CONSTANT Patient    \* nobody sends /retry for an item the dispatcher has in hand

ASSUME QueueAssumption == Patient \in BOOLEAN

VARIABLES
    ledger,     \* ledger[i]: the row of item i
    vault,      \* vault[i][n]: brief n of item i
    hand,       \* the dispatcher: what it is doing, and to which brief
    retrying    \* the bot: the item whose brief /retry has just requeued

qvars == <<ledger, vault, hand, retrying>>

\* pc: "idle"; "claim", the brief says running and the row does not yet;
\* "run", the container is going; "close", the brief holds the outcome and
\* the row does not yet.  `status` is what the ledger is told next, which the
\* dispatcher remembers and does not read back from the file.
Idle == [pc |-> "idle", item |-> None, n |-> None, status |-> "none"]

Reports == {"running", "pending", "pr_open", "skipped", "failed"}

Hands == {Idle} \cup
    [pc : {"claim", "run", "close"}, item : Items, n : Numbers, status : Reports]

SetBrief(i, n, status) ==
    vault' = [vault EXCEPT ![i][n] = status]

Holding(pc, i, n) == hand.pc = pc /\ hand.item = i /\ hand.n = n

Grab(pc, i, n, status) ==
    hand' = [pc |-> pc, item |-> i, n |-> n, status |-> status]

-----------------------------------------------------------------------------
(* process_brief takes a pending brief that still_wanted accepts.          *)
Take(i, n) ==
    /\ hand = Idle
    /\ vault[i][n] = "pending"
    /\ SetBrief(i, n, "running")
    /\ Grab("claim", i, n, "running")
    /\ UNCHANGED <<ledger, retrying>>

\* A mutant of MirrorState: the status of the brief goes into the row as it is.
MirrorStateRaw(status) == status

\* What the ledger is told about a brief: record_event_state, and park_brief
\* for a brief that goes back to pending.  The path goes along when the run
\* starts and when the brief moves.
MirrorState(status) ==
    CASE status = "running" -> "running"
      [] status = "pr_open" -> "pr_open"
      [] status = "skipped" -> "rejected_closed"
      [] status = "failed"  -> "failed"
      [] status = "pending" -> "admitted"

Mirrored(i, n, status) ==
    [state |-> MirrorState(status),
     path  |-> IF status \in {"failed", "pending"} THEN ledger[i].path
               ELSE <<n, Place(status)>>]

\* After "claim" comes the container, after "close" the next brief.
NextHand ==
    hand' = IF hand.pc = "claim" THEN [hand EXCEPT !.pc = "run"] ELSE Idle

\* record_event_state: an unconditional UPDATE of the row.
Mirror ==
    /\ hand.pc \in {"claim", "close"}
    /\ ledger' = [ledger EXCEPT ![hand.item] =
          Mirrored(hand.item, hand.n, hand.status)]
    /\ NextHand
    /\ UNCHANGED <<vault, retrying>>

\* The same call when the ledger does not answer: logged, and the pass goes on.
MirrorLost ==
    /\ hand.pc \in {"claim", "close"}
    /\ NextHand
    /\ UNCHANGED <<ledger, vault, retrying>>

\* The brief no longer applies, or the run cannot be prepared.
Refuse(i, n) ==
    /\ hand = Idle
    /\ vault[i][n] = "pending"
    /\ \E s \in {"skipped", "failed"} :
          SetBrief(i, n, s) /\ Grab("close", i, n, s)
    /\ UNCHANGED <<ledger, retrying>>

\* The run ended: a PR, a failure, or the usage limit, which parks it.
Finish(i, n) ==
    /\ Holding("run", i, n)
    /\ \E s \in {"pr_open", "failed", "pending"} :
          SetBrief(i, n, s) /\ Grab("close", i, n, s)
    /\ UNCHANGED <<ledger, retrying>>

-----------------------------------------------------------------------------
(* The process dies; the kernel releases its lock.                         *)
Die ==
    /\ hand # Idle
    /\ hand' = Idle
    /\ UNCHANGED <<ledger, vault, retrying>>

\* reap_running_briefs, at the start of the next pass.
ReapBrief(i, n) ==
    /\ hand = Idle
    /\ vault[i][n] = "running"
    /\ SetBrief(i, n, "failed")
    /\ Grab("close", i, n, "failed")
    /\ UNCHANGED <<ledger, retrying>>

\* reap_stale_events: a row that says running for longer than any run lasts.
\* With the lock held no run is going, and reap_running_briefs came first, so
\* no brief says running either.
ReapRow(i) ==
    /\ hand = Idle
    /\ ledger[i].state = "running"
    /\ \A j \in Items, n \in Numbers : vault[j][n] # "running"
    /\ ledger' = [ledger EXCEPT ![i].state = "failed"]
    /\ UNCHANGED <<vault, hand, retrying>>

-----------------------------------------------------------------------------
(* /retry in Telegram reads the row, writes the brief and then updates the *)
(* row.  The row is read outside any write transaction.                    *)
RetryBrief(i) ==
    /\ retrying = None
    /\ ledger[i].state \in RetryableStates
    /\ OnDisk(vault[i], ledger[i].path)
    /\ Patient => hand.item # i
    /\ SetBrief(i, ledger[i].path[1], "pending")
    /\ retrying' = i
    /\ UNCHANGED <<ledger, hand>>

RetryRow ==
    /\ retrying # None
    /\ ledger' = [ledger EXCEPT ![retrying].state = "admitted"]
    /\ retrying' = None
    /\ UNCHANGED <<vault, hand>>

\* The bot dies, or its UPDATE fails, between the two.
RetryLost ==
    /\ retrying # None
    /\ retrying' = None
    /\ UNCHANGED <<ledger, vault, hand>>

-----------------------------------------------------------------------------
(* The abstract specification of a dispatch pass and of /retry.  A brief   *)
(* appears once its row says admitted.                                     *)
Post(i, n) ==
    /\ vault[i][n] = "absent"
    /\ SetBrief(i, n, "pending")
    /\ ledger' = [ledger EXCEPT ![i] = [state |-> "admitted", path |-> <<n, "todo">>]]
    /\ UNCHANGED <<hand, retrying>>

QInit ==
    /\ ledger = [i \in Items |-> NoRow]
    /\ vault = [i \in Items |-> [n \in Numbers |-> NoBrief]]
    /\ hand = Idle
    /\ retrying = None

QNext ==
    \/ \E i \in Items, n \in Numbers :
          Post(i, n) \/ Take(i, n) \/ Refuse(i, n) \/ Finish(i, n) \/ ReapBrief(i, n)
    \/ \E i \in Items : ReapRow(i) \/ RetryBrief(i)
    \/ Mirror \/ MirrorLost \/ RetryRow \/ RetryLost \/ Die

QSpec == QInit /\ [][QNext]_qvars

=============================================================================
