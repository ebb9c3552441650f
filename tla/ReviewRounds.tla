---------------------------- MODULE ReviewRounds ----------------------------
(***************************************************************************)
(* Stage B: the review-fix rounds on one pull request of the harness.      *)
(*                                                                         *)
(* webhookd.open_review_round is the single door to a round.  It is called *)
(* for webhook deliveries, by the reconciler (in a dispatch pass, or in    *)
(* the bot for /reconcile) for the newest human comment, and by dispatch   *)
(* itself when the automatic review of stage A left something to patch.    *)
(*                                                                         *)
(* last_comment_at, the mark, is what keeps the callers apart: a comment   *)
(* no later than the mark belongs to a round that was opened before.       *)
(* Times are UTC seconds, so two comments may bear the same one.           *)
(***************************************************************************)
EXTENDS Naturals, FiniteSets, Sequences

CONSTANTS
    Hooks,      \* handler threads of talos-webhookd
    Timers,     \* the reconciler inside a dispatch pass
    Bots,       \* /reconcile in the bot, another process
    Cap,        \* max_review_fix_rounds
    Last,       \* bound: comments on the pull request
    Most,       \* bound: briefs
    End,        \* bound: the clock
    Prompt,     \* nobody comes in between two adjacent statements (below)
    Budget,     \* bound: outside events (below)
    None

\* The door of enqueue_review_round, in the dispatcher's own process.
Self == "dispatch"

Pollers == Timers \cup Bots
Doors == Hooks \cup Pollers \cup {Self}


ASSUME ReviewAssumption ==
    /\ Cap \in Nat /\ Last \in Nat /\ Most \in Nat /\ End \in Nat \ {0}
    /\ Prompt \in BOOLEAN
    /\ Budget \in Nat
    /\ Hooks \cap Pollers = {} /\ Timers \cap Bots = {} /\ Self \notin Hooks \cup Pollers
    /\ None \notin 1..Most

Numbers == 1..Most

VARIABLES
    clock,      \* UTC, in seconds
    said,       \* the comments on GitHub, oldest first
    pr,         \* the pull request on GitHub
    live,       \* mode: live, as opposed to dry_run
    seen,       \* ids in the deliveries table
    row,        \* the row `pr:...` of the ledger
    brief,      \* brief[n]: the review-fix brief number n
    door,       \* door[d]: what the caller d of open_review_round is doing
    hand,       \* the dispatcher: the brief it works on
    read,       \* read[n]: the comments the session of brief n has read
    retrying,   \* the bot: /retry has requeued the brief, not yet the row
    left,       \* outside events still allowed
    torn,       \* a brief is pending again, and its row was not told (below)
    unsaid      \* the row was not told of the last run that has begun

github == <<clock, said, pr, live>>
ledger == <<seen, row>>
vault  == <<brief, read>>
vars   == <<github, ledger, vault, door, hand, retrying, left, torn, unsaid>>

\* Mutant of InFlightStates: the gap between the two rows of a burst.
InFlightStatesLate == {"dispatched", "running"}

InFlightStates == {"admitted", "dispatched", "running"}

\* 0 stands for an empty time stamp; `path` is the number in brief_path.
NoRow == [state |-> "absent", rounds |-> 0, mark |-> 0, claimed |-> 0, path |-> None]

\* `parked`: it carries the session of a run the usage limit stopped.
NoBrief == [status |-> "absent", parked |-> FALSE]

\* pc: "listed", "found": a poller before and after it looked at the mark;
\* "asked": dispatch has read the row; "write", "mark": in _emit_brief.
\* `was` is the row the caller read, `live` the mode it works in, `n` the
\* brief it wrote.
NoJob == [pc |-> "idle", c |-> 0, at |-> 0, was |-> NoRow, live |-> FALSE, n |-> None]

\* pc: "claim" and "close", the brief is written and the row is not;
\* "start", the container is going; "run", its session has read the threads.
Idle == [pc |-> "idle", n |-> None, report |-> None]

\* An outside event: a write fails, a process dies, the usage limit, a mode
\* switch, /retry, the pull request is closed, a comment the gates refuse, or
\* stage A ends with something to patch.
Event == left > 0 /\ left' = left - 1

Later(a, b) == IF a > b THEN a ELSE b

\* A kind "refused" passes human_comments but not the gates of a review: a
\* bot with write access, or an approval.  Strangers, empty bodies and what
\* the harness wrote pass neither and are left out.
Comments == 1..Len(said)
At(c) == IF c = 0 THEN clock ELSE said[c].at
Worthy(c) == said[c].kind = "worthy"

\* The dispatcher's process does one thing at a time.
Free == hand = Idle /\ \A d \in Timers \cup {Self} : door[d].pc = "idle"

\* The windows Prompt closes: between two transactions of one caller that
\* are milliseconds apart.
Between(d) == door[d].pc \in {"asked", "write", "mark"}

-----------------------------------------------------------------------------
(* open_review_round: the transaction, for the comment c seen by door d.   *)
(* `was` is the row as its SELECT found it.  With a delivery id the INSERT *)
(* of the delivery has opened the write transaction, and `was` is the row. *)

\* Mutant of Absorbed: a round under way reads whatever is said.
AbsorbedAlways(was, t) == TRUE

\* Will the round in flight read a comment made at time t?
Absorbed(was, t) == was.state # "running" \/ t <= was.claimed

InFlight(d, was, t) ==
    /\ was.state \in InFlightStates
    /\ row' = [row EXCEPT !.mark = IF Absorbed(was, t) THEN Later(@, t) ELSE @]
    /\ door' = [door EXCEPT ![d] = NoJob]

SameDraft(d, was) ==
    /\ was.state = "dry_run" /\ ~live
    /\ door' = [door EXCEPT ![d] = NoJob]
    /\ UNCHANGED row

\* Mutant of Spent: one round too many.
SpentLate(was) == was.rounds > Cap

Spent(was) == was.rounds >= Cap

CapReached(d, was) ==
    /\ was.state \notin InFlightStates
    /\ was.state = "dry_run" => live
    /\ Spent(was)
    /\ row' = IF was.state = "absent" THEN row
              ELSE [row EXCEPT !.state = "rejected_round_cap"]
    /\ door' = [door EXCEPT ![d] = NoJob]

\* Mutant of Counted: the count is left to the caller that writes the brief.
CountedLater(rounds) == rounds

\* A draft spends no round: it never runs.
Counted(rounds) == IF live THEN rounds + 1 ELSE rounds

OpensRound(d, was, c, t) ==
    /\ was.state \notin InFlightStates
    /\ was.state = "dry_run" => live
    /\ ~Spent(was)
    /\ row' = [row EXCEPT !.state = "admitted", !.rounds = Counted(was.rounds),
                          !.mark = Later(t, was.mark)]
    /\ door' = [door EXCEPT ![d] = [NoJob EXCEPT !.pc = "write", !.c = c, !.live = live,
                                                 !.was = [NoRow EXCEPT !.rounds = was.rounds]]]

OpenReviewRound(d, was, c, t) ==
    \/ InFlight(d, was, t)
    \/ SameDraft(d, was)
    \/ CapReached(d, was)
    \/ OpensRound(d, was, c, t)

\* Does Prompt let a transaction of somebody else in?
Undisturbed(d) == Prompt => retrying = FALSE /\ (d # Self => door[Self].pc # "asked")

-----------------------------------------------------------------------------
(* Its callers.                                                            *)

\* _handle_gh_review for a delivery: the gates, then the door.  A delivery
\* comes late, twice, or never.
Deliver(d, id, c) ==
    /\ Undisturbed(d)
    /\ seen' = seen \cup {id}
    /\ \/ /\ id \in seen \/ ~Worthy(c)
          /\ door' = [door EXCEPT ![d] = NoJob]
          /\ UNCHANGED row
       \/ /\ id \notin seen /\ Worthy(c)
          /\ OpenReviewRound(d, row, c, At(c))
    /\ UNCHANGED <<github, vault, hand, retrying, left, torn, unsaid>>

Webhook(h, c) == door[h].pc = "idle" /\ Deliver(h, <<"hook", c>>, c)

\* reconcile_prs: the pull request is listed as open, then its comments.
ListComments(p) ==
    /\ door[p].pc = "idle"
    /\ p \in Timers => Free
    /\ pr = "open"
    /\ \E c \in Comments :
          /\ \A e \in Comments : At(e) <= At(c)
          /\ door' = [door EXCEPT ![p] = [NoJob EXCEPT !.pc = "listed", !.c = c]]
    /\ UNCHANGED <<github, ledger, vault, hand, retrying, left, torn, unsaid>>

\* Mutant of PollId: the id of the pull request, as it once was for merges.
PollIdFixed(c) == <<"poll", 1>>

\* The id of the synthetic delivery is that of the comment, for every poller.
PollId(c) == <<"poll", c>>

\* _round_if_pending: is the newest comment newer than the last round?
Pending(c) ==
    /\ row.state \notin InFlightStates
    /\ row.mark = 0 \/ At(c) > row.mark

Look(p) ==
    /\ door[p].pc = "listed"
    /\ door' = [door EXCEPT ![p] =
           IF Pending(door[p].c) THEN [@ EXCEPT !.pc = "found"] ELSE NoJob]
    /\ UNCHANGED <<github, ledger, vault, hand, retrying, left, torn, unsaid>>

Hand(p) == door[p].pc = "found" /\ Deliver(p, PollId(door[p].c), door[p].c)

\* enqueue_review_round: no delivery id, so the SELECT opens no transaction.
Ask ==
    /\ Free
    /\ live
    /\ Prompt => ~retrying /\ \A d \in Doors : ~Between(d)
    /\ Event
    /\ door' = [door EXCEPT ![Self] = [NoJob EXCEPT !.pc = "asked", !.at = clock, !.was = row]]
    /\ UNCHANGED <<github, ledger, vault, hand, retrying, torn, unsaid>>

OpenOwn ==
    /\ door[Self].pc = "asked"
    /\ Undisturbed(Self)
    /\ OpenReviewRound(Self, door[Self].was, 0, door[Self].at)
    /\ UNCHANGED <<github, seen, vault, hand, retrying, left, torn, unsaid>>

-----------------------------------------------------------------------------
(* _emit_brief: the file, then a second transaction.                       *)
WriteBrief(d) ==
    /\ door[d].pc = "write"
    /\ \E n \in Numbers :
          /\ brief[n].status = "absent"
          /\ \A m \in 1..(n - 1) : brief[m].status # "absent"
          /\ brief' = [brief EXCEPT ![n] =
                 [NoBrief EXCEPT !.status = IF door[d].live THEN "pending" ELSE "draft"]]
          /\ door' = [door EXCEPT ![d] = [NoJob EXCEPT !.pc = "mark", !.live = door[d].live, !.n = n]]
    /\ UNCHANGED <<github, ledger, read, hand, retrying, left, torn, unsaid>>

MarkBrief(d) ==
    /\ door[d].pc = "mark"
    /\ row' = [row EXCEPT !.state = IF door[d].live THEN "admitted" ELSE "dry_run",
                          !.path = door[d].n]
    /\ door' = [door EXCEPT ![d] = NoJob]
    /\ UNCHANGED <<github, seen, vault, hand, retrying, left, torn, unsaid>>

\* Only the count goes back, to what the caller read; the mark stays.
RolledBack(r, was) == [r EXCEPT !.rounds = was.rounds]

DeliveryOf(d) == IF d \in Hooks THEN <<"hook", door[d].c>> ELSE PollId(door[d].c)

BriefError(d) ==
    /\ door[d].pc = "write"
    /\ Event
    /\ seen' = seen \ {DeliveryOf(d)}
    /\ row' = [RolledBack(row, door[d].was) EXCEPT !.state = "brief_error"]
    /\ door' = [door EXCEPT ![d] = NoJob]
    /\ UNCHANGED <<github, vault, hand, retrying, torn, unsaid>>

\* talos-webhookd restarts, or the poller's process dies.
DoorDies(d) ==
    /\ door[d].pc # "idle"
    /\ Event
    /\ door' = [door EXCEPT ![d] = NoJob]
    /\ UNCHANGED <<github, ledger, vault, hand, retrying, torn, unsaid>>

-----------------------------------------------------------------------------
(* The dispatcher on a review-fix brief; Dispatch has the pass around it.  *)
SetStatus(n, status) == brief' = [brief EXCEPT ![n].status = status]

Take(n) ==
    /\ Free
    /\ Prompt => ~retrying /\ \A d \in Doors : ~Between(d)
    /\ brief[n].status = "pending"
    /\ pr = "open"
    /\ SetStatus(n, "running")
    /\ hand' = [pc |-> "claim", n |-> n, report |-> None]
    /\ UNCHANGED <<github, ledger, read, door, retrying, left, torn, unsaid>>

\* still_wanted: the pull request is closed.
Refuse(n) ==
    /\ Free
    /\ Prompt => ~retrying /\ \A d \in Doors : ~Between(d)
    /\ brief[n].status = "pending"
    /\ pr = "closed"
    /\ SetStatus(n, "skipped")
    /\ hand' = [pc |-> "close", n |-> n, report |-> "rejected_pr_closed"]
    /\ UNCHANGED <<github, ledger, read, door, retrying, left, torn, unsaid>>

\* record_event_state("running"); set_state stamps claimed_at.
Claim ==
    /\ hand.pc = "claim"
    /\ row' = [row EXCEPT !.state = "running", !.claimed = clock, !.path = hand.n]
    /\ hand' = [hand EXCEPT !.pc = "start"]
    /\ unsaid' = FALSE
    /\ UNCHANGED <<github, seen, vault, door, retrying, left, torn>>

\* The UPDATE fails: it is logged, and the container goes all the same.  The
\* row stays admitted, and takes whatever is said meanwhile for this round's.
ClaimLost ==
    /\ hand.pc = "claim"
    /\ Event
    /\ hand' = [hand EXCEPT !.pc = "start"]
    /\ unsaid' = TRUE
    /\ UNCHANGED <<github, ledger, vault, door, retrying, torn>>

\* The agent loads the threads from GitHub, no sooner than a second after the
\* claim.  A resumed session need not load them again: it is told not to redo
\* what is done.
ReadThreads ==
    /\ hand.pc = "start"
    /\ clock > row.claimed \/ clock = End
    /\ \/ read' = [read EXCEPT ![hand.n] = Comments]
       \/ brief[hand.n].parked /\ UNCHANGED read
    /\ hand' = [hand EXCEPT !.pc = "run"]
    /\ UNCHANGED <<github, ledger, brief, door, retrying, left, torn, unsaid>>

\* mark_done_and_move; or _fail, before or after the threads were read.
Done ==
    /\ hand.pc = "run"
    /\ SetStatus(hand.n, "done")
    /\ hand' = [hand EXCEPT !.pc = "close", !.report = "done"]
    /\ UNCHANGED <<github, ledger, read, door, retrying, left, torn, unsaid>>

Fail ==
    /\ hand.pc \in {"start", "run"}
    /\ SetStatus(hand.n, "failed")
    /\ hand' = [hand EXCEPT !.pc = "close", !.report = "failed"]
    /\ UNCHANGED <<github, ledger, read, door, retrying, left, torn, unsaid>>

\* park_brief: the usage limit.
Park ==
    /\ hand.pc = "run"
    /\ Event
    /\ brief' = [brief EXCEPT ![hand.n].status = "pending", ![hand.n].parked = TRUE]
    /\ hand' = [hand EXCEPT !.pc = "close", !.report = "admitted"]
    /\ UNCHANGED <<github, ledger, read, door, retrying, torn, unsaid>>

\* The row follows; parking clears claimed_at.
Report ==
    /\ hand.pc = "close"
    /\ row' = [row EXCEPT !.state = hand.report,
                          !.claimed = IF hand.report = "admitted" THEN 0 ELSE @,
                          !.path = IF hand.report \in {"done", "rejected_pr_closed"}
                                   THEN hand.n ELSE @]
    /\ hand' = Idle
    /\ UNCHANGED <<github, seen, vault, door, retrying, left, torn, unsaid>>

\* The process dies.  At "close" this is also the UPDATE that fails: it is
\* logged, and the pass goes on.  Of park_brief's two writes the second is
\* lost then: a torn brief.
Die ==
    /\ hand # Idle
    /\ Event
    /\ hand' = Idle
    /\ torn' = (torn \/ (hand.pc = "close" /\ hand.report = "admitted"))
    /\ UNCHANGED <<github, ledger, vault, door, retrying, unsaid>>

\* reap_running_briefs and reap_stale_events of the next pass.
ReapBrief(n) ==
    /\ Free
    /\ brief[n].status = "running"
    /\ SetStatus(n, "failed")
    /\ hand' = [pc |-> "close", n |-> n, report |-> "failed"]
    /\ UNCHANGED <<github, ledger, read, door, retrying, left, torn, unsaid>>

ReapRow ==
    /\ Free
    /\ row.state = "running"
    /\ \A n \in Numbers : brief[n].status # "running"
    /\ row' = [row EXCEPT !.state = "failed"]
    /\ UNCHANGED <<github, seen, vault, door, hand, retrying, left, torn, unsaid>>

-----------------------------------------------------------------------------
(* People, and time.                                                       *)

\* /retry: the brief of a failed row, then the row.
RetryBrief ==
    /\ ~retrying
    /\ row.state = "failed" /\ row.path # None
    /\ brief[row.path].status = "failed"
    /\ Prompt => hand = Idle /\ \A d \in Doors : ~Between(d)
    /\ Event
    /\ SetStatus(row.path, "pending")
    /\ retrying' = TRUE
    /\ UNCHANGED <<github, ledger, read, door, hand, torn, unsaid>>

RetryRow ==
    /\ retrying
    /\ row' = [row EXCEPT !.state = "admitted", !.claimed = 0]
    /\ retrying' = FALSE
    /\ UNCHANGED <<github, seen, vault, door, hand, left, torn, unsaid>>

\* The UPDATE fails, and the bot says that it "could not requeue"; or the bot
\* dies.  The brief is requeued all the same.
RetryLost ==
    /\ retrying
    /\ retrying' = FALSE
    /\ torn' = TRUE
    /\ UNCHANGED <<github, ledger, vault, door, hand, left, unsaid>>

Comment(kind) ==
    /\ pr = "open" /\ Len(said) < Last /\ clock < End
    /\ said' = Append(said, [at |-> clock, kind |-> kind])
    /\ IF kind = "refused" THEN Event ELSE UNCHANGED left
    /\ UNCHANGED <<clock, pr, live, ledger, vault, door, hand, retrying, torn, unsaid>>

ClosePR ==
    /\ pr = "open"
    /\ Event
    /\ pr' = "closed"
    /\ UNCHANGED <<clock, said, live, ledger, vault, door, hand, retrying, torn, unsaid>>

SwitchMode ==
    /\ Event
    /\ live' = ~live
    /\ UNCHANGED <<clock, said, pr, ledger, vault, door, hand, retrying, torn, unsaid>>

Tick ==
    /\ clock < End
    /\ clock' = clock + 1
    /\ UNCHANGED <<said, pr, live, ledger, vault, door, hand, retrying, left, torn, unsaid>>

-----------------------------------------------------------------------------
Init ==
    /\ clock = 1 /\ said = <<>> /\ pr = "open" /\ live \in BOOLEAN
    /\ seen = {} /\ row = NoRow
    /\ brief = [n \in Numbers |-> NoBrief]
    /\ read = [n \in Numbers |-> {}]
    /\ door = [d \in Doors |-> NoJob]
    /\ hand = Idle /\ retrying = FALSE /\ left = Budget
    /\ torn = FALSE /\ unsaid = FALSE

DoorStep(d) == MarkBrief(d) \/ WriteBrief(d)

PollStep(p) == ListComments(p) \/ Look(p) \/ Hand(p)

RunStep ==
    \/ \E n \in Numbers : Take(n) \/ Refuse(n) \/ ReapBrief(n)
    \/ Claim \/ ReadThreads \/ Done \/ Fail \/ Report \/ ReapRow

Mishap ==
    \/ \E d \in Doors : BriefError(d) \/ DoorDies(d)
    \/ ClaimLost \/ Park \/ Die \/ RetryLost

People == RetryBrief \/ ClosePR \/ SwitchMode \/ \E k \in {"worthy", "refused"} : Comment(k)

Next ==
    \/ \E h \in Hooks, c \in Comments : Webhook(h, c)
    \/ \E d \in Doors : DoorStep(d)
    \/ \E p \in Pollers : PollStep(p)
    \/ Ask \/ OpenOwn \/ RetryRow
    \/ RunStep \/ Mishap \/ People \/ Tick

\* A handler that has begun goes on; passes come and go, reconcile and work
\* the queue; time passes.  Webhooks and people promise nothing.
Fairness ==
    /\ \A d \in Doors : WF_vars(DoorStep(d))
    /\ \A p \in Pollers : WF_vars(Look(p) \/ Hand(p))
    /\ \A t \in Timers : SF_vars(ListComments(t))
    /\ WF_vars(OpenOwn) /\ WF_vars(RetryRow \/ RetryLost)
    /\ SF_vars(RunStep)
    /\ WF_vars(Tick)

Spec == Init /\ [][Next]_vars /\ Fairness

-----------------------------------------------------------------------------
(* Properties.                                                             *)

TypeOK ==
    /\ clock \in 1..End /\ pr \in {"open", "closed"} /\ live \in BOOLEAN
    /\ said \in Seq([at : 1..End, kind : {"worthy", "refused"}])
    /\ seen \subseteq {"hook", "poll"} \X (1..Last)
    /\ row.state \in InFlightStates \cup {"absent", "dry_run", "brief_error", "failed", "done",
                                          "rejected_round_cap", "rejected_pr_closed"}
    /\ row.rounds \in 0..Cap /\ row.mark \in 0..End /\ row.claimed \in 0..End
    /\ row.path \in Numbers \cup {None}
    /\ \A n \in Numbers : read[n] \subseteq 1..Last
    /\ retrying \in BOOLEAN /\ left \in Nat /\ torn \in BOOLEAN /\ unsaid \in BOOLEAN

Waiting == {n \in Numbers : brief[n].status \in {"pending", "running"}}

\* One fixer at a time on the branch of a pull request.
OneFixer == Cardinality(Waiting) <= 1

\* webhookd.py:388-390 says a round per delivery "queued parallel fixers on the
\* same branch".  The exception is a brief made pending again, by park_brief
\* or /retry, whose row was not told: the row is failed, or is reaped, and the
\* next comment opens a round beside it.
OneRound == torn \/ OneFixer

Written == {n \in Numbers : brief[n].status \notin {"absent", "draft"}}

\* max_review_fix_rounds bounds the rounds that were worth a brief, whatever
\* failed and was rolled back in between.  (Of two rounds at once, the one that
\* fails would roll back the count of the other.)
CapHolds == torn \/ Cardinality(Written) <= Cap

\* What has been read, and what a round under way is going to read.
Read == UNION {read[n] : n \in Numbers}

Underway ==
    \/ \E d \in Doors : door[d].pc \in {"write", "mark"}
    \/ retrying
    \/ \E n \in Numbers :
          \/ brief[n].status = "pending"
          \/ brief[n].status = "running" /\ hand.n = n /\ hand.pc \in {"claim", "start"}

\* A round that ended badly waits for a person, or for the next comment; a
\* brief whose process died, or whose row has not been told, is about to.
EndedBadly ==
    \/ row.state \in {"failed", "brief_error", "dry_run", "rejected_pr_closed",
                     "rejected_round_cap"}
    \/ hand.pc = "close" /\ hand.report # "done"
    \/ \E n \in Numbers : brief[n].status = "running" /\ hand.n # n

\* Known holes.  A parked session has read the threads before; a process that
\* died between _emit_brief's two writes, or before, left a row in flight
\* with nothing behind it.
Parked == \E n \in Numbers : brief[n].parked
Orphaned == row.state \in InFlightStates /\ Waiting = {} /\ ~Underway

\* The mark never passes a comment nobody reads.  It is the reason the
\* reconciler may skip whatever is not newer (reconcile.py:733-735), and
\* webhookd.py:390-395 argues for it case by case.  What the argument leaves
\* out: the row was not told of a run, and absorbed what its session did not
\* read, until the next round reads it all; or two rounds are open (OneRound).
MarkIsSafe ==
    \A c \in Comments :
        Worthy(c) /\ At(c) <= row.mark =>
            c \in Read \/ Underway \/ EndedBadly \/ Parked \/ Orphaned \/ unsaid \/ torn

\* A comment no newer comment hides from the reconciler: it looks at the
\* newest only, and a gate may refuse that one.
Visible(c) == c \in Comments => \A e \in Comments : At(e) >= At(c) => Worthy(e)

\* A worthy comment is read by a fixer in the end, its webhook delivered or
\* not, if the pull request stays open, the repository live, rounds are left
\* and nothing in EndedBadly or the known holes intervenes.
Answered ==
    \A c \in 1..Last :
        (c \in Comments /\ Worthy(c)) ~>
            \/ c \in Read
            \/ pr = "closed" \/ ~live \/ row.rounds >= Cap
            \/ EndedBadly \/ Parked \/ Orphaned \/ unsaid \/ ~Visible(c)

=============================================================================
