------------------------------ MODULE Release ------------------------------
(***************************************************************************)
(* From merge to prod: one issue, its pull request, the row of the issue   *)
(* (stage A) and the row of the pull request (stage B).                    *)
(*                                                                         *)
(* A merge closes both rows: webhookd hears of it, or the reconciler finds *)
(* it, by way of _close_if_open or of the migration.  If GitHub closes the *)
(* issue by itself the row is done; else it waits as merged_dev until the  *)
(* commit is in the prod branch, and a reconciler closes the issue.  Every *)
(* caller moves a row with store.transition, a compare-and-set.            *)
(***************************************************************************)
EXTENDS Naturals, FiniteSets

CONSTANTS
    Hooks,      \* handler threads of talos-webhookd
    Timers,     \* the reconciler inside a dispatch pass
    Bots,       \* /reconcile in the bot, another process
    Legacy,     \* may the row be from before merged_dev existed?
    Budget,     \* bound: outside events (below)
    None

ASSUME ReleaseAssumption ==
    /\ Legacy \in BOOLEAN
    /\ Budget \in Nat
    /\ Hooks \cap Timers = {} /\ Hooks \cap Bots = {} /\ Timers \cap Bots = {}
    /\ IsFiniteSet(Timers) /\ IsFiniteSet(Bots)
    /\ None \notin {"person", "github", "harness"}

Pollers == Timers \cup Bots
Workers == Hooks \cup Pollers

VARIABLES
    flow,       \* the base of the pull request: is it prod, is it the default?
    pr,         \* the pull request
    prod,       \* is the merge commit in the prod branch?
    issue,      \* the issue on GitHub
    said,       \* how often the harness said "merged" and "released" there
    row,        \* the row `gh:...` of the issue
    rev,        \* the state of the row `pr:...`: "open" stands for all but done
    file,       \* the folder the brief of stage A is in
    heard,      \* the delivery of the merge is in the deliveries table
    hand,       \* the dispatcher with the run of stage A; "dead" in the run
    job,        \* job[w]: what a worker is doing
    died,       \* a process died
    late,       \* the dispatcher or its reaper wrote over a terminal row
    lost,       \* the row was not told how the run ended, or the brief not moved
    raced,      \* the issue was reopened while a reconciler was closing it
    taken,      \* the migration took back a row that a reconciler had released
    left        \* outside events still allowed

github == <<flow, pr, prod, issue, said>>
ledger == <<row, rev, heard>>
ghosts == <<died, late, lost, raced, taken>>
vars   == <<github, ledger, file, hand, job, ghosts, left>>

TerminalStates == {"merged_dev", "done"}

\* pc: "listed", a reconciler knows that the pull request was merged;
\* "handle", in _handle_gh_merged before, "tell", "move", "note" after its
\* transaction; "migrate", "ask", "pull": in the migration; "release",
\* "read", "claim", "close", "post", "undo": in release_merged.
\* `was` is the state that was read, `path` the brief_path;
\* `comment`: tell the issue.
\* `closed`, `reopened`, `released`: what GitHub answered.
NoJob == [pc |-> "idle", was |-> None, path |-> None, comment |-> FALSE,
          closed |-> FALSE, reopened |-> FALSE, released |-> FALSE]

\* A call to GitHub fails, a process dies, somebody closes or reopens the
\* issue, or asks for a review round.
Event == left > 0 /\ left' = left - 1

GoTo(w, pc) == job' = [job EXCEPT ![w].pc = pc]

\* What follows the merges: the migration, and for a webhook nothing.
Next1(w) == IF w \in Hooks THEN NoJob ELSE [NoJob EXCEPT !.pc = "migrate"]
Drop(w) == job' = [job EXCEPT ![w] = NoJob]

\* Mutant of Moves: the state without the fields.
MovesBare(from, to, sha) ==
    /\ row.state = from
    /\ row' = [row EXCEPT !.state = to]

\* store.transition on the row of the issue.
Moves(from, to, sha) ==
    /\ row.state = from
    /\ row' = [row EXCEPT !.state = to, !.sha = @ \/ sha]

-----------------------------------------------------------------------------
(* The dispatcher ends the run of stage A.                                 *)

\* The agent opens the pull request; the run may go on for a long time.
OpenPR ==
    /\ hand.pc = "run" /\ pr = "none"
    /\ pr' = "open"
    /\ UNCHANGED <<flow, prod, issue, said, ledger, file, hand, job, ghosts, left>>

\* mark_pr_open moves the brief, mark_failed leaves it where it is.  If the
\* merge has moved it meanwhile, both raise, and the whole pass with them.
EndRun(outcome) ==
    /\ hand.pc = "run"
    /\ outcome = "pr_open" => pr # "none"
    /\ hand' = IF file = "ToDos" THEN [pc |-> outcome] ELSE [pc |-> "over"]
    /\ file' = IF file = "ToDos" /\ outcome = "pr_open" THEN "in-review" ELSE file
    /\ UNCHANGED <<github, ledger, job, ghosts, left>>

\* record_event_state does not look at the row it writes over.
Record ==
    /\ hand.pc \in {"pr_open", "failed"}
    /\ row' = [row EXCEPT !.state = hand.pc,
                          !.path = IF hand.pc = "pr_open" THEN "in-review" ELSE @,
                          !.pr = @ \/ hand.pc = "pr_open"]
    /\ late' = (late \/ row.state \in TerminalStates)
    /\ hand' = [pc |-> "over"]
    /\ UNCHANGED <<github, rev, heard, file, job, died, lost, raced, taken, left>>

\* It swallows what the ledger raises, and the pass goes on.
RecordLost ==
    /\ hand.pc \in {"pr_open", "failed"}
    /\ Event
    /\ lost' = TRUE
    /\ hand' = [pc |-> "over"]
    /\ UNCHANGED <<github, ledger, file, job, died, late, raced, taken>>

\* Its process dies.  In the run, it leaves a brief that says "running".
DispatcherDies ==
    /\ hand.pc \notin {"dead", "over"}
    /\ Event
    /\ died' = TRUE
    /\ hand' = IF hand.pc = "run" THEN [pc |-> "dead"] ELSE [pc |-> "over"]
    /\ UNCHANGED <<github, ledger, file, job, late, lost, raced, taken>>

\* What the next pass finds in ToDos.
Orphaned == hand.pc = "dead" /\ file = "ToDos"

\* reap_running_briefs fails the brief; the row, whatever it says, is next.
ReapBrief ==
    /\ Orphaned
    /\ hand' = [pc |-> "failed"]
    /\ UNCHANGED <<github, ledger, file, job, ghosts, left>>

\* reap_stale_events, after it: a row that still says "running".
ReapRow ==
    /\ hand.pc \in {"dead", "over"} /\ ~Orphaned
    /\ row.state = "running"
    /\ row' = [row EXCEPT !.state = "failed"]
    /\ UNCHANGED <<github, rev, heard, file, hand, job, ghosts, left>>

\* A round of stage B, opened even after the merge by a late comment; it ends.
Round ==
    /\ pr # "none"
    /\ Event
    /\ rev' = "open"
    /\ UNCHANGED <<github, row, heard, file, hand, job, ghosts>>

RoundDone ==
    /\ rev = "open"
    /\ rev' = "done"
    /\ UNCHANGED <<github, row, heard, file, hand, job, ghosts, left>>

-----------------------------------------------------------------------------
(* _handle_gh_merged.                                                      *)
Webhook(h) ==
    /\ job[h].pc = "idle" /\ pr = "merged"
    /\ GoTo(h, "handle")
    /\ UNCHANGED <<github, ledger, file, hand, ghosts, left>>

\* Does GitHub answer which branches are prod and default?  An unknown one
\* counts as another branch.
Answers(known) == known \/ Event

\* Mutant of Skipped: every row the merge finds is closed.
SkippedNever(state) == FALSE

\* A row that has closed its cycle is not touched again.
Skipped(state) == state \in TerminalStates

\* Mutant of Parks: prod is prod, whatever the default branch is.
ParksForProd(toProd, closes) == ~toProd

\* Is there something to wait for?  Only a merge that GitHub closes the issue
\* for, and that is in prod, is the end of it.
Parks(toProd, closes) == ~(toProd /\ closes)

\* The delivery id of a webhook is its own, the one of a reconciler a stamp.
Duplicate(w) == w \in Hooks /\ heard

\* The row of the pull request, if there is one.
ClosesRound(state) == IF state = "absent" THEN state ELSE "done"

Handle(w) ==
    /\ job[w].pc = "handle"
    /\ \E known \in BOOLEAN :
          LET toProd == flow.prod /\ known
              closes == flow.closes /\ known
          IN  /\ IF known THEN UNCHANGED left ELSE Event
              /\ IF Duplicate(w)
                 THEN UNCHANGED <<row, rev>> /\ job' = [job EXCEPT ![w] = Next1(w)]
                 ELSE /\ rev' = ClosesRound(rev)
                      /\ IF Skipped(row.state)
                         THEN UNCHANGED row /\ job' = [job EXCEPT ![w] = Next1(w)]
                         ELSE /\ row' = [row EXCEPT !.sha = TRUE,
                                    !.state = IF Parks(toProd, closes) THEN "merged_dev"
                                              ELSE "done",
                                    !.pr = @ \/ Parks(toProd, closes)]
                              /\ job' = [job EXCEPT ![w] = [NoJob EXCEPT
                                    !.pc = "tell", !.path = row.path,
                                    !.comment = ~toProd /\ ~closes]]
    /\ heard' = (heard \/ w \in Hooks)
    /\ UNCHANGED <<github, file, hand, ghosts>>

\* announce_merged_dev, or only labels.
Tell(w) ==
    /\ job[w].pc = "tell"
    /\ said' = IF job[w].comment THEN [said EXCEPT !.merged = @ + 1] ELSE said
    /\ GoTo(w, "move")
    /\ UNCHANGED <<flow, pr, prod, issue, ledger, file, hand, ghosts, left>>

\* Mutant of Filed: the notice goes out and the brief stays.
FiledNot(path) == file

\* close_merged: the brief is moved if it is where the row said.
Filed(path) == IF file = path THEN "completed" ELSE file

MoveBrief(w) ==
    /\ job[w].pc = "move"
    /\ file' = Filed(job[w].path)
    /\ job' = [job EXCEPT ![w] =
           IF file = job[w].path THEN [NoJob EXCEPT !.pc = "note"] ELSE Next1(w)]
    /\ UNCHANGED <<github, ledger, hand, ghosts, left>>

\* It swallows what the disk raises, before or after the brief says merged.
MoveFails(w) ==
    /\ job[w].pc = "move" /\ file = job[w].path
    /\ Event
    /\ lost' = TRUE
    /\ \/ UNCHANGED hand
       \/ hand.pc = "dead" /\ hand' = [pc |-> "over"]
    /\ job' = [job EXCEPT ![w] = Next1(w)]
    /\ UNCHANGED <<github, ledger, file, died, late, raced, taken>>

NotePath(w) ==
    /\ job[w].pc = "note"
    /\ row' = [row EXCEPT !.path = "completed"]
    /\ job' = [job EXCEPT ![w] = Next1(w)]
    /\ UNCHANGED <<github, rev, heard, file, hand, ghosts, left>>

-----------------------------------------------------------------------------
(* A pass of the reconciler over the repository.                           *)

\* The dispatcher reaps, then reconciles, then runs briefs, under one lock.
ListPRs(p) ==
    /\ job[p].pc = "idle"
    /\ p \in Timers => hand.pc \in {"dead", "over"} /\ ~Orphaned
    /\ GoTo(p, IF pr = "merged" THEN "listed" ELSE "migrate")
    /\ UNCHANGED <<github, ledger, file, hand, ghosts, left>>

\* _close_if_open: not if both rows are closed or absent.
CloseIfOpen(p) ==
    /\ job[p].pc = "listed"
    /\ GoTo(p, IF row.state \in TerminalStates /\ rev # "open" THEN "migrate" ELSE "handle")
    /\ UNCHANGED <<github, ledger, file, hand, ghosts, left>>

\* migrate_merged_dev: rows that nobody classified, if GitHub answers at all.
ListOld(p) ==
    /\ job[p].pc = "migrate"
    /\ \/ /\ job' = [job EXCEPT ![p] =
                 IF row.state \in {"done", "pr_open"} /\ row.pr /\ ~row.sha
                 THEN [NoJob EXCEPT !.pc = "ask", !.was = row.state, !.path = row.path]
                 ELSE [NoJob EXCEPT !.pc = "release"]]
          /\ UNCHANGED left
       \/ Event /\ GoTo(p, "release")
    /\ UNCHANGED <<github, ledger, file, hand, ghosts>>

\* The pull request on GitHub, then the compare-and-set on the state that was
\* listed.  A row that was done was announced when it was closed.
Migrate(p) ==
    /\ job[p].pc = "ask"
    /\ LET parks == pr = "merged" /\ Parks(flow.prod, flow.closes)
       IN  IF parks /\ row.state = job[p].was
           THEN /\ Moves(job[p].was, "merged_dev", TRUE)
                /\ job' = [job EXCEPT ![p] =
                       IF job[p].was = "pr_open"
                       THEN [@ EXCEPT !.pc = "pull", !.comment = ~flow.prod /\ ~flow.closes]
                       ELSE [NoJob EXCEPT !.pc = "release"]]
           ELSE /\ row' = [row EXCEPT !.sha = @ \/
                       (pr = "merged" /\ ~parks /\ job[p].was = "done")]
                /\ job' = [job EXCEPT ![p] = [NoJob EXCEPT !.pc = "release"]]
    /\ taken' = (taken \/ (row.sha /\ row.state = "done" /\ row'.state # "done"))
    /\ UNCHANGED <<github, rev, heard, file, hand, died, late, lost, raced, left>>

\* ... the comment, and the row of the pull request in a transaction after it.
Pull(p) ==
    /\ job[p].pc = "pull"
    /\ said' = IF job[p].comment THEN [said EXCEPT !.merged = @ + 1] ELSE said
    /\ rev' = ClosesRound(rev)
    /\ GoTo(p, "move")
    /\ UNCHANGED <<flow, pr, prod, issue, row, heard, file, hand, ghosts, left>>

ListParked(p) ==
    /\ job[p].pc = "release"
    /\ job' = [job EXCEPT ![p] =
           IF row.state = "merged_dev" THEN [NoJob EXCEPT !.pc = "read"] ELSE NoJob]
    /\ UNCHANGED <<github, ledger, file, hand, ghosts, left>>

\* Mutant of Released: the compare need not be "behind" or "identical".
ReleasedAhead(answer) == TRUE

\* No answer is never "released".
Released(answer) == answer

\* _release_one: the compare and the issue.  A sha that was missing is asked
\* for and stored.  Without an answer about the issue the row is left alone.
ReadGitHub(p) ==
    /\ job[p].pc = "read"
    /\ \/ /\ job' = [job EXCEPT ![p] = [NoJob EXCEPT !.pc = "claim", !.closed = ~issue.open,
                        !.reopened = issue.open /\ issue.reopened,
                        !.released = Released(prod)]]
          /\ row' = [row EXCEPT !.sha = TRUE]
          /\ UNCHANGED left
       \/ Event /\ Drop(p) /\ UNCHANGED row
    /\ UNCHANGED <<github, rev, heard, file, hand, ghosts>>

\* Mutant of Wins: the row is written without looking at its state.
WinsAlways(state) == TRUE

\* The compare-and-set of the claim.
Wins(state) == state = "merged_dev"

\* The row is claimed before anybody talks to GitHub.  _not_released claims it
\* too, if a person closed the issue; the notice about an old row is left out.
Claim(p) ==
    /\ job[p].pc = "claim"
    /\ IF Wins(row.state) /\ (job[p].released \/ job[p].closed)
       THEN /\ row' = [row EXCEPT !.state = "done"]
            /\ IF job[p].released THEN GoTo(p, "close") ELSE Drop(p)
       ELSE UNCHANGED row /\ Drop(p)
    /\ UNCHANGED <<github, rev, heard, file, hand, ghosts, left>>

\* Mutant of LeavesOpen: what a person decided does not matter.
LeavesOpenNever(j) == j.closed

\* Already closed, or reopened by a person: labels only.
LeavesOpen(j) == j.closed \/ j.reopened

\* announce_released.  A call that fails may have had its effect, or half of it:
\* gh issue close looks at the issue, and if it is open comments and closes.
Announce(p) ==
    /\ job[p].pc = "close"
    /\ \/ /\ IF issue.open /\ ~LeavesOpen(job[p]) THEN GoTo(p, "post") ELSE Drop(p)
          /\ UNCHANGED left
       \/ Event /\ GoTo(p, "undo")
    /\ UNCHANGED <<github, ledger, file, hand, ghosts>>

Post(p) ==
    /\ job[p].pc = "post"
    /\ said' = [said EXCEPT !.released = @ + 1]
    /\ \/ Drop(p) /\ UNCHANGED left
       \/ Event /\ GoTo(p, "undo")
    /\ \/ /\ issue' = IF issue.open THEN [issue EXCEPT !.open = FALSE, !.by = "harness"]
                     ELSE issue
       \/ left' # left /\ UNCHANGED issue
    /\ UNCHANGED <<flow, pr, prod, ledger, file, hand, ghosts>>

\* Mutant of Undone: the claim stays.
UndoneNot(state) == state

Undone(state) == IF state = "done" THEN "merged_dev" ELSE state

\* If this transition raises, the claim stays: the pass dies here, WorkerDies.
Undo(p) ==
    /\ job[p].pc = "undo"
    /\ row' = [row EXCEPT !.state = Undone(@)]
    /\ Drop(p)
    /\ UNCHANGED <<github, rev, heard, file, hand, ghosts, left>>

WorkerDies(w) ==
    /\ job[w].pc # "idle"
    /\ Event
    /\ died' = TRUE
    /\ Drop(w)
    /\ UNCHANGED <<github, ledger, file, hand, late, lost, raced, taken>>

-----------------------------------------------------------------------------
(* People, and GitHub.                                                     *)

\* Closes #N works on the default branch; the release is a merge commit.
Merge ==
    /\ pr = "open"
    /\ pr' = "merged"
    /\ prod' = flow.prod
    /\ issue' = IF flow.closes /\ issue.open
                THEN [issue EXCEPT !.open = FALSE, !.by = "github"] ELSE issue
    /\ UNCHANGED <<flow, said, ledger, file, hand, job, ghosts, left>>

ReachesProd ==
    /\ pr = "merged" /\ ~prod
    /\ prod' = TRUE
    /\ UNCHANGED <<flow, pr, issue, said, ledger, file, hand, job, ghosts, left>>

CloseIssue ==
    /\ issue.open
    /\ Event
    /\ issue' = [issue EXCEPT !.open = FALSE, !.by = "person"]
    /\ UNCHANGED <<flow, pr, prod, said, ledger, file, hand, job, ghosts>>

Reopen ==
    /\ ~issue.open
    /\ Event
    /\ issue' = [open |-> TRUE, reopened |-> TRUE, by |-> None]
    /\ raced' = (raced \/ \E p \in Pollers : job[p].pc \in {"claim", "close", "post"})
    /\ UNCHANGED <<flow, pr, prod, said, ledger, file, hand, job, died, late, lost, taken>>

-----------------------------------------------------------------------------
\* Before merged_dev existed a merge closed its row and kept no commit.
Before(old) ==
    IF old
    THEN /\ pr = "merged" /\ prod = flow.prod /\ file = "completed" /\ hand = [pc |-> "over"]
         /\ row = [state |-> "done", path |-> "completed", sha |-> FALSE, pr |-> TRUE]
    ELSE /\ pr = "none" /\ prod = FALSE /\ file = "ToDos" /\ hand = [pc |-> "run"]
         /\ row = [state |-> "running", path |-> "ToDos", sha |-> FALSE, pr |-> FALSE]

Init ==
    /\ flow \in [prod : BOOLEAN, closes : BOOLEAN]
    /\ \E old \in {FALSE, Legacy} :
          /\ Before(old)
          /\ heard = old
          /\ issue = [open |-> ~(old /\ flow.closes), reopened |-> FALSE,
                      by |-> IF old /\ flow.closes THEN "github" ELSE None]
    /\ said = [merged |-> 0, released |-> 0] /\ rev = "absent"
    /\ job = [w \in Workers |-> NoJob]
    /\ died = FALSE /\ late = FALSE /\ lost = FALSE /\ raced = FALSE /\ taken = FALSE
    /\ left = Budget

GoOn(w) == Handle(w) \/ Tell(w) \/ MoveBrief(w) \/ NotePath(w)

PassOn(p) ==
    \/ CloseIfOpen(p) \/ ListOld(p) \/ Migrate(p) \/ Pull(p)
    \/ ListParked(p) \/ ReadGitHub(p) \/ Claim(p) \/ Announce(p) \/ Post(p) \/ Undo(p)

RunOn == EndRun("pr_open") \/ EndRun("failed") \/ Record \/ ReapBrief \/ ReapRow

Next ==
    \/ OpenPR \/ RunOn \/ RecordLost \/ DispatcherDies \/ Round \/ RoundDone
    \/ \E h \in Hooks : Webhook(h)
    \/ \E w \in Workers : GoOn(w) \/ MoveFails(w) \/ WorkerDies(w)
    \/ \E p \in Pollers : ListPRs(p) \/ PassOn(p)
    \/ Merge \/ ReachesProd \/ CloseIssue \/ Reopen

\* What has begun goes on, runs end, and passes come again and again.  No
\* webhook, no command, no merge and no release is promised.
Fairness ==
    /\ \A w \in Workers : WF_vars(GoOn(w))
    /\ \A p \in Pollers : WF_vars(PassOn(p))
    /\ \A t \in Timers : WF_vars(ListPRs(t))
    /\ WF_vars(RunOn)

Spec == Init /\ [][Next]_vars /\ Fairness

-----------------------------------------------------------------------------
(* Properties.                                                             *)

\* The values the variables take; a row has the sha if it is merged_dev.
TypeOK ==
    /\ flow \in [prod : BOOLEAN, closes : BOOLEAN]
    /\ pr \in {"none", "open", "merged"} /\ prod \in BOOLEAN
    /\ issue \in [open : BOOLEAN, reopened : BOOLEAN, by : {None, "person", "github", "harness"}]
    /\ row.state \in TerminalStates \cup {"running", "pr_open", "failed"}
    /\ row.state = "merged_dev" => row.sha
    /\ rev \in {"absent", "open", "done"} /\ file \in {"ToDos", "in-review", "completed"}
    /\ died \in BOOLEAN /\ late \in BOOLEAN /\ lost \in BOOLEAN
    /\ raced \in BOOLEAN /\ taken \in BOOLEAN
    /\ left \in 0..Budget

\* "Nothing closes an issue without that evidence"
\* (docs/event-harness.md:125-126): the commit is in prod.
Evidence == issue.by = "harness" => prod

\* "If someone reopened it [...] reaching prod does not close it"
\* (docs/event-harness.md:135-136), unless it is reopened between the question
\* and the answer to it.
ReopenRespected == issue.by = "harness" /\ issue.reopened => raced

\* "two concurrent passes must not both comment" (reconcile.py:673-674): one
\* comment, and at most one more for each thing that goes wrong.  The late record
\* and the migration have a row released again while it is being released.
ReleasedOnce == said.released <= 1 + (Budget - left) \/ taken \/ late

\* "replaying the merge would turn merged_dev back into done and comment
\* twice" (webhookd.py:506-507).  A late record of the run, or a reaper that
\* looks at the brief only, reopens the row and has it commented once more.
MergedOnce == said.merged <= (IF late THEN 2 ELSE 1)

\* A row that is done has an issue that is closed, or that a person reopened,
\* or that is about to be closed: nothing retries a done row, but for one from
\* before merged_dev, which has no commit.  The exception is the crash that reconcile.py:678-680 accepts.
NothingForgotten ==
    row.state = "done" /\ row.sha /\ issue.open =>
        issue.reopened \/ died \/ \E p \in Pollers : job[p].pc \in {"close", "post", "undo"}

\* A merge closes both rows and files the brief, with no webhook at all: the
\* rows whatever fails, the brief unless a process dies, the dispatcher's last
\* word on the row is lost (close_merged looks where the row says, in ToDos) or
\* the move itself fails: nothing moves the brief of a terminal row.
CycleCloses ==
    pr = "merged" ~>
        /\ row.state \in TerminalStates
        /\ rev # "open"
        /\ file = "completed" \/ died \/ lost

\* A row that waits for a release leaves merged_dev after it, with its issue
\* closed: "the next pass tries again" (reconcile.py:610-611).
ReleaseCloses ==
    row.state = "merged_dev" /\ prod ~>
        row.state = "done" /\ (~issue.open \/ issue.reopened \/ died)

=============================================================================
