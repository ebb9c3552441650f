------------------------------ MODULE Dispatch ------------------------------
(***************************************************************************)
(* A dispatch pass from the inside (dispatch.py, run_once): the file lock, *)
(* the reaping of what a dead pass left behind, the queue, the checks made *)
(* before each brief, the container with its worktree, and what happens to *)
(* the brief and its row afterwards.  One repository; each item has one    *)
(* brief.                                                                  *)
(*                                                                         *)
(* A pass takes the lock before it touches anything, so there is one       *)
(* `pass` and one `queue`, those of the holder.                            *)
(***************************************************************************)
EXTENDS Naturals, FiniteSets

CONSTANTS
    Issues,         \* stage A briefs (issue-fix), which open a pull request
    Rounds,         \* stage B briefs (review-fix), which work on an open one
    Rank,           \* Rank[i]: place of brief i by priority, then age
    Timers,         \* passes started by the systemd timer or by webhookd
    Commands,       \* passes started by /run, inside the bot's event loop
    Runs,           \* run ids: each names a container, a worktree, a session
    DailyCap,       \* daily_cap
    OpenCap,        \* max_open_auto_prs
    FinishOpenWork, \* run_window.finish_open_work
    Patient,        \* nobody sends /retry for an item a pass has in hand
    Budget,         \* how often each kind of mishap or outside event happens
    None

Items == Issues \cup Rounds

Kinds == {"fault", "crash", "limit", "retry", "pause", "window", "age", "close"}

ASSUME DispatchAssumption ==
    /\ Issues \cap Rounds = {}
    /\ Rank \in [Items -> Nat]
    /\ \A i, j \in Items : Rank[i] = Rank[j] => i = j
    /\ DailyCap \in Nat /\ OpenCap \in Nat
    /\ FinishOpenWork \in BOOLEAN /\ Patient \in BOOLEAN
    /\ Budget \in [Kinds -> Nat]
    /\ None \notin Items /\ None \notin Runs /\ None \notin Timers \cup Commands
    /\ None \notin {"todo", "moved"}
    /\ \A place \in {"todo", "moved"} : None # <<1, place>>

VARIABLES
    row,        \* row[i]: the ledger's row
    brief,      \* brief[i]: the file's front matter
    retrying,   \* the bot: the item whose brief /retry has just requeued
    holder,     \* the pass that holds dispatch.lock
    pass,       \* what the holder is doing
    queue,      \* the holder's list: what it has scanned and not yet visited
    visited,    \* the holder's `seen`
    tree,       \* tree[r]: the worktree of run r and its .keep marker
    live,       \* runs whose container is alive
    pr,         \* pr[i]: the pull request of issue i, "none", "open" or "closed"
    paused,     \* the PAUSED sentinel
    asked,      \* /pause was sent and the bot has not handled it
    limit,      \* the USAGE_LIMIT marker is in force
    open,       \* the run window is open
    left,       \* left[k]: events of kind k still allowed
    ran,        \* history: items run since they were posted, retried or parked
    late,       \* history: runs started since /pause was sent, or handled (up to 2)
    putOff,     \* history: GitHub did not answer about a parked brief
    stray       \* history: stray[r]: the item of a run that docker failed to stop

ledgerVars == <<row, brief, retrying>>
passVars   == <<holder, pass, queue, visited>>
runVars    == <<tree, live, pr>>
switches   == <<paused, asked, limit, open>>
history    == <<ran, late, putOff, stray>>
vars       == <<ledgerVars, passVars, runVars, switches, left, history>>

\* `resume` is resume_run_id, `since` says there is a usage_limit_since.
NoBrief == [status |-> "absent", resume |-> None, since |-> FALSE]

\* `claimed` says that claimed_at is of today.
NoRow == [state |-> "absent", path |-> None, claimed |-> FALSE]

NoTree == [kind |-> "none", item |-> None]

NoPass == [pc |-> "off", item |-> None, resume |-> None, run |-> None,
           result |-> "none"]

At(pc) == pass.pc = pc

GoTo(pc) == pass' = [NoPass EXCEPT !.pc = pc]

SetStatus(i, status) == brief' = [brief EXCEPT ![i].status = status]

Spend(k) == left[k] > 0 /\ left' = [left EXCEPT ![k] = @ - 1]

\* The runs whose container docker once failed to stop.
Strays == {r \in Runs : stray[r] # None}

\* What run r works on, or would if its container were still alive.
Worker(r) == IF r \in Strays THEN stray[r] ELSE tree[r].item

\* `docker ps` or `docker rm -f` fails and these containers go on; the failure
\* is swallowed and so does the pass (kill_container).
Spared(containers) ==
    \/ containers = {} /\ UNCHANGED <<left, stray>>
    \/ /\ containers # {}
       /\ Spend("fault")
       /\ stray' = [r \in Runs |-> IF r \in containers THEN Worker(r) ELSE stray[r]]

\* Handlers of the bot are coroutines of one event loop, and run_once blocks it.
BotBusy == holder \in Commands \/ retrying # None

-----------------------------------------------------------------------------
(* The start of a pass.                                                    *)

\* Mutant of KillOrphans: containers of a dead pass are left alone.
KillNone(containers) == containers

\* kill_orphan_containers: whatever is named orq-*, as far as docker lists and
\* removes it (Begin).
KillOrphans(containers) == {}

\* A pass that finds PAUSED or the lock taken returns at once.  It does not
\* find the containers, or not all of them go.
Begin(p) ==
    /\ holder = None
    /\ ~paused
    /\ p \in Commands => ~BotBusy /\ ~asked
    /\ holder' = p
    /\ \E those \in SUBSET live : live' = KillOrphans(live) \cup those /\ Spared(those)
    /\ GoTo("reap")
    /\ UNCHANGED <<ledgerVars, queue, visited, tree, pr, switches, ran, late, putOff>>

Zombies == {i \in Items : brief[i].status = "running"}

\* Mutant of Reaped: the dead run goes back into the queue.
ReapedPending == "pending"

Reaped == "failed"

\* reap_running_briefs: with the lock held, a brief that says running is one
\* of a run that died.
ReapBrief(i) ==
    /\ At("reap")
    /\ i \in Zombies
    /\ SetStatus(i, Reaped)
    /\ pass' = [NoPass EXCEPT !.pc = "reaped", !.item = i, !.result = "failed"]
    /\ UNCHANGED <<row, retrying, holder, queue, visited, runVars, switches, left, history>>

\* reap_stale_events: rows that say running for longer than any run lasts.
\* The briefs have been reaped before.
ReapRow(i) ==
    /\ At("reap")
    /\ Zombies = {}
    /\ row[i].state = "running"
    /\ row' = [row EXCEPT ![i].state = "failed"]
    /\ UNCHANGED <<brief, retrying, passVars, runVars, switches, left, history>>

EndReap ==
    /\ At("reap")
    /\ Zombies = {}
    /\ GoTo("scan")
    /\ UNCHANGED <<ledgerVars, holder, queue, visited, runVars, switches, left, history>>

-----------------------------------------------------------------------------
(* The loop over the queue.                                                *)

\* find_pending_briefs, without the briefs this pass has already visited.
Scan ==
    /\ At("scan")
    /\ queue' = {[item |-> i, resume |-> brief[i].resume] :
                    i \in {j \in Items : brief[j].status = "pending"} \ visited}
    /\ GoTo("pick")
    /\ UNCHANGED <<ledgerVars, holder, visited, runVars, switches, left, history>>

\* is_parked and finishes_open_work, on what was read at the scan.
Parked(b) == b.resume # None

FinishesOpenWork(b) == Parked(b) \/ b.item \in Rounds

\* queue_order: parked first, then review rounds, then by rank.
Class(b) == IF Parked(b) THEN 0 ELSE IF b.item \in Rounds THEN 1 ELSE 2

Before(b, c) ==
    \/ Class(b) < Class(c)
    \/ Class(b) = Class(c) /\ Rank[b.item] < Rank[c.item]

First(b, q) == b \in q /\ \A c \in q \ {b} : Before(b, c)

\* What the run window lets through.
InWindow(q) ==
    IF open THEN q
    ELSE IF FinishOpenWork THEN {b \in q : FinishesOpenWork(b)} ELSE {}

OpenPRs == {i \in Issues : pr[i] = "open"}

\* count_dispatched_today counts rows; gh counts open pull requests.
Capped ==
    \/ Cardinality({i \in Issues : row[i].claimed}) >= DailyCap
    \/ Cardinality(OpenPRs) >= OpenCap

\* Mutants of HeldBack: the caps apply to a resume as well; open pull requests
\* are not counted.
HeldBackParked(b) == b.item \in Issues /\ Capped
HeldBackDaily(b) ==
    /\ ~Parked(b) /\ b.item \in Issues
    /\ Cardinality({i \in Issues : row[i].claimed}) >= DailyCap

\* cap_verdict: only stage A, and not when it resumes.
HeldBack(b) == ~Parked(b) /\ b.item \in Issues /\ Capped

\* Mutants of Halted: the usage limit, or /pause, is looked at only elsewhere.
HaltedByPause(q) == q = {} \/ paused \/ InWindow(q) = {}
HaltedByLimit(q) == q = {} \/ limit \/ InWindow(q) = {}

\* The checks before each brief that end the pass.
Halted(q) == q = {} \/ paused \/ InWindow(q) = {} \/ limit

EndPass ==
    /\ At("pick")
    /\ Halted(queue)
    /\ pass' = NoPass
    /\ holder' = None
    /\ queue' = {}
    /\ visited' = {}
    /\ UNCHANGED <<ledgerVars, runVars, switches, left, history>>

\* The next brief of the queue; it is visited once in this pass whatever
\* comes of it.
Visit(b) ==
    /\ At("pick")
    /\ ~Halted(queue)
    /\ First(b, InWindow(queue))
    /\ visited' = visited \cup {b.item}

\* defer_brief: the caps apply, or could not be evaluated (gh, the ledger,
\* a cooldown).  The brief stays pending and the pass goes on with the queue it
\* has.
Defer(b) ==
    /\ Visit(b)
    /\ queue' = InWindow(queue) \ {b}
    /\ \/ HeldBack(b) /\ UNCHANGED left
       \/ ~Parked(b) /\ b.item \in Issues /\ Spend("fault")
    /\ UNCHANGED <<ledgerVars, holder, pass, runVars, switches, history>>

Choose(b) ==
    /\ Visit(b)
    /\ ~HeldBack(b)
    /\ queue' = {}
    /\ pass' = [NoPass EXCEPT !.pc = "check", !.item = b.item, !.resume = b.resume]
    /\ UNCHANGED <<ledgerVars, holder, runVars, switches, left, history>>

-----------------------------------------------------------------------------
(* process_brief.                                                          *)

\* worktree.release: the tree loses its .keep marker.
Release(trees, runs) ==
    [r \in Runs |-> IF r \in runs /\ trees[r].kind = "kept"
                    THEN [trees[r] EXCEPT !.kind = "plain"] ELSE trees[r]]

\* Mutant of LetGo: a parked brief that fails or is skipped keeps its tree.
LetGoNothing(trees, run) == trees

\* release_parked, with the resume data read at the scan.
LetGo(trees, run) == Release(trees, {run})

\* still_wanted could not ask GitHub: the brief stays pending.
Unknown ==
    /\ At("check")
    /\ Spend("fault")
    /\ GoTo("scan")
    /\ putOff' = (putOff \/ pass.resume # None)
    /\ UNCHANGED <<ledgerVars, holder, queue, visited, runVars, switches, ran, late, stray>>

\* skip_brief (the issue is closed or opted out, Sentry has it resolved, the
\* PR is closed), or _fail because the workspace has no BMAD kit.
Refuse(status) ==
    /\ At("check")
    /\ SetStatus(pass.item, status)
    /\ tree' = LetGo(tree, pass.resume)
    /\ pass' = [pass EXCEPT !.pc = "close", !.result = status]
    /\ UNCHANGED <<row, retrying, holder, queue, visited, live, pr, switches, left, history>>

\* mark_running; the resume data is dropped from the file.
MarkRunning ==
    /\ At("check")
    /\ brief' = [brief EXCEPT ![pass.item].status = "running",
                              ![pass.item].resume = None]
    /\ pass' = [pass EXCEPT !.pc = "claim", !.result = "running"]
    /\ UNCHANGED <<row, retrying, holder, queue, visited, runVars, switches, left, history>>

\* A container starts for the item in hand in tree r, beside `others`.
Launch(r, others) ==
    /\ live' = others \cup {r}
    /\ pass' = [pass EXCEPT !.pc = "run", !.run = r]
    /\ ran' = ran \cup {pass.item}
    /\ late' = IF (paused \/ asked) /\ late < 2 THEN late + 1 ELSE late
    /\ UNCHANGED putOff

CanReopen == pass.resume # None /\ tree[pass.resume].kind = "kept"

\* worktree.reopen: the marker goes whatever the outcome.  The tree is reused;
\* or it cannot be, and the run starts from zero; or the run cannot be
\* prepared at all.
Reopen ==
    /\ At("prepare")
    /\ CanReopen
    /\ tree' = [tree EXCEPT ![pass.resume].kind = "plain"]
    /\ \/ Launch(pass.resume, live) /\ UNCHANGED stray
       \/ /\ pass' = [pass EXCEPT !.pc = "create"]
          /\ UNCHANGED <<live, history>>
       \/ /\ pass' = [pass EXCEPT !.pc = "result", !.result = "failed"]
          /\ UNCHANGED <<live, history>>
    /\ UNCHANGED <<ledgerVars, holder, queue, visited, pr, switches, left>>

\* A run id that names nothing yet: ids carry a time stamp.
Unused(r) ==
    /\ tree[r] = NoTree
    /\ r \notin live \cup Strays
    /\ r # pass.resume
    /\ \A i \in Items : brief[i].resume # r

\* sweep_stale, inside worktree.create: whatever is not kept goes, its
\* container first.  The worktree goes even if the container does not.
Stale == {r \in Runs : tree[r].kind = "plain"}

Swept == [r \in Runs |-> IF r \in Stale THEN NoTree ELSE tree[r]]

Create ==
    /\ At("create") \/ (At("prepare") /\ ~CanReopen)
    /\ \E r \in Runs, those \in SUBSET (live \cap Stale) :
          /\ Unused(r)
          /\ \A s \in Runs : Unused(s) => r <= s
          /\ tree' = [Swept EXCEPT ![r] = [kind |-> "plain", item |-> pass.item]]
          /\ Launch(r, (live \ Stale) \cup those)
          /\ Spared(those)
    /\ UNCHANGED <<ledgerVars, holder, queue, visited, pr, switches>>

\* No worktree (before or after the sweep), or no container.
CreateFails ==
    /\ At("create") \/ (At("prepare") /\ ~CanReopen)
    /\ \/ UNCHANGED <<tree, live, left, stray>>
       \/ /\ tree' = Swept
          /\ \E those \in SUBSET (live \cap Stale) :
                live' = (live \ Stale) \cup those /\ Spared(those)
    /\ pass' = [pass EXCEPT !.pc = "result", !.result = "failed"]
    /\ UNCHANGED <<ledgerVars, holder, queue, visited, pr, switches, ran, late, putOff>>

\* The container ends, fails, or is cut by the timeout and killed (RunEscapes
\* if docker does not); the `finally` removes the worktree.  A result counts
\* only with its PR.
RunEnds(result) ==
    /\ At("run")
    /\ result = "pr_open" => pass.item \in Issues /\ pr[pass.item] # "none"
    /\ result = "done" => pass.item \in Rounds
    /\ live' = live \ {pass.run}
    /\ tree' = [tree EXCEPT ![pass.run] = NoTree]
    /\ pass' = [pass EXCEPT !.pc = "result", !.result = result]
    /\ UNCHANGED <<ledgerVars, holder, queue, visited, pr, switches, left, history>>

\* The run is cut and docker does not stop its container.  It has failed,
\* unless the agent's own file says that it met the usage limit.
RunEscapes ==
    /\ At("run")
    /\ pass.run \in live
    /\ Spared({pass.run})
    /\ tree' = [tree EXCEPT ![pass.run] = NoTree]
    /\ \E result \in {"failed", "limit"} :
          pass' = [pass EXCEPT !.pc = "result", !.result = result, !.run = None]
    /\ UNCHANGED <<ledgerVars, holder, queue, visited, live, pr, switches, ran, late, putOff>>

\* The run ends on the usage limit: its worktree is kept for the resume,
\* unless there is no session to resume, the marker cannot be written, or only
\* the agent's own file says so.
UsageLimit ==
    /\ At("run")
    /\ Spend("limit")
    /\ live' = live \ {pass.run}
    /\ \/ /\ tree' = [tree EXCEPT ![pass.run].kind = "kept"]
          /\ pass' = [pass EXCEPT !.pc = "result", !.result = "limit"]
       \/ /\ tree' = [tree EXCEPT ![pass.run] = NoTree]
          /\ \E r \in {pass.run, None} :
                pass' = [pass EXCEPT !.pc = "result", !.result = "limit", !.run = r]
    /\ UNCHANGED <<ledgerVars, holder, queue, visited, pr, switches, history>>

-----------------------------------------------------------------------------
(* The outcome: the brief first, the row afterwards.                       *)

\* mark_pr_open and mark_done_and_move.
Complete ==
    /\ At("result")
    /\ pass.result \in {"pr_open", "done"}
    /\ SetStatus(pass.item, pass.result)
    /\ pass' = [pass EXCEPT !.pc = "close"]
    /\ UNCHANGED <<row, retrying, holder, queue, visited, runVars, switches, left, history>>

\* _fail, also for a brief parked for too long.
Fail ==
    /\ At("result")
    /\ \/ pass.result = "failed" /\ tree' = LetGo(tree, pass.resume)
       \/ /\ pass.result = "limit" /\ brief[pass.item].since
          /\ tree' = LetGo(Release(tree, {pass.run}), pass.resume)
    /\ SetStatus(pass.item, "failed")
    /\ pass' = [pass EXCEPT !.pc = "close", !.result = "failed"]
    /\ UNCHANGED <<row, retrying, holder, queue, visited, live, pr, switches, left, history>>

\* park_brief: back to pending, with what the next run needs to resume.
Park ==
    /\ At("result")
    /\ pass.result = "limit"
    /\ brief' = [brief EXCEPT ![pass.item] =
          [status |-> "pending", resume |-> pass.run, since |-> TRUE]]
    /\ limit' = TRUE
    /\ ran' = ran \ {pass.item}
    /\ pass' = [pass EXCEPT !.pc = "close"]
    /\ UNCHANGED <<row, retrying, holder, queue, visited, runVars, paused, asked, open,
                   left, late, putOff, stray>>

\* Mutant of Told: the result goes in as it is.
ToldRaw(r, result) == [state |-> result, path |-> r.path, claimed |-> TRUE]

\* record_event_state, and the UPDATE of park_brief.
Told(r, result) ==
    CASE result = "running" -> [state |-> "running", path |-> "todo", claimed |-> TRUE]
      [] result = "limit"   -> [r EXCEPT !.state = "admitted", !.claimed = FALSE]
      [] result = "failed"  -> [r EXCEPT !.state = "failed"]
      [] result = "skipped" -> [r EXCEPT !.state = "rejected_closed", !.path = "moved"]
      [] result \in {"pr_open", "done"} -> [r EXCEPT !.state = result, !.path = "moved"]

\* After the row: the container, the next dead brief, the review round, the
\* next brief, or the end of the pass.
GoOn ==
    LET ends == At("close") /\ pass.result = "limit"
    IN  /\ IF ends THEN pass' = NoPass
           ELSE IF At("claim") THEN pass' = [pass EXCEPT !.pc = "prepare"]
           ELSE IF At("reaped") THEN GoTo("reap")
           ELSE IF pass.result = "pr_open" THEN GoTo("enqueue")
           ELSE GoTo("scan")
        /\ holder' = IF ends THEN None ELSE holder
        /\ visited' = IF ends THEN {} ELSE visited

Tell ==
    /\ pass.pc \in {"claim", "close", "reaped"}
    /\ row' = [row EXCEPT ![pass.item] = Told(@, pass.result)]
    /\ GoOn
    /\ UNCHANGED <<brief, retrying, queue, runVars, switches, left, history>>

\* The ledger does not answer: logged, and the pass goes on.
TellLost ==
    /\ pass.pc \in {"claim", "close", "reaped"}
    /\ Spend("fault")
    /\ GoOn
    /\ UNCHANGED <<ledgerVars, queue, runVars, switches, history>>

Post(i) ==
    /\ brief[i].status = "absent"
    /\ SetStatus(i, "pending")
    /\ row' = [row EXCEPT ![i] = [state |-> "admitted", path |-> "todo", claimed |-> FALSE]]

\* enqueue_review_round: the review left patches, and opens its first round.
Enqueue ==
    /\ At("enqueue")
    /\ GoTo("scan")
    /\ (\E i \in Rounds : Post(i)) \/ UNCHANGED <<row, brief>>
    /\ UNCHANGED <<retrying, holder, queue, visited, runVars, switches, left, history>>

-----------------------------------------------------------------------------
(* Outside the pass.                                                       *)

\* The process of the pass dies; its container does not.
Die ==
    /\ holder # None
    /\ Spend("crash")
    /\ pass' = NoPass
    /\ holder' = None
    /\ queue' = {}
    /\ visited' = {}
    /\ UNCHANGED <<ledgerVars, runVars, switches, history>>

\* webhookd admits an issue, or opens a review round on a pull request.
Arrive(i) ==
    /\ i \in Rounds => OpenPRs # {}
    /\ Post(i)
    /\ UNCHANGED <<retrying, passVars, runVars, switches, left, history>>

\* An agent opens its pull request; a person merges or closes it.
OpenPR(r) ==
    /\ r \in live
    /\ Worker(r) \in Issues
    /\ pr[Worker(r)] # "open"
    /\ pr' = [pr EXCEPT ![Worker(r)] = "open"]
    /\ UNCHANGED <<ledgerVars, passVars, tree, live, switches, left, history>>

ClosePR(i) ==
    /\ pr[i] = "open"
    /\ Spend("close")
    /\ pr' = [pr EXCEPT ![i] = "closed"]
    /\ UNCHANGED <<ledgerVars, passVars, tree, live, switches, history>>

\* The container of a dead pass, or of a run that was cut, ends by itself.
OrphanEnds(r) ==
    /\ r \in live
    /\ ~(At("run") /\ pass.run = r)
    /\ live' = live \ {r}
    /\ UNCHANGED <<ledgerVars, passVars, tree, pr, switches, left, history>>

\* The first half of /retry: the brief starts from zero.
RetryBrief(i) ==
    /\ ~BotBusy /\ ~asked
    /\ row[i].state = "failed"
    /\ row[i].path = "todo"
    /\ brief[i].status \in {"pending", "running", "failed"}
    /\ Patient => pass.item # i
    /\ Spend("retry")
    /\ brief' = [brief EXCEPT ![i] = [NoBrief EXCEPT !.status = "pending"]]
    /\ retrying' = i
    /\ ran' = ran \ {i}
    /\ UNCHANGED <<row, passVars, runVars, switches, late, putOff, stray>>

RetryRow ==
    /\ retrying # None
    /\ row' = [row EXCEPT ![retrying].state = "admitted", ![retrying].claimed = FALSE]
    /\ retrying' = None
    /\ UNCHANGED <<brief, passVars, runVars, switches, left, history>>

RetryLost ==
    /\ retrying # None
    /\ Spend("fault")
    /\ retrying' = None
    /\ UNCHANGED <<row, brief, passVars, runVars, switches, history>>

\* /pause is sent.  The bot handles it at once, unless it is busy with a pass.
Pause ==
    /\ Spend("pause")
    /\ ~paused /\ ~asked
    /\ retrying = None
    /\ paused' = ~BotBusy
    /\ asked' = BotBusy
    /\ late' = 0
    /\ UNCHANGED <<ledgerVars, passVars, runVars, limit, open, ran, putOff, stray>>

PauseAtLast ==
    /\ asked
    /\ ~BotBusy
    /\ paused' = TRUE
    /\ asked' = FALSE
    /\ late' = 0
    /\ UNCHANGED <<ledgerVars, passVars, runVars, limit, open, left, ran, putOff, stray>>

\* /resume lifts the pause and the usage limit.
Resume ==
    /\ paused \/ limit
    /\ ~BotBusy /\ ~asked
    /\ paused' = FALSE
    /\ limit' = FALSE
    /\ late' = 0
    /\ UNCHANGED <<ledgerVars, passVars, runVars, asked, open, left, ran, putOff, stray>>

\* Time passes: the marker of the usage limit expires, the window opens or
\* closes, a new day begins, a .keep marker is too old.
LimitLifts ==
    /\ limit
    /\ limit' = FALSE
    /\ UNCHANGED <<ledgerVars, passVars, runVars, paused, asked, open, left, history>>

Window ==
    /\ Spend("window")
    /\ open' = ~open
    /\ UNCHANGED <<ledgerVars, passVars, runVars, paused, asked, limit, history>>

NewDay ==
    /\ \E i \in Issues : row[i].claimed
    /\ Spend("age")
    /\ row' = [i \in Items |-> [row[i] EXCEPT !.claimed = FALSE]]
    /\ UNCHANGED <<brief, retrying, passVars, runVars, switches, history>>

KeepExpires(r) ==
    /\ tree[r].kind = "kept"
    /\ Spend("age")
    /\ tree' = Release(tree, {r})
    /\ UNCHANGED <<ledgerVars, passVars, live, pr, switches, history>>

-----------------------------------------------------------------------------
Init ==
    /\ row = [i \in Items |-> NoRow]
    /\ brief = [i \in Items |-> NoBrief]
    /\ retrying = None
    /\ holder = None
    /\ pass = NoPass
    /\ queue = {}
    /\ visited = {}
    /\ tree = [r \in Runs |-> NoTree]
    /\ live = {}
    /\ pr = [i \in Issues |-> "none"]
    /\ paused = FALSE
    /\ asked = FALSE
    /\ limit = FALSE
    /\ open = TRUE
    /\ left = Budget
    /\ ran = {}
    /\ late = 0
    /\ putOff = FALSE
    /\ stray = [r \in Runs |-> None]

PassStep ==
    \/ \E i \in Items : ReapBrief(i) \/ ReapRow(i)
    \/ EndReap \/ Scan \/ EndPass
    \/ \E b \in queue : Defer(b) \/ Choose(b)
    \/ MarkRunning \/ Reopen \/ Create \/ CreateFails
    \/ \E status \in {"skipped", "failed"} : Refuse(status)
    \/ \E result \in {"pr_open", "done", "failed"} : RunEnds(result)
    \/ Complete \/ Fail \/ Park \/ Tell \/ Enqueue

Mishap == Unknown \/ RunEscapes \/ UsageLimit \/ TellLost \/ RetryLost \/ Die

Outside ==
    \/ \E i \in Items : Arrive(i) \/ RetryBrief(i)
    \/ \E i \in Issues : ClosePR(i)
    \/ \E r \in Runs : OpenPR(r) \/ OrphanEnds(r) \/ KeepExpires(r)
    \/ RetryRow \/ Pause \/ PauseAtLast \/ Resume \/ LimitLifts \/ Window \/ NewDay

Next == (\E p \in Timers \cup Commands : Begin(p)) \/ PassStep \/ Mishap \/ Outside

Spec == Init /\ [][Next]_vars

\* The timer starts passes again and again; a pass goes on, and its container
\* ends: by itself, or cut by the timeout.
Fairness == WF_vars(PassStep) /\ \A t \in Timers : WF_vars(Begin(t))

FairSpec == Spec /\ Fairness

-----------------------------------------------------------------------------
(* What a pass promises to the rest of the harness is the module Queue.    *)
(* Queue does not tell a finished round from an opened pull request.       *)

Shown(status) == IF status = "done" THEN "pr_open" ELSE status

Reported(result) == IF result = "limit" THEN "pending" ELSE Shown(result)

InHand ==
    LET report == IF pass.pc \in {"prepare", "create", "run", "result"}
                  THEN "running" ELSE Reported(pass.result)
        pc == IF At("claim") THEN "claim"
              ELSE IF pass.pc \in {"close", "reaped"} THEN "close" ELSE "run"
    IN  IF pass.pc \in {"off", "reap", "scan", "pick", "check", "enqueue"}
        THEN [pc |-> "idle", item |-> None, n |-> None, status |-> "none"]
        ELSE [pc |-> pc, item |-> pass.item, n |-> 1, status |-> report]

LedgerView == [i \in Items |->
    [state |-> Shown(row[i].state),
     path  |-> IF row[i].path = None THEN None ELSE <<1, row[i].path>>]]

VaultView == [i \in Items |-> [n \in {1} |-> Shown(brief[i].status)]]

Abstract == INSTANCE Queue WITH
    Numbers <- {1}, ledger <- LedgerView, vault <- VaultView, hand <- InHand

\* The pass does to briefs and rows what Queue says and nothing else, so what
\* is proved of the admission side over Queue holds over the real dispatcher.
ImplementsQueue == Abstract!QSpec

-----------------------------------------------------------------------------
(* Properties.                                                             *)

Rows == [state : {"absent", "admitted", "running", "failed", "rejected_closed",
                  "pr_open", "done"},
         path : {"todo", "moved", None}, claimed : BOOLEAN]

Briefs == [status : {"absent", "pending", "running", "failed", "skipped", "pr_open",
                     "done"},
           resume : Runs \cup {None}, since : BOOLEAN]

Trees == [kind : {"none", "plain", "kept"}, item : Items \cup {None}]

\* Every variable keeps to its values.
TypeOK ==
    /\ row \in [Items -> Rows] /\ brief \in [Items -> Briefs]
    /\ retrying \in Items \cup {None}
    /\ holder \in Timers \cup Commands \cup {None}
    /\ (pass = NoPass) <=> (holder = None)
    /\ queue \subseteq [item : Items, resume : Runs \cup {None}]
    /\ visited \subseteq Items
    /\ tree \in [Runs -> Trees] /\ live \subseteq Runs
    /\ pr \in [Issues -> {"none", "open", "closed"}]
    /\ paused \in BOOLEAN /\ asked \in BOOLEAN /\ limit \in BOOLEAN /\ open \in BOOLEAN
    /\ left \in [Kinds -> Nat]
    /\ ran \subseteq Items /\ late \in 0..2 /\ putOff \in BOOLEAN
    /\ stray \in [Runs -> Items \cup {None}]

\* "With the lock held there is no run in progress" (run_once): at most one
\* container is ever alive, also after passes have died with theirs going, but
\* for those docker failed to stop: the pass logs that and goes on.
OneContainer == Cardinality(live \ Strays) <= 1

\* "This keeps a crash or a reboot mid-run from making the next pass blindly
\* re-run it" (mark_running): a container starts for an item that was run
\* before only after /retry or after the usage limit parked it.
NoBlindRerun ==
    [][\A r \in live' \ live : tree'[r].item \notin ran]_vars

\* While the usage limit holds "no run starts" (docs/event-harness.md), in no
\* pass, however it was started.
LimitHolds == [][live' \ live # {} => ~limit]_vars

\* While a run is going no other worktree of the same brief is left: it would
\* hold the branch "and the retry could not check it out" (sweep_stale).  A
\* pass that dies after keep and before park_brief leaves one, and so does a
\* lost UPDATE of park_brief; nothing else does.
Unharmed == left["crash"] = Budget["crash"] /\ left["fault"] = Budget["fault"]

BranchFree ==
    Unharmed /\ At("run") => \A r \in Runs : tree[r].item = pass.item => r = pass.run

\* "A pass in progress finishes the run it has in hand and does not start the
\* next one" (/pause): at most the run that was being prepared still starts,
\* counted from where the bot handles the command.
PauseHolds == ~asked => late <= 1

\* "A repo never has more than 3 open automatic PRs" (docs/event-harness.md).
NeverMore == Cardinality(OpenPRs) <= OpenCap

\* A brief that resumes does not wait for the cap, and its run may not have
\* opened its pull request yet: the cap holds because parked briefs go first,
\* unless one of them was put off for the rest of a pass, or a run that docker
\* failed to stop opens its pull request after all.
Valve == putOff \/ Strays # {} \/ NeverMore

\* A pending brief is taken in hand in the end, unless the harness is paused or
\* waits for the usage limit, the caps hold the brief back or the window
\* does.  A parked brief waits for neither, a review round not for the caps.
Held(i) ==
    LET parked == brief[i].resume # None
    IN  \/ paused \/ limit
        \/ Capped /\ i \in Issues /\ ~parked
        \/ ~open /\ ~(FinishOpenWork /\ (parked \/ i \in Rounds))

Served ==
    \A i \in Items :
        brief[i].status = "pending" ~> (brief[i].status # "pending" \/ Held(i))

=============================================================================
