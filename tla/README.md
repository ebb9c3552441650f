# Verification of the talos event harness

TLA+ models of talos, the harness that turns GitHub issues and Sentry alerts into
briefs, runs an agent in a container on each of them, and follows the pull request
until it is released. TLC checks the models on small instances; TLAPS proves every safety
property of the passing runs, and the functions of the run window, for every size. Liveness is
checked by TLC only.

File and line references are to `src/talos/` unless they say otherwise.

## 1. The system

Everything the processes share is on one machine:

* **`events.db`** (`store.py`), SQLite. A row per issue or alert (`dedupe_key`), with
  a `state`, the path of a brief, pull request columns, and `claimed_at`; a table of
  webhook delivery ids. Writers use short transactions; the busy timeout turns into
  an exception that callers log.
* **the vault**, a directory of Markdown files. A brief in `ToDos/` carries its
  `status` in its front matter: `draft`, `pending`, `running`, `failed`; a brief that
  is done with moves to `in-review/`, `completed/`, `skipped/` or `dry-run/`.
* **sentinels**: `PAUSED`, `USAGE_LIMIT`, `dispatch.lock`, and a `.keep` marker per
  worktree.

Nothing joins these in one transaction. Most of what can go wrong here goes wrong
between a write to one and the write to the next.

| Component | State it keeps | Operations | Talks to | What is hard |
|---|---|---|---|---|
| Event ledger (`store.py`) | rows, deliveries | record a delivery, insert or ignore, `set_state`, `transition`, counts for the caps, `reap_orphans` | everybody | `set_state` is an unconditional UPDATE: the last writer wins |
| Webhook admission (`webhookd.py`, `triage.py`) | none but the ledger; the config it read at start | `_record`, `_retire_draft`, `_emit_brief`, `open_review_round`, `_handle_gh_merged` | ledger, vault; starts a pass | one thread per request, redelivery, a restart kills the threads |
| Reconciler, backfill (`reconcile.py`) | a time stamp | list open issues, drop the known ones, admit; pull requests; releases | GitHub, ledger, the same `_record` | runs in a pass *and* in the bot, next to the webhooks |
| Dispatcher (`dispatch.py`) | lock, queue of a pass | reap, scan, order, check, run, record | briefs first, ledger second | a crash anywhere; pause, limits and caps read long before they bite |
| Worktrees (`worktree.py`) | directories and `.keep` markers | `create`, `sweep_stale`, `keep`, `release`, `reopen` | git, Docker | what a dead run leaves behind |
| Container run (`dispatch.py`) | run log, result file | start, wait, read the outcome, clean up | Docker, the agent, GitHub | timeouts, results of a run that lies |
| Review rounds (`webhookd.py`, `reconcile.py`, `dispatch.py`) | round counter, `last_comment_at` | `open_review_round` from three callers | ledger, vault | two fixers, a lost comment, the cap |
| Merge and release (`webhookd.py`, `reconcile.py`, `feedback.py`) | `merged_dev`, `done` | merge webhook, `release_merged`, `close_merged` | GitHub, ledger | webhook before the dispatcher's record; claim before the effect |
| Telegram bot (`bot.py`) | the sentinels | `/retry`, `/pause`, `/resume`, `/run`, `/reconcile`, `/backfill` | all of the above | one event loop; `/run` blocks it |
| Run window, pause, limit (`util.py`) | sentinels, parsed config | `in_run_window`, `usage_limit_until` | dispatcher, bot | midnight, expiry |
| Text and configuration (`brief_factory.py`, `routing.py`, prompts, Sentry client, secrets, BMAD kit) | none | formatting, parsing, requests | | |

`PROJECT.json` lists every component with its status, and under `hazards` each place
where this code can go wrong in a way a test would hardly reach, with the properties
that watch it.

What makes each part correct:

* admission: an issue is worked on by one brief at a time, whatever is delivered
  twice, fails or dies; nothing is lost as long as the reconciler runs; a dry run
  starts nothing and going live picks it up;
* dispatcher: one container at a time, as far as docker stops them; nothing is run again
  without a person; what must stop new runs (pause, limit, cap) does; what nothing holds
  back is served;
* review rounds: one round in flight, never more than the cap, every worthy comment
  is handled once;
* release: an issue is closed and commented on once, and only after its release.

## 2. Modules

    Ledger  <--  Queue  <--  Admission  <--  MCAdmission
                   ^             ^
                   |             +--  AdmissionProofs
              (implements)
                   |
               Dispatch  <--  MCDispatch,  DispatchProofs  <--  DispatchValve

    ReviewRounds  <--  MCReviewRounds,  ReviewRoundsProofs
    Release       <--  MCRelease,  ReleaseProofs
    ContainerRun  <--  MCContainerRun,  ContainerRunProofs
    Window

**`Ledger.tla`** defines a row (state and brief path) and a brief. A brief is its
status; a path is the number of a brief and the directory it was in when the path was
written, so that `OnDisk` can tell a path that still leads to the file. The states
`rejected_closed`, `rejected_pr_closed` and `rejected_sentry_resolved` are one, and so are
the directories a brief moves to.

**`Queue.tla`** is what the dispatcher and `/retry` do to rows and briefs, one action
per write. It has two uses: it is the environment of `Admission`, and the abstract
specification of `Dispatch`. `hand` is what the dispatcher is doing and to which brief;
`hand.status` is what it is going to tell the ledger, which it remembers
(`record_event_state` is called with a literal) and does not read back from the file.

| Action | Code |
|---|---|
| `Take`, `Refuse`, `Finish` | `process_brief`: `mark_running`; `skip_brief` or `_fail`; `mark_pr_open`, `mark_done_and_move`, `mark_failed`, `park_brief` |
| `Mirror`, `MirrorLost` | `record_event_state` after it, or its `except` |
| `ReapBrief`, `ReapRow`, `Die` | `reap_running_briefs`, `reap_stale_events`, the end of the process |
| `RetryBrief`, `RetryRow`, `RetryLost` | the two writes of `cmd_retry`, or a failure in between |

**`Admission.tla`** has the three doors (handler threads of `talos-webhookd`, the
reconciler in a pass, `/reconcile` and `/backfill` in the bot) to `_record` and
`_emit_brief`. A handler's `job` says where it stands: `_record` is one atomic action,
the file is another, the second transaction a third. GitHub's side is a set of
deliveries, snapshots of the issue, that can arrive late, twice or never. Crashes,
failed writes, edits and switches between dry run and live are bounded by `Budget`.
`_record` moves the draft inside its transaction; `CutShort` is a crash after the move
and before the commit.

**`Dispatch.tla`** is a pass from the inside:

| Action | Code |
|---|---|
| `Begin`, `ReapBrief`, `ReapRow`, `EndReap` | `run_once` up to its loop |
| `Scan`, `EndPass`, `Defer`, `Choose` | the loop: rescan, the checks in their order, `cap_verdict` |
| `Unknown`, `Refuse`, `MarkRunning` | `process_brief` up to the container |
| `Reopen`, `Create`, `CreateFails` | `worktree.reopen`, `create` with its sweep |
| `RunEnds`, `RunEscapes`, `UsageLimit` | the end of `run_claude_in_docker` and its `finally`; in `RunEscapes` docker does not stop the container of a run that is cut |
| `Complete`, `Fail`, `Park`, then `Tell` or `TellLost` | the outcome, brief first |
| `Enqueue`, `Arrive` | a new brief with its row; `Admission` has the detail |
| `Pause`, `PauseAtLast`, `Resume`, `RetryBrief`, `RetryRow` | the bot: while a pass started by `/run` goes on (`BotBusy`) it handles nothing |
| `LimitLifts`, `Window`, `NewDay`, `KeepExpires`, `OrphanEnds`, `OpenPR`, `ClosePR`, `Die` | time, containers, people, crashes |

It shows `ImplementsQueue`: under the mapping of `Abstract`, every step of a pass is a
step of `Queue` or changes nothing there. So the environment `Admission` is checked and
proved against is the one the real pass provides. `Arrive` is atomic in `Dispatch` and
three steps in `Admission`; the mapping is about the dispatcher's part of the interface.

`docker ps` and `docker rm -f` may fail wherever they are called: at the start of a pass
(`Begin`), in the sweep of `Create` and at the end of a run (`RunEscapes`). The code swallows
that, and so does the model: the containers of `Spared` go on, at the price of one fault, and
their pull requests may still be opened (`OpenPR`, through `Worker`) after their worktree is gone.

Simplifications of `Dispatch`: one repository; `git worktree remove` succeeds, `keep` may fail
(`UsageLimit`); the gate of the cooldown and a GitHub that does not answer `gh pr list` are
the fault branch of `Defer`; `mark_running` is one write, although it writes the file twice;
midnights (`NewDay`) are bounded, so that a daily cap may hold for good. `ran`, `late`, `putOff`
and `stray` are history. `stray` says which containers docker failed to stop; beside the
properties only `Worker` reads it, to know what such a container works on once its worktree is
gone, and `Unused`, because a name that docker still has cannot be given again.

**`ReviewRounds.tla`** is one pull request: its row (state, count of rounds, `mark` for
`last_comment_at`, `claimed_at`), the comments on GitHub with their times, and the three
callers of `open_review_round`.

| Action | Code |
|---|---|
| `Webhook` | `_handle_gh_review`: gates, then `open_review_round` in one transaction, begun by the INSERT of the delivery |
| `ListComments`, `Look`, `Hand` | `reconcile_prs`, `_round_if_pending`: the newest human comment, the row, the door, each read at its own time |
| `Ask`, `OpenOwn` | `enqueue_review_round`: no delivery id, so the SELECT is one step and the write another |
| `WriteBrief`, `MarkBrief`, `BriefError` | `_emit_brief`; a failure gives the count back and forgets the delivery |
| `Take`, `Refuse`, `Claim`, `ReadThreads`, `Done`, `Fail`, `Park`, `Report` | a `review-fix` brief in `process_brief`; the moment its agent loads the threads decides what it has read |
| `ClaimLost` | the UPDATE to `running` is swallowed and the container goes all the same |
| `ReapBrief`, `ReapRow`, `Die`, `DoorDies`, `RetryBrief`, `RetryRow`, `RetryLost` | as in `Queue`; `Die` before `Report` is also the UPDATE that is lost |

`Prompt` keeps three windows of milliseconds shut: between the two steps of `Ask`, between
the steps of `_emit_brief` for a pass, and between the two writes of `/retry`. It is about time
only: the second of the two writes may still be lost. With it the run `reviews` holds; the run
`review_race` opens the windows and finds two fixers. Two variables are history. `torn`: a brief
was made pending again, by `park_brief` or `/retry`, and the row was not told. `unsaid`: the row
was not told of the last run that has begun (`ClaimLost`).

**`Release.tla`** is one stage A pull request from its merge to the closed issue: the row
(`pr_open`, `merged_dev`, `done`), the brief that has to leave the queue, the issue, what
has been commented.

| Action | Code |
|---|---|
| `EndRun`, `Record`, `RecordLost`, `DispatcherDies` | the dispatcher's `mark_pr_open` and its later `record_event_state`, which may be swallowed |
| `ReapBrief`, `ReapRow` | `reap_running_briefs`, which looks at the brief and then writes the row whatever it says; `reap_stale_events` |
| `Webhook`, `Handle`, `Tell`, `MoveBrief`, `MoveFails`, `NotePath` | `_handle_gh_merged` and `close_merged`, a transaction or a call of `gh` at a time; a file that is not where the row says, and a move that raises |
| `ListPRs`, `CloseIfOpen` | the reconciler's stand-in for a lost merge webhook |
| `ListOld`, `Migrate`, `Pull` | `migrate_merged_dev`: rows closed by an older version |
| `ListParked`, `ReadGitHub`, `Claim`, `Post`, `Undo` | `release_merged`: evidence, compare-and-set, comment and close, and the claim given back |
| `Merge`, `ReachesProd`, `CloseIssue`, `Reopen` | people and GitHub |

`late` and `lost` are history: the dispatcher or its reaper has written over the row of a
finished cycle; the row was not told how the run ended, or the brief could not be moved. A
`transition` that fails while the claim is given back is `WorkerDies` at `undo`: either way the
row stays `done`.

**`ContainerRun.tla`** is the inside of what `Dispatch` has as `RunEnds`: the looks of
`wait_for_run`, what the exit code, the stream, the result file and GitHub say
(`Judge`), and the `finally` clause step by step (`Clean`), each step of which may raise.
A cut kills the client of Docker, not the container: it writes, pushes and refreshes its
token until the first cleaning step.

| Definition | Code |
|---|---|
| `Look`, `Settle`, `Exited` | a turn of the loop in `wait_for_run`, its last `proc.poll()`, its return |
| `Kill` | the `finally` around the wait; a run that has ended since the poll (`"late"`) returns 124 like one that is killed |
| `EffectiveCode`, `AtLimit`, `LoadStrict`, `Verified`, `Verdict` | `effective_returncode`, `usage_limit_message`, `load_strict_result`, `verify_stage_a`, the branches of `process_brief` |
| `Clean`, `NextStep`, `Due` | `_cleanup` and the order and conditions of the `finally` clause |

The result file is the agent's: its status may be any, `usage_limit` and another spelling of
`ok` included, and its number that of another pull request. `parked` is what the code knows as
such, a session to resume; `resume` is whether the brief names the run.

**`Window.tla`** is pure: `ParseHHMM`, `Accepted`, `InRunWindow` are functions of their
arguments, over all minutes of a day, so they are proved about and have no run. `Dispatch`
has a window that opens and closes at any time.

## 3. Runs

| Run | Size | Shows |
|---|---|---|
| `admission_safety` | one issue; two webhook threads and a bot command; a failed write, a crash, a mode switch, two edits | `TypeOK`, `OneWaiting`, `DryRunIsQuiet`, `MovedStays` |
| `admission_backfill` | a backlog issue and a Sentry issue; a thread, a pass, a command; a mode switch | `OneWaiting`, `DryRunIsQuiet` with `/backfill`, which skips a gate |
| `admission_recovery` | one issue, a thread and the reconciler; writes fail, deliveries get lost | `Reconciled`, `GoesLive` (liveness) |
| `admission_restart` | the same with a crash | `Reconciled` fails: see findings |
| `admission_race` | a thread and a pass, nothing fails | `AdmittedHasBrief` fails |
| `admission_retry` | a thread, a command, one lost UPDATE, `/retry` at any time | `OneWaiting` fails |
| `dispatch_safety` | an issue and a round; two crashes, one fault (a call that is lost, or docker failing), the usage limit, `/retry` | `TypeOK`, `OneContainer`, `BranchFree`, `NoBlindRerun`, `ImplementsQueue` |
| `dispatch_live` | two issues, caps of one; `/pause`, `/run`, limit, window, an expired worktree | `PauseHolds`, `Valve`, `LimitHolds`, `Served` |
| `reviews` | two comments, a cap of two; a thread, a reconciler, the dispatcher; one mishap (a death, a failed write, a lost UPDATE) or outside event | `TypeOK`, `OneRound`, `CapHolds`, `MarkIsSafe`, `Answered` (liveness) |
| `review_race` | one comment; a thread and the dispatcher, nothing fails | `OneRound` fails |
| `release` | one pull request; a webhook thread, two reconcilers, the dispatcher; one mishap (a death, a lost UPDATE, a move that fails) or person | `TypeOK`, `Evidence`, `ReopenRespected`, `ReleasedOnce`, `MergedOnce`, `NothingForgotten`, `CycleCloses`, `ReleaseCloses` (the last two liveness) |
| `container_run` | one run of each pipeline, a look every 2, a timeout of 5, a silence of 3; two failures | `TypeOK`, `CutIsRight`, `InTime`, `NoFalseSuccess`, `Reviewed`, `ParkedStays`, `CleanEnd`, `TreeOutlives`, `TokenReturns`, `Ends` (liveness) |

Bounds. Three briefs per item: the budgets of `MCAdmission` never need a fourth, and
`WriteBrief` would stop at the bound. Three run ids in `Dispatch`: a fourth is never used
(the state count does not change). One or two items are enough because items meet only in
the dispatcher's hand, in the caps and in the reconciler's list; two make an order, a full
cap and a held back brief. Two midnights (`"age"`) clear `claimed` and let a kept worktree expire. The caps of
`dispatch_safety` do not bind, so that no pull request has to be closed there. `Budget` bounds every outside event that would repeat for ever.
`admission_safety` uses the symmetry of the two threads; liveness runs use none.

In `reviews` two comments make a newer one that hides an older one, and a late one; a cap of
two is reached. Three briefs are one more than the cap, so that a broken cap shows. In
`container_run` the timeout is no multiple of the poll, the silence falls between two looks,
and the clock (`End`) lasts beyond any cut; with `Stall = 0`, the watchdog turned off, the
model passes as well.

Of the exceptions, `putOff` and `stray` cost a fault, and `dispatch_live` has none, so that it
checks `Valve` without them; `dispatch_safety` has a fault, so that it checks `OneContainer` with
`stray`. In `reviews`, half a `/retry` is one event and makes a brief torn; a torn park is two, which
the budget of one does not reach. For every budget the properties are proved, exceptions included.
`dispatch_live` has no review round: `Served` is checked for issues, parked ones included.

Deadlock is checked in the runs of `Dispatch`, where a pass can always begin. It is off in
the others: with the budgets spent and nothing to do the model rests.

### Fairness

`Admission!Fairness`: a handler that has begun goes on until it is done, and the reconciler
lists again and again: the timer unit starts a pass every few minutes and each pass
reconciles when it is due. That is so while the harness is not paused and the interval of
the reconciler is positive; the same holds for the other modules. The webhook, GitHub and people promise nothing. A failed write or
a crash is never fair.

`Dispatch!Fairness`: a pass goes on (a container ends by itself or is cut by the timeout of
`wait_for_run`), and the timer begins passes. No fairness of `/run`, `/resume`, the end of
the usage limit or of the window: `Served` excuses a brief while any of those holds it.

`ReviewRounds!Fairness`: a thread that has begun goes on; the reconciler of the timer comes
again and again, but only between briefs (strong fairness of `ListComments`); the dispatcher
serves its queue, time passes. Webhooks, the bot's `/reconcile` and people promise nothing:
`Answered` holds with every webhook lost.

`Release!Fairness`: the same, for a pass that lists, asks GitHub and gets through in the end.
`ContainerRun!Fairness`: time passes and the host goes on; the agent promises nothing, not
even to end.

### Findings

* `admission_restart`: a restart between the commit of `_record` and the file leaves a row
  `admitted` without a brief. The reconciler takes it for known.
* `admission_race`: the brief is visible before its row is marked; a quick refusal is then
  overwritten by `admitted`.
* `admission_retry`: `/retry` trusts the row, which is behind the brief while the dispatcher
  is between two writes; with a late mark and one lost UPDATE two briefs of an issue wait.
* `review_race`: the dispatcher's own round is opened with no delivery, so it reads the row
  before it has a transaction; a webhook in between makes a second round under the same row.

What the models show beside these, and no run repeats:

* A pass started by `/run` blocks the event loop of the bot, so that `/pause` waits for all of
  it (docs/event-harness.md:539 says it does not start the next run). `PauseHolds` counts from
  the moment the bot handles the command.
* A parked brief about which GitHub does not answer is put off, and the pass goes on to a new
  issue; the parked brief has no pull request yet and later resumes without looking at the cap, so
  both open one, although docs/event-harness.md:373-374 says a repo never has more. `Valve` excepts
  just that (`putOff`). TLC finds it as a violation of `NeverMore`: two issues, a cap of one, and
  `Budget` with one fault and one limit.
* `park_brief` writes the file before the row. A pass that dies in between leaves a pending brief
  under a running row; the row is reaped as failed, and the next comment opens a second round
  beside the parked one. So does a `/retry` whose UPDATE fails after its brief was written, or
  whose bot dies: the brief waits under a failed row (bot.py:522-526). `OneRound` and `CapHolds`
  except just these (`torn`). TLC finds the second as a violation of `OneFixer` in the size of
  `reviews`, the first with `Budget = 2`.
* The UPDATE to `running` is swallowed when it fails (dispatch.py:2224, 1607). The row of a round then
  stays `admitted`, takes a comment made after the session has read the threads for one of its own
  (webhookd.py:390-395) and moves `last_comment_at` past it: neither that round nor the
  reconciler looks at it until another comment comes. `MarkIsSafe` and `Answered` except the run
  the row was not told of (`unsaid`).
* A container that docker does not stop (`worktree.kill_container` and `kill_orphan_containers` swallow
  the failure) goes on beside the next run, and may push and open its pull request after it was
  reported as failed. `OneContainer` counts the others; `Valve` excepts such a run (`stray`).
* A webhook that comes late opens a round for a comment the reconciler's round has handled,
  although docs/event-harness.md:226-228 says one comment never opens two: the two doors have
  delivery ids of their own. It costs a round of the cap.
* When a round's brief cannot be written, `last_comment_at` stays moved, so the reconciler does
  not try again (`EndedBadly` in `Answered`); a refused newer comment hides an older one
  (`Visible`); a parked session is not told to load the threads again (`Parked`); the comments
  of a dry run are duplicates once the repository is live.
* `Release`: a merge while its run goes on moves the brief away under the dispatcher, whose
  `mark_pr_open` raises outside any `try`: the pass ends there. A late `pr_open` overwrites
  `merged_dev`, and so does `reap_running_briefs` after a crash, which looks at the brief only
  (dispatch.py:2483-2501); the next pass heals it with a second comment (`MergedOnce`: never a
  third). If the dispatcher's last UPDATE is lost, `close_merged` looks for the brief where it was
  before the run; if the move raises, it only logs that (feedback.py:339, 358). Either way the
  brief stays where it is for good, because nothing looks at a terminal row again (`lost` in
  `CycleCloses`). A call of `gh` that fails after it
  has commented repeats the comment. A crash after the claim leaves the issue open, which the
  code calls accepted.
* `ContainerRun`: without a result file the pull request of an *earlier* run saves a run with
  exit code 0; a `pr_number` of `null` skips `verify_stage_a`, and so does a status spelt `OK`,
  which `process_brief` puts in lower case afterwards; a wrong `pr_number` is compared with neither
  url nor branch, so that another pull request is verified, or none; the container of a run that
  was cut works on while its result is judged. `Reviewed` excepts those that skip or mislead the check.
* `process_brief` parks a brief on the status `usage_limit` before it looks at the exit code
  (dispatch.py:2236-2238), and the status may be the agent's own word: a run that was cut is then
  parked, but names no run, and its worktree is gone. `ParkedStays` says that it is harmless: what
  is named is there. The wait can also cut a run that ends between the last `poll()` and the kill
  (`"late"`).

`BranchFree` is stated as long as no pass has died and no UPDATE was lost: a pass that dies
after `keep` and before `park_brief` leaves a kept worktree no brief names, and it stays until
it expires (`KEEP_MAX_DAYS`).

## 4. Proofs

`AdmissionProofs.tla` proves for any number of items, briefs, threads, pollers and mishaps,
assuming only the named assumptions of the modules and `Patient`:

* `Invariance`: `IInv` is inductive;
* `TypeCorrect`: `Spec => []TypeOK`;
* `AtMostOneWaiting`: `Spec => []OneWaiting`;
* `DryRunStaysQuiet`: `Spec => []DryRunIsQuiet`;
* `MovedBriefsStay`: `Spec => MovedStays`, an action property.

`OneWaiting` is not inductive: it says nothing of the handler that is about to write a brief.
`IInv` adds why that handler is alone.

* `OwnerAlone`: a handler between `_record` and its mark owns its item: the row says
  `admitted`, nothing waits, the dispatcher has nothing of it in hand, and no other handler
  owns it.
* `OpenIsEmpty`: nothing waits behind a row that `_record` would give a new brief to; a row
  in `dry_run` leads to its draft.
* `FailedIsPath`: a row `/retry` accepts names the only brief that may wait.
* `HandOK`: nothing but the brief in the dispatcher's hand waits for its item, and nothing at
  all once a failure is about to be reported. It is the report of a failure that opens rows.

The proof goes action by action (`RecordStep`, `WriteStep`, `MarkStep`, `TakeStep`,
`FinishStep`, `MirrorStep`, ...), with lemmas for steps that disturb nothing (`QuietStep`) or
one row only (`RowStep`).

`MovedStays` needs more than `IInv`: `/retry` makes pending the brief whose path the row has, so
the proof has to know where that path leads. `Shelved` adds that an item whose path leads out of
`ToDos/` has nothing that waits, no handler that will write, and a row `/retry` refuses
(`MovedIsOver`), and that the brief in the dispatcher's hand is as it left it (`HandIsTrue`).

**`Patient`** says that nobody sends `/retry` for an item the dispatcher has in hand. It cannot be
dropped: `admission_retry` is the counterexample. `admission_safety` and the runs of `Dispatch`
set it; the other runs of `Admission` do not.

### ContainerRun

`ContainerRunProofs.tla` proves every property of the run `container_run` but the
liveness of `Ends`, for every poll, timeout and silence, and any number of failures. The
assumption on the constants is `RunAssumption`. `IInv` is `TypeOK` and

* `Data`: the records and the clock have their types;
* `Phases`: where a run is, against how its client ended: once the wait is over, a run that was
  cut has a client that was killed, or that ended after the last poll, and only one that was killed
  has a container that goes on; a run to be resumed was not cut;
* `Looks`: the last look was one poll before the next, at a time when neither the timeout nor
  the silence was over; `growth` trails `spoke`, the moment the log really grew, by less than one
  look, which is why `InTime` allows two;
* `Cleanup`: what is left of the mess is what failed, what the steps to come will clean
  (`ToDo`), and the worktree of a parked run; home and worktree are there until their turn, and
  the container is gone after the first step unless that failed.

`NoFalseSuccess` and `Reviewed` are action properties. `SuccessIsSound` shows that only `Judge`
makes a success, because the outcome is open until then; the rest is a case split over
`LoadStrict`.

### Window

`Window.tla` proves of the two functions of `util.py` that a time means itself with quotes and
without (`TimeMeansItself`), that a bare hour is refused (`NoOtherTime`), that the window is the
stretch of the clock from its start to its end (`WindowIsAStretch`, `WindowsPartTheDay`) and
that every accepted window opens and closes each day (`AcceptedOpensAndCloses`).

### Dispatch

`DispatchProofs.tla` proves of `Dispatch`, for any number of briefs, passes, runs and mishaps and
any caps, from `DispatchAssumption` and `Patient`: `TypeOK`, `OneContainer`, `PauseHolds`,
`LimitHolds`, `NoBlindRerun`, `BranchFree` and `ImplementsQueue`; `DispatchValve.tla` adds
`Valve`. `IInv` is `TypeOK` and

* `PassOK`: where a pass is, against what it has in hand and what came of it;
* `Alone`: but for strays, the only container is the one of the run in hand, or the one a dead pass
  left, and a stray has an item it works on. Each place where docker may fail makes strays of
  exactly the containers it leaves (`SparedStray`), so that beside them (`Loose`) there is still
  at most one;
* `Switches`: nothing is prepared at the limit, and how many runs may still start after `/pause`;
* `Fresh`: what was read is still so when it is used. The brief that was chosen is still pending
  when it is marked and still running when the outcome is written, and a brief that is pending
  has not run since it was posted, parked or retried;
* `Resumes`: a run id, in a brief, in the queue or in hand, was read at some scan and may name a
  worktree that is gone or was used again; it never names that of another brief.

`Fresh` is why no brief is run blindly: a dead pass leaves `running`, and only `Reaped`, which is
`failed`, gets it out of there. `BranchFree` needs more, and holds only while no pass has died and
no UPDATE was lost (`Unharmed`): `Tidy` then says that a brief has one worktree, that a kept one
is awaited by the brief that will resume it or by the pass that is about to, and that the resume
data of the scan is that of the file. `TidyWhileUnharmed` is inductive together with `IInv`.

`Valve` is about a cap that most runs never look at: a brief that resumes skips it, and its pull
request may be opened only then. `Orderly` therefore counts seats, the issues that have an open
pull request, are parked or are at work, and says that they are never more than the cap
(`Roomy`). A fresh brief takes a new seat only when the cap has room among the *open* pull
requests; that is enough because no issue is parked at that moment: parked briefs go first, a
scan finds every one of them (`Lined`), and none has been visited in this pass but the one in
hand (`Unvisited`). Putting one off because GitHub is silent breaks `Unvisited`, and a stray
opens a pull request without a seat: both are described in section 3 (under Findings), and `putOff`
and `stray` are the only exceptions. Crashes, orphans of dead passes that docker does stop, lost UPDATEs
and `/retry` are inside the theorem.

`PassImplementsQueue` is the refinement: `Init` maps to `Queue`'s, and each action of `Dispatch`
to one of `Queue` or to a stutter. So what `AdmissionProofs` shows with `Queue` as environment
is not an artefact of a dispatcher that was made up for the purpose. It does not carry over as a
theorem about one composed specification: `Arrive` is one step here and three there.

### Review rounds

`ReviewRoundsProofs.tla` proves `TypesHold` for any number of comments, doors and mishaps with
every window open, and under `Prompt` the three safety properties: `OneRoundHolds`,
`CapIsHeld` and `MarkHolds`. `Prompt` cannot be dropped from them (`review_race`). The parts:

* `Types`: the types of records, jobs and hand;
* `Shape`: at most one door is about to write a brief and then nothing waits (`Writers`); what the
  dispatcher has in hand is the brief that waits (`Worker`); one brief waits at most and its row is
  in flight or being retried (`InQueue`, `Retrying`); the row that stage A has read is still the
  row (`Asker`, which is where `Prompt` comes in);
* `Rounds`: the count of rounds covers the briefs that have been written and were worth one, also
  while a door that may still fail and roll it back is about to write;
* `Sessions`: a parked session stays with its brief, so that a torn park implies `Parked`;
* `Marks`: no time is ahead of the clock; a run that has read the threads has read everything up
  to its claim, a row that is done everything up to its mark, and no comment to come will bear
  such a time (`Past`). Where that rests on the row having been told of the run (`Told`), it is
  claimed only while `unsaid` is false; the next run that is told restores it, because it reads
  all there is.

All of it is inductive up to `torn`, which nothing ever clears.

### Release

`ReleaseProofs.tla` proves all six safety properties of `Release`, for any number of threads, passes,
commands and outside events, with no assumption but `ReleaseAssumption`: the workers are finitely
many, because `ReleasedOnce` counts them. `IInv` is `TypeOK` and

* `Data`, `GitHub`: types; production has no commit that is not merged, and a merge that closes the
  issue has closed it, unless a person reopened it;
* `AnswersHold`: what is still true of an answer of GitHub when a reconciler acts on it. An answer
  ages: a commit stays in production, a closed issue may have been reopened;
* `Shas`: a row that is looked at for its release has a commit;
* `Merges`: the comments made, and the workers about to make one (`Tellers`), against the row: none
  while it is open, one when it is closed (`NoNews`, `OneNews`), and one more once a late write has
  reopened it (`TwoNews`). It reopens it once, because it is the last thing the dispatcher or its
  reaper does with the row (`Data`);
* `Releases`: comments made, plus reconcilers that hold a claim, are at most one for the row that is
  done and one for each thing that went wrong. `ReleasedOnce` counts the comments only, which does
  not survive the step that makes one;
* `NothingForgotten` itself.

`Evidence` and `ReopenRespected` follow on top (`Honest`): they remember who closed the issue, which
`IInv` does not need.

### Only model-checked

The liveness properties `Reconciled`, `GoesLive`, `Served`, `Answered`, `CycleCloses`,
`ReleaseCloses` and `Ends`: fairness and ENABLED are out of the prover's reach. The runs with a
violation check what does not hold: `Reconciled` after a crash, `AdmittedHasBrief`, and
`OneWaiting` and `OneRound` without the assumptions `Patient` and `Prompt`.

## 5. Plan

Done: `Ledger`, `Queue`, `Admission`, `Dispatch`, `ReviewRounds`, `Release`, `ContainerRun`,
`Window`, and the proofs of section 4. In this order:

1. The full gate ladder of `triage.py` and the grace period of the cutoff as a pure module.
2. `ReviewRounds` composed with `Dispatch`: the reconciler of a pass and the briefs it works on
   are one process there, which `Free` stands for now.

## 6. Not modelled

The text of briefs and prompts, parsing of payloads, signatures, notifications, the Sentry client,
secrets, the BMAD kit, deployment files: no state that another component reads, or pure I/O.
Briefs written by hand (no row) and the pipelines other than `issue-fix` and `review-fix`, but
for `ContainerRun`, which has the tolerant pipelines too. Two repositories: the lock and the
caps are the only things they share, and the global cap is the same check as the repository's.

Of review rounds: the single gates (author, skip label, marker), which become "worthy" or
"refused"; a second pull request. Of releases: labels, the notice of stale rows, and pull
requests of stage B. Of the container run: the mode with `CLAUDE_CODE_OAUTH_TOKEN`, which has
no token to return, an interrupt during the wait, the text of plans and summaries, the git
commands of the worktree. Of the window: the time zone. `sentry` reconciliation and the
statistics of the ledger are left out.
