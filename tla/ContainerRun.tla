---------------------------- MODULE ContainerRun ----------------------------
(***************************************************************************)
(* One run of the agent: dispatch.run_claude_in_docker and what            *)
(* process_brief makes of it.                                              *)
(*                                                                         *)
(* Dispatch looks at the run every Poll units of time and cuts one that    *)
(* takes too long or says nothing.  What the run was worth is put together *)
(* from the exit code, the last event of its log, the result file and      *)
(* GitHub; then its container, worktree, agent home and files are cleaned  *)
(* up, each step on its own.                                               *)
(***************************************************************************)
EXTENDS Naturals, FiniteSets

CONSTANTS
    Poll,       \* STALL_POLL_SECONDS
    Timeout,    \* the timeout of the pipeline
    Stall,      \* stall_timeout_seconds; 0 turns it off
    End,        \* bound: the clock, later than any cut
    Budget,     \* bound: outside events (below)
    None

ASSUME RunAssumption ==
    /\ Poll \in Nat \ {0} /\ Timeout \in Nat \ {0} /\ Stall \in Nat
    /\ End \in Nat /\ End > Timeout + Poll
    /\ Budget \in Nat
    /\ None \notin {"timeout", "stall", "pr_open", "done"}

VARIABLES
    clock,      \* since the start of the run
    pipeline,   \* "issue-fix", "review-fix" or "default"
    proc,       \* the docker client: "up", "exited" by itself, "late" (by itself,
                \* but after the decision to cut it) or "killed"
    container,  \* is the container going?
    report,     \* what the run has left: exit code, last event, session
    result,     \* and its .orchestrator-result.json
    pull,       \* the branch and its pull request on GitHub
    token,      \* who has the live refresh token: the host, the copy or both
    watch,      \* wait_for_run
    spoke,      \* when the log last grew
    pc,         \* where run_claude_in_docker is
    outcome,    \* what process_brief does with the brief
    mess,       \* what the run has put up and no step has cleaned yet
    parked,     \* the run is to be resumed: its session is known
    resume,     \* the brief names the run, and so its worktree, for that
    failed,     \* cleaning steps that failed
    left        \* outside events still allowed

time  == <<clock, spoke>>
leaves == <<report, result>>
vars  == <<time, pipeline, proc, container, leaves, pull, token, watch, pc, outcome, mess,
           parked, resume, failed, left>>

Pipelines == {"issue-fix", "review-fix", "default"}
Hardened == pipeline # "default"        \* HARDENED_PIPELINES
Strict   == pipeline # "default"        \* STRICT_RESULT_PIPELINES

\* The file has a status ("OK" is any other spelling of "ok") and a pull
\* request: none, in the right repository or not; with its number, with that of
\* another one, or with null.  Or it is missing, does not parse, or is no object.
Statuses == {"ok", "OK", "failed", "aborted_max_iterations", "usage_limit", "odd"}
Reports == [form : {"object"}, status : Statuses, url : {"none", "here", "elsewhere"},
            number : {"own", "other", "none"}]
Broken == [form : {"missing", "unreadable", "no object"}, status : {"odd"}, url : {"none"},
           number : {"none"}]

NoResult == [form |-> "missing", status |-> "odd", url |-> "none", number |-> "none"]

\* The last `result` event of the log, if there is one.
Streams == {"none", "fine", "error", "limit"}

NoReport == [rc |-> 0, stream |-> "none", session |-> FALSE]

Watch == [due |-> Poll, grew |-> FALSE, growth |-> 0, cut |-> None, silence |-> 0]

\* A call of the host fails, or Ctrl-C.
Event == left > 0 /\ left' = left - 1

-----------------------------------------------------------------------------
(* The agent, in its container.  Nobody hears it once the client is dead.  *)
Write ==
    /\ container /\ pc = "wait"
    /\ spoke' = clock
    /\ watch' = [watch EXCEPT !.grew = TRUE]
    /\ UNCHANGED <<clock, pipeline, proc, container, leaves, pull, token, pc, outcome, mess,
                   parked, resume, failed, left>>

\* It opens its pull request, publishes its review, commits or pushes.
Work ==
    /\ container /\ pipeline = "issue-fix"
    /\ pull' \in {[pull EXCEPT !.exists = TRUE, !.unpushed = FALSE],
                  [pull EXCEPT !.unpushed = TRUE],
                  [pull EXCEPT !.unpushed = FALSE],
                  [pull EXCEPT !.review = pull.exists]}
    /\ UNCHANGED <<time, pipeline, proc, container, leaves, token, watch, pc, outcome, mess,
                   parked, resume, failed, left>>

\* A refresh rotates the token: whoever did not do it has a dead one.
Refresh ==
    /\ Hardened
    /\ token = "both"
    /\ \/ token' = "host"
       \/ container /\ token' = "copy"
    /\ UNCHANGED <<time, pipeline, proc, container, leaves, pull, watch, pc, outcome, mess,
                   parked, resume, failed, left>>

\* The run ends by itself, and its client with it.
Exit ==
    /\ container /\ proc = "up"
    /\ proc' = IF pc = "cut" THEN "late" ELSE "exited"
    /\ container' = FALSE
    /\ UNCHANGED <<time, pipeline, leaves, pull, token, watch, pc, outcome, mess, parked,
                   resume, failed, left>>

Tick ==
    /\ pc = "wait" /\ proc = "up" /\ clock < watch.due /\ clock < End
    /\ clock' = clock + 1
    /\ UNCHANGED <<spoke, pipeline, proc, container, leaves, pull, token, watch, pc, outcome,
                   mess, parked, resume, failed, left>>

-----------------------------------------------------------------------------
(* wait_for_run.                                                           *)

\* The wait is over, and what the run has left is looked at; of the time
\* nothing is asked again but how long a run that is cut was silent.
Over(cut) ==
    /\ pc' = "judge"
    /\ watch' = [Watch EXCEPT !.cut = cut, !.silence = IF cut = None THEN 0 ELSE watch.silence]
    /\ clock' = 0 /\ spoke' = 0
    /\ report' \in [rc : IF cut = None THEN {0, 1} ELSE {124}, stream : Streams,
                    session : BOOLEAN]
    /\ result' \in Broken \cup Reports
    /\ UNCHANGED <<pipeline, container, pull, token, outcome, mess, parked, resume, failed,
                   left>>

Exited ==
    /\ pc = "wait" /\ proc = "exited"
    /\ Over(None)
    /\ UNCHANGED proc

\* When the log was last seen to have grown.
Growth(grew, growth) == IF grew THEN clock ELSE growth

\* Mutant of Overdue: one more look.
OverdueLater(now) == now >= Timeout + Poll

\* Mutant of Overdue: the watchdog of silence replaces it.
OverdueNever(now) == Stall = 0 /\ now >= Timeout

Overdue(now) == now >= Timeout

Cut(growth) ==
    IF Overdue(clock) THEN "timeout"
    ELSE IF Stall # 0 /\ clock - growth >= Stall THEN "stall" ELSE None

\* The wait has timed out, maybe in the moment the run ends.  `silence` is how
\* long nothing was written, which the code does not know.
Look ==
    /\ pc = "wait" /\ clock = watch.due
    /\ LET growth == Growth(watch.grew, watch.growth)
           cut == Cut(growth)
       IN  /\ watch' = [due |-> clock + Poll, grew |-> FALSE, growth |-> growth, cut |-> cut,
                       silence |-> clock - spoke]
           /\ pc' = IF cut = None THEN "wait" ELSE "poll"
    /\ UNCHANGED <<time, pipeline, proc, container, leaves, pull, token, outcome, mess, parked,
                   resume, failed, left>>

\* Mutant of Finished: what the wait said is not asked again.
FinishedNot(p) == FALSE

\* proc.poll().
Finished(p) == p = "exited"

\* "a finished run is not cut".
Settle ==
    /\ pc = "poll"
    /\ UNCHANGED proc
    /\ \/ Finished(proc) /\ Over(None)
       \/ /\ ~Finished(proc)
          /\ pc' = "cut"
          /\ UNCHANGED <<time, pipeline, container, leaves, pull, token, watch, outcome, mess,
                         parked, resume, failed, left>>

\* Else its client is killed, and 124 is what it returned, even if it ended
\* since.
Kill ==
    /\ pc = "cut"
    /\ Over(watch.cut)
    /\ proc' = IF proc = "up" THEN "killed" ELSE proc

-----------------------------------------------------------------------------
(* What the run was worth.                                                 *)

\* Mutant of EffectiveCode: the exit code alone.
EffectiveCodePlain(code, stream) == code

\* effective_returncode: is_error in the stream wins over a clean exit.
EffectiveCode(code, stream) ==
    IF code = 0 /\ stream \in {"error", "limit"} THEN 125 ELSE code

\* usage_limit_message, of a run that was not cut and did not succeed.
AtLimit(code) == code # 0 /\ watch.cut = None /\ report.stream = "limit"

\* load_strict_result.  A rescue asks GitHub for an open pull request of the
\* branch: `found`.  Without a file it may be that of an earlier run, so it
\* saves a run that ended well.  A number is taken as it is, null or wrong; one
\* that is missing is read off the url, which is not compared with the branch.
Violation == [status |-> "result_contract_violation", number |-> "none"]

LoadStrict(code, found) ==
    IF result \in Broken
    THEN IF result.form # "no object" /\ found /\ code = 0
         THEN [status |-> "ok", number |-> "own"]
         ELSE Violation
    ELSE IF pipeline = "review-fix" THEN [status |-> result.status, number |-> "none"]
    ELSE IF result.url = "elsewhere" \/ (result.url = "none" /\ ~found)
         THEN Violation
         ELSE [status |-> result.status, number |-> result.number]

\* The tolerant way of the default pipeline: what cannot be read is left out.
Load(code, found) ==
    IF Strict THEN LoadStrict(code, found)
    ELSE [status |-> IF result \in Broken THEN "ok" ELSE result.status, number |-> "none"]

\* Mutant of Verified: the pull request is enough.
VerifiedByNumber(number, answers, good) == TRUE

\* verify_stage_a: the review is there and everything is pushed.  GitHub is
\* only asked with a number, about whichever pull request has it: `good` is what
\* it says of another one.  If it does not answer, or knows no such pull
\* request, nothing is held against the run.
Verified(number, answers, good) ==
    answers => /\ number = "own" /\ pull.exists => pull.review /\ ~pull.unpushed
               /\ number = "other" => good

\* The status with which process_brief goes on.  It is asked for "ok" as the
\* agent spelt it, and put in lower case after.
Status(data, answers, good) ==
    IF pipeline = "issue-fix" /\ data.status = "ok" /\ ~Verified(data.number, answers, good)
    THEN "result_contract_violation"
    ELSE IF data.status = "OK" THEN "ok" ELSE data.status

\* Mutant of Verdict: the agent's word is taken.
VerdictOfTheAgent(code, status) == IF code # 0 THEN "failed" ELSE status

\* process_brief, on the status and the code.  "usage_limit" parks the brief
\* before the code is looked at, though it is the agent's own word.
Verdict(code, status) ==
    IF status = "usage_limit" THEN "usage_limit"
    ELSE IF code = 0 /\ status = "aborted_max_iterations" THEN "aborted"
    ELSE IF code # 0 \/ status = "failed" \/ (Strict /\ status # "ok") THEN "failed"
    ELSE IF pipeline = "issue-fix" THEN "pr_open" ELSE "done"

\* Mutant of NextStep: the home goes before what is in it has been saved.
NextStepHomeFirst(step) ==
    [judge |-> "kill", kill |-> "home", home |-> "remote", remote |-> "creds",
     creds |-> "keep", keep |-> "tree", tree |-> "files", files |-> "over"][step]

\* Mutant of NextStep: the container is killed in the end.
NextStepKillLast(step) ==
    [judge |-> "remote", remote |-> "creds", creds |-> "keep", keep |-> "home",
     home |-> "tree", tree |-> "files", files |-> "kill", kill |-> "over"][step]

\* The order of the finally clause.
NextStep(step) ==
    [judge |-> "kill", kill |-> "remote", remote |-> "creds", creds |-> "keep",
     keep |-> "home", home |-> "tree", tree |-> "files", files |-> "over"][step]

\* Judged while the container of a run that was cut is still going.  A result
\* that is no object raises an error, which process_brief takes for a failure.
\* Nobody reads the file again.
Judge ==
    /\ pc = "judge"
    /\ LET code == EffectiveCode(report.rc, report.stream)
       IN  IF AtLimit(code)
           THEN /\ outcome' = "usage_limit"
                /\ parked' = report.session
                /\ resume' = (report.session /\ Hardened)
                /\ UNCHANGED left
           ELSE \E found \in {pull.exists, FALSE}, answers, good \in BOOLEAN :
                   /\ IF found = pull.exists /\ answers THEN UNCHANGED left ELSE Event
                   /\ outcome' = Verdict(code, Status(Load(code, found), answers, good))
                   /\ UNCHANGED <<parked, resume>>
    /\ pc' = NextStep(pc)
    /\ report' = NoReport /\ result' = NoResult
    /\ UNCHANGED <<time, pipeline, proc, container, pull, token, watch, mess, failed>>

-----------------------------------------------------------------------------
(* The finally clause.  _cleanup: a step that fails, or is interrupted,    *)
(* does not keep the others from running; an interrupt is raised again at  *)
(* the end, and the brief is left to the reaper.                           *)

Cleaning == {"kill", "remote", "creds", "keep", "home", "tree", "files"}

\* Mutant of Stays: nothing is kept for the resume.
StaysNever(step) == FALSE

\* A parked run keeps its worktree, and the transcripts in its home.
Stays(step) == step = "tree" /\ parked

\* The steps that this run calls for.
Due(step) ==
    /\ step = "kill" => watch.cut # None
    /\ step \in {"remote", "creds", "home", "tree"} => Hardened
    /\ step = "keep" => Hardened /\ parked

\* finish_home copies a token the run has refreshed back to the host.
Saved == IF token = "copy" /\ "home" \in mess THEN "host" ELSE token

\* Mutant of After: a step that fails is the last one.
AfterFailed(step, fails) == IF fails THEN "over" ELSE NextStep(step)

After(step, fails) == NextStep(step)

Clean(step) ==
    /\ pc = step
    /\ \/ /\ Due(step)
          /\ pc' = After(step, FALSE)
          /\ mess' = IF Stays(step) THEN mess ELSE mess \ {step}
          /\ container' = (container /\ step # "kill")
          /\ token' = IF step = "creds" THEN Saved ELSE token
          /\ UNCHANGED <<parked, outcome, failed, left>>
       \/ /\ Due(step)
          /\ Event
          /\ pc' = After(step, TRUE)
          /\ failed' = failed \cup {step}
          /\ parked' \in {parked, parked /\ step # "keep"}
          /\ \/ UNCHANGED outcome
             \/ outcome' = "interrupted"
          /\ UNCHANGED <<mess, container, token>>
       \/ /\ ~Due(step)
          /\ pc' = After(step, FALSE)
          /\ UNCHANGED <<mess, container, token, parked, outcome, failed, left>>
    /\ UNCHANGED <<time, pipeline, proc, leaves, pull, watch, resume>>

-----------------------------------------------------------------------------
Init ==
    /\ clock = 0 /\ pipeline \in Pipelines
    /\ proc = "up" /\ container = TRUE
    /\ report = NoReport /\ result = NoResult
    /\ pull \in {[exists |-> old, review |-> old, unpushed |-> FALSE] : old \in BOOLEAN}
    /\ pipeline # "issue-fix" => pull.exists
    /\ token = IF Hardened THEN "both" ELSE "host"
    /\ watch = Watch
    /\ spoke = 0 /\ pc = "wait" /\ outcome = None
    /\ mess = {"files"} \cup (IF Hardened THEN {"remote", "home", "tree"} ELSE {})
    /\ parked = FALSE /\ resume = FALSE /\ failed = {} /\ left = Budget

HostStep == Exited \/ Look \/ Settle \/ Kill \/ Judge \/ \E step \in Cleaning : Clean(step)

Next == Write \/ Work \/ Refresh \/ Exit \/ Tick \/ HostStep

\* Time passes and the host goes on.  Nothing is promised by the agent.
Fairness == WF_vars(Tick) /\ WF_vars(HostStep)

Spec == Init /\ [][Next]_vars /\ Fairness

-----------------------------------------------------------------------------
(* Properties.                                                             *)

TypeOK ==
    /\ pipeline \in Pipelines /\ proc \in {"up", "exited", "late", "killed"} /\ container \in BOOLEAN
    /\ result \in Broken \cup Reports
    /\ token \in {"both", "host", "copy"}
    /\ watch.cut \in {None, "timeout", "stall"}
    /\ pc \in {"wait", "poll", "cut", "judge", "over"} \cup Cleaning
    /\ outcome \in {None, "pr_open", "done", "failed", "aborted", "usage_limit", "interrupted"}
    /\ resume \in BOOLEAN /\ failed \subseteq Cleaning /\ left \in 0..Budget

\* "a finished run is not cut" (dispatch.py:795), but for one that ends between
\* that look and the kill, and a run that writes is not frozen: one cut for its
\* silence has been silent for as long as that.
CutIsRight ==
    /\ watch.cut # None /\ pc \notin {"wait", "poll"} => proc # "exited"
    /\ watch.cut = "stall" => watch.silence >= Stall
    /\ pc \in {"poll", "cut"} /\ watch.cut = "timeout" => clock >= Timeout

\* No run outlives its timeout, or its silence, by more than the time between
\* two looks, and one more until a look notices that it went silent.
InTime ==
    pc = "wait" /\ proc = "up" =>
        /\ clock < Timeout + Poll
        /\ Stall # 0 => clock - spoke < Stall + 2 * Poll

\* No run that was cut, that crashed, or that its log tells against is taken for
\* a success, whatever its result file says: "a failure is reported as a success"
\* (dispatch.py:546) is what read_stream_result is there against.
NoFalseSuccess ==
    [][pc = "judge" /\ outcome' \in {"pr_open", "done"} =>
           proc = "exited" /\ report.rc = 0 /\ report.stream \in {"none", "fine"}]_vars

\* A pull request that goes to a person has its review, and nothing of it is
\* left behind (dispatch.py:1820-1825), as far as GitHub answers, the agent
\* writes "ok" like that and the number is this pull request's: nothing compares
\* the two.  A review of an earlier run counts.
Reviewed ==
    [][pc = "judge" /\ outcome' = "pr_open" /\ left' = left /\ pull.exists
       /\ (result \in Broken \/ (result.number = "own" /\ result.status = "ok"))
           => pull.review /\ ~pull.unpushed]_vars

\* Only a run that ended by itself is to be resumed, and a brief that names it
\* has its worktree waiting, unless it could not be kept.  A brief parked on the
\* agent's word alone, which a run that was cut may leave, names none, and no
\* worktree waits for it.
ParkedStays ==
    /\ parked \/ resume => proc = "exited" /\ watch.cut = None /\ ~container
    /\ pc = "over" /\ resume => "tree" \in mess \/ "keep" \in failed
    /\ pc = "over" /\ outcome = "usage_limit" /\ "tree" \in mess => resume \/ "tree" \in failed

\* Every step runs whatever became of the others: what is left in the end is
\* what its own step could not clean, or what is kept.
CleanEnd ==
    pc = "over" => mess \subseteq failed \cup (IF parked THEN {"tree"} ELSE {})

\* "Before anything else, and before removing its worktree"
\* (dispatch.py:1326-1327): no container works on in a worktree that is gone.
TreeOutlives == Hardened /\ container => "tree" \in mess \/ "kill" \in failed

\* The refresh rotates the token (dispatch.py:706-708): the host has the live
\* one when the run is over.
TokenReturns == pc = "over" /\ failed \cap {"kill", "creds"} = {} => token # "copy"

\* A run that hangs, or writes for ever, comes to an end.
Ends == <>(pc = "over")

=============================================================================
