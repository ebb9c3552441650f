----------------------------- MODULE Admission ------------------------------
(***************************************************************************)
(* How an issue gets into the harness.  Three doors lead to the same two   *)
(* functions of webhookd.py: the HTTP handler threads of talos-webhookd,   *)
(* the reconciler inside a dispatch pass, and the /reconcile and /backfill *)
(* commands of the Telegram bot, each in a process of its own.             *)
(*                                                                         *)
(*   _record      one transaction: the delivery, the row, and whether      *)
(*                this caller has to write a brief                         *)
(*   _emit_brief  writes the file, then a second transaction marks the row *)
(*                                                                         *)
(* Between the two a thread holds no lock: other threads, the dispatcher   *)
(* and a crash can all come in between.                                    *)
(***************************************************************************)
EXTENDS Queue

CONSTANTS
    Backlog,        \* items older than the repository's activated_at
    Polled,         \* items the reconciler can list: GitHub issues
    Hooks,          \* handler threads of talos-webhookd
    Timers,         \* dispatch passes, which reconcile
    Bots,           \* bot commands, which reconcile or backfill
    Budget          \* how often each kind of outside event may happen

Pollers == Timers \cup Bots

Handlers == Hooks \cup Pollers

\* edit: a person changes an issue, or Sentry alerts; mode: the repository
\* goes live or back to dry run; fault: a write fails; crash: a process dies.
Kinds == {"edit", "mode", "fault", "crash"}

ASSUME AdmissionAssumption ==
    /\ Hooks \cap Pollers = {}
    /\ Backlog \subseteq Items
    /\ Polled \subseteq Items
    /\ Budget \in [Kinds -> Nat]

VARIABLES
    issue,      \* issue[i]: its state on GitHub
    sent,       \* webhook deliveries GitHub and Sentry have sent
    seen,       \* ids in the deliveries table
    live,       \* mode: live in config.yaml, as opposed to dry_run
    hookLive,   \* the mode talos-webhookd read when it started
    job,        \* job[h]: what handler h is doing
    todo,       \* todo[p]: issues poller p has listed and not visited yet
    left        \* left[k]: events of kind k still allowed

avars == <<issue, sent, seen, live, hookLive, job, todo, left>>
vars  == <<qvars, avars>>

IssueStates == {"none", "open", "skip", "closed"}

\* A payload is a snapshot: it holds the issue as it was when it was sent.
\* The number of edits still allowed when it was sent is its id.
Delivery == [id : Nat, item : Items, label : {"open", "skip"}]

\* pc: "idle"; "listed" and "scan", a poller that has fetched the open issues,
\* before and after it dropped the known ones; "write" and "mark", inside
\* _emit_brief, before and after the file is written.  `id` is 0 for a
\* synthetic delivery: its id carries a time stamp and comes back never.
NoJob == [pc |-> "idle", item |-> None, id |-> 0, n |-> None,
          live |-> FALSE, backfill |-> FALSE]

Job == [pc : {"idle", "listed", "scan", "write", "mark"},
        item : Items \cup {None}, id : Nat, n : Numbers \cup {None},
        live : BOOLEAN, backfill : BOOLEAN]

Listing == [item : Items, label : {"open", "skip"}]

Spend(k) == left[k] > 0 /\ left' = [left EXCEPT ![k] = @ - 1]

-----------------------------------------------------------------------------
(* The gate ladder of _handle_gh_issue, on the payload.  `backfill` skips  *)
(* the cutoff gate and no other.                                           *)
Verdict(i, label, backfill) ==
    IF label = "skip" THEN "rejected_optout"
    ELSE IF i \in Backlog /\ ~backfill THEN "rejected_backlog"
    ELSE "admitted"

\* Mutants of NeedsBrief and Recorded: every admission writes a brief; only a
\* new row is written.
NeedsBriefAlways(row, verdict, isLive) == verdict = "admitted"

RecordedOnlyNew(row, verdict, isLive) ==
    IF row.state = "absent" THEN [state |-> verdict, path |-> None] ELSE row

\* _record: does this caller get to write a brief?
NeedsBrief(row, verdict, isLive) ==
    /\ verdict = "admitted"
    /\ \/ row.state = "absent"
       \/ row.state = "dry_run" /\ isLive
       \/ row.state \notin ActiveStates \cup {"dry_run"} /\ row.path = None

\* _record: the row after the transaction.
Recorded(row, verdict, isLive) ==
    IF row.state = "absent" THEN [state |-> verdict, path |-> None]
    ELSE IF NeedsBrief(row, verdict, isLive)
         THEN [state |-> "admitted", path |-> None]
         ELSE row

\* _retire_draft, inside the same transaction.
Retired(briefs, row) ==
    IF row.state = "dry_run" /\ OnDisk(briefs, row.path)
    THEN [briefs EXCEPT ![row.path[1]] = "superseded"]
    ELSE briefs

\* _record by handler h for the delivery `id` of item i.  A duplicate
\* delivery changes nothing and its handler is done.  A draft that cannot be
\* put away is logged and stays.
Record(h, i, id, verdict, isLive, idle) ==
    LET needs == NeedsBrief(ledger[i], verdict, isLive)
    IN  \/ /\ id \in seen
           /\ job' = [job EXCEPT ![h] = idle]
           /\ UNCHANGED <<ledger, vault, seen, left>>
        \/ /\ id \notin seen
           /\ seen' = IF id = 0 THEN seen ELSE seen \cup {id}
           /\ ledger' = [ledger EXCEPT ![i] = Recorded(@, verdict, isLive)]
           /\ \/ /\ vault' = [vault EXCEPT ![i] =
                        IF needs THEN Retired(@, ledger[i]) ELSE @]
                 /\ UNCHANGED left
              \/ /\ needs
                 /\ Spend("fault")
                 /\ UNCHANGED vault
           /\ job' = [job EXCEPT ![h] =
                  IF needs THEN [idle EXCEPT !.pc = "write", !.item = i,
                                             !.id = id, !.live = isLive]
                  ELSE idle]

\* The process dies inside the transaction: the draft is gone from the queue
\* directory, and nothing is committed.
CutShort(i, id, verdict, isLive) ==
    /\ id \notin seen
    /\ NeedsBrief(ledger[i], verdict, isLive)
    /\ vault' = [vault EXCEPT ![i] = Retired(@, ledger[i])]

-----------------------------------------------------------------------------
(* The doors.                                                              *)

\* handle_github / handle_sentry on one delivery.  GitHub redelivers, so a
\* delivery stays in `sent`; a lost one is simply never received.
Receive(h, d) ==
    /\ job[h].pc = "idle"
    /\ Record(h, d.item, d.id, Verdict(d.item, d.label, FALSE), hookLive, NoJob)
    /\ UNCHANGED <<hand, retrying, issue, sent, live, hookLive, todo>>

\* reconcile_repo and backfill ask GitHub for the open issues...
List(p) ==
    /\ job[p].pc = "idle"
    /\ \E back \in BOOLEAN :
          /\ back => p \in Bots
          /\ job' = [job EXCEPT ![p] = [NoJob EXCEPT !.pc = "listed",
                                         !.live = live, !.backfill = back]]
    /\ todo' = [todo EXCEPT ![p] =
          {[item |-> i, label |-> issue[i]] :
              i \in {j \in Polled : issue[j] \in {"open", "skip"}}}]
    /\ UNCHANGED <<qvars, issue, sent, seen, live, hookLive, left>>

\* Mutants of Known: a brief that could not be written counts as known; what
\* came in during dry run counts as known.
KnownBriefError(row, backfill, isLive) ==
    /\ row.state \notin {"absent"} \cup (IF isLive THEN ReopenableStates ELSE {})
    /\ backfill => row.path # None \/ row.state \in ActiveStates

KnownDryRun(row, backfill, isLive) ==
    /\ row.state \notin {"absent", "brief_error"}
    /\ backfill => row.path # None \/ row.state \in ActiveStates

\* known_issue_numbers, with _reopenable as its `reopen`.
Known(row, backfill, isLive) ==
    /\ row.state \notin {"absent", "brief_error"}
                        \cup (IF isLive THEN ReopenableStates ELSE {})
    /\ backfill => row.path # None \/ row.state \in ActiveStates

\* ...and then the ledger for the known ones.
DropKnown(p) ==
    /\ job[p].pc = "listed"
    /\ todo' = [todo EXCEPT ![p] =
          {t \in @ : ~Known(ledger[t.item], job[p].backfill, job[p].live)}]
    /\ job' = [job EXCEPT ![p].pc = "scan"]
    /\ UNCHANGED <<qvars, issue, sent, seen, live, hookLive, left>>

\* _admit on the next listed issue.
Admit(p, t) ==
    /\ job[p].pc = "scan"
    /\ t \in todo[p]
    /\ todo' = [todo EXCEPT ![p] = @ \ {t}]
    /\ Record(p, t.item, 0, Verdict(t.item, t.label, job[p].backfill),
              job[p].live, job[p])
    /\ UNCHANGED <<hand, retrying, issue, sent, live, hookLive>>

\* The list is done, or a backfill has admitted as many as it was asked for.
EndScan(p) ==
    /\ job[p].pc = "scan"
    /\ todo[p] = {} \/ job[p].backfill
    /\ todo' = [todo EXCEPT ![p] = {}]
    /\ job' = [job EXCEPT ![p] = NoJob]
    /\ UNCHANGED <<qvars, issue, sent, seen, live, hookLive, left>>

-----------------------------------------------------------------------------
(* _emit_brief.                                                            *)

Fresh(i) == {n \in Numbers : vault[i][n] = "absent"}

\* A webhook thread is done; a poller goes on with its list.
After(h) ==
    IF h \in Hooks THEN NoJob
    ELSE [NoJob EXCEPT !.pc = "scan", !.live = job[h].live,
                       !.backfill = job[h].backfill]

WriteBrief(h) ==
    /\ job[h].pc = "write"
    /\ \E n \in Fresh(job[h].item) :
          /\ \A m \in Fresh(job[h].item) : n <= m
          /\ SetBrief(job[h].item, n,
                      IF job[h].live THEN "pending" ELSE "draft")
          /\ job' = [job EXCEPT ![h].pc = "mark", ![h].n = n]
    /\ UNCHANGED <<ledger, hand, retrying, issue, sent, seen, live, hookLive,
                   todo, left>>

\* The file cannot be written: the delivery is forgotten, the row says so,
\* and the exception ends the handler, with the rest of a poller's list.
BriefError(h) ==
    /\ job[h].pc = "write"
    /\ Spend("fault")
    /\ seen' = seen \ {job[h].id}
    /\ ledger' = [ledger EXCEPT ![job[h].item].state = "brief_error"]
    /\ job' = [job EXCEPT ![h] = NoJob]
    /\ todo' = [todo EXCEPT ![h] = {}]
    /\ UNCHANGED <<vault, hand, retrying, issue, sent, live, hookLive>>

\* The second transaction, unconditional.
MarkBrief(h) ==
    /\ job[h].pc = "mark"
    /\ ledger' = [ledger EXCEPT ![job[h].item] =
          [state |-> IF job[h].live THEN "admitted" ELSE "dry_run",
           path  |-> <<job[h].n, "todo">>]]
    /\ job' = [job EXCEPT ![h] = After(h)]
    /\ UNCHANGED <<vault, hand, retrying, issue, sent, seen, live, hookLive,
                   todo, left>>

\* The ledger does not answer: an exception, which ends the handler and the
\* rest of a poller's list.  If the file is already written nothing undoes it.
LedgerDown(h) ==
    /\ job[h].pc \in {"listed", "scan", "mark"}
    /\ Spend("fault")
    /\ job' = [job EXCEPT ![h] = NoJob]
    /\ todo' = [todo EXCEPT ![h] = {}]
    /\ UNCHANGED <<qvars, issue, sent, seen, live, hookLive>>

-----------------------------------------------------------------------------
(* The world outside.                                                      *)

\* A person opens, labels, unlabels, closes or reopens an issue.  GitHub
\* sends a delivery for all of these but the close.
Edit(i) ==
    /\ i \in Polled
    /\ Spend("edit")
    /\ \E s \in IssueStates \ {"none", issue[i]} :
          /\ s = "closed" => issue[i] \in {"open", "skip"}
          /\ issue' = [issue EXCEPT ![i] = s]
          /\ sent' = IF s = "closed" THEN sent
                     ELSE sent \cup {[id |-> left["edit"], item |-> i, label |-> s]}
    /\ UNCHANGED <<qvars, seen, live, hookLive, job, todo>>

\* A Sentry alert rule fires, for the first time or again.
Alert(i) ==
    /\ i \in Items \ Polled
    /\ Spend("edit")
    /\ issue' = [issue EXCEPT ![i] = "open"]
    /\ sent' = sent \cup {[id |-> left["edit"], item |-> i, label |-> "open"]}
    /\ UNCHANGED <<qvars, seen, live, hookLive, job, todo>>

\* config.yaml is edited.  Pollers read it on every pass.
SwitchMode ==
    /\ Spend("mode")
    /\ live' = ~live
    /\ UNCHANGED <<qvars, issue, sent, seen, hookLive, job, todo>>

\* talos-webhookd is restarted: after an edit of the config, or by systemd.
\* Its threads are daemon threads of the HTTP server and die with it.
Restart ==
    /\ job' = [h \in Handlers |-> IF h \in Hooks THEN NoJob ELSE job[h]]
    /\ \/ /\ \A h \in Hooks : job[h] = NoJob
          /\ hookLive # live
          /\ UNCHANGED <<vault, left>>
       \/ /\ \E h \in Hooks : job[h] # NoJob
          /\ Spend("crash")
          /\ UNCHANGED vault
       \/ /\ \E h \in Hooks, d \in sent :
                /\ job[h] = NoJob
                /\ CutShort(d.item, d.id, Verdict(d.item, d.label, FALSE), hookLive)
          /\ Spend("crash")
    /\ hookLive' = live
    /\ UNCHANGED <<ledger, hand, retrying, issue, sent, seen, live, todo>>

PollerDies(p) ==
    /\ job[p] # NoJob
    /\ Spend("crash")
    /\ job' = [job EXCEPT ![p] = NoJob]
    /\ todo' = [todo EXCEPT ![p] = {}]
    /\ \/ UNCHANGED vault
       \/ /\ job[p].pc = "scan"
          /\ \E t \in todo[p] :
                CutShort(t.item, 0, Verdict(t.item, t.label, job[p].backfill),
                         job[p].live)
    /\ UNCHANGED <<ledger, hand, retrying, issue, sent, seen, live, hookLive>>

-----------------------------------------------------------------------------
(* The dispatcher and the bot, as Queue describes them.                    *)

Working(i, n) ==
    /\ Take(i, n) \/ Refuse(i, n) \/ Finish(i, n) \/ ReapBrief(i, n)
    /\ UNCHANGED avars

Ledgering ==
    /\ Mirror \/ RetryRow \/ \E i \in Items : RetryBrief(i) \/ ReapRow(i)
    /\ UNCHANGED avars

Mishap ==
    /\ \/ Spend("fault") /\ (MirrorLost \/ RetryLost)
       \/ Spend("crash") /\ Die
    /\ UNCHANGED <<issue, sent, seen, live, hookLive, job, todo>>

Init ==
    /\ ledger = [i \in Items |-> NoRow]
    /\ vault = [i \in Items |-> [n \in Numbers |-> NoBrief]]
    /\ hand = Idle
    /\ retrying = None
    /\ issue = [i \in Items |-> "none"]
    /\ sent = {}
    /\ seen = {}
    /\ live \in BOOLEAN
    /\ hookLive = live
    /\ job = [h \in Handlers |-> NoJob]
    /\ todo = [h \in Handlers |-> {}]
    /\ left = Budget

Next ==
    \/ \E h \in Hooks, d \in sent : Receive(h, d)
    \/ \E p \in Pollers : List(p) \/ DropKnown(p) \/ EndScan(p) \/ PollerDies(p)
    \/ \E p \in Pollers : \E t \in todo[p] : Admit(p, t)
    \/ \E h \in Handlers :
          WriteBrief(h) \/ BriefError(h) \/ MarkBrief(h) \/ LedgerDown(h)
    \/ \E i \in Items : Edit(i) \/ Alert(i)
    \/ SwitchMode \/ Restart
    \/ \E i \in Items, n \in Numbers : Working(i, n)
    \/ Ledgering \/ Mishap

Spec == Init /\ [][Next]_vars

\* The threads of a live process go on, and systemd's timer keeps starting
\* dispatch passes.  Nothing is assumed of webhooks, people or the bot.
Emit(h) == WriteBrief(h) \/ MarkBrief(h)

Scan(t) == DropKnown(t) \/ EndScan(t) \/ \E x \in todo[t] : Admit(t, x)

Fairness ==
    /\ \A h \in Handlers : WF_vars(Emit(h))
    /\ \A t \in Timers : WF_vars(List(t)) /\ WF_vars(Scan(t))

FairSpec == Spec /\ Fairness

-----------------------------------------------------------------------------
(* Properties.                                                             *)

\* Every variable keeps to the values described above.
TypeOK ==
    /\ ledger \in [Items -> Row]
    /\ vault \in [Items -> [Numbers -> Brief]]
    /\ hand \in Hands
    /\ retrying \in Items \cup {None}
    /\ issue \in [Items -> IssueStates]
    /\ sent \subseteq Delivery
    /\ seen \subseteq Nat
    /\ live \in BOOLEAN
    /\ hookLive \in BOOLEAN
    /\ job \in [Handlers -> Job]
    /\ todo \in [Handlers -> SUBSET Listing]
    /\ left \in [Kinds -> Nat]

\* Briefs of item i that the dispatcher will run, or is running.
Waiting(i) == {n \in Numbers : vault[i][n] \in Queued}

\* Whatever is delivered twice, crashes or goes unrecorded, an item never has
\* two such briefs, which would mean two containers on one issue (triage.py:
\* "an event that already had a brief does not get another").
OneWaiting ==
    \A i \in Items : \A m, n \in Waiting(i) : m = n

\* "dry_run writes draft briefs that nothing runs" (docs/event-harness.md): while the row says
\* dry_run no brief of the item is queued, running or in the dispatcher's
\* hand, however late the handler that wrote the row was, and the row leads to
\* the draft, which _retire_draft finds nowhere else.  A crash inside
\* _record can have put the draft away already.
DryRunIsQuiet ==
    \A i \in Items : ledger[i].state = "dry_run" =>
        /\ Waiting(i) = {}
        /\ hand.item # i
        /\ \E n \in Numbers :
              /\ ledger[i].path = <<n, "todo">>
              /\ vault[i][n] \in {"draft", "superseded"}

\* A brief that has left the queue directory does not come back to it: a
\* pending brief elsewhere is seen by nobody and blocks its item for ever
\* (the comment of /retry).
MovedStays ==
    [][\A i \in Items, n \in Numbers :
          vault[i][n] \in MovedStatus => vault'[i][n] = vault[i][n]]_vars

\* A row that says admitted is somebody's business: a handler, the dispatcher
\* or /retry has it in hand, or a brief waits for the dispatcher.  Else it is
\* "active for dedupe, invisible to dispatch, and with nothing /retry could
\* revive" (_emit_brief).
AdmittedHasBrief ==
    \A i \in Items : ledger[i].state = "admitted" =>
        \/ \E h \in Handlers : job[h].item = i
        \/ i \in {hand.item, retrying}
        \/ Waiting(i) # {}

\* An open issue whose webhook never came, or whose brief could not be
\* written, gets a brief from the reconciler all the same, unless a gate
\* refuses it.
Missed(i) ==
    /\ issue[i] = "open"
    /\ ledger[i].state \in {"absent", "brief_error"}

Settled(i) ==
    \/ issue[i] # "open"
    \/ ledger[i].state = "rejected_optout"
    \/ \E n \in Numbers : vault[i][n] # "absent"

Reconciled == \A i \in Polled \ Backlog : Missed(i) ~> Settled(i)

\* When the repository goes live, what came in during dry run is admitted
\* again.
Drafted(i) == issue[i] = "open" /\ ledger[i].state = "dry_run" /\ live

GoesLive ==
    \A i \in Polled \ Backlog :
        Drafted(i) ~> (issue[i] # "open" \/ ~live \/ ledger[i].state # "dry_run")

=============================================================================
