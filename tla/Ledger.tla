------------------------------- MODULE Ledger -------------------------------
(***************************************************************************)
(* The two records every component of the harness shares: a row of the     *)
(* `events` table in events.db (store.py) and a brief, a Markdown file of  *)
(* the vault whose front matter holds its status.  A row names its brief   *)
(* by path, a brief names its row by event_id; nothing but the code keeps  *)
(* the two in step.                                                        *)
(*                                                                         *)
(* Briefs of one item are numbered: brief_factory never reuses the name of *)
(* a file that is still in the directory.                                  *)
(***************************************************************************)
EXTENDS Naturals

CONSTANTS
    Items,      \* dedupe keys: GitHub issues and Sentry issues
    Numbers,    \* numbers of the briefs of one item
    None        \* an empty column

-----------------------------------------------------------------------------
(* Row states.                                                             *)

\* An event in one of these is being handled or is finished.
ActiveStates == {"admitted", "dispatched", "running", "pr_open",
                 "merged_dev", "done"}

\* States of a row that had a brief and can be admitted again.
ReopenableStates == {"dry_run", "rejected_paused"}

\* The states /retry accepts.
RetryableStates == {"failed"}

\* The verdicts of the gate ladder, as row states: "admitted" passes.
Verdicts == {"admitted", "rejected_optout", "rejected_backlog"}

\* "absent" stands for a dedupe key with no row.
RowStates == Verdicts \cup
    {"absent", "dry_run", "brief_error", "running", "pr_open", "failed",
     "rejected_closed"}

-----------------------------------------------------------------------------
(* Briefs.                                                                 *)

\* In the queue directory, ToDos/.
TodoStatus == {"draft", "pending", "running", "failed"}

\* Moved to in-review/, skipped/ or dry-run/.
MovedStatus == {"pr_open", "skipped", "superseded"}

Queued == {"pending", "running"}

\* A brief is its status: what the rest of the front matter says is of no
\* consequence to the other components.
Brief == TodoStatus \cup MovedStatus \cup {"absent"}

NoBrief == "absent"

-----------------------------------------------------------------------------
(* Rows.  `path` is brief_path: the number of a brief and the directory it *)
(* was in when the path was written.                                       *)

Place(status) == IF status \in MovedStatus THEN "moved" ELSE "todo"

Paths == Numbers \X {"todo", "moved"}

ASSUME LedgerAssumption == None \notin Items \cup Numbers \cup Paths

Row == [state : RowStates, path : Paths \cup {None}]

NoRow == [state |-> "absent", path |-> None]

\* A mutant of OnDisk: the name of the file without its directory.
OnDiskByName(briefs, path) ==
    path # None /\ briefs[path[1]] # "absent"

\* A path that leads to a file: the brief is still where the row says.
OnDisk(briefs, path) ==
    /\ path # None
    /\ briefs[path[1]] # "absent"
    /\ Place(briefs[path[1]]) = path[2]

=============================================================================
