--------------------------- MODULE ReleaseProofs ----------------------------
(***************************************************************************)
(* The safety properties of Release, for any number of handler threads and *)
(* reconcilers and any number of outside events.                           *)
(*                                                                         *)
(* A reconciler acts on an answer of GitHub that may be old when it acts.  *)
(* The invariant says what is still true of the answer (Sound), and who    *)
(* owes the issue a comment: each claim of a row is one release still to   *)
(* be announced or announced already (Releases), each closing of an open   *)
(* row is told by one worker only (Merges).                                *)
(***************************************************************************)
EXTENDS Release, FiniteSetTheorems, TLAPS

Folders == {"ToDos", "in-review", "completed"}

States == TerminalStates \cup {"running", "pr_open", "failed"}

Rows == [state : States, path : Folders, sha : BOOLEAN, pr : BOOLEAN]

Promising == {"close", "post", "undo"}

Places == {"idle", "listed", "handle", "tell", "move", "note", "migrate", "ask", "pull",
           "release", "read", "claim"} \cup Promising

Jobs == [pc : Places, was : {None, "done", "pr_open"}, path : Folders \cup {None},
         comment : BOOLEAN, closed : BOOLEAN, reopened : BOOLEAN, released : BOOLEAN]

Hands == {"run", "dead", "pr_open", "failed", "over"}

Data ==
    /\ said \in [merged : Nat, released : Nat]
    /\ row \in Rows
    /\ job \in [Workers -> Jobs]
    /\ hand.pc \in Hands
    /\ late => hand.pc = "over"

GitHub ==
    /\ pr # "merged" => ~prod
    /\ pr = "merged" /\ flow.closes => ~issue.open \/ issue.reopened
    /\ \A w \in Workers : job[w].pc \in {"listed", "handle"} => pr = "merged"

\* What has become of an answer since it was given.
Sound(j) ==
    /\ j.pc \in {"claim", "close", "post"} =>
          /\ j.released => prod
          /\ j.closed => ~issue.open \/ issue.reopened
          /\ j.reopened => issue.reopened
          /\ ~LeavesOpen(j) /\ issue.reopened => raced
    /\ j.pc \in {"close", "post"} => j.released
    /\ j.pc = "post" => ~LeavesOpen(j)

AnswersHold == \A p \in Pollers : Sound(job[p])

\* A row that is looked at for its release has a commit.
Shas ==
    /\ row.state = "merged_dev" => row.sha
    /\ \A p \in Pollers : job[p].pc \in {"read", "claim"} \cup Promising => row.sha
    /\ said.released > 0 => row.sha

\* About to say "merged" on the issue.
Tells(j) == j.pc \in {"tell", "pull"} /\ j.comment

Tellers == {w \in Workers : Tells(job[w])}

\* The issue has been told n times, and S are those about to tell it.
NoNews(S, n) == n = 0 /\ S = {}

OneNews(S, n) ==
    /\ n <= 1 /\ (S # {} => n = 0)
    /\ \A v, w \in S : v = w

TwoNews(S, n) ==
    /\ n <= 2 /\ (S # {} => n <= 1)
    /\ \A v, w \in S : v = w \/ n = 0
    /\ \A u, v, w \in S : u = v \/ v = w \/ u = w

\* Each closing of an open row is told once, and the row is reopened at most
\* once: the late record is the last thing the dispatcher does.
Merges ==
    IF row.state \in TerminalStates
    THEN IF late THEN TwoNews(Tellers, said.merged) ELSE OneNews(Tellers, said.merged)
    ELSE IF late THEN OneNews(Tellers, said.merged) ELSE NoNews(Tellers, said.merged)

\* Those who have claimed the row and owe the comment, or the claim back.
Promised == {p \in Pollers : job[p].pc \in Promising}

Releases ==
    \/ taken \/ late
    \/ said.released + Cardinality(Promised) <=
          (Budget - left) + (IF row.state = "done" THEN 1 ELSE 0)

IInv == TypeOK /\ Data /\ GitHub /\ AnswersHold /\ Shas /\ Merges /\ Releases /\ NothingForgotten

-----------------------------------------------------------------------------
(* A worker's job changes, and only its own.                               *)
LEMMA JobIs ==
    ASSUME job \in [Workers -> Jobs], NEW w \in Workers, NEW j \in Jobs,
           job' = [job EXCEPT ![w] = j]
    PROVE  /\ job' \in [Workers -> Jobs]
           /\ job'[w] = j
           /\ \A v \in Workers : v # w => job'[v] = job[v]
  OBVIOUS

LEMMA Finite ==
    /\ IsFiniteSet(Pollers)
    /\ IsFiniteSet(Promised) /\ Cardinality(Promised) \in Nat
<1>1. IsFiniteSet(Pollers)
  BY ReleaseAssumption, FS_Union DEF Pollers
<1>2. Promised \in SUBSET Pollers
  BY DEF Promised
<1>3. IsFiniteSet(Promised)
  BY <1>1, <1>2, FS_Subset
<1> QED
  BY <1>1, <1>3, FS_CardinalityType

(* One worker more or less owes something.                                 *)
LEMMA PromisesChange ==
    ASSUME job \in [Workers -> Jobs], NEW w \in Workers, NEW j \in Jobs,
           job' = [job EXCEPT ![w] = j]
    PROVE  /\ Cardinality(Promised') \in Nat
           /\ j.pc \notin Promising /\ w \in Promised =>
                 Cardinality(Promised') = Cardinality(Promised) - 1
           /\ j.pc \notin Promising /\ w \notin Promised =>
                 Cardinality(Promised') = Cardinality(Promised)
           /\ j.pc \in Promising /\ w \in Promised =>
                 Cardinality(Promised') = Cardinality(Promised)
           /\ Cardinality(Promised') <= Cardinality(Promised) + 1
           /\ j.pc \notin Promising \/ w \in Promised =>
                 Cardinality(Promised') <= Cardinality(Promised)
<1>1. \A v \in Workers : job'[v] = IF v = w THEN j ELSE job[v]
  BY JobIs
<1>2. Pollers \subseteq Workers
  BY DEF Workers
<1>3. Promised' \in {Promised \ {w}, Promised \cup {w}}
  BY <1>1, <1>2 DEF Promised
<1>4. j.pc \notin Promising => Promised' = Promised \ {w}
  BY <1>1, <1>2 DEF Promised
<1>5. j.pc \in Promising /\ w \in Promised => Promised' = Promised
  BY <1>1, <1>2 DEF Promised
<1>6. /\ Cardinality(Promised \ {w}) = IF w \in Promised THEN Cardinality(Promised) - 1
                                       ELSE Cardinality(Promised)
      /\ Cardinality(Promised \cup {w}) = IF w \in Promised THEN Cardinality(Promised)
                                          ELSE Cardinality(Promised) + 1
      /\ IsFiniteSet(Promised \ {w}) /\ IsFiniteSet(Promised \cup {w})
  BY Finite, FS_RemoveElement, FS_AddElement
<1> DEFINE n == Cardinality(Promised)
           m == Cardinality(Promised')
<1>7. n \in Nat /\ m \in Nat
  BY <1>3, <1>6, Finite, FS_CardinalityType
<1>8. j.pc \notin Promising => m = IF w \in Promised THEN n - 1 ELSE n
  BY <1>4, <1>6
<1>9. j.pc \in Promising /\ w \in Promised => m = n
  BY <1>5
<1>10. m = n - 1 \/ m = n \/ m = n + 1
  BY <1>3, <1>6
<1> HIDE DEF n, m
<1>11. /\ m <= n + 1
       /\ j.pc \notin Promising \/ w \in Promised => m <= n
  BY <1>7, <1>8, <1>9, <1>10
<1> QED
  BY <1>7, <1>8, <1>9, <1>11 DEF n, m

LEMMA NoJobIsJob == NoJob \in Jobs
  BY DEF NoJob, Jobs, Places

-----------------------------------------------------------------------------
(* The news of the merge.                                                  *)
LEMMA NewsCount ==
    ASSUME NEW S, NEW n \in Nat
    PROVE  /\ NoNews(S, n) => OneNews(S, n)
           /\ OneNews(S, n) => TwoNews(S, n)
<1>1. NoNews(S, n) => OneNews(S, n)
  BY DEF NoNews, OneNews
<1>2. OneNews(S, n) => TwoNews(S, n)
  BY DEF OneNews, TwoNews
<1> QED
  BY <1>1, <1>2

\* Fewer are about to tell it.
LEMMA NewsFewer ==
    ASSUME NEW S, NEW T, NEW n, T \subseteq S
    PROVE  /\ NoNews(S, n) => NoNews(T, n)
           /\ OneNews(S, n) => OneNews(T, n)
           /\ TwoNews(S, n) => TwoNews(T, n)
<1>1. NoNews(S, n) => NoNews(T, n)
  BY DEF NoNews
<1>2. OneNews(S, n) => OneNews(T, n)
  BY DEF OneNews
<1>3. TwoNews(S, n) => TwoNews(T, n)
  BY DEF TwoNews
<1> QED
  BY <1>1, <1>2, <1>3

\* One more is about to tell it.
LEMMA NewsComes ==
    ASSUME NEW S, NEW T, NEW w, NEW n \in Nat, T \subseteq S \cup {w}
    PROVE  /\ NoNews(S, n) => OneNews(T, n)
           /\ OneNews(S, n) => TwoNews(T, n)
<1>1. NoNews(S, n) => OneNews(T, n)
  BY DEF NoNews, OneNews
<1>2. ASSUME OneNews(S, n) PROVE TwoNews(T, n)
  <2>1. CASE S = {}
    <3>1. \A u, v \in T : u = v
      BY <2>1
    <3> QED
      BY <1>2, <3>1 DEF OneNews, TwoNews
  <2>2. CASE S # {}
    <3>1. n = 0 /\ \A u, v \in S : u = v
      BY <1>2, <2>2 DEF OneNews
    <3>2. \A t \in T : t \in S \/ t = w
      OBVIOUS
    <3>3. \A t, u, v \in T : t = u \/ u = v \/ t = v
      BY <3>1, <3>2
    <3> QED
      BY <3>1, <3>3 DEF TwoNews
  <2> QED
    BY <2>1, <2>2
<1> QED
  BY <1>1, <1>2

\* One of them tells it.
LEMMA NewsTold ==
    ASSUME NEW S, NEW w \in S, NEW n \in Nat
    PROVE  /\ ~NoNews(S, n)
           /\ OneNews(S, n) => OneNews(S \ {w}, n + 1)
           /\ TwoNews(S, n) => TwoNews(S \ {w}, n + 1)
<1>1. ~NoNews(S, n)
  BY DEF NoNews
<1>2. ASSUME OneNews(S, n) PROVE OneNews(S \ {w}, n + 1)
  <2>1. n = 0 /\ S \ {w} = {}
    BY <1>2 DEF OneNews
  <2> QED
    BY <2>1 DEF OneNews
<1>3. ASSUME TwoNews(S, n) PROVE TwoNews(S \ {w}, n + 1)
  <2>1. n <= 1 /\ (S \ {w} # {} => n = 0)
    BY <1>3 DEF TwoNews
  <2>2. \A u, v \in S \ {w} : u = v
    BY <1>3 DEF TwoNews
  <2> QED
    BY <2>1, <2>2 DEF TwoNews
<1> QED
  BY <1>1, <1>2, <1>3

\* Nobody new is about to tell it, and no terminal row is reopened.
LEMMA NewsStay ==
    ASSUME IInv, Tellers' \subseteq Tellers, said'.merged = said.merged, late' = late,
           row.state \in TerminalStates => row'.state \in TerminalStates
    PROVE  Merges'
<1>1. said.merged \in Nat
  BY DEF IInv, Data
<1>2. Merges /\ (late <=> late')
  BY DEF IInv
<1> DEFINE t == row.state \in TerminalStates
           u == row'.state \in TerminalStates
           NoS == NoNews(Tellers', said.merged)
           OneS == OneNews(Tellers', said.merged)
           TwoS == TwoNews(Tellers', said.merged)
           No == NoNews(Tellers, said.merged)
           One == OneNews(Tellers, said.merged)
           Two == TwoNews(Tellers, said.merged)
<1>3. (No => NoS) /\ (One => OneS) /\ (Two => TwoS)
  BY NewsFewer
<1>4. IF t THEN IF late THEN Two ELSE One ELSE IF late THEN One ELSE No
  BY <1>2 DEF Merges
<1>5. (NoS => OneS) /\ (OneS => TwoS)
  BY <1>1, NewsCount
<1>6. Merges' <=> IF u THEN IF late THEN TwoS ELSE OneS ELSE IF late THEN OneS ELSE NoS
  BY DEF Merges
<1>7. t => u
  OBVIOUS
<1> HIDE DEF t, u, No, One, Two, NoS, OneS, TwoS
<1> QED
  BY <1>2, <1>3, <1>4, <1>5, <1>6, <1>7, Zenon

-----------------------------------------------------------------------------
LEMMA BeforeIs ==
    ASSUME flow \in [prod : BOOLEAN, closes : BOOLEAN], NEW old \in BOOLEAN, Before(old)
    PROVE  /\ pr \in {"none", "merged"} /\ prod \in BOOLEAN /\ (pr # "merged" => ~prod)
           /\ row \in Rows /\ row.state \in {"done", "running"} /\ ~row.sha
           /\ file \in {"completed", "ToDos"} /\ hand.pc \in {"run", "over"}
           /\ pr = "merged" => old
<1>1. CASE old
  <2>1. /\ pr = "merged" /\ prod = flow.prod /\ file = "completed" /\ hand.pc = "over"
        /\ row = [state |-> "done", path |-> "completed", sha |-> FALSE, pr |-> TRUE]
    BY <1>1 DEF Before
  <2> QED
    BY <1>1, <2>1 DEF Rows, States, TerminalStates, Folders
<1>2. CASE old = FALSE
  <2>0. Before(FALSE)
    BY <1>2
  <2>1. /\ pr = "none" /\ prod = FALSE /\ file = "ToDos" /\ hand.pc = "run"
        /\ row = [state |-> "running", path |-> "ToDos", sha |-> FALSE, pr |-> FALSE]
    BY <2>0 DEF Before
  <2> QED
    BY <2>1 DEF Rows, States, TerminalStates, Folders
<1> QED
  BY <1>1, <1>2

LEMMA Start == Init => IInv
<1> SUFFICES ASSUME Init PROVE IInv
  OBVIOUS
<1>0. PICK old \in {FALSE, Legacy} :
          /\ Before(old)
          /\ issue = [open |-> ~(old /\ flow.closes), reopened |-> FALSE,
                      by |-> IF old /\ flow.closes THEN "github" ELSE None]
  BY DEF Init
<1>a. old \in BOOLEAN
  BY <1>0, ReleaseAssumption
<1>b. /\ issue \in [open : BOOLEAN, reopened : BOOLEAN,
                    by : {None, "person", "github", "harness"}]
      /\ old /\ flow.closes => ~issue.open
  <2>1. CASE old /\ flow.closes
    BY <1>0, <2>1
  <2>2. CASE ~(old /\ flow.closes)
    BY <1>0, <2>2
  <2> QED
    BY <2>1, <2>2
<1>c. /\ flow \in [prod : BOOLEAN, closes : BOOLEAN] /\ rev = "absent" /\ left = Budget
      /\ died = FALSE /\ late = FALSE /\ lost = FALSE /\ raced = FALSE /\ taken = FALSE
      /\ job = [w \in Workers |-> NoJob] /\ said = [merged |-> 0, released |-> 0]
  BY DEF Init
<1>d. /\ pr \in {"none", "merged"} /\ prod \in BOOLEAN /\ (pr # "merged" => ~prod)
      /\ row \in Rows /\ row.state \in {"done", "running"} /\ ~row.sha
      /\ file \in {"completed", "ToDos"} /\ hand.pc \in {"run", "over"}
      /\ pr = "merged" => old
  BY <1>0, <1>a, <1>c, BeforeIs
<1>1. TypeOK
  <2>1. left \in 0..Budget
    BY <1>c, ReleaseAssumption
  <2> QED
    BY <1>b, <1>c, <1>d, <2>1 DEF TypeOK, TerminalStates
<1>2. Data
  BY <1>c, <1>d, NoJobIsJob DEF Data, Hands
<1>3. \A w \in Workers : job[w].pc = "idle"
  BY <1>c DEF NoJob
<1>4. Pollers \subseteq Workers /\ Promised = {}
  BY <1>3 DEF Promised, Promising, Workers
<1>5. GitHub
  BY <1>b, <1>d, <1>3 DEF GitHub
<1>6. AnswersHold /\ Shas
  BY <1>c, <1>d, <1>3, <1>4 DEF AnswersHold, Sound, Shas, Promising
<1>7. Merges
  <2>1. Tellers = {} /\ said.merged = 0
    BY <1>c, <1>3 DEF Tellers, Tells
  <2>2. NoNews(Tellers, said.merged) /\ OneNews(Tellers, said.merged)
    BY <2>1, NewsCount DEF NoNews
  <2> QED
    BY <1>c, <2>2 DEF Merges
<1>8. Releases
  <2>1. Cardinality(Promised) = 0
    BY <1>4, FS_EmptySet
  <2> QED
    BY <1>c, <2>1, ReleaseAssumption DEF Releases
<1>9. NothingForgotten
  BY <1>d DEF NothingForgotten
<1> QED
  BY <1>1, <1>2, <1>5, <1>6, <1>7, <1>8, <1>9 DEF IInv

(* A worker goes on: nothing of the row, the issue or the history changes. *)
LEMMA JobStep ==
    ASSUME IInv, NEW w \in Workers, NEW j \in Jobs,
           job' = [job EXCEPT ![w] = j],
           UNCHANGED <<github, row, late, raced, taken>>,
           TypeOK', hand'.pc \in Hands, hand.pc = "over" => hand'.pc = "over",
           left' = left \/ left' = left - 1, died => died',
           j.pc \in {"listed", "handle"} => pr = "merged",
           w \in Pollers => Sound(j),
           w \in Pollers /\ j.pc \in {"read", "claim"} => row.sha,
           ~Tells(j) \/ Tells(job[w]),
           j.pc \in Promising => w \in Promised,
           w \in Promised /\ j.pc \notin Promising /\ row.state = "done" /\ issue.open =>
               issue.reopened \/ died'
    PROVE  IInv'
<1> USE DEF IInv, github
<1>0. /\ job' \in [Workers -> Jobs] /\ job'[w] = j
      /\ \A v \in Workers : v # w => job'[v] = job[v]
      /\ Pollers \subseteq Workers
  BY JobIs DEF Data, Workers
<1>1. Data'
  BY <1>0 DEF Data
<1>2. GitHub'
  BY <1>0 DEF GitHub
<1>3. AnswersHold'
  BY <1>0 DEF AnswersHold, Sound, LeavesOpen
<1>4. Shas'
  BY <1>0 DEF Shas, Promised
<1>5. Merges'
  <2>1. Tellers' \subseteq Tellers
    BY <1>0 DEF Tellers, Tells
  <2> HIDE DEF IInv
  <2> QED
    BY <2>1, NewsStay
<1>6. Releases'
  <2>0. UNCHANGED <<said, row, late, taken>>
    OBVIOUS
  <2>1. Cardinality(Promised') \in Nat /\ Cardinality(Promised') <= Cardinality(Promised)
    BY PromisesChange, Finite DEF Data
  <2>2. left \in 0..Budget /\ Budget \in Nat /\ said.released \in Nat
    BY ReleaseAssumption DEF TypeOK, Data
  <2>3. left' = left \/ left' = left - 1
    OBVIOUS
  <2> HIDE DEF IInv
  <2> QED
    BY <2>0, <2>1, <2>2, <2>3, Finite DEF IInv, Releases
<1>7. NothingForgotten'
  <2>1. \A p \in Promised : p # w => job'[p].pc \in Promising
    BY <1>0 DEF Promised
  <2> QED
    BY <1>0, <2>1 DEF NothingForgotten, Promised, Promising
<1> QED
  BY <1>1, <1>2, <1>3, <1>4, <1>5, <1>6, <1>7

LEMMA GoToIs ==
    ASSUME job \in [Workers -> Jobs], NEW w \in Workers, NEW pc \in Places, GoTo(w, pc)
    PROVE  LET j == [job[w] EXCEPT !.pc = pc]
           IN  /\ j \in Jobs /\ job' = [job EXCEPT ![w] = j]
               /\ j.pc = pc /\ j.comment = job[w].comment
               /\ j.closed = job[w].closed /\ j.reopened = job[w].reopened
               /\ j.released = job[w].released
  BY DEF GoTo, Jobs

LEMMA IdleIs ==
    /\ NoJob.pc = "idle" /\ ~NoJob.comment /\ Sound(NoJob) /\ ~Tells(NoJob)
    /\ \A pc \in {"migrate", "release", "read", "note"} :
          LET j == [NoJob EXCEPT !.pc = pc]
          IN  j \in Jobs /\ j.pc = pc /\ Sound(j) /\ ~Tells(j)
    /\ \A w : Next1(w) \in {NoJob, [NoJob EXCEPT !.pc = "migrate"]}
  BY DEF NoJob, Sound, Tells, Jobs, Places, Next1

(* The steps of a worker that only move it on.                             *)
LEMMA WebhookKeeps == ASSUME IInv, NEW h \in Hooks, Webhook(h) PROVE IInv'
<1> DEFINE j == [job[h] EXCEPT !.pc = "handle"]
<1>1. h \in Workers /\ h \notin Pollers /\ h \notin Promised
  BY ReleaseAssumption DEF Workers, Pollers, Promised
<1>2. j \in Jobs /\ job' = [job EXCEPT ![h] = j] /\ j.pc = "handle"
  BY <1>1, GoToIs DEF Webhook, IInv, Data, Places
<1>3. TypeOK'
  BY DEF Webhook, IInv, TypeOK, github, ledger, ghosts
<1> HIDE DEF j
<1> QED
  BY <1>1, <1>2, <1>3, JobStep DEF Webhook, IInv, Data, Tells, Promising, ledger, ghosts

LEMMA MoveBriefKeeps == ASSUME IInv, NEW w \in Workers, MoveBrief(w) PROVE IInv'
<1> DEFINE j == IF file = job[w].path THEN [NoJob EXCEPT !.pc = "note"] ELSE Next1(w)
<1>1. j \in Jobs /\ Sound(j) /\ ~Tells(j) /\ j.pc \in {"note", "idle", "migrate"}
  BY IdleIs, NoJobIsJob
<1>2. job' = [job EXCEPT ![w] = j]
  BY DEF MoveBrief
<1>3. TypeOK'
  BY DEF MoveBrief, IInv, TypeOK, Filed, github, ledger, ghosts
<1>4. w \notin Promised
  BY DEF MoveBrief, Promised, Promising
<1> HIDE DEF j
<1> QED
  BY <1>1, <1>2, <1>3, <1>4, JobStep DEF MoveBrief, IInv, Data, Promising, ledger, ghosts

LEMMA MoveFailsKeeps == ASSUME IInv, NEW w \in Workers, MoveFails(w) PROVE IInv'
<1> DEFINE j == Next1(w)
<1>1. j \in Jobs /\ Sound(j) /\ ~Tells(j) /\ j.pc \in {"idle", "migrate"}
  BY IdleIs, NoJobIsJob
<1>2. job' = [job EXCEPT ![w] = j]
  BY DEF MoveFails
<1>3. TypeOK'
  BY ReleaseAssumption DEF MoveFails, Event, IInv, TypeOK, github, ledger
<1>4. w \notin Promised
  BY DEF MoveFails, Promised, Promising
<1>5. hand'.pc \in Hands /\ (hand.pc = "over" => hand'.pc = "over")
  BY DEF MoveFails, IInv, Data, Hands
<1>6. /\ UNCHANGED <<github, row, late, raced, taken>> /\ left' = left - 1 /\ died' = died
  BY DEF MoveFails, Event, ledger
<1> HIDE DEF j
<1> QED
  BY <1>1, <1>2, <1>3, <1>4, <1>5, <1>6, JobStep DEF Promising

LEMMA WorkerDiesKeeps == ASSUME IInv, NEW w \in Workers, WorkerDies(w) PROVE IInv'
<1>1. job' = [job EXCEPT ![w] = NoJob] /\ NoJob \in Jobs
  BY NoJobIsJob DEF WorkerDies, Drop
<1>2. TypeOK'
  BY ReleaseAssumption DEF WorkerDies, Event, IInv, TypeOK, github, ledger, ghosts
<1>3. /\ left' = left - 1 /\ died' = TRUE
      /\ UNCHANGED <<github, row, late, raced, taken, hand>>
  BY DEF WorkerDies, Event, ledger
<1>4. hand'.pc \in Hands
  BY <1>3 DEF IInv, Data
<1> QED
  BY <1>1, <1>2, <1>3, <1>4, IdleIs, JobStep DEF Promising

LEMMA PollerIsWorker == \A p \in Pollers : p \in Workers
  BY DEF Workers

LEMMA ListPRsKeeps == ASSUME IInv, NEW p \in Pollers, ListPRs(p) PROVE IInv'
<1> DEFINE pc == IF pr = "merged" THEN "listed" ELSE "migrate"
           j == [job[p] EXCEPT !.pc = pc]
<1>1. p \in Workers
  BY PollerIsWorker
<1>2. GoTo(p, pc) /\ pc \in Places
  BY DEF ListPRs, Places
<1> HIDE DEF pc
<1>3. j \in Jobs /\ job' = [job EXCEPT ![p] = j] /\ j.pc = pc
  BY <1>1, <1>2, GoToIs DEF IInv, Data
<1>4. TypeOK'
  BY DEF ListPRs, IInv, TypeOK, github, ledger, ghosts
<1>5. j.pc \in {"listed", "migrate"} /\ (j.pc = "listed" => pr = "merged")
  BY <1>3 DEF pc
<1>6. p \notin Promised
  BY DEF ListPRs, Promised, Promising
<1> HIDE DEF j
<1>7. Sound(j) /\ ~Tells(j)
  BY <1>5 DEF Sound, Tells
<1> QED
  BY <1>1, <1>3, <1>4, <1>5, <1>6, <1>7, JobStep
     DEF ListPRs, IInv, Data, Promising, ledger, ghosts

LEMMA CloseIfOpenKeeps == ASSUME IInv, NEW p \in Pollers, CloseIfOpen(p) PROVE IInv'
<1> DEFINE pc == IF row.state \in TerminalStates /\ rev # "open" THEN "migrate" ELSE "handle"
           j == [job[p] EXCEPT !.pc = pc]
<1>1. p \in Workers
  BY PollerIsWorker
<1>2. GoTo(p, pc) /\ pc \in Places
  BY DEF CloseIfOpen, Places
<1>3. pc \in {"migrate", "handle"}
  OBVIOUS
<1> HIDE DEF pc
<1>4. j \in Jobs /\ job' = [job EXCEPT ![p] = j] /\ j.pc = pc
  BY <1>1, <1>2, GoToIs DEF IInv, Data
<1>5. TypeOK'
  BY DEF CloseIfOpen, IInv, TypeOK, github, ledger, ghosts
<1>6. pr = "merged" /\ p \notin Promised
  BY <1>1 DEF CloseIfOpen, IInv, GitHub, Promised, Promising
<1> HIDE DEF j
<1>7. Sound(j) /\ ~Tells(j)
  BY <1>3, <1>4 DEF Sound, Tells
<1> QED
  BY <1>1, <1>3, <1>4, <1>5, <1>6, <1>7, JobStep
     DEF CloseIfOpen, IInv, Data, Promising, ledger, ghosts

LEMMA ListOldKeeps == ASSUME IInv, NEW p \in Pollers, ListOld(p) PROVE IInv'
<1>1. p \in Workers /\ p \notin Promised
  BY PollerIsWorker DEF ListOld, Promised, Promising
<1>2. TypeOK'
  BY ReleaseAssumption DEF ListOld, Event, IInv, TypeOK, github, ledger, ghosts
<1>3. \E j \in Jobs : /\ job' = [job EXCEPT ![p] = j]
                     /\ j.pc \in {"ask", "release"}
  <2> DEFINE j == [NoJob EXCEPT !.pc = "ask", !.was = row.state, !.path = row.path]
  <2>1. \/ row.state \in {"done", "pr_open"} /\ job' = [job EXCEPT ![p] = j]
        \/ job' = [job EXCEPT ![p] = [NoJob EXCEPT !.pc = "release"]]
        \/ GoTo(p, "release")
    BY DEF ListOld
  <2>2. row.state \in {"done", "pr_open"} => j \in Jobs /\ j.pc = "ask"
    BY DEF NoJob, Jobs, Places, IInv, Data, Rows
  <2>3. GoTo(p, "release") => [job[p] EXCEPT !.pc = "release"] \in Jobs
                              /\ [job[p] EXCEPT !.pc = "release"].pc = "release"
                              /\ job' = [job EXCEPT ![p] = [job[p] EXCEPT !.pc = "release"]]
    BY <1>1, GoToIs DEF IInv, Data, Places
  <2> HIDE DEF j
  <2> QED
    BY <2>1, <2>2, <2>3, IdleIs
<1>4. PICK j \in Jobs : /\ job' = [job EXCEPT ![p] = j]
                      /\ j.pc \in {"ask", "release"}
  BY <1>3
<1>5. Sound(j) /\ ~Tells(j)
  BY <1>4 DEF Sound, Tells
<1> QED
  BY <1>1, <1>2, <1>4, <1>5, JobStep DEF ListOld, Event, IInv, Data, Promising, ledger, ghosts

LEMMA ListParkedKeeps == ASSUME IInv, NEW p \in Pollers, ListParked(p) PROVE IInv'
<1> DEFINE j == IF row.state = "merged_dev" THEN [NoJob EXCEPT !.pc = "read"] ELSE NoJob
<1>1. p \in Workers /\ p \notin Promised
  BY PollerIsWorker DEF ListParked, Promised, Promising
<1>2. j \in Jobs /\ Sound(j) /\ ~Tells(j) /\ j.pc \in {"read", "idle"}
  BY IdleIs, NoJobIsJob
<1>3. job' = [job EXCEPT ![p] = j]
  BY DEF ListParked
<1>4. j.pc = "read" => row.sha
  BY IdleIs DEF IInv, Shas
<1>5. TypeOK'
  BY DEF ListParked, IInv, TypeOK, github, ledger, ghosts
<1> HIDE DEF j
<1> QED
  BY <1>1, <1>2, <1>3, <1>4, <1>5, JobStep DEF ListParked, IInv, Data, Promising, ledger, ghosts

(* An answer of GitHub: what it says is true when it is given.             *)
LEMMA ReadGitHubKeeps == ASSUME IInv, NEW p \in Pollers, ReadGitHub(p) PROVE IInv'
<1>1. p \in Workers /\ p \notin Promised /\ row.sha
  BY PollerIsWorker DEF ReadGitHub, Promised, Promising, IInv, Shas
<1>2. row' = row
  <2>1. row' = [row EXCEPT !.sha = TRUE] \/ row' = row
    BY DEF ReadGitHub
  <2> QED
    BY <1>1, <2>1 DEF IInv, Data, Rows
<1>3. TypeOK'
  BY <1>2, ReleaseAssumption DEF ReadGitHub, Event, IInv, TypeOK, github, ghosts
<1>4. \E j \in Jobs : /\ job' = [job EXCEPT ![p] = j] /\ j.pc \in {"claim", "idle"}
                     /\ Sound(j) /\ ~Tells(j)
  <2> DEFINE j == [NoJob EXCEPT !.pc = "claim", !.closed = ~issue.open,
                       !.reopened = issue.open /\ issue.reopened, !.released = Released(prod)]
  <2>1. CASE job' = [job EXCEPT ![p] = j]
    <3>1. /\ j.pc = "claim" /\ j.closed = ~issue.open
          /\ j.reopened = (issue.open /\ issue.reopened) /\ j.released = prod
      BY DEF NoJob, Released
    <3>2. /\ issue.open \in BOOLEAN /\ issue.reopened \in BOOLEAN /\ prod \in BOOLEAN
      BY DEF IInv, TypeOK
    <3>3. j \in Jobs
      BY <3>2 DEF NoJob, Jobs, Places, Released
    <3> HIDE DEF j
    <3>4. Sound(j) /\ ~Tells(j)
      BY <3>1, <3>2 DEF Sound, Tells, LeavesOpen
    <3> QED
      BY <2>1, <3>1, <3>3, <3>4
  <2>2. CASE Drop(p)
    BY <2>2, IdleIs, NoJobIsJob DEF Drop
  <2> QED
    BY <2>1, <2>2 DEF ReadGitHub
<1>5. PICK j \in Jobs : /\ job' = [job EXCEPT ![p] = j] /\ j.pc \in {"claim", "idle"}
                      /\ Sound(j) /\ ~Tells(j)
  BY <1>4
<1>6. /\ UNCHANGED <<github, row, late, raced, taken>> /\ died' = died
      /\ hand' = hand /\ hand.pc \in Hands
      /\ left' = left \/ left' = left - 1
  BY <1>2 DEF ReadGitHub, Event, IInv, Data, ghosts
<1> QED
  BY <1>1, <1>3, <1>5, <1>6, JobStep DEF Promising

LEMMA AnnounceKeeps == ASSUME IInv, NEW p \in Pollers, Announce(p) PROVE IInv'
<1>0. job \in [Workers -> Jobs] /\ "post" \in Places /\ "undo" \in Places
  BY DEF IInv, Data, Places, Promising
<1>1. p \in Workers /\ p \in Promised /\ job[p].pc = "close" /\ Sound(job[p])
  BY PollerIsWorker DEF Announce, Promised, Promising, IInv, AnswersHold
<1>2. TypeOK'
  BY ReleaseAssumption DEF Announce, Event, IInv, TypeOK, github, ledger, ghosts
<1>3. /\ UNCHANGED <<github, row, late, raced, taken>> /\ died' = died
      /\ hand' = hand /\ hand.pc \in Hands
      /\ left' = left \/ left' = left - 1
  BY DEF Announce, Event, IInv, Data, ledger, ghosts
<1>4. CASE issue.open /\ ~LeavesOpen(job[p]) /\ GoTo(p, "post")
  <2> DEFINE j == [job[p] EXCEPT !.pc = "post"]
  <2>1. /\ j \in Jobs /\ job' = [job EXCEPT ![p] = j] /\ j.pc = "post"
        /\ j.closed = job[p].closed /\ j.reopened = job[p].reopened
        /\ j.released = job[p].released
    BY <1>0, <1>1, <1>4, GoToIs
  <2> HIDE DEF j
  <2>2. Sound(j) /\ ~Tells(j)
    BY <1>1, <1>4, <2>1 DEF Sound, Tells, LeavesOpen
  <2> QED
    BY <1>1, <1>2, <1>3, <2>1, <2>2, JobStep DEF Promising
<1>5. CASE (~issue.open \/ LeavesOpen(job[p])) /\ Drop(p)
  <2>1. issue.open => issue.reopened
    BY <1>1, <1>5 DEF Sound, LeavesOpen
  <2> QED
    BY <1>1, <1>2, <1>3, <1>5, <2>1, IdleIs, NoJobIsJob, JobStep DEF Drop, Promising
<1>6. CASE GoTo(p, "undo")
  <2> DEFINE j == [job[p] EXCEPT !.pc = "undo"]
  <2>1. j \in Jobs /\ job' = [job EXCEPT ![p] = j] /\ j.pc = "undo"
    BY <1>0, <1>1, <1>6, GoToIs
  <2> HIDE DEF j
  <2>2. Sound(j) /\ ~Tells(j)
    BY <2>1 DEF Sound, Tells
  <2> QED
    BY <1>1, <1>2, <1>3, <2>1, <2>2, JobStep DEF Promising
<1> QED
  BY <1>4, <1>5, <1>6 DEF Announce

(* The claim: one more owes a comment, and the row is done.                *)
LEMMA ClaimKeeps == ASSUME IInv, NEW p \in Pollers, Claim(p) PROVE IInv'
<1>0. job \in [Workers -> Jobs] /\ "close" \in Places
  BY DEF IInv, Data, Places, Promising
<1>1. p \in Workers /\ p \notin Promised /\ job[p].pc = "claim" /\ Sound(job[p]) /\ row.sha
  BY PollerIsWorker DEF Claim, Promised, Promising, IInv, AnswersHold, Shas
<1>2. UNCHANGED <<github, rev, heard, file, hand, ghosts, left>>
  BY DEF Claim
<1>3. CASE row' = row /\ Drop(p)
  <2>1. TypeOK'
    BY <1>2, <1>3 DEF IInv, TypeOK, github, ghosts
  <2>2. hand'.pc \in Hands
    BY <1>2 DEF IInv, Data
  <2> QED
    BY <1>1, <1>2, <1>3, <2>1, <2>2, IdleIs, NoJobIsJob, JobStep DEF Drop, Promising, ghosts
<1>4. CASE /\ row.state = "merged_dev" /\ row' = [row EXCEPT !.state = "done"]
           /\ (job[p].released /\ GoTo(p, "close")) \/ (job[p].closed /\ Drop(p))
  <2> DEFINE c == [job[p] EXCEPT !.pc = "close"]
  <2>1. /\ row' \in Rows /\ row'.state = "done" /\ row'.sha
        /\ row'.path = row.path /\ row'.pr = row.pr
    BY <1>1, <1>4 DEF IInv, Data, Rows, States, TerminalStates
  <2>2. GoTo(p, "close") =>
            /\ c \in Jobs /\ job' = [job EXCEPT ![p] = c] /\ c.pc = "close"
            /\ c.closed = job[p].closed /\ c.reopened = job[p].reopened
            /\ c.released = job[p].released
    BY <1>0, <1>1, GoToIs
  <2> HIDE DEF c
  <2>3. job[p].released /\ GoTo(p, "close") => Sound(c) /\ ~Tells(c)
    BY <1>1, <2>2 DEF Sound, Tells, LeavesOpen
  <2>4. \E j \in Jobs :
            /\ job' = [job EXCEPT ![p] = j] /\ Sound(j) /\ ~Tells(j)
            /\ j.pc \in {"close", "idle"} /\ (j.pc = "idle" => job[p].closed)
    BY <1>4, <2>2, <2>3, IdleIs, NoJobIsJob DEF Drop
  <2>5. PICK j \in Jobs :
            /\ job' = [job EXCEPT ![p] = j] /\ Sound(j) /\ ~Tells(j)
            /\ j.pc \in {"close", "idle"} /\ (j.pc = "idle" => job[p].closed)
    BY <2>4
  <2>6. /\ job' \in [Workers -> Jobs] /\ job'[p] = j
        /\ \A v \in Workers : v # p => job'[v] = job[v]
    BY <1>0, <1>1, <2>5, JobIs
  <2>7. TypeOK'
    BY <1>2, <2>1 DEF IInv, TypeOK, TerminalStates, github, ghosts
  <2>8. Data'
    BY <1>2, <2>1, <2>6 DEF IInv, Data, github, ghosts
  <2>9. GitHub'
    BY <1>2, <2>5, <2>6 DEF IInv, GitHub, github
  <2>10. AnswersHold'
    BY <1>2, <2>5, <2>6, PollerIsWorker DEF IInv, AnswersHold, Sound, LeavesOpen, github, ghosts
  <2>11. Shas'
    BY <2>1 DEF Shas
  <2>12. Merges'
    <3>1. Tellers' \subseteq Tellers
      BY <2>5, <2>6 DEF Tellers, Tells
    <3>2. row'.state \in TerminalStates
      BY <2>1 DEF TerminalStates
    <3> QED
      BY <1>2, <3>1, <3>2, NewsStay DEF github, ghosts
  <2>13. Releases'
    <3>1. Cardinality(Promised') \in Nat /\ Cardinality(Promised') <= Cardinality(Promised) + 1
      BY <1>0, <1>1, <2>5, PromisesChange
    <3>2. left \in 0..Budget /\ Budget \in Nat /\ said.released \in Nat
      BY ReleaseAssumption DEF IInv, TypeOK, Data
    <3> QED
      BY <1>2, <1>4, <2>1, <3>1, <3>2, Finite DEF IInv, Releases, github, ghosts
  <2>14. NothingForgotten'
    <3>1. j.pc = "close" \/ ~issue.open \/ issue.reopened
      BY <1>1, <2>5 DEF Sound
    <3> QED
      BY <1>2, <2>6, <3>1 DEF NothingForgotten, github
  <2> QED
    BY <2>7, <2>8, <2>9, <2>10, <2>11, <2>12, <2>13, <2>14 DEF IInv
<1> QED
  BY <1>3, <1>4 DEF Claim, Wins

(* The comment, and with it the issue, or only the comment.                *)
LEMMA PostKeeps == ASSUME IInv, NEW p \in Pollers, Post(p) PROVE IInv'
<1>0. job \in [Workers -> Jobs] /\ "undo" \in Places
  BY DEF IInv, Data, Places, Promising
<1>1. /\ p \in Workers /\ p \in Promised /\ job[p].pc = "post"
      /\ prod /\ row.sha /\ ~LeavesOpen(job[p]) /\ (issue.reopened => raced)
  BY PollerIsWorker DEF Post, Promised, Promising, IInv, AnswersHold, Sound, Shas
<1>2. UNCHANGED <<flow, pr, prod, ledger, file, hand, ghosts>>
  BY DEF Post
<1>3. /\ said' \in [merged : Nat, released : Nat] /\ said'.merged = said.merged
      /\ said'.released = said.released + 1
  BY DEF Post, IInv, Data
<1>4. issue' = issue \/ issue' = [issue EXCEPT !.open = FALSE, !.by = "harness"]
  BY DEF Post
<1>5. /\ issue' \in [open : BOOLEAN, reopened : BOOLEAN,
                     by : {None, "person", "github", "harness"}]
      /\ issue'.reopened = issue.reopened
      /\ issue'.open => issue.open
  BY <1>4 DEF IInv, TypeOK
<1>6. \/ Drop(p) /\ left' = left /\ ~issue'.open
      \/ GoTo(p, "undo") /\ left' = left - 1 /\ left > 0
  <2>1. \/ Drop(p) /\ left' = left
        \/ GoTo(p, "undo") /\ left' = left - 1 /\ left > 0
    BY DEF Post, Event
  <2>2. left' = left => ~issue'.open
    BY DEF Post, IInv, TypeOK
  <2> QED
    BY <2>1, <2>2
<1>7. \E j \in Jobs :
          /\ job' = [job EXCEPT ![p] = j] /\ Sound(j) /\ ~Tells(j)
          /\ \/ j.pc = "idle" /\ left' = left /\ ~issue'.open
             \/ j.pc = "undo" /\ left' = left - 1 /\ left > 0
  <2> DEFINE u == [job[p] EXCEPT !.pc = "undo"]
  <2>1. GoTo(p, "undo") => u \in Jobs /\ job' = [job EXCEPT ![p] = u] /\ u.pc = "undo"
    BY <1>0, <1>1, GoToIs
  <2> HIDE DEF u
  <2>2. u.pc = "undo" => Sound(u) /\ ~Tells(u)
    BY DEF Sound, Tells
  <2> QED
    BY <1>6, <2>1, <2>2, IdleIs, NoJobIsJob DEF Drop
<1>8. PICK j \in Jobs :
          /\ job' = [job EXCEPT ![p] = j] /\ Sound(j) /\ ~Tells(j)
          /\ \/ j.pc = "idle" /\ left' = left /\ ~issue'.open
             \/ j.pc = "undo" /\ left' = left - 1 /\ left > 0
  BY <1>7
<1>9. /\ job' \in [Workers -> Jobs] /\ job'[p] = j
      /\ \A v \in Workers : v # p => job'[v] = job[v]
  BY <1>0, <1>1, <1>8, JobIs
<1>10. TypeOK'
  BY <1>2, <1>5, <1>8, ReleaseAssumption DEF IInv, TypeOK, ledger, ghosts
<1>11. Data'
  BY <1>2, <1>3, <1>9 DEF IInv, Data, ledger, ghosts
<1>12. GitHub'
  BY <1>2, <1>5, <1>8, <1>9 DEF IInv, GitHub
<1>13. AnswersHold'
  <2>1. \A q \in Pollers : q # p => Sound(job[q]) /\ job'[q] = job[q]
    BY <1>9, PollerIsWorker DEF IInv, AnswersHold
  <2>2. j.pc \in {"idle", "undo"}
    BY <1>8
  <2> QED
    BY <1>2, <1>5, <1>9, <2>1, <2>2 DEF AnswersHold, Sound, LeavesOpen, ghosts
<1>14. Shas'
  BY <1>1, <1>2 DEF IInv, Shas, ledger
<1>15. Merges'
  <2>1. Tellers' \subseteq Tellers
    BY <1>8, <1>9 DEF Tellers, Tells
  <2> QED
    BY <1>2, <1>3, <2>1, NewsStay DEF ledger, ghosts
<1>16. Releases'
  <2> DEFINE n == Cardinality(Promised)
             m == Cardinality(Promised')
  <2>1. /\ n \in Nat /\ m \in Nat
        /\ j.pc = "idle" => m = n - 1
        /\ j.pc = "undo" => m = n
    BY <1>0, <1>1, <1>8, PromisesChange, Finite DEF Promising
  <2>2. left \in 0..Budget /\ Budget \in Nat /\ said.released \in Nat
    BY ReleaseAssumption DEF IInv, TypeOK, Data
  <2>3. taken \/ late \/ said.released + n <= (Budget - left) + (IF row.state = "done" THEN 1 ELSE 0)
    BY DEF IInv, Releases
  <2>4. row' = row /\ taken' = taken /\ late' = late
    BY <1>2 DEF ledger, ghosts
  <2> HIDE DEF n, m
  <2>5. \/ taken' \/ late'
        \/ said'.released + m <= (Budget - left') + (IF row'.state = "done" THEN 1 ELSE 0)
    BY <1>3, <1>8, <2>1, <2>2, <2>3, <2>4
  <2> QED
    BY <2>5 DEF Releases, n, m
<1>17. NothingForgotten'
  <2>1. CASE ~issue'.open
    BY <2>1 DEF NothingForgotten
  <2>2. CASE j.pc = "undo"
    BY <1>9, <2>2 DEF NothingForgotten
  <2> QED
    BY <1>8, <2>1, <2>2
<1> QED
  BY <1>10, <1>11, <1>12, <1>13, <1>14, <1>15, <1>16, <1>17 DEF IInv

(* The claim is given back.                                                *)
LEMMA UndoKeeps == ASSUME IInv, NEW p \in Pollers, Undo(p) PROVE IInv'
<1>0. job \in [Workers -> Jobs]
  BY DEF IInv, Data
<1>1. p \in Workers /\ p \in Promised /\ row.sha
  BY PollerIsWorker DEF Undo, Promised, Promising, IInv, Shas
<1>2. UNCHANGED <<github, rev, heard, file, hand, ghosts, left>>
  BY DEF Undo
<1>3. /\ row' \in Rows /\ row'.sha /\ row'.path = row.path /\ row'.pr = row.pr
      /\ row'.state = IF row.state = "done" THEN "merged_dev" ELSE row.state
  BY <1>1 DEF Undo, Undone, IInv, Data, Rows, States, TerminalStates
<1>4. NoJob \in Jobs /\ job' = [job EXCEPT ![p] = NoJob]
  BY NoJobIsJob DEF Undo, Drop
<1>5. /\ job' \in [Workers -> Jobs] /\ job'[p] = NoJob
      /\ \A v \in Workers : v # p => job'[v] = job[v]
  BY <1>0, <1>1, <1>4, JobIs
<1>6. TypeOK'
  BY <1>2, <1>3 DEF IInv, TypeOK, TerminalStates, github, ghosts
<1>7. Data'
  BY <1>2, <1>3, <1>5 DEF IInv, Data, github, ghosts
<1>8. GitHub'
  BY <1>2, <1>5, IdleIs DEF IInv, GitHub, github
<1>9. AnswersHold'
  <2>1. \A q \in Pollers : q # p => Sound(job[q]) /\ job'[q] = job[q]
    BY <1>5, PollerIsWorker DEF IInv, AnswersHold
  <2> QED
    BY <1>2, <1>5, <2>1, IdleIs DEF AnswersHold, Sound, LeavesOpen, github, ghosts
<1>10. Shas'
  BY <1>3 DEF Shas
<1>11. Merges'
  <2>1. Tellers' \subseteq Tellers
    BY <1>5, IdleIs DEF Tellers, Tells
  <2>2. row.state \in TerminalStates => row'.state \in TerminalStates
    BY <1>3 DEF TerminalStates
  <2> QED
    BY <1>2, <2>1, <2>2, NewsStay DEF github, ghosts
<1>12. Releases'
  <2> DEFINE n == Cardinality(Promised)
             m == Cardinality(Promised')
  <2>1. n \in Nat /\ m \in Nat /\ m = n - 1
    BY <1>0, <1>1, <1>4, IdleIs, PromisesChange, Finite DEF Promising
  <2>2. left \in 0..Budget /\ Budget \in Nat /\ said.released \in Nat
    BY ReleaseAssumption DEF IInv, TypeOK, Data
  <2>3. taken \/ late \/ said.released + n <= (Budget - left) + (IF row.state = "done" THEN 1 ELSE 0)
    BY DEF IInv, Releases
  <2>4. left' = left /\ said' = said /\ taken' = taken /\ late' = late
    BY <1>2 DEF github, ghosts
  <2> HIDE DEF n, m
  <2>5. \/ taken' \/ late'
        \/ said'.released + m <= (Budget - left') + (IF row'.state = "done" THEN 1 ELSE 0)
    BY <1>3, <2>1, <2>2, <2>3, <2>4
  <2> QED
    BY <2>5 DEF Releases, n, m
<1>13. NothingForgotten'
  BY <1>3 DEF NothingForgotten
<1> QED
  BY <1>6, <1>7, <1>8, <1>9, <1>10, <1>11, <1>12, <1>13 DEF IInv

(* The news of the merge is told, with a comment or without.               *)
LEMMA NewsKeeps ==
    ASSUME IInv, NEW w \in Workers, job[w].pc \in {"tell", "pull"}, GoTo(w, "move"),
           said' = (IF job[w].comment THEN [said EXCEPT !.merged = @ + 1] ELSE said),
           UNCHANGED <<flow, pr, prod, issue, row, hand, ghosts, left>>, TypeOK'
    PROVE  IInv'
<1> DEFINE j == [job[w] EXCEPT !.pc = "move"]
<1>0. job \in [Workers -> Jobs] /\ "move" \in Places
  BY DEF IInv, Data, Places
<1>1. j \in Jobs /\ job' = [job EXCEPT ![w] = j] /\ j.pc = "move"
  BY <1>0, GoToIs
<1> HIDE DEF j
<1>2. /\ job' \in [Workers -> Jobs] /\ job'[w] = j
      /\ \A v \in Workers : v # w => job'[v] = job[v]
  BY <1>0, <1>1, JobIs
<1>3. /\ said' \in [merged : Nat, released : Nat] /\ said'.released = said.released
      /\ said'.merged = IF job[w].comment THEN said.merged + 1 ELSE said.merged
  BY DEF IInv, Data
<1>4. w \notin Promised
  BY DEF Promised, Promising
<1>5. Data'
  BY <1>2, <1>3 DEF IInv, Data, ghosts
<1>6. GitHub'
  BY <1>1, <1>2 DEF IInv, GitHub
<1>7. AnswersHold'
  <2>1. \A q \in Pollers : q # w => Sound(job[q]) /\ job'[q] = job[q]
    BY <1>2, PollerIsWorker DEF IInv, AnswersHold
  <2> QED
    BY <1>1, <1>2, <2>1 DEF AnswersHold, Sound, LeavesOpen, ghosts
<1>8. Shas'
  BY <1>1, <1>2, <1>3, PollerIsWorker DEF IInv, Shas, Promising
<1>9. Merges'
  <2>0. said.merged \in Nat /\ Merges
    BY DEF IInv, Data
  <2>1. ~Tells(job'[w]) /\ (Tells(job[w]) <=> job[w].comment)
    BY <1>1, <1>2 DEF Tells
  <2>2. Tellers' = Tellers \ {w}
    BY <1>2, <2>1 DEF Tellers, Tells
  <2>3. CASE job[w].comment
    <3>1. w \in Tellers /\ said'.merged = said.merged + 1
      BY <1>3, <2>1, <2>3 DEF Tellers
    <3>2. /\ ~NoNews(Tellers, said.merged)
          /\ OneNews(Tellers, said.merged) => OneNews(Tellers', said'.merged)
          /\ TwoNews(Tellers, said.merged) => TwoNews(Tellers', said'.merged)
      <4> DEFINE T == Tellers
      <4> HIDE DEF T
      <4>1. w \in T /\ said.merged \in Nat
        BY <2>0, <3>1 DEF T
      <4>2. /\ ~NoNews(T, said.merged)
            /\ OneNews(T, said.merged) => OneNews(T \ {w}, said.merged + 1)
            /\ TwoNews(T, said.merged) => TwoNews(T \ {w}, said.merged + 1)
        BY <4>1, NewsTold
      <4> QED
        BY <2>2, <3>1, <4>2 DEF T
    <3>3. row' = row /\ late' = late
      BY DEF ghosts
    <3> QED
      BY <2>0, <3>2, <3>3 DEF Merges
  <2>4. CASE ~job[w].comment
    <3>1. said'.merged = said.merged /\ Tellers' \subseteq Tellers
      BY <1>3, <2>2, <2>4
    <3> QED
      BY <3>1, NewsStay DEF ghosts
  <2> QED
    BY <2>3, <2>4
<1>10. Releases'
  <2>1. Cardinality(Promised') = Cardinality(Promised)
    BY <1>0, <1>1, <1>4, PromisesChange DEF Promising
  <2> QED
    BY <1>3, <2>1 DEF IInv, Releases, ghosts
<1>11. NothingForgotten'
  <2>1. \A q \in Pollers : job[q].pc \in Promising => job'[q] = job[q]
    BY <1>2, PollerIsWorker DEF Promising
  <2> QED
    BY <2>1 DEF IInv, NothingForgotten, Promising, ghosts
<1> QED
  BY <1>5, <1>6, <1>7, <1>8, <1>9, <1>10, <1>11 DEF IInv

LEMMA TellKeeps == ASSUME IInv, NEW w \in Workers, Tell(w) PROVE IInv'
<1>1. TypeOK'
  BY DEF Tell, IInv, TypeOK, ledger, ghosts
<1> QED
  BY <1>1, NewsKeeps DEF Tell, ledger

LEMMA PullKeeps == ASSUME IInv, NEW p \in Pollers, Pull(p) PROVE IInv'
<1>1. TypeOK'
  BY DEF Pull, ClosesRound, IInv, TypeOK, ghosts
<1> QED
  BY <1>1, NewsKeeps, PollerIsWorker DEF Pull

(* The row changes and with it the job of one worker, who was not about to *)
(* release it and is not now.                                              *)
LEMMA RowStep ==
    ASSUME IInv, NEW w \in Workers, NEW j \in Jobs, job' = [job EXCEPT ![w] = j],
           UNCHANGED <<github, hand, died, late, raced>>,
           TypeOK', row' \in Rows, row.sha => row'.sha, taken => taken',
           left' = left \/ left' = left - 1,
           row.state \in TerminalStates => row'.state \in TerminalStates,
           j.pc \notin {"listed", "handle", "read", "claim"} \cup Promising, w \notin Promised,
           Tells(j) => row.state \notin TerminalStates /\ row'.state \in TerminalStates,
           row'.state # row.state \/ row'.sha # row.sha =>
               (row'.state = "done" /\ row'.sha => ~issue.open \/ issue.reopened),
           row.state = "done" /\ row'.state # "done" => taken' \/ ~row.sha
    PROVE  IInv'
<1>0. job \in [Workers -> Jobs]
  BY DEF IInv, Data
<1>1. /\ job' \in [Workers -> Jobs] /\ job'[w] = j
      /\ \A v \in Workers : v # w => job'[v] = job[v]
  BY <1>0, JobIs
<1>2. Data'
  BY <1>1 DEF IInv, Data, github
<1>3. GitHub'
  BY <1>1 DEF IInv, GitHub, github
<1>4. AnswersHold'
  <2>1. \A q \in Pollers : q # w => Sound(job[q]) /\ job'[q] = job[q]
    BY <1>1, PollerIsWorker DEF IInv, AnswersHold
  <2>2. j.pc \notin {"claim", "close", "post"}
    BY DEF Promising
  <2> QED
    BY <1>1, <2>1, <2>2 DEF AnswersHold, Sound, LeavesOpen, github
<1>5. Shas'
  BY <1>1, PollerIsWorker DEF IInv, Shas, TypeOK, github
<1>6. Merges'
  <2>0. said.merged \in Nat /\ Merges /\ late' = late /\ said' = said
    BY DEF IInv, Data, github
  <2>1. CASE Tells(j)
    <3>1. Tellers' \subseteq Tellers \cup {w}
      BY <1>1 DEF Tellers
    <3>2. /\ NoNews(Tellers, said.merged) => OneNews(Tellers', said.merged)
          /\ OneNews(Tellers, said.merged) => TwoNews(Tellers', said.merged)
      BY <2>0, <3>1, NewsComes
    <3> QED
      BY <2>0, <2>1, <3>2 DEF Merges
  <2>2. CASE ~Tells(j)
    <3>1. Tellers' \subseteq Tellers
      BY <1>1, <2>2 DEF Tellers
    <3> QED
      BY <2>0, <3>1, NewsStay
  <2> QED
    BY <2>1, <2>2
<1>7. Releases'
  <2> DEFINE n == Cardinality(Promised)
             m == Cardinality(Promised')
  <2>1. n \in Nat /\ m = n
    BY <1>0, PromisesChange, Finite
  <2>2. left \in 0..Budget /\ Budget \in Nat /\ said.released \in Nat
    BY ReleaseAssumption DEF IInv, TypeOK, Data
  <2>3. taken \/ late \/ said.released + n <= (Budget - left) + (IF row.state = "done" THEN 1 ELSE 0)
    BY DEF IInv, Releases
  <2>4. ~row.sha => said.released = 0 /\ n = 0
    <3>1. ~row.sha => Promised = {}
      BY DEF IInv, Shas, Promised
    <3>2. ~row.sha => n = 0
      BY <3>1, FS_EmptySet
    <3>3. ~row.sha => said.released = 0
      BY <2>2 DEF IInv, Shas
    <3> QED
      BY <3>2, <3>3
  <2>5. said' = said /\ late' = late
    BY DEF github
  <2> HIDE DEF n, m
  <2>6. \/ taken' \/ late'
        \/ said'.released + m <= (Budget - left') + (IF row'.state = "done" THEN 1 ELSE 0)
    BY <2>1, <2>2, <2>3, <2>4, <2>5
  <2> QED
    BY <2>6 DEF Releases, n, m
<1>8. NothingForgotten'
  <2>1. \A q \in Pollers : job[q].pc \in Promising => job'[q] = job[q]
    BY <1>1, PollerIsWorker DEF Promised
  <2>2. CASE row'.state = row.state /\ row'.sha = row.sha
    BY <2>1, <2>2 DEF IInv, NothingForgotten, Promising, github
  <2>3. CASE row'.state # row.state \/ row'.sha # row.sha
    BY <2>3 DEF NothingForgotten, github
  <2> QED
    BY <2>2, <2>3
<1> QED
  BY <1>2, <1>3, <1>4, <1>5, <1>6, <1>7, <1>8 DEF IInv

LEMMA NotePathKeeps == ASSUME IInv, NEW w \in Workers, NotePath(w) PROVE IInv'
<1>1. /\ row' \in Rows /\ row'.state = row.state /\ row'.sha = row.sha
  BY DEF NotePath, IInv, Data, Rows, Folders
<1>2. Next1(w) \in Jobs /\ Next1(w).pc \in {"idle", "migrate"} /\ ~Tells(Next1(w))
  BY IdleIs, NoJobIsJob
<1>3. /\ job' = [job EXCEPT ![w] = Next1(w)] /\ w \notin Promised
      /\ UNCHANGED <<github, rev, heard, file, hand, ghosts, left>>
  BY DEF NotePath, Promised, Promising
<1>4. TypeOK'
  BY <1>1, <1>3 DEF IInv, TypeOK, github, ghosts
<1> QED
  BY <1>1, <1>2, <1>3, <1>4, RowStep DEF Promising, ghosts

(* The merge.  Only a merge that GitHub closes the issue for makes the row *)
(* done.                                                                   *)
LEMMA HandleKeeps == ASSUME IInv, NEW w \in Workers, Handle(w) PROVE IInv'
<1>0. job \in [Workers -> Jobs]
  BY DEF IInv, Data
<1>1. /\ w \notin Promised /\ pr = "merged" /\ ~Tells(job[w])
      /\ (flow.closes => ~issue.open \/ issue.reopened)
  BY DEF Handle, Promised, Promising, Tells, IInv, GitHub
<1>2. PICK known \in BOOLEAN :
          LET toProd == flow.prod /\ known
              closes == flow.closes /\ known
          IN  /\ IF known THEN UNCHANGED left ELSE Event
              /\ IF Duplicate(w)
                 THEN UNCHANGED <<row, rev>> /\ job' = [job EXCEPT ![w] = Next1(w)]
                 ELSE /\ rev' = ClosesRound(rev)
                      /\ IF Skipped(row.state)
                         THEN UNCHANGED row /\ job' = [job EXCEPT ![w] = Next1(w)]
                         ELSE /\ row' = [row EXCEPT !.sha = TRUE,
                                    !.state = IF Parks(toProd, closes) THEN "merged_dev"
                                              ELSE "done",
                                    !.pr = @ \/ Parks(toProd, closes)]
                              /\ job' = [job EXCEPT ![w] = [NoJob EXCEPT
                                    !.pc = "tell", !.path = row.path,
                                    !.comment = ~toProd /\ ~closes]]
  BY DEF Handle
<1>3. /\ left' = left \/ (left' = left - 1 /\ left > 0)
      /\ rev' \in {rev, ClosesRound(rev)}
      /\ UNCHANGED <<github, file, hand, ghosts>>
  BY <1>2 DEF Handle, Event
<1>4. left' \in 0..Budget /\ rev' \in {"absent", "open", "done"}
  BY <1>3, ReleaseAssumption DEF IInv, TypeOK, ClosesRound
<1>5. CASE row' = row /\ job' = [job EXCEPT ![w] = Next1(w)]
  <2>1. TypeOK'
    BY <1>3, <1>4, <1>5 DEF IInv, TypeOK, github, ghosts
  <2>2. Next1(w) \in Jobs /\ Next1(w).pc \in {"idle", "migrate"} /\ ~Tells(Next1(w))
    BY IdleIs, NoJobIsJob
  <2>3. row' \in Rows /\ row'.state = row.state /\ row'.sha = row.sha
    BY <1>5 DEF IInv, Data
  <2> QED
    BY <1>1, <1>3, <1>5, <2>1, <2>2, <2>3, RowStep DEF Promising, ghosts
<1>6. CASE ~(row' = row /\ job' = [job EXCEPT ![w] = Next1(w)])
  <2> DEFINE c == ~(flow.prod /\ known) /\ ~(flow.closes /\ known)
             j == [NoJob EXCEPT !.pc = "tell", !.path = row.path, !.comment = c]
             b == Parks(flow.prod /\ known, flow.closes /\ known)
  <2>1. /\ row.state \notin TerminalStates
        /\ row' = [row EXCEPT !.sha = TRUE, !.state = IF b THEN "merged_dev" ELSE "done",
                              !.pr = @ \/ b]
        /\ job' = [job EXCEPT ![w] = j]
    BY <1>2, <1>6 DEF Skipped
  <2>2. b \in BOOLEAN /\ c \in BOOLEAN /\ (~b => flow.closes)
    BY DEF Parks
  <2> HIDE DEF c, b
  <2>3. j \in Jobs /\ j.pc = "tell"
    BY <2>2 DEF NoJob, Jobs, Places, IInv, Data, Rows
  <2>4. /\ row' \in Rows /\ row'.sha = TRUE
        /\ row'.state = IF b THEN "merged_dev" ELSE "done"
    BY <2>1, <2>2 DEF IInv, Data, Rows, States, TerminalStates
  <2> HIDE DEF j
  <2>5. TypeOK'
    BY <1>3, <1>4, <2>4 DEF IInv, TypeOK, TerminalStates, github, ghosts
  <2>6. /\ row'.state \in TerminalStates /\ row.state # "done"
        /\ row'.state = "done" => ~issue.open \/ issue.reopened
    BY <1>1, <2>1, <2>2, <2>4 DEF TerminalStates
  <2> QED
    BY <1>1, <1>3, <2>1, <2>3, <2>4, <2>5, <2>6, RowStep DEF Promising, ghosts
<1> QED
  BY <1>5, <1>6

(* The migration: it moves only a row that still says what it listed.      *)
LEMMA MigrateKeeps == ASSUME IInv, NEW p \in Pollers, Migrate(p) PROVE IInv'
<1>0. job \in [Workers -> Jobs]
  BY DEF IInv, Data
<1>1. /\ p \in Workers /\ p \notin Promised /\ ~Tells(job[p])
  BY PollerIsWorker DEF Migrate, Promised, Promising, Tells
<1>2. /\ UNCHANGED <<github, rev, heard, file, hand, died, late, lost, raced, left>>
      /\ taken' = (taken \/ (row.sha /\ row.state = "done" /\ row'.state # "done"))
  BY DEF Migrate
<1> DEFINE parks == pr = "merged" /\ Parks(flow.prod, flow.closes)
           jp == [job[p] EXCEPT !.pc = "pull", !.comment = ~flow.prod /\ ~flow.closes]
           jr == [NoJob EXCEPT !.pc = "release"]
<1>3. jr \in Jobs /\ jr.pc = "release" /\ ~Tells(jr)
  BY IdleIs
<1>4. jp \in Jobs /\ jp.pc = "pull"
  BY <1>0, <1>1 DEF Jobs, Places
<1>5. CASE parks /\ row.state = job[p].was
  <2>1. /\ row' = [row EXCEPT !.state = "merged_dev", !.sha = @ \/ TRUE]
        /\ job' = [job EXCEPT ![p] = IF job[p].was = "pr_open" THEN jp ELSE jr]
    BY <1>5 DEF Migrate, Moves
  <2>2. row' \in Rows /\ row'.sha = TRUE /\ row'.state = "merged_dev"
    BY <2>1 DEF IInv, Data, Rows, States, TerminalStates
  <2>3. TypeOK'
    <3>1. taken' \in BOOLEAN
      BY <1>2 DEF IInv, TypeOK, Data, Rows
    <3> QED
      BY <1>2, <2>2, <3>1 DEF IInv, TypeOK, TerminalStates, github
  <2> DEFINE j == IF job[p].was = "pr_open" THEN jp ELSE jr
  <2>4. /\ j \in Jobs /\ job' = [job EXCEPT ![p] = j] /\ j.pc \in {"pull", "release"}
        /\ Tells(j) => row.state = "pr_open"
    BY <1>3, <1>4, <1>5, <2>1
  <2> HIDE DEF parks, jp, jr, j
  <2>5. row'.state # "done" /\ row'.state \in TerminalStates
    BY <2>2 DEF TerminalStates
  <2>6. Tells(j) => row.state \notin TerminalStates
    BY <2>4 DEF TerminalStates
  <2>7. row.state = "done" /\ row.sha => taken'
    BY <1>2, <2>5, Zenon
  <2>8. taken => taken'
    BY <1>2, Zenon
  <2>9. row.sha => row'.sha
    BY <2>2, Zenon
  <2>10. UNCHANGED <<github, hand, died, late, raced>> /\ left' = left
    BY <1>2
  <2>11. j.pc \notin {"listed", "handle", "read", "claim"} \cup Promising
    BY <2>4 DEF Promising
  <2>12. row.state = "done" /\ row'.state # "done" => taken' \/ ~row.sha
    BY <2>7, Zenon
  <2>13. row'.state = "done" /\ row'.sha => ~issue.open \/ issue.reopened
    BY <2>5
  <2> QED
    BY <1>1, <2>2, <2>3, <2>4, <2>5, <2>6, <2>8, <2>9, <2>10, <2>11, <2>12, <2>13, RowStep
<1>6. CASE ~(parks /\ row.state = job[p].was)
  <2> DEFINE b == pr = "merged" /\ ~parks /\ job[p].was = "done"
  <2>1. /\ row' = [row EXCEPT !.sha = @ \/ b] /\ job' = [job EXCEPT ![p] = jr]
    BY <1>6 DEF Migrate
  <2>2. b => flow.closes /\ pr = "merged"
    BY DEF Parks
  <2>3. b \in BOOLEAN
    OBVIOUS
  <2> HIDE DEF b, parks, jp, jr
  <2>4. row' \in Rows /\ row'.state = row.state /\ row'.sha = (row.sha \/ b)
    BY <2>1, <2>3 DEF IInv, Data, Rows
  <2>5. TypeOK'
    <3>1. taken' \in BOOLEAN
      BY <1>2 DEF IInv, TypeOK, Data, Rows
    <3>2. row.state = "merged_dev" => row'.sha
      <4>1. row.state = "merged_dev" => row.sha
        BY DEF IInv, TypeOK
      <4> QED
        BY <2>4, <4>1, Zenon
    <3> QED
      BY <1>2, <2>4, <3>1, <3>2 DEF IInv, TypeOK, github
  <2>6. b => ~issue.open \/ issue.reopened
    BY <2>2 DEF IInv, GitHub
  <2>7. /\ row.sha => row'.sha
        /\ row.state \in TerminalStates => row'.state \in TerminalStates
        /\ row.state = "done" => row'.state = "done"
        /\ taken => taken'
        /\ row'.state # row.state \/ row'.sha # row.sha => ~issue.open \/ issue.reopened
    <3>1. row'.sha # row.sha => b
      BY <2>3, <2>4 DEF IInv, Data, Rows
    <3> QED
      BY <1>2, <2>4, <2>6, <3>1
  <2> QED
    BY <1>1, <1>2, <1>3, <2>1, <2>4, <2>5, <2>7, RowStep DEF Promising
<1> QED
  BY <1>5, <1>6

-----------------------------------------------------------------------------
(* The dispatcher, people and GitHub: no worker moves.                     *)
LEMMA OutsideStep ==
    ASSUME IInv, TypeOK', GitHub',
           UNCHANGED <<flow, row, job, said, late, taken, raced>>,
           hand'.pc \in Hands, hand.pc = "over" => hand'.pc = "over",
           left' = left \/ left' = left - 1, died => died', prod => prod',
           issue'.open => issue.open, issue'.reopened = issue.reopened
    PROVE  IInv'
<1>1. Data'
  BY DEF IInv, Data
<1>2. AnswersHold'
  <2>1. \A p \in Pollers : Sound(job[p])
    BY DEF IInv, AnswersHold
  <2>2. \A p \in Pollers : Sound(job[p])'
    BY <2>1 DEF Sound, LeavesOpen
  <2> QED
    BY <2>2 DEF AnswersHold
<1>3. Shas'
  BY DEF IInv, Shas
<1>4. Merges'
  <2>1. Tellers' = Tellers
    BY DEF Tellers
  <2> QED
    BY <2>1, NewsStay
<1>5. Releases'
  <2>1. Promised' = Promised
    BY DEF Promised
  <2>2. left \in 0..Budget /\ Budget \in Nat /\ said.released \in Nat
    BY ReleaseAssumption DEF IInv, TypeOK, Data
  <2>3. Cardinality(Promised) \in Nat
    BY Finite
  <2> QED
    BY <2>1, <2>2, <2>3 DEF IInv, Releases
<1>6. NothingForgotten'
  BY DEF IInv, NothingForgotten
<1> QED
  BY <1>1, <1>2, <1>3, <1>4, <1>5, <1>6 DEF IInv

LEMMA OutsideKeeps ==
    ASSUME IInv,
           \/ OpenPR \/ (\E o \in {"pr_open", "failed"} : EndRun(o))
           \/ RecordLost \/ ReapBrief \/ DispatcherDies
           \/ Round \/ RoundDone \/ Merge \/ ReachesProd \/ CloseIssue \/ UNCHANGED vars
    PROVE  IInv'
<1> USE DEF github, ledger, ghosts
<1>0. /\ TypeOK /\ GitHub /\ hand.pc \in Hands
      /\ left \in 0..Budget /\ Budget \in Nat
  BY ReleaseAssumption DEF IInv, TypeOK, Data
<1>1. CASE OpenPR
  <2>1. TypeOK' /\ GitHub'
    BY <1>0, <1>1 DEF OpenPR, TypeOK, GitHub
  <2> QED
    BY <1>0, <1>1, <2>1, OutsideStep DEF OpenPR
<1>2. ASSUME NEW o \in {"pr_open", "failed"}, EndRun(o) PROVE IInv'
  <2>1. /\ UNCHANGED <<github, ledger, job, ghosts, left>>
        /\ hand' = (IF file = "ToDos" THEN [pc |-> o] ELSE [pc |-> "over"])
        /\ file' = IF file = "ToDos" /\ o = "pr_open" THEN "in-review" ELSE file
    BY <1>2 DEF EndRun
  <2>2. hand'.pc \in Hands
    <3>1. hand' = [pc |-> o] \/ hand' = [pc |-> "over"]
      BY <2>1
    <3> QED
      BY <3>1 DEF Hands
  <2>3. file' \in {"ToDos", "in-review", "completed"}
    <3>1. file' = file \/ file' = "in-review"
      BY <2>1
    <3> QED
      BY <1>0, <3>1 DEF TypeOK
  <2>4. TypeOK' /\ GitHub'
    BY <1>0, <2>1, <2>3 DEF TypeOK, GitHub
  <2>5. hand.pc # "over"
    BY <1>2 DEF EndRun
  <2> QED
    BY <2>1, <2>2, <2>4, <2>5, OutsideStep
<1>3. CASE DispatcherDies
  <2>1. TypeOK' /\ GitHub'
    BY <1>0, <1>3 DEF DispatcherDies, Event, TypeOK, GitHub
  <2> QED
    BY <1>0, <1>3, <2>1, OutsideStep DEF DispatcherDies, Event, Hands
<1>3a. CASE RecordLost
  <2>1. TypeOK' /\ GitHub'
    BY <1>0, <1>3a DEF RecordLost, Event, TypeOK, GitHub
  <2> QED
    BY <1>0, <1>3a, <2>1, OutsideStep DEF RecordLost, Event, Hands
<1>3b. CASE ReapBrief
  <2>1. TypeOK' /\ GitHub'
    BY <1>0, <1>3b DEF ReapBrief, TypeOK, GitHub
  <2> QED
    BY <1>0, <1>3b, <2>1, OutsideStep DEF ReapBrief, Orphaned, Hands
<1>4. CASE Round
  <2>1. TypeOK' /\ GitHub'
    BY <1>0, <1>4 DEF Round, Event, TypeOK, GitHub
  <2> QED
    BY <1>0, <1>4, <2>1, OutsideStep DEF Round, Event
<1>5. CASE RoundDone
  <2>1. TypeOK' /\ GitHub'
    BY <1>0, <1>5 DEF RoundDone, TypeOK, GitHub
  <2> QED
    BY <1>0, <1>5, <2>1, OutsideStep DEF RoundDone
<1>6. CASE Merge
  <2>1. /\ issue'.open => issue.open
        /\ issue'.reopened = issue.reopened
        /\ flow.closes => ~issue'.open \/ issue'.reopened
        /\ issue' \in [open : BOOLEAN, reopened : BOOLEAN,
                       by : {None, "person", "github", "harness"}]
    BY <1>0, <1>6 DEF Merge, TypeOK
  <2>2. ~prod
    BY <1>0, <1>6 DEF Merge, GitHub
  <2>3. TypeOK' /\ GitHub'
    BY <1>0, <1>6, <2>1 DEF Merge, TypeOK, GitHub
  <2> QED
    BY <1>0, <1>6, <2>1, <2>2, <2>3, OutsideStep DEF Merge
<1>7. CASE ReachesProd
  <2>1. TypeOK' /\ GitHub'
    BY <1>0, <1>7 DEF ReachesProd, TypeOK, GitHub
  <2> QED
    BY <1>0, <1>7, <2>1, OutsideStep DEF ReachesProd
<1>8. CASE CloseIssue
  <2>1. /\ ~issue'.open /\ issue'.reopened = issue.reopened
        /\ issue' \in [open : BOOLEAN, reopened : BOOLEAN,
                       by : {None, "person", "github", "harness"}]
    BY <1>0, <1>8 DEF CloseIssue, TypeOK
  <2>2. TypeOK' /\ GitHub'
    BY <1>0, <1>8, <2>1 DEF CloseIssue, Event, TypeOK, GitHub
  <2> QED
    BY <1>0, <1>8, <2>1, <2>2, OutsideStep DEF CloseIssue, Event
<1>9. CASE UNCHANGED vars
  <2>1. TypeOK' /\ GitHub'
    BY <1>0, <1>9 DEF vars, TypeOK, GitHub
  <2> QED
    BY <1>0, <1>9, <2>1, OutsideStep DEF vars
<1> QED
  BY <1>1, <1>2, <1>3, <1>3a, <1>3b, <1>4, <1>5, <1>6, <1>7, <1>8, <1>9

(* The dispatcher and its reaper write the row.                            *)
LEMMA WrittenKeeps == ASSUME IInv, Record \/ ReapRow PROVE IInv'
<1>1. /\ UNCHANGED <<github, rev, heard, file, job, died, lost, raced, taken, left>>
      /\ row' \in Rows /\ row'.sha = row.sha /\ row'.state \in {"pr_open", "failed"}
      /\ hand'.pc \in Hands
  <2>1. CASE Record
    <3> DEFINE path == IF hand.pc = "pr_open" THEN "in-review" ELSE row.path
               b == row.pr \/ hand.pc = "pr_open"
    <3>1. /\ row \in Rows /\ hand.pc \in {"pr_open", "failed"} /\ hand' = [pc |-> "over"]
          /\ row' = [row EXCEPT !.state = hand.pc, !.path = path, !.pr = b]
          /\ UNCHANGED <<github, rev, heard, file, job, died, lost, raced, taken, left>>
      BY <2>1 DEF IInv, Data, Record
    <3>2. b \in BOOLEAN /\ path \in Folders
      BY <3>1 DEF Rows, Folders
    <3> HIDE DEF b, path
    <3> QED
      BY <3>1, <3>2 DEF Rows, States, Hands
  <2>2. CASE ReapRow
    BY <2>2 DEF IInv, Data, ReapRow, Rows, States, ghosts
  <2> QED
    BY <2>1, <2>2
<1>2. /\ row'.state \notin TerminalStates /\ late' \in BOOLEAN /\ (late => late')
      /\ row.state \in TerminalStates => late'
  <2>1. CASE Record
    <3>1. late' = (late \/ row.state \in TerminalStates)
      BY <2>1 DEF Record
    <3>2. late' \in BOOLEAN
      BY <3>1
    <3>3. (late => late') /\ (row.state \in TerminalStates => late')
      BY <3>1, Zenon
    <3> QED
      BY <1>1, <3>2, <3>3 DEF TerminalStates
  <2>2. CASE ReapRow
    BY <1>1, <2>2 DEF IInv, TypeOK, ReapRow, TerminalStates, ghosts
  <2> QED
    BY <2>1, <2>2
<1>2a. late' => hand'.pc = "over"
  <2>1. CASE Record
    BY <2>1 DEF Record
  <2>2. CASE ReapRow
    <3>1. late' = late /\ hand' = hand
      BY <2>2 DEF ReapRow, ghosts
    <3> QED
      BY <3>1 DEF IInv, Data
  <2> QED
    BY <2>1, <2>2
<1>3. TypeOK'
  BY <1>1, <1>2 DEF IInv, TypeOK, TerminalStates, github
<1>4. Data' /\ GitHub'
  BY <1>1, <1>2a DEF IInv, Data, GitHub, github
<1>5. AnswersHold'
  BY <1>1 DEF IInv, AnswersHold, Sound, LeavesOpen, github
<1>6. Shas'
  BY <1>1, <1>2 DEF IInv, Shas, TerminalStates, github
<1>7. Merges'
  <2>1. Tellers' = Tellers /\ said' = said /\ Merges
    BY <1>1 DEF Tellers, IInv, github
  <2>2. CASE Record
    <3>1. ~late /\ (late' <=> row.state \in TerminalStates)
      BY <2>2 DEF Record, IInv, Data
    <3> QED
      BY <1>2, <2>1, <3>1 DEF Merges
  <2>3. CASE ReapRow
    <3>1. row.state \notin TerminalStates /\ late' = late
      BY <2>3 DEF ReapRow, TerminalStates, ghosts
    <3> QED
      BY <2>1, <3>1, NewsStay
  <2> QED
    BY <2>2, <2>3
<1>8. Releases'
  <2>1. Promised' = Promised
    BY <1>1 DEF Promised
  <2>2. row.state = "done" => late'
    BY <1>2 DEF TerminalStates
  <2> QED
    BY <1>1, <1>2, <2>1, <2>2 DEF IInv, Releases, TerminalStates, github
<1>9. NothingForgotten'
  BY <1>2 DEF NothingForgotten, TerminalStates
<1> QED
  BY <1>3, <1>4, <1>5, <1>6, <1>7, <1>8, <1>9 DEF IInv

(* Whoever acts on an answer about the issue acts on an old one now.       *)
LEMMA ReopenKeeps == ASSUME IInv, Reopen PROVE IInv'
<1>1. /\ UNCHANGED <<flow, pr, prod, said, ledger, file, hand, job, died, late, lost, taken>>
      /\ issue'.open = TRUE /\ issue'.reopened = TRUE /\ issue'.by = None
      /\ issue' \in [open : BOOLEAN, reopened : BOOLEAN,
                     by : {None, "person", "github", "harness"}]
      /\ left' = left - 1 /\ left > 0
  BY DEF Reopen, Event
<1>2. raced' \in BOOLEAN /\ (raced => raced')
  BY DEF Reopen, IInv, TypeOK
<1>3. \A p \in Pollers : job[p].pc \in {"claim", "close", "post"} => raced'
  BY Zenon DEF Reopen
<1>4. left \in 0..Budget /\ Budget \in Nat /\ said.released \in Nat
  BY ReleaseAssumption DEF IInv, TypeOK, Data
<1>5. TypeOK'
  <2>1. left' \in 0..Budget
    BY <1>1, <1>4
  <2> QED
    BY <1>1, <1>2, <2>1 DEF IInv, TypeOK, ledger
<1>6. Data' /\ GitHub'
  BY <1>1 DEF IInv, Data, GitHub, ledger
<1>7. AnswersHold'
  <2>1. \A p \in Pollers : Sound(job[p]) /\ job'[p] = job[p]
    BY <1>1 DEF IInv, AnswersHold
  <2>2. \A p \in Pollers : Sound(job[p])'
    BY <1>1, <1>3, <2>1 DEF Sound, LeavesOpen
  <2> QED
    BY <2>2 DEF AnswersHold
<1>8. Shas' /\ Merges'
  <2>1. Tellers' = Tellers
    BY <1>1 DEF Tellers
  <2>2. Merges'
    BY <1>1, <2>1, NewsStay DEF ledger
  <2> QED
    BY <1>1, <2>2 DEF IInv, Shas, ledger
<1>9. Releases'
  <2>1. Promised' = Promised
    BY <1>1 DEF Promised
  <2> QED
    BY <1>1, <1>4, <2>1, Finite DEF IInv, Releases, ledger
<1>10. NothingForgotten'
  BY <1>1 DEF NothingForgotten
<1> QED
  BY <1>5, <1>6, <1>7, <1>8, <1>9, <1>10 DEF IInv

LEMMA StepKeeps == IInv /\ [Next]_vars => IInv'
<1> SUFFICES ASSUME IInv, [Next]_vars PROVE IInv'
  OBVIOUS
<1>1. ASSUME NEW h \in Hooks, Webhook(h) PROVE IInv'
  BY <1>1, WebhookKeeps
<1>2. ASSUME NEW w \in Workers, GoOn(w) \/ MoveFails(w) \/ WorkerDies(w) PROVE IInv'
  BY <1>2, HandleKeeps, TellKeeps, MoveBriefKeeps, MoveFailsKeeps, NotePathKeeps, WorkerDiesKeeps DEF GoOn
<1>3. ASSUME NEW p \in Pollers, ListPRs(p) \/ PassOn(p) PROVE IInv'
  BY <1>3, ListPRsKeeps, CloseIfOpenKeeps, ListOldKeeps, MigrateKeeps, PullKeeps,
     ListParkedKeeps, ReadGitHubKeeps, ClaimKeeps, AnnounceKeeps, PostKeeps, UndoKeeps
     DEF PassOn
<1>4. CASE \/ OpenPR \/ RunOn \/ RecordLost \/ DispatcherDies \/ Round \/ RoundDone
           \/ Merge \/ ReachesProd \/ CloseIssue \/ Reopen \/ UNCHANGED vars
  BY <1>4, OutsideKeeps, WrittenKeeps, ReopenKeeps DEF RunOn
<1> QED
  BY <1>1, <1>2, <1>3, <1>4 DEF Next

(* The invariant of every behaviour of Release, whatever fails or dies.    *)
THEOREM Invariance == Spec => []IInv
<1> QED
  BY Start, StepKeeps, PTL DEF Spec

(* The variables keep the values the tables and the queue allow; a row in  *)
(* merged_dev has its commit (_handle_gh_merged, migrate_merged_dev).      *)
THEOREM TypesHold == Spec => []TypeOK
<1>1. IInv => TypeOK
  BY DEF IInv
<1> QED
  BY <1>1, Invariance, PTL

(* Two reconcilers do not both announce a release: the claim of the row is *)
(* one announcement, and only a call that failed, a death or a claim taken *)
(* back leads to another (release_merged, _release_one).                   *)
THEOREM AnnouncedOnce == Spec => []ReleasedOnce
<1>1. IInv => ReleasedOnce
  <2> SUFFICES ASSUME IInv, ~taken, ~late PROVE said.released <= 1 + (Budget - left)
    BY DEF ReleasedOnce
  <2>1. /\ said.released \in Nat /\ left \in 0..Budget /\ Budget \in Nat
        /\ Cardinality(Promised) \in Nat
    BY Finite, ReleaseAssumption DEF IInv, TypeOK, Data
  <2>2. said.released + Cardinality(Promised) <=
           (Budget - left) + (IF row.state = "done" THEN 1 ELSE 0)
    BY DEF IInv, Releases
  <2> QED
    BY <2>1, <2>2
<1> QED
  BY <1>1, Invariance, PTL

(* However many deliveries and passes find the merge, and in whatever      *)
(* order, the issue is told once; after the dispatcher or its reaper wrote *)
(* over the closed row, twice and never more (_handle_gh_merged,           *)
(* migrate_merged_dev, record_event_state, reap_running_briefs).           *)
THEOREM ToldOnce == Spec => []MergedOnce
<1>1. IInv => MergedOnce
  <2> SUFFICES ASSUME IInv PROVE MergedOnce
    OBVIOUS
  <2>1. said.merged \in Nat /\ Merges
    BY DEF IInv, Data
  <2> QED
    BY <2>1 DEF Merges, MergedOnce, NoNews, OneNews, TwoNews
<1> QED
  BY <1>1, Invariance, PTL

(* A row that is done, which nothing reads again, has an issue that is     *)
(* closed, about to be closed, or open because a person wants it so; the   *)
(* exception is the death that release_merged accepts.                     *)
THEOREM NoneForgotten == Spec => []NothingForgotten
<1>1. IInv => NothingForgotten
  BY DEF IInv
<1> QED
  BY <1>1, Invariance, PTL

-----------------------------------------------------------------------------
(* Who closes the issue.                                                   *)
Honest == Evidence /\ ReopenRespected

LEMMA HonestStart == Init => Honest
<1> SUFFICES ASSUME Init PROVE issue.by # "harness"
  BY DEF Honest, Evidence, ReopenRespected
<1>1. issue.by \in {"github", None}
  BY DEF Init
<1> QED
  BY <1>1, ReleaseAssumption

(* What was true of the commit and of the race stays true.                 *)
LEMMA StaysTrue == ASSUME IInv, [Next]_vars PROVE (prod => prod') /\ (raced => raced')
<1> USE DEF github, ledger, ghosts
<1>1. ASSUME NEW h \in Hooks, Webhook(h) PROVE UNCHANGED <<prod, raced>>
  BY <1>1 DEF Webhook
<1>2. ASSUME NEW w \in Workers, GoOn(w) \/ MoveFails(w) \/ WorkerDies(w) PROVE UNCHANGED <<prod, raced>>
  BY <1>2 DEF GoOn, MoveFails, WorkerDies, Handle, Tell, MoveBrief, NotePath
<1>3. ASSUME NEW p \in Pollers, ListPRs(p) \/ PassOn(p) PROVE UNCHANGED <<prod, raced>>
  BY <1>3 DEF ListPRs, PassOn, CloseIfOpen, ListOld, Migrate, Pull, ListParked, ReadGitHub,
     Claim, Announce, Post, Undo
<1>4. CASE \/ OpenPR \/ RunOn \/ RecordLost \/ DispatcherDies \/ Round \/ RoundDone
           \/ CloseIssue \/ UNCHANGED vars
  BY <1>4 DEF OpenPR, RunOn, EndRun, Record, RecordLost, ReapBrief, ReapRow, DispatcherDies, Round, RoundDone,
     CloseIssue, vars
<1>5. CASE Merge
  BY <1>5 DEF Merge, IInv, GitHub
<1>6. CASE ReachesProd
  BY <1>6 DEF ReachesProd
<1>7. CASE Reopen
  BY <1>7, Zenon DEF Reopen
<1> QED
  BY <1>1, <1>2, <1>3, <1>4, <1>5, <1>6, <1>7 DEF Next

LEMMA HonestStep == IInv /\ Honest /\ [Next]_vars => Honest'
<1> SUFFICES ASSUME IInv, Honest, [Next]_vars PROVE Honest'
  OBVIOUS
<1> USE DEF github, ledger, ghosts
<1>0. (prod => prod') /\ (raced => raced')
  BY StaysTrue
<1>1. CASE issue' = issue
  BY <1>0, <1>1 DEF Honest, Evidence, ReopenRespected
<1>2. ASSUME NEW p \in Pollers, Post(p) PROVE Honest'
  <2>1. Sound(job[p]) /\ job[p].pc = "post"
    BY <1>2 DEF IInv, AnswersHold, Post
  <2>2. prod /\ (issue.reopened => raced)
    BY <2>1 DEF Sound
  <2>3. issue' = issue \/ issue' = [issue EXCEPT !.open = FALSE, !.by = "harness"]
    BY <1>2 DEF Post
  <2>4. issue'.reopened = issue.reopened
    BY <2>3 DEF IInv, TypeOK
  <2> QED
    BY <1>0, <2>2, <2>4 DEF Honest, Evidence, ReopenRespected
<1>3. ASSUME issue'.by # "harness" PROVE Honest'
  BY <1>3 DEF Honest, Evidence, ReopenRespected
<1>4. CASE Merge \/ CloseIssue
  <2>1. issue' = issue \/ issue'.by \in {"github", "person"}
    BY <1>4 DEF Merge, CloseIssue, IInv, TypeOK
  <2> QED
    BY <1>1, <1>3, <2>1
<1>5. CASE Reopen
  <2>1. issue'.by = None
    BY <1>5 DEF Reopen
  <2> QED
    BY <1>3, <2>1, ReleaseAssumption
<1>6. ASSUME NEW h \in Hooks, Webhook(h) PROVE issue' = issue
  BY <1>6 DEF Webhook
<1>7. ASSUME NEW w \in Workers, GoOn(w) \/ MoveFails(w) \/ WorkerDies(w) PROVE issue' = issue
  BY <1>7 DEF GoOn, MoveFails, WorkerDies, Handle, Tell, MoveBrief, NotePath
<1>8. ASSUME NEW p \in Pollers, ListPRs(p) \/ PassOn(p), ~Post(p) PROVE issue' = issue
  BY <1>8 DEF ListPRs, PassOn, CloseIfOpen, ListOld, Migrate, Pull, ListParked, ReadGitHub,
     Claim, Announce, Undo
<1>9. CASE \/ OpenPR \/ RunOn \/ RecordLost \/ DispatcherDies \/ Round \/ RoundDone
           \/ ReachesProd \/ UNCHANGED vars
  <2>1. issue' = issue
    BY <1>9 DEF OpenPR, RunOn, EndRun, Record, RecordLost, ReapBrief, ReapRow, DispatcherDies, Round, RoundDone,
       ReachesProd, vars
  <2> QED
    BY <1>1, <2>1
<1> QED
  BY <1>1, <1>2, <1>4, <1>5, <1>6, <1>7, <1>8, <1>9 DEF Next

LEMMA Honesty == Spec => []Honest
<1> QED
  BY Invariance, HonestStart, HonestStep, PTL DEF Spec

(* Whatever the answer was worth when it was used, the harness closes an   *)
(* issue only once the commit is in prod (_release_one, announce_released).*)
THEOREM EvidenceHolds == Spec => []Evidence
<1>1. Honest => Evidence
  BY DEF Honest
<1> QED
  BY <1>1, Honesty, PTL

(* The harness does not close an issue that a person has reopened, unless  *)
(* that happens between its question and its comment (_release_one).       *)
THEOREM ReopenIsRespected == Spec => []ReopenRespected
<1>1. Honest => ReopenRespected
  BY DEF Honest
<1> QED
  BY <1>1, Honesty, PTL
=============================================================================
