------------------------- MODULE ReviewRoundsProofs -------------------------
(***************************************************************************)
(* The safety properties of ReviewRounds, for any number of callers,       *)
(* comments, rounds and outside events.                                    *)
(*                                                                         *)
(* Types holds whoever comes in between.  The rest assumes Prompt: nobody  *)
(* comes in between two statements of one caller that are next to each     *)
(* other.  Then the row tells who has the round (Shape): a caller that     *)
(* writes the brief, the dispatcher that works on it, /retry, or the queue.*)
(***************************************************************************)
EXTENDS ReviewRounds, FiniteSetTheorems, TLAPS

States == InFlightStates \cup {"absent", "dry_run", "brief_error", "failed", "done",
                               "rejected_round_cap", "rejected_pr_closed"}

Rows == [state : States, rounds : 0..Cap, mark : 0..End, claimed : 0..End,
         path : Numbers \cup {None}]

Statuses == {"absent", "draft", "pending", "running", "done", "failed", "skipped"}

Briefs == [status : Statuses, parked : BOOLEAN]

Jobs == [pc : {"idle", "listed", "found", "asked", "write", "mark"}, c : 0..Last,
         at : 0..End, was : Rows, live : BOOLEAN, n : Numbers \cup {None}]

Reports == {"done", "failed", "admitted", "rejected_pr_closed"}

Hands == [pc : {"idle", "claim", "start", "run", "close"}, n : Numbers \cup {None},
          report : Reports \cup {None}]

Sayings == [at : 1..End, kind : {"worthy", "refused"}]

Globals ==
    /\ clock \in 1..End /\ pr \in {"open", "closed"} /\ live \in BOOLEAN
    /\ said \in Seq(Sayings) /\ Len(said) <= Last
    /\ seen \subseteq {"hook", "poll"} \X (1..Last)
    /\ retrying \in BOOLEAN /\ left \in Nat /\ torn \in BOOLEAN /\ unsaid \in BOOLEAN

RowOK == row \in Rows

VaultOK == brief \in [Numbers -> Briefs] /\ read \in [Numbers -> SUBSET (1..Last)]

\* What a caller holds in each place.
JobOK(d, j) ==
    /\ j.pc = "mark" => j.n \in Numbers
    /\ j.pc \in {"listed", "found"} => d \in Pollers /\ j.c \in Comments
    /\ j.pc = "asked" => d = Self /\ j.at \in 1..End

DoorOK == door \in [Doors -> Jobs] /\ \A d \in Doors : JobOK(d, door[d])

HandOK ==
    /\ hand \in Hands
    /\ hand.pc # "idle" => hand.n \in Numbers
    /\ hand.pc = "idle" => hand = Idle
    /\ hand.pc = "close" => hand.report \in Reports

Types == Globals /\ RowOK /\ VaultOK /\ DoorOK /\ HandOK

-----------------------------------------------------------------------------
(* One of the callers goes on, and nobody else.                            *)
LEMMA DoorIs ==
    ASSUME door \in [Doors -> Jobs], NEW d \in Doors, NEW j \in Jobs,
           door' = [door EXCEPT ![d] = j]
    PROVE  /\ door' \in [Doors -> Jobs] /\ door'[d] = j
           /\ \A e \in Doors : e # d => door'[e] = door[e]
  OBVIOUS

LEMMA NoJobIs ==
    /\ NoRow \in Rows /\ NoJob \in Jobs
    /\ NoJob.pc = "idle" /\ \A d : JobOK(d, NoJob)
<1>1. NoRow \in Rows
  BY ReviewAssumption DEF NoRow, Rows, States
<1>2. NoJob \in Jobs
  BY <1>1, ReviewAssumption DEF NoJob, Jobs
<1> QED
  BY <1>1, <1>2 DEF NoJob, JobOK

LEMMA DoorsAre ==
    /\ Self \in Doors /\ Self \notin Hooks /\ Self \notin Pollers
    /\ \A p \in Pollers : p \in Doors /\ p # Self
    /\ \A h \in Hooks : h \in Doors /\ h # Self
  BY ReviewAssumption DEF Doors

LEMMA CommentsAre ==
    ASSUME Globals
    PROVE  /\ Len(said) \in Nat
           /\ \A c \in Comments : /\ c \in 1..Last /\ At(c) = said[c].at /\ At(c) \in 1..End
                                  /\ said[c] \in Sayings
<1>1. said \in Seq(Sayings) /\ Len(said) <= Last /\ Len(said) \in Nat
  BY DEF Globals
<1>2. ASSUME NEW c \in Comments PROVE c \in 1..Last /\ c # 0 /\ said[c] \in Sayings
  BY <1>1, <1>2, ReviewAssumption DEF Comments
<1>3. ASSUME NEW c \in Comments PROVE At(c) = said[c].at /\ At(c) \in 1..End
  BY <1>2, <1>3 DEF At, Sayings
<1> QED
  BY <1>1, <1>2, <1>3

(* The comments only grow, and so the jobs that name one stay right.       *)
LEMMA JobStays ==
    ASSUME Len(said) \in Nat, Len(said') \in Nat, Len(said) <= Len(said'),
           NEW d, NEW j, JobOK(d, j)
    PROVE  JobOK(d, j)'
  BY DEF JobOK, Comments

LEMMA DoorStays ==
    ASSUME Globals, DoorOK, UNCHANGED <<said, door>>
    PROVE  DoorOK'
  BY DEF DoorOK, JobOK, Comments

LEMMA DoorMoves ==
    ASSUME DoorOK, UNCHANGED said, NEW d \in Doors, NEW j \in Jobs, JobOK(d, j),
           door' = [door EXCEPT ![d] = j]
    PROVE  DoorOK'
<1>1. /\ door' \in [Doors -> Jobs] /\ door'[d] = j
      /\ \A e \in Doors : e # d => door'[e] = door[e]
  BY DoorIs DEF DoorOK
<1>2. \A e \in Doors : JobOK(e, door'[e])
  BY <1>1 DEF DoorOK
<1> QED
  BY <1>1, <1>2 DEF DoorOK, JobOK, Comments

LEMMA LaterIs == \A a, b \in 0..End : Later(a, b) \in 0..End /\ Later(a, b) \in {a, b}
  BY DEF Later

(* What the transaction of open_review_round leaves.                       *)
LEMMA DoorOpens ==
    ASSUME row \in Rows, live \in BOOLEAN, NEW d \in Doors, NEW was \in Rows,
           NEW c \in 0..Last, NEW t \in 0..End, OpenReviewRound(d, was, c, t)
    PROVE  /\ row' \in Rows
           /\ \E j \in Jobs : /\ door' = [door EXCEPT ![d] = j] /\ JobOK(d, j)
                              /\ j = NoJob \/ j.pc = "write"
<1>0. row.mark \in 0..End /\ was.mark \in 0..End
  BY DEF Rows
<1>a. NoJob \in Jobs /\ JobOK(d, NoJob)
  BY NoJobIs
<1>1. CASE InFlight(d, was, t)
  <2> DEFINE m == IF Absorbed(was, t) THEN Later(row.mark, t) ELSE row.mark
  <2>1. m \in 0..End
    BY <1>0, LaterIs
  <2>2. row' = [row EXCEPT !.mark = m] /\ door' = [door EXCEPT ![d] = NoJob]
    BY <1>1 DEF InFlight
  <2> HIDE DEF m
  <2>3. row' \in Rows
    BY <2>1, <2>2 DEF Rows
  <2> QED
    BY <1>a, <2>2, <2>3
<1>2. CASE SameDraft(d, was)
  BY <1>2, <1>a DEF SameDraft
<1>3. CASE CapReached(d, was)
  <2>1. row' \in Rows
    <3>1. row' = row \/ row' = [row EXCEPT !.state = "rejected_round_cap"]
      BY <1>3 DEF CapReached
    <3> QED
      BY <3>1 DEF Rows, States
  <2> QED
    BY <1>3, <1>a, <2>1 DEF CapReached
<1>4. CASE OpensRound(d, was, c, t)
  <2> DEFINE w == [NoRow EXCEPT !.rounds = was.rounds]
             j == [NoJob EXCEPT !.pc = "write", !.c = c, !.live = live, !.was = w]
             r == Counted(was.rounds)
             m == Later(t, was.mark)
  <2>1. w \in Rows
    BY NoJobIs DEF Rows, NoRow
  <2>2. r \in 0..Cap /\ m \in 0..End
    <3>1. was.rounds \in 0..Cap /\ ~(was.rounds >= Cap)
      BY <1>4 DEF OpensRound, Spent, Rows
    <3>2. r = was.rounds \/ r = was.rounds + 1
      BY DEF Counted
    <3>3. Cap \in Nat
      BY ReviewAssumption
    <3>4. r \in 0..Cap
      <4> HIDE DEF r
      <4> QED
        BY <3>1, <3>2, <3>3
    <3> QED
      BY <1>0, <3>4, LaterIs
  <2>3. /\ row' = [row EXCEPT !.state = "admitted", !.rounds = r, !.mark = m]
        /\ door' = [door EXCEPT ![d] = j]
    BY <1>4 DEF OpensRound
  <2> HIDE DEF w, r, m
  <2>4. j \in Jobs /\ j.pc = "write"
    BY <2>1, NoJobIs DEF Jobs, NoJob
  <2>5. row' \in Rows
    BY <2>2, <2>3 DEF Rows, States, InFlightStates
  <2>6. JobOK(d, j)
    BY <2>4 DEF JobOK
  <2> HIDE DEF j
  <2> QED
    BY <2>3, <2>4, <2>5, <2>6
<1> QED
  BY <1>1, <1>2, <1>3, <1>4 DEF OpenReviewRound

LEMMA StatusIs ==
    ASSUME brief \in [Numbers -> Briefs], NEW n \in Numbers, NEW s \in Statuses, SetStatus(n, s)
    PROVE  /\ brief' \in [Numbers -> Briefs]
           /\ brief'[n].status = s /\ brief'[n].parked = brief[n].parked
           /\ \A m \in Numbers : m # n => brief'[m] = brief[m]
  BY DEF SetStatus, Briefs

-----------------------------------------------------------------------------
(* Types: the callers.                                                     *)
LEMMA TypesStart == Init => Types
<1> SUFFICES ASSUME Init PROVE Types
  OBVIOUS
<1>1. /\ clock = 1 /\ said = <<>> /\ pr = "open" /\ live \in BOOLEAN
      /\ seen = {} /\ row = NoRow
      /\ brief = [n \in Numbers |-> NoBrief] /\ read = [n \in Numbers |-> {}]
      /\ door = [d \in Doors |-> NoJob]
      /\ hand = Idle /\ retrying = FALSE /\ left = Budget /\ torn = FALSE /\ unsaid = FALSE
  BY DEF Init
<1>2. Globals
  <2>1. said \in Seq(Sayings) /\ Len(said) = 0
    BY <1>1
  <2>2. clock \in 1..End /\ Len(said) <= Last /\ left \in Nat
    <3>1. End \in Nat \ {0} /\ Last \in Nat /\ Budget \in Nat
      BY ReviewAssumption
    <3> QED
      BY <1>1, <2>1, <3>1
  <2> QED
    BY <1>1, <2>1, <2>2 DEF Globals
<1>3. RowOK /\ DoorOK
  BY <1>1, NoJobIs DEF RowOK, DoorOK
<1>4. VaultOK
  BY <1>1 DEF VaultOK, NoBrief, Briefs, Statuses
<1>5. HandOK
  BY <1>1 DEF HandOK, Idle, Hands
<1> QED
  BY <1>2, <1>3, <1>4, <1>5 DEF Types

LEMMA DeliverTypes ==
    ASSUME Types, NEW d \in Doors, NEW c \in Comments, NEW id \in {"hook", "poll"} \X (1..Last),
           Deliver(d, id, c)
    PROVE  Types'
<1> USE DEF Types
<1>1. /\ seen' = seen \cup {id}
      /\ UNCHANGED <<github, vault, hand, retrying, left, torn, unsaid>>
  BY DEF Deliver
<1>2. Globals' /\ VaultOK' /\ HandOK'
  BY <1>1 DEF Globals, VaultOK, HandOK, github, vault
<1>3. c \in 0..Last /\ At(c) \in 0..End
  BY CommentsAre, ReviewAssumption
<1>4. CASE OpenReviewRound(d, row, c, At(c))
  <2>1. /\ row' \in Rows
        /\ \E j \in Jobs : door' = [door EXCEPT ![d] = j] /\ JobOK(d, j)
    <3>1. row \in Rows /\ live \in BOOLEAN
      BY DEF RowOK, Globals
    <3> QED
      BY <1>3, <1>4, <3>1, DoorOpens
  <2> QED
    BY <1>1, <1>2, <2>1, DoorMoves DEF RowOK, github
<1>5. CASE UNCHANGED row /\ door' = [door EXCEPT ![d] = NoJob]
  BY <1>1, <1>2, <1>5, NoJobIs, DoorMoves DEF RowOK, github
<1> QED
  BY <1>4, <1>5 DEF Deliver

LEMMA WebhookTypes == ASSUME Types, NEW h \in Hooks, NEW c \in Comments, Webhook(h, c) PROVE Types'
<1>1. <<"hook", c>> \in {"hook", "poll"} \X (1..Last)
  BY CommentsAre DEF Types
<1> QED
  BY <1>1, DoorsAre, DeliverTypes DEF Webhook

LEMMA HandTypes == ASSUME Types, NEW p \in Pollers, Hand(p) PROVE Types'
<1>1. p \in Doors /\ door[p].pc = "found"
  BY DoorsAre DEF Hand
<1>2. door[p].c \in Comments
  BY <1>1 DEF Types, DoorOK, JobOK
<1>3. PollId(door[p].c) \in {"hook", "poll"} \X (1..Last)
  BY <1>2, CommentsAre DEF PollId, Types
<1> QED
  BY <1>1, <1>2, <1>3, DeliverTypes DEF Hand

(* A caller goes on, and the rest stays as it is.                          *)
LEMMA DoorTypes ==
    ASSUME Types, NEW d \in Doors, NEW j \in Jobs, JobOK(d, j), door' = [door EXCEPT ![d] = j],
           UNCHANGED <<github, ledger, vault, hand, retrying, torn, unsaid>>,
           left' = left \/ (left > 0 /\ left' = left - 1)
    PROVE  Types'
<1>1. DoorOK'
  BY DoorMoves DEF Types, github
<1>2. Globals' /\ RowOK' /\ VaultOK' /\ HandOK'
  BY DEF Types, Globals, RowOK, VaultOK, HandOK, github, ledger, vault
<1> QED
  BY <1>1, <1>2 DEF Types

LEMMA ListTypes == ASSUME Types, NEW p \in Pollers, ListComments(p) PROVE Types'
<1>1. PICK c \in Comments : door' = [door EXCEPT ![p] = [NoJob EXCEPT !.pc = "listed", !.c = c]]
  BY DEF ListComments
<1> DEFINE j == [NoJob EXCEPT !.pc = "listed", !.c = c]
<1>2. c \in 0..Last /\ p \in Doors
  BY CommentsAre, DoorsAre DEF Types
<1>3. j \in Jobs /\ j.pc = "listed" /\ j.c = c
  BY <1>2, NoJobIs DEF NoJob, Jobs
<1>4. JobOK(p, j)
  BY <1>3 DEF JobOK
<1> HIDE DEF j
<1>5. door' = [door EXCEPT ![p] = j]
  BY <1>1 DEF j
<1> QED
  BY <1>2, <1>3, <1>4, <1>5, DoorTypes DEF ListComments

LEMMA LookTypes == ASSUME Types, NEW p \in Pollers, Look(p) PROVE Types'
<1> DEFINE j == IF Pending(door[p].c) THEN [door[p] EXCEPT !.pc = "found"] ELSE NoJob
<1>1. p \in Doors /\ door[p] \in Jobs /\ JobOK(p, door[p]) /\ door[p].pc = "listed"
  BY DoorsAre DEF Look, Types, DoorOK
<1>2. j \in Jobs
  BY <1>1, NoJobIs DEF Jobs
<1>3. JobOK(p, j)
  BY <1>1, NoJobIs DEF JobOK, Jobs
<1>4. door' = [door EXCEPT ![p] = j]
  BY DEF Look
<1> HIDE DEF j
<1> QED
  BY <1>1, <1>2, <1>3, <1>4, DoorTypes DEF Look

LEMMA AskTypes == ASSUME Types, Ask PROVE Types'
<1> DEFINE j == [NoJob EXCEPT !.pc = "asked", !.at = clock, !.was = row]
<1>0. clock \in 1..End /\ clock \in 0..End /\ row \in Rows
  BY ReviewAssumption DEF Types, Globals, RowOK
<1>1. j \in Jobs /\ j.pc = "asked" /\ j.at = clock
  BY <1>0, NoJobIs DEF NoJob, Jobs
<1>2. JobOK(Self, j)
  BY <1>1 DEF JobOK, Types, Globals
<1>3. door' = [door EXCEPT ![Self] = j]
  BY DEF Ask
<1> HIDE DEF j
<1> QED
  BY <1>1, <1>2, <1>3, DoorsAre, DoorTypes DEF Ask, Event

LEMMA OpenOwnTypes == ASSUME Types, OpenOwn PROVE Types'
<1>1. /\ Self \in Doors /\ door[Self].was \in Rows /\ 0 \in 0..Last
      /\ door[Self].at \in 0..End
  BY DoorsAre, ReviewAssumption DEF Types, DoorOK, Jobs
<1>2. row \in Rows /\ live \in BOOLEAN
  BY DEF Types, RowOK, Globals
<1>3. /\ row' \in Rows
      /\ \E j \in Jobs : door' = [door EXCEPT ![Self] = j] /\ JobOK(Self, j)
  BY <1>1, <1>2, DoorOpens DEF OpenOwn
<1>4. DoorOK'
  BY <1>1, <1>3, DoorMoves DEF OpenOwn, Types, github
<1> QED
  BY <1>3, <1>4 DEF OpenOwn, Types, Globals, RowOK, VaultOK, HandOK, github, vault

LEMMA DoorDiesTypes == ASSUME Types, NEW d \in Doors, DoorDies(d) PROVE Types'
  BY NoJobIs, DoorTypes DEF DoorDies, Event

LEMMA WriteBriefTypes == ASSUME Types, NEW d \in Doors, WriteBrief(d) PROVE Types'
<1>1. PICK n \in Numbers :
          /\ brief' = [brief EXCEPT ![n] =
                 [NoBrief EXCEPT !.status = IF door[d].live THEN "pending" ELSE "draft"]]
          /\ door' = [door EXCEPT ![d] = [NoJob EXCEPT !.pc = "mark", !.live = door[d].live, !.n = n]]
  BY DEF WriteBrief
<1> DEFINE j == [NoJob EXCEPT !.pc = "mark", !.live = door[d].live, !.n = n]
           b == [NoBrief EXCEPT !.status = IF door[d].live THEN "pending" ELSE "draft"]
<1>2. j \in Jobs /\ j.pc = "mark" /\ j.n = n
  BY NoJobIs DEF NoJob, Jobs, Types, DoorOK
<1>3. JobOK(d, j)
  BY <1>2 DEF JobOK
<1>4. b \in Briefs
  BY DEF NoBrief, Briefs, Statuses
<1> HIDE DEF j, b
<1>5. door' = [door EXCEPT ![d] = j] /\ brief' = [brief EXCEPT ![n] = b]
  BY <1>1 DEF j, b
<1>6. UNCHANGED <<github, ledger, read, hand, retrying, left, torn, unsaid>>
  BY DEF WriteBrief
<1>7. DoorOK'
  BY <1>2, <1>3, <1>5, <1>6, DoorMoves DEF Types, github
<1>8. VaultOK'
  BY <1>4, <1>5, <1>6 DEF Types, VaultOK
<1> QED
  BY <1>6, <1>7, <1>8 DEF Types, Globals, RowOK, HandOK, github, ledger

LEMMA MarkBriefTypes == ASSUME Types, NEW d \in Doors, MarkBrief(d) PROVE Types'
<1>1. /\ row' = [row EXCEPT !.state = IF door[d].live THEN "admitted" ELSE "dry_run",
                            !.path = door[d].n]
      /\ door' = [door EXCEPT ![d] = NoJob]
      /\ UNCHANGED <<github, seen, vault, hand, retrying, left, torn, unsaid>>
  BY DEF MarkBrief
<1>2. door[d].n \in Numbers \cup {None}
  BY DEF Types, DoorOK, Jobs
<1>3. RowOK'
  BY <1>1, <1>2 DEF Types, RowOK, Rows, States, InFlightStates
<1>4. DoorOK'
  BY <1>1, NoJobIs, DoorMoves DEF Types, github
<1> QED
  BY <1>1, <1>3, <1>4 DEF Types, Globals, VaultOK, HandOK, github, vault

LEMMA BriefErrorTypes == ASSUME Types, NEW d \in Doors, BriefError(d) PROVE Types'
<1>1. /\ seen' = seen \ {DeliveryOf(d)} /\ left' = left - 1 /\ left > 0
      /\ row' = [RolledBack(row, door[d].was) EXCEPT !.state = "brief_error"]
      /\ door' = [door EXCEPT ![d] = NoJob]
      /\ UNCHANGED <<github, vault, hand, retrying, torn, unsaid>>
  BY DEF BriefError, Event
<1>2. door[d].was.rounds \in 0..Cap
  BY DEF Types, DoorOK, Jobs, Rows
<1>3. RowOK'
  BY <1>1, <1>2 DEF RolledBack, Types, RowOK, Rows, States
<1>4. DoorOK'
  BY <1>1, NoJobIs, DoorMoves DEF Types, github
<1> QED
  BY <1>1, <1>3, <1>4 DEF Types, Globals, VaultOK, HandOK, github, vault

-----------------------------------------------------------------------------
(* Types: the dispatcher, people and time.                                 *)
LEMMA RunTypes ==
    ASSUME Types, HandOK', VaultOK', RowOK', UNCHANGED <<github, seen, door, retrying>>,
           torn' \in BOOLEAN /\ unsaid' \in BOOLEAN, left' = left \/ (left > 0 /\ left' = left - 1)
    PROVE  Types'
<1>1. DoorOK'
  BY DoorStays DEF Types, github
<1>2. Globals'
  BY DEF Types, Globals, github
<1> QED
  BY <1>1, <1>2 DEF Types

(* The dispatcher sets the status of a brief.                              *)
LEMMA SetTypes ==
    ASSUME Types, NEW n \in Numbers, NEW s \in Statuses, SetStatus(n, s), HandOK',
           UNCHANGED <<github, ledger, read, door, retrying, torn, unsaid, left>>
    PROVE  Types'
<1>1. VaultOK'
  BY StatusIs DEF Types, VaultOK
<1>2. RowOK' /\ torn' \in BOOLEAN /\ unsaid' \in BOOLEAN
  BY DEF Types, RowOK, Globals, ledger
<1> QED
  BY <1>1, <1>2, RunTypes DEF ledger

LEMMA TakeTypes ==
    ASSUME Types, NEW n \in Numbers, Take(n) \/ Refuse(n) \/ ReapBrief(n)
    PROVE  Types'
<1>1. PICK s \in {"running", "skipped", "failed"} :
          /\ SetStatus(n, s)
          /\ hand' \in {[pc |-> "claim", n |-> n, report |-> None],
                        [pc |-> "close", n |-> n, report |-> "rejected_pr_closed"],
                        [pc |-> "close", n |-> n, report |-> "failed"]}
          /\ UNCHANGED <<github, ledger, read, door, retrying, torn, unsaid, left>>
  BY DEF Take, Refuse, ReapBrief
<1>2. HandOK'
  BY <1>1 DEF HandOK, Hands, Reports
<1>3. s \in Statuses
  BY DEF Statuses
<1> QED
  BY <1>1, <1>2, <1>3, SetTypes

LEMMA EndTypes == ASSUME Types, Done \/ Fail PROVE Types'
<1>1. PICK s \in {"done", "failed"} :
          /\ SetStatus(hand.n, s)
          /\ hand' = [hand EXCEPT !.pc = "close", !.report = s]
          /\ hand.pc # "idle"
          /\ UNCHANGED <<github, ledger, read, door, retrying, torn, unsaid, left>>
  BY DEF Done, Fail
<1>2. hand.n \in Numbers /\ s \in Statuses
  BY <1>1 DEF Types, HandOK, Statuses
<1>3. HandOK'
  BY <1>1, <1>2 DEF Types, HandOK, Hands, Reports
<1> QED
  BY <1>1, <1>2, <1>3, SetTypes

(* A parked brief is pending again, with its session.                      *)
LEMMA ParkIs ==
    ASSUME Types, Park
    PROVE  /\ hand.n \in Numbers /\ hand.pc = "run"
           /\ brief' \in [Numbers -> Briefs]
           /\ brief'[hand.n].status = "pending" /\ brief'[hand.n].parked = TRUE
           /\ \A m \in Numbers : m # hand.n => brief'[m] = brief[m]
           /\ hand' \in Hands
           /\ hand'.pc = "close" /\ hand'.n = hand.n /\ hand'.report = "admitted"
           /\ left > 0 /\ left' = left - 1
           /\ UNCHANGED <<github, ledger, read, door, retrying, torn, unsaid>>
<1>1. /\ hand.n \in Numbers /\ brief \in [Numbers -> Briefs]
      /\ brief' = [brief EXCEPT ![hand.n].status = "pending", ![hand.n].parked = TRUE]
  BY DEF Types, HandOK, VaultOK, Park
<1> DEFINE b == [brief[hand.n] EXCEPT !.status = "pending", !.parked = TRUE]
<1>2. brief' = [brief EXCEPT ![hand.n] = b]
  BY <1>1
<1>3. b \in Briefs /\ b.status = "pending" /\ b.parked = TRUE
  BY <1>1 DEF Briefs, Statuses
<1> HIDE DEF b
<1>4. /\ brief' \in [Numbers -> Briefs] /\ brief'[hand.n] = b
      /\ \A m \in Numbers : m # hand.n => brief'[m] = brief[m]
  BY <1>1, <1>2, <1>3
<1>5. hand' \in Hands /\ hand'.pc = "close" /\ hand'.n = hand.n /\ hand'.report = "admitted"
  BY DEF Park, Types, HandOK, Hands, Reports
<1> QED
  BY <1>1, <1>3, <1>4, <1>5 DEF Park, Event

LEMMA ParkTypes == ASSUME Types, Park PROVE Types'
<1>1. VaultOK' /\ HandOK'
  BY ParkIs DEF Types, VaultOK, HandOK, Reports
<1>2. RowOK' /\ torn' \in BOOLEAN /\ unsaid' \in BOOLEAN
  BY ParkIs DEF Types, RowOK, Globals, ledger
<1> QED
  BY <1>1, <1>2, ParkIs, RunTypes DEF ledger

LEMMA ClaimTypes == ASSUME Types, Claim \/ ClaimLost PROVE Types'
<1>1. /\ row \in Rows /\ clock \in 0..End /\ hand.n \in Numbers
      /\ hand.pc = "claim" /\ hand \in Hands
  BY ReviewAssumption DEF Types, RowOK, Globals, HandOK, Claim, ClaimLost
<1>2. RowOK'
  <2>1. CASE Claim
    BY <1>1, <2>1 DEF Claim, RowOK, Rows, States, InFlightStates
  <2>2. CASE ClaimLost
    BY <1>1, <2>2 DEF ClaimLost, RowOK, ledger
  <2> QED
    BY <2>1, <2>2
<1>3. HandOK'
  <2>1. hand' = [hand EXCEPT !.pc = "start"]
    BY DEF Claim, ClaimLost
  <2> QED
    BY <1>1, <2>1 DEF HandOK, Hands
<1>4. VaultOK' /\ torn' \in BOOLEAN /\ unsaid' \in BOOLEAN
  BY DEF Claim, ClaimLost, Types, VaultOK, Globals, vault
<1>5. /\ UNCHANGED <<github, seen, door, retrying>>
      /\ left' = left \/ (left > 0 /\ left' = left - 1)
  BY DEF Claim, ClaimLost, Event, ledger
<1> QED
  BY <1>2, <1>3, <1>4, <1>5, RunTypes

LEMMA ReadThreadsTypes == ASSUME Types, ReadThreads PROVE Types'
<1>1. hand.n \in Numbers /\ hand.pc = "start" /\ hand \in Hands
  BY DEF Types, HandOK, ReadThreads
<1>2. HandOK'
  BY <1>1 DEF ReadThreads, HandOK, Hands
<1>3. Comments \subseteq 1..Last
  BY CommentsAre DEF Types
<1>4. VaultOK'
  <2>1. read' = read \/ read' = [read EXCEPT ![hand.n] = Comments]
    BY DEF ReadThreads
  <2>2. brief' = brief
    BY DEF ReadThreads
  <2> QED
    BY <1>1, <1>3, <2>1, <2>2 DEF Types, VaultOK
<1>5. RowOK' /\ torn' \in BOOLEAN /\ unsaid' \in BOOLEAN
  BY DEF ReadThreads, Types, RowOK, Globals, ledger
<1> QED
  BY <1>2, <1>4, <1>5, RunTypes DEF ReadThreads, ledger

LEMMA ReportTypes == ASSUME Types, Report PROVE Types'
<1>1. /\ row \in Rows /\ hand.n \in Numbers /\ hand.report \in Reports
  BY DEF Types, RowOK, HandOK, Report
<1> DEFINE cl == IF hand.report = "admitted" THEN 0 ELSE row.claimed
           pa == IF hand.report \in {"done", "rejected_pr_closed"} THEN hand.n ELSE row.path
<1>2. cl \in 0..End /\ pa \in Numbers \cup {None} /\ hand.report \in States
  BY <1>1, ReviewAssumption DEF Rows, Reports, States, InFlightStates
<1>3. row' = [row EXCEPT !.state = hand.report, !.claimed = cl, !.path = pa]
  BY DEF Report
<1> HIDE DEF cl, pa
<1>4. RowOK'
  BY <1>1, <1>2, <1>3 DEF RowOK, Rows
<1>5. HandOK'
  BY DEF Report, HandOK, Idle, Hands
<1>6. VaultOK' /\ torn' \in BOOLEAN /\ unsaid' \in BOOLEAN
  BY DEF Report, Types, VaultOK, Globals, vault
<1> QED
  BY <1>4, <1>5, <1>6, RunTypes DEF Report

LEMMA DieTypes == ASSUME Types, Die PROVE Types'
<1>1. HandOK'
  BY DEF Die, HandOK, Idle, Hands
<1>2. torn' \in BOOLEAN /\ unsaid' \in BOOLEAN
  BY DEF Die, Types, Globals
<1>3. VaultOK' /\ RowOK'
  BY DEF Die, Types, VaultOK, RowOK, vault, ledger
<1> QED
  BY <1>1, <1>2, <1>3, RunTypes DEF Die, Event, ledger

LEMMA RowTypes == ASSUME Types, ReapRow \/ RetryRow PROVE Types'
<1>1. \/ row' = [row EXCEPT !.state = "failed"]
      \/ row' = [row EXCEPT !.state = "admitted", !.claimed = 0]
  BY DEF ReapRow, RetryRow
<1>2. RowOK'
  <2>1. row \in Rows /\ 0 \in 0..End /\ {"failed", "admitted"} \subseteq States
    BY ReviewAssumption DEF Types, RowOK, States, InFlightStates
  <2>2. CASE row' = [row EXCEPT !.state = "failed"]
    BY <2>1, <2>2 DEF RowOK, Rows
  <2>3. CASE row' = [row EXCEPT !.state = "admitted", !.claimed = 0]
    BY <2>1, <2>3 DEF RowOK, Rows
  <2> QED
    BY <1>1, <2>2, <2>3
<1>3. UNCHANGED <<github, seen, vault, door, hand, left, torn, unsaid>> /\ retrying' \in {retrying, FALSE}
  BY DEF ReapRow, RetryRow
<1>4. DoorOK'
  BY <1>3, DoorStays DEF Types, github
<1> QED
  BY <1>2, <1>3, <1>4 DEF Types, Globals, VaultOK, HandOK, github, vault

LEMMA RetryLostTypes == ASSUME Types, RetryLost PROVE Types'
<1>1. /\ UNCHANGED <<github, ledger, vault, door, hand, left, unsaid>>
      /\ retrying' = FALSE /\ torn' = TRUE
  BY DEF RetryLost
<1>2. DoorOK'
  BY <1>1, DoorStays DEF Types, github
<1> QED
  BY <1>1, <1>2 DEF Types, Globals, RowOK, VaultOK, HandOK, github, ledger, vault

LEMMA RetryBriefTypes == ASSUME Types, RetryBrief PROVE Types'
<1>1. row.path \in Numbers /\ "pending" \in Statuses
  BY DEF RetryBrief, Types, RowOK, Rows, Statuses
<1>2. VaultOK'
  BY <1>1, StatusIs DEF RetryBrief, Types, VaultOK
<1>3. DoorOK'
  BY DoorStays DEF RetryBrief, Types, github
<1> QED
  BY <1>2, <1>3 DEF RetryBrief, Event, Types, Globals, RowOK, HandOK, github, ledger

LEMMA CommentTypes ==
    ASSUME Types, NEW k \in {"worthy", "refused"}, Comment(k)
    PROVE  Types'
<1>1. /\ UNCHANGED <<clock, pr, live, ledger, vault, door, hand, retrying, torn, unsaid>>
      /\ left' = left \/ (left > 0 /\ left' = left - 1)
      /\ said' = Append(said, [at |-> clock, kind |-> k]) /\ Len(said) < Last
  BY DEF Comment, Event
<1>2. said' \in Seq(Sayings) /\ Len(said') = Len(said) + 1 /\ Len(said) \in Nat
  <2>1. [at |-> clock, kind |-> k] \in Sayings /\ said \in Seq(Sayings)
    BY DEF Types, Globals, Sayings
  <2> QED
    BY <1>1, <2>1
<1>3. DoorOK'
  <2>1. \A d \in Doors : JobOK(d, door[d])'
    BY <1>1, <1>2, JobStays DEF Types, DoorOK, JobOK, Comments
  <2> QED
    BY <1>1, <2>1 DEF Types, DoorOK
<1>4. Globals'
  BY <1>1, <1>2, ReviewAssumption DEF Types, Globals, ledger
<1> QED
  BY <1>1, <1>3, <1>4 DEF Types, RowOK, VaultOK, HandOK, ledger, vault

LEMMA OutsideTypes == ASSUME Types, ClosePR \/ SwitchMode \/ Tick \/ UNCHANGED vars PROVE Types'
<1>1. /\ UNCHANGED <<said, ledger, vault, door, hand, retrying, torn, unsaid>>
      /\ left' = left \/ (left > 0 /\ left' = left - 1)
      /\ clock' = clock \/ (clock < End /\ clock' = clock + 1)
      /\ pr' \in {pr, "closed"} /\ live' \in {live, ~live}
  BY DEF ClosePR, SwitchMode, Tick, vars, Event, github
<1>2. DoorOK'
  BY <1>1, DoorStays DEF Types
<1>3. Globals'
  <2>1. clock' \in 1..End /\ left' \in Nat
    BY <1>1, ReviewAssumption DEF Types, Globals
  <2>2. pr' \in {"open", "closed"} /\ live' \in BOOLEAN
    BY <1>1 DEF Types, Globals
  <2> QED
    BY <1>1, <2>1, <2>2 DEF Types, Globals, ledger
<1> QED
  BY <1>1, <1>2, <1>3 DEF Types, RowOK, VaultOK, HandOK, ledger, vault

LEMMA TypesStep == Types /\ [Next]_vars => Types'
<1> SUFFICES ASSUME Types, [Next]_vars PROVE Types'
  OBVIOUS
<1>1. ASSUME NEW h \in Hooks, NEW c \in Comments, Webhook(h, c) PROVE Types'
  BY <1>1, WebhookTypes
<1>2. ASSUME NEW d \in Doors, DoorStep(d) \/ BriefError(d) \/ DoorDies(d) PROVE Types'
  BY <1>2, MarkBriefTypes, WriteBriefTypes, BriefErrorTypes, DoorDiesTypes DEF DoorStep
<1>3. ASSUME NEW p \in Pollers, PollStep(p) PROVE Types'
  BY <1>3, ListTypes, LookTypes, HandTypes DEF PollStep
<1>4. CASE Ask \/ OpenOwn \/ RetryRow
  BY <1>4, AskTypes, OpenOwnTypes, RowTypes
<1>5. CASE RunStep \/ ClaimLost \/ Park \/ Die \/ RetryLost
  BY <1>5, TakeTypes, ClaimTypes, ReadThreadsTypes, EndTypes, ReportTypes, RowTypes,
     ParkTypes, DieTypes, RetryLostTypes DEF RunStep
<1>6. CASE People \/ Tick \/ UNCHANGED vars
  BY <1>6, RetryBriefTypes, OutsideTypes, CommentTypes DEF People
<1> QED
  BY <1>1, <1>2, <1>3, <1>4, <1>5, <1>6 DEF Next, Mishap

LEMMA TypesAlways == Spec => []Types
<1> QED
  BY TypesStart, TypesStep, PTL DEF Spec

(* The rows and the briefs keep the values the code gives them, and the    *)
(* rounds never pass max_review_fix_rounds (open_review_round).            *)
THEOREM TypesHold == Spec => []TypeOK
<1>1. Types => TypeOK
  BY DEF Types, Globals, RowOK, VaultOK, Rows, States, TypeOK, Sayings
<1> QED
  BY <1>1, TypesAlways, PTL

-----------------------------------------------------------------------------
(* Who has the round.                                                      *)
Writes(j) == j.pc \in {"write", "mark"}

\* A caller that writes a brief is alone, and so is the brief.
Writer(j) ==
    /\ row.state = "admitted" /\ hand.pc = "idle" /\ ~retrying
    /\ \A n \in Waiting : j.pc = "mark" /\ j.live /\ n = j.n /\ brief[n].status = "pending"

Writers ==
    /\ \A d, e \in Doors : Writes(door[d]) /\ Writes(door[e]) => d = e
    /\ \A d \in Doors : Writes(door[d]) => Writer(door[d])

\* The second write of park_brief is still to come.
Parking == hand.pc = "close" /\ hand.report = "admitted"

Worker ==
    /\ hand.pc # "idle" => row.state \in InFlightStates /\ ~retrying
    /\ hand.pc \in {"claim", "start", "run"} => brief[hand.n].status = "running"
    /\ hand.pc \in {"start", "run"} => row.state = "running" \/ unsaid
    /\ Parking => brief[hand.n].status = "pending"
    /\ hand.pc = "close" /\ ~Parking => Waiting = {}

InQueue ==
    /\ \A m, n \in Waiting : m = n
    /\ Waiting # {} => row.state \in InFlightStates \/ retrying
    /\ \A n \in Waiting : brief[n].status = "pending" => row.state = "admitted" \/ retrying \/ Parking

Retrying ==
    retrying => /\ hand.pc = "idle" /\ row.state = "failed"
                /\ \A n \in Waiting : brief[n].status = "pending"

Asker ==
    door[Self].pc = "asked" => /\ door[Self].was = row /\ hand.pc = "idle" /\ ~retrying
                               /\ \A d \in Doors : ~Writes(door[d])

Shape == Writers /\ Worker /\ InQueue /\ Retrying /\ Asker

Still == \A d \in Doors : ~Writes(door[d])

LEMMA ShapeStart == Init => Shape
<1> SUFFICES ASSUME Init PROVE Shape
  OBVIOUS
<1>1. /\ hand.pc = "idle" /\ retrying = FALSE
      /\ \A d \in Doors : door[d].pc = "idle"
      /\ \A n \in Numbers : brief[n].status = "absent"
  BY DEF Init, Idle, NoJob, NoBrief
<1>2. Waiting = {}
  BY <1>1 DEF Waiting
<1>3. Self \in Doors
  BY DoorsAre
<1> QED
  BY <1>1, <1>2, <1>3 DEF Shape, Writers, Writes, Worker, Parking, InQueue, Retrying, Asker

(* Nobody has the round, or it is in the queue.                            *)
LEMMA Quiet ==
    ASSUME Still', door'[Self].pc # "asked", hand'.pc = "idle", ~retrying',
           \/ Waiting' = {}
           \/ row'.state = "admitted" /\ \A m, n \in Waiting' : m = n
    PROVE  Shape'
  BY DEF Shape, Writers, Still, Worker, Parking, InQueue, Retrying, Asker, InFlightStates

(* The row is free: so is everybody.                                       *)
LEMMA FreeRow ==
    ASSUME Shape, row.state \notin InFlightStates, ~retrying
    PROVE  Waiting = {} /\ hand.pc = "idle" /\ Still
  BY DEF Shape, Writers, Writer, Still, Worker, InQueue, InFlightStates

(* A caller leaves, or looks, and writes no brief.                         *)
LEMMA DoorShape ==
    ASSUME Types, Shape, NEW d \in Doors, NEW j \in Jobs, ~Writes(j), j.pc # "asked",
           door' = [door EXCEPT ![d] = j], UNCHANGED <<brief, hand, retrying, unsaid>>,
           row' = row \/ (row'.state = row.state /\ (door[Self].pc = "asked" => d = Self))
    PROVE  Shape'
<1>1. /\ door'[d] = j /\ Self \in Doors
      /\ \A e \in Doors : e # d => door'[e] = door[e]
  BY DoorIs, DoorsAre DEF Types, DoorOK
<1>2. Waiting' = Waiting /\ row'.state = row.state
  BY DEF Waiting
<1>3. \A e \in Doors : Writes(door'[e]) => Writes(door[e]) /\ door'[e] = door[e]
  BY <1>1
<1>4. Writers'
  BY <1>2, <1>3 DEF Shape, Writers, Writer, Writes
<1>5. Worker' /\ InQueue' /\ Retrying'
  BY <1>2 DEF Shape, Worker, InQueue, Retrying, Parking
<1>6. Asker'
  BY <1>1, <1>3 DEF Shape, Asker, Writes
<1> QED
  BY <1>4, <1>5, <1>6 DEF Shape

(* The transaction of open_review_round on the row as it is.               *)
LEMMA OpensShape ==
    ASSUME Types, Shape, NEW d \in Doors, NEW c \in 0..Last, NEW t \in 0..End,
           OpenReviewRound(d, row, c, t), ~retrying, door[Self].pc = "asked" => d = Self,
           UNCHANGED <<brief, hand, retrying, unsaid>>
    PROVE  Shape'
<1>0. /\ NoJob \in Jobs /\ ~Writes(NoJob) /\ NoJob.pc # "asked" /\ Self \in Doors
      /\ row \in Rows /\ door \in [Doors -> Jobs]
  BY NoJobIs, DoorsAre DEF Writes, NoJob, Types, RowOK, DoorOK
<1>1. CASE InFlight(d, row, t)
  <2>1. row'.state = row.state /\ door' = [door EXCEPT ![d] = NoJob]
    BY <1>0, <1>1 DEF InFlight, Rows
  <2> QED
    BY <1>0, <2>1, DoorShape
<1>2. CASE SameDraft(d, row)
  BY <1>0, <1>2, DoorShape DEF SameDraft
<1>3. CASE CapReached(d, row)
  <2>1. Waiting = {} /\ hand.pc = "idle" /\ Still
    BY <1>3, FreeRow DEF CapReached
  <2>2. /\ door'[d] = NoJob /\ \A e \in Doors : e # d => door'[e] = door[e]
    BY <1>0, <1>3, DoorIs DEF CapReached
  <2>3. Still' /\ door'[Self].pc # "asked"
    BY <1>0, <2>1, <2>2 DEF Still, Writes
  <2>4. Waiting' = {} /\ hand'.pc = "idle" /\ ~retrying'
    BY <2>1 DEF Waiting
  <2> QED
    BY <2>3, <2>4, Quiet
<1>4. CASE OpensRound(d, row, c, t)
  <2>1. Waiting = {} /\ hand.pc = "idle" /\ Still
    BY <1>4, FreeRow DEF OpensRound
  <2> DEFINE j == [NoJob EXCEPT !.pc = "write", !.c = c, !.live = live,
                                !.was = [NoRow EXCEPT !.rounds = row.rounds]]
  <2>2. door' = [door EXCEPT ![d] = j] /\ j.pc = "write"
    BY <1>4 DEF OpensRound, NoJob
  <2> HIDE DEF j
  <2>3. /\ door'[d].pc = "write" /\ \A e \in Doors : e # d => door'[e] = door[e]
    BY <1>0, <2>2
  <2>4. row'.state = "admitted"
    BY <1>0, <1>4 DEF OpensRound, Rows
  <2>5. Waiting' = {} /\ hand'.pc = "idle" /\ ~retrying'
    BY <2>1 DEF Waiting
  <2>6. Writers'
    BY <2>1, <2>3, <2>4, <2>5 DEF Still, Writers, Writer, Writes
  <2>7. Worker' /\ InQueue' /\ Retrying'
    BY <2>5 DEF Worker, InQueue, Retrying, Parking
  <2>8. Asker'
    BY <1>0, <2>3 DEF Asker
  <2> QED
    BY <2>6, <2>7, <2>8 DEF Shape
<1> QED
  BY <1>1, <1>2, <1>3, <1>4 DEF OpenReviewRound

(* A refused or repeated delivery, or one that comes to the door.          *)
LEMMA DeliverShape ==
    ASSUME Prompt, Types, Shape, NEW d \in Doors, d # Self, NEW c \in Comments, NEW id,
           Deliver(d, id, c)
    PROVE  Shape'
<1>1. ~retrying /\ door[Self].pc # "asked"
  BY DEF Deliver, Undisturbed
<1>2. UNCHANGED <<brief, hand, retrying, unsaid>>
  BY DEF Deliver, vault
<1>3. c \in 0..Last /\ At(c) \in 0..End
  BY CommentsAre, ReviewAssumption DEF Types
<1>4. CASE OpenReviewRound(d, row, c, At(c))
  BY <1>1, <1>2, <1>3, <1>4, OpensShape
<1>5. CASE UNCHANGED row /\ door' = [door EXCEPT ![d] = NoJob]
  <2>1. NoJob \in Jobs /\ ~Writes(NoJob) /\ NoJob.pc # "asked"
    BY NoJobIs DEF Writes
  <2> QED
    BY <1>2, <1>5, <2>1, DoorShape
<1> QED
  BY <1>4, <1>5 DEF Deliver

LEMMA PollShape == ASSUME Prompt, Types, Shape, NEW p \in Pollers, PollStep(p) PROVE Shape'
<1>1. p \in Doors /\ p # Self
  BY DoorsAre
<1>2. CASE Hand(p)
  <2>1. door[p].c \in Comments
    BY <1>1, <1>2 DEF Hand, Types, DoorOK, JobOK
  <2> QED
    BY <1>1, <1>2, <2>1, DeliverShape DEF Hand
<1>3. CASE Look(p)
  <2> DEFINE j == IF Pending(door[p].c) THEN [door[p] EXCEPT !.pc = "found"] ELSE NoJob
  <2>1. j \in Jobs /\ ~Writes(j) /\ j.pc # "asked"
    BY <1>1, NoJobIs DEF Types, DoorOK, Jobs, Writes
  <2>2. door' = [door EXCEPT ![p] = j] /\ row' = row /\ UNCHANGED <<brief, hand, retrying, unsaid>>
    BY <1>3 DEF Look, ledger, vault
  <2> HIDE DEF j
  <2> QED
    BY <1>1, <2>1, <2>2, DoorShape
<1>4. CASE ListComments(p)
  <2>1. PICK c \in Comments : door' = [door EXCEPT ![p] = [NoJob EXCEPT !.pc = "listed", !.c = c]]
    BY <1>4 DEF ListComments
  <2> DEFINE j == [NoJob EXCEPT !.pc = "listed", !.c = c]
  <2>2. c \in 0..Last
    BY CommentsAre DEF Types
  <2>3. j \in Jobs /\ ~Writes(j) /\ j.pc # "asked"
    BY <2>2, NoJobIs DEF NoJob, Jobs, Writes
  <2>4. door' = [door EXCEPT ![p] = j] /\ row' = row /\ UNCHANGED <<brief, hand, retrying, unsaid>>
    BY <1>4, <2>1 DEF ListComments, ledger, vault
  <2> HIDE DEF j
  <2> QED
    BY <1>1, <2>3, <2>4, DoorShape
<1> QED
  BY <1>2, <1>3, <1>4 DEF PollStep

LEMMA AskShape == ASSUME Prompt, Types, Shape, Ask PROVE Shape'
<1> DEFINE j == [NoJob EXCEPT !.pc = "asked", !.at = clock, !.was = row]
<1>1. /\ Still /\ ~retrying /\ hand.pc = "idle"
      /\ door' = [door EXCEPT ![Self] = j]
      /\ UNCHANGED <<row, brief, hand, retrying, unsaid>>
  BY DEF Ask, Free, Idle, Between, Still, Writes, ledger, vault
<1>2. j.pc = "asked" /\ j.was = row
  BY DEF NoJob
<1> HIDE DEF j
<1>3. door'[Self] = j /\ \A e \in Doors : e # Self => door'[e] = door[e]
  BY <1>1, DoorsAre DEF Types, DoorOK
<1>4. Still'
  BY <1>1, <1>2, <1>3 DEF Still, Writes
<1>5. Waiting' = Waiting
  BY <1>1 DEF Waiting
<1>6. Writers'
  BY <1>4 DEF Writers, Still
<1>7. Worker' /\ InQueue' /\ Retrying'
  BY <1>1, <1>5 DEF Shape, Worker, InQueue, Retrying, Parking
<1>8. Asker'
  BY <1>1, <1>2, <1>3, <1>4 DEF Asker, Still
<1> QED
  BY <1>6, <1>7, <1>8 DEF Shape

LEMMA OpenOwnShape == ASSUME Prompt, Types, Shape, OpenOwn PROVE Shape'
<1>1. door[Self].was = row /\ ~retrying
  BY DEF OpenOwn, Shape, Asker
<1>2. Self \in Doors /\ 0 \in 0..Last /\ door[Self].at \in 0..End
  BY DoorsAre, ReviewAssumption DEF Types, DoorOK, Jobs
<1>3. OpenReviewRound(Self, row, 0, door[Self].at) /\ UNCHANGED <<brief, hand, retrying, unsaid>>
  BY <1>1 DEF OpenOwn, vault
<1> QED
  BY <1>1, <1>2, <1>3, OpensShape

LEMMA WriteBriefShape == ASSUME Types, Shape, NEW d \in Doors, WriteBrief(d) PROVE Shape'
<1>1. PICK n \in Numbers :
          /\ brief[n].status = "absent"
          /\ brief' = [brief EXCEPT ![n] =
                 [NoBrief EXCEPT !.status = IF door[d].live THEN "pending" ELSE "draft"]]
          /\ door' = [door EXCEPT ![d] = [NoJob EXCEPT !.pc = "mark", !.live = door[d].live, !.n = n]]
  BY DEF WriteBrief
<1>2. /\ door'[d].pc = "mark" /\ door'[d].n = n /\ door'[d].live = door[d].live
      /\ \A e \in Doors : e # d => door'[e] = door[e]
      /\ brief'[n].status = IF door[d].live THEN "pending" ELSE "draft"
      /\ \A m \in Numbers : m # n => brief'[m] = brief[m]
  BY <1>1 DEF Types, DoorOK, VaultOK, NoJob, NoBrief
<1>3. /\ Writer(door[d]) /\ Waiting = {} /\ door[d].pc = "write"
      /\ \A e \in Doors : Writes(door[e]) => e = d
  BY DEF WriteBrief, Shape, Writers, Writer, Writes
<1>4. UNCHANGED <<row, hand, retrying>>
  BY DEF WriteBrief, ledger
<1>5. \A m \in Waiting' : m = n /\ brief'[m].status = "pending" /\ door[d].live
  BY <1>2, <1>3 DEF Waiting
<1>6. Writers'
  BY <1>2, <1>3, <1>4, <1>5 DEF Writers, Writer, Writes
<1>7. row.state = "admitted" /\ hand.pc = "idle" /\ ~retrying
  BY <1>3 DEF Writer
<1>8. Worker' /\ InQueue' /\ Retrying'
  BY <1>4, <1>5, <1>7 DEF Worker, InQueue, Retrying, Parking, InFlightStates
<1>9. Asker'
  <2>1. door[Self].pc # "asked"
    BY <1>3 DEF Shape, Asker, Writes
  <2>2. door'[Self].pc # "asked"
    BY <1>2, <2>1, DoorsAre
  <2> QED
    BY <2>2 DEF Asker
<1> QED
  BY <1>6, <1>8, <1>9 DEF Shape

(* The only writer leaves.                                                 *)
LEMMA WriterLeaves ==
    ASSUME Types, Shape, NEW d \in Doors, Writes(door[d]), door' = [door EXCEPT ![d] = NoJob]
    PROVE  Still' /\ door'[Self].pc # "asked" /\ hand.pc = "idle" /\ ~retrying
<1>1. /\ door'[d] = NoJob /\ NoJob.pc = "idle"
      /\ \A e \in Doors : e # d => door'[e] = door[e]
  BY NoJobIs DEF Types, DoorOK
<1>2. /\ \A e \in Doors : Writes(door[e]) => e = d
      /\ hand.pc = "idle" /\ ~retrying
  BY DEF Shape, Writers, Writer
<1>3. door[Self].pc # "asked"
  BY DEF Shape, Asker
<1> QED
  BY <1>1, <1>2, <1>3, DoorsAre DEF Still, Writes

LEMMA MarkBriefShape == ASSUME Types, Shape, NEW d \in Doors, MarkBrief(d) PROVE Shape'
<1>1. /\ Writes(door[d]) /\ door' = [door EXCEPT ![d] = NoJob]
      /\ UNCHANGED <<brief, hand, retrying, unsaid>>
      /\ row' = [row EXCEPT !.state = IF door[d].live THEN "admitted" ELSE "dry_run",
                            !.path = door[d].n]
  BY DEF MarkBrief, Writes, vault
<1>2. row'.state = IF door[d].live THEN "admitted" ELSE "dry_run"
  BY <1>1 DEF Types, RowOK, Rows
<1>3. Writer(door[d]) /\ Waiting' = Waiting /\ \A m, n \in Waiting : m = n
  BY <1>1 DEF Shape, Writers, InQueue, Waiting
<1>4. \/ Waiting' = {}
      \/ row'.state = "admitted" /\ \A m, n \in Waiting' : m = n
  BY <1>2, <1>3 DEF Writer
<1> QED
  BY <1>1, <1>4, WriterLeaves, Quiet

LEMMA BriefErrorShape == ASSUME Types, Shape, NEW d \in Doors, BriefError(d) PROVE Shape'
<1>1. /\ Writes(door[d]) /\ door' = [door EXCEPT ![d] = NoJob] /\ door[d].pc = "write"
      /\ UNCHANGED <<brief, hand, retrying, unsaid>>
  BY DEF BriefError, Writes, vault
<1>2. Waiting' = {}
  BY <1>1 DEF Shape, Writers, Writer, Waiting
<1> QED
  BY <1>1, <1>2, WriterLeaves, Quiet

LEMMA DoorDiesShape == ASSUME Types, Shape, NEW d \in Doors, DoorDies(d) PROVE Shape'
<1>1. /\ NoJob \in Jobs /\ ~Writes(NoJob) /\ NoJob.pc # "asked"
      /\ UNCHANGED <<row, brief, hand, retrying, unsaid>> /\ door' = [door EXCEPT ![d] = NoJob]
  BY NoJobIs DEF Writes, DoorDies, ledger, vault
<1> QED
  BY <1>1, DoorShape

(* While the dispatcher is at work, nobody is at the door.                 *)
LEMMA Busy ==
    ASSUME Shape, hand.pc # "idle"
    PROVE  Still /\ door[Self].pc # "asked" /\ ~retrying /\ row.state \in InFlightStates
  BY DEF Shape, Writers, Writer, Still, Asker, Worker

LEMMA HandShape ==
    ASSUME Still, door[Self].pc # "asked", ~retrying, UNCHANGED <<door, retrying>>,
           Worker', InQueue'
    PROVE  Shape'
  BY DEF Shape, Still, Writers, Retrying, Asker

\* The other briefs do not wait.
Alone(n) == \A m \in Waiting : m = n

LEMMA StatusWaits ==
    ASSUME brief \in [Numbers -> Briefs], NEW n \in Numbers, Alone(n), NEW s \in Statuses,
           SetStatus(n, s)
    PROVE  /\ \A m \in Waiting' : m = n
           /\ n \in Waiting' <=> s \in {"pending", "running"}
           /\ brief'[n].status = s
<1>1. brief'[n].status = s /\ \A m \in Numbers : m # n => brief'[m] = brief[m]
  BY StatusIs
<1>2. \A m \in Waiting' : m = n
  BY <1>1 DEF Waiting, Alone
<1>3. n \in Waiting' <=> s \in {"pending", "running"}
  BY <1>1 DEF Waiting
<1> QED
  BY <1>1, <1>2, <1>3

LEMMA FreeIs == ASSUME Free PROVE hand.pc = "idle" /\ door[Self].pc = "idle"
  BY DEF Free, Idle

LEMMA TakeShape ==
    ASSUME Prompt, Types, Shape, NEW n \in Numbers, Take(n) \/ Refuse(n)
    PROVE  Shape'
<1>1. /\ ~retrying /\ hand.pc = "idle" /\ door[Self].pc # "asked" /\ Still
      /\ brief[n].status = "pending" /\ UNCHANGED <<row, door, retrying>>
  BY FreeIs DEF Take, Refuse, Between, Still, Writes, ledger
<1>2. n \in Waiting /\ Alone(n) /\ row.state = "admitted"
  BY <1>1 DEF Shape, InQueue, Parking, Waiting, Alone
<1>3. brief \in [Numbers -> Briefs] /\ {"running", "skipped"} \subseteq Statuses
  BY DEF Types, VaultOK, Statuses
<1>4. CASE Take(n)
  <2>1. (\A m \in Waiting' : m = n) /\ brief'[n].status = "running"
    BY <1>2, <1>3, <1>4, StatusWaits DEF Take
  <2>2. hand' = [pc |-> "claim", n |-> n, report |-> None]
    BY <1>4 DEF Take
  <2>3. hand'.pc = "claim" /\ hand'.n = n
    BY <2>2
  <2>4. Worker'
    BY <1>1, <1>2, <2>1, <2>3 DEF Worker, Parking, InFlightStates
  <2>5. InQueue'
    BY <1>1, <1>2, <2>1 DEF InQueue, InFlightStates
  <2> QED
    BY <1>1, <2>4, <2>5, HandShape
<1>5. CASE Refuse(n)
  <2>1. (\A m \in Waiting' : m = n) /\ n \notin Waiting'
    BY <1>2, <1>3, <1>5, StatusWaits DEF Refuse
  <2>2. Waiting' = {}
    BY <2>1
  <2>3. hand'.pc = "close" /\ hand'.report = "rejected_pr_closed"
    BY <1>5 DEF Refuse
  <2>4. Worker' /\ InQueue'
    BY <1>1, <1>2, <2>2, <2>3 DEF Worker, InQueue, Parking, InFlightStates
  <2> QED
    BY <1>1, <2>4, HandShape
<1> QED
  BY <1>4, <1>5

LEMMA ClaimShape == ASSUME Types, Shape, Claim \/ ClaimLost \/ ReadThreads PROVE Shape'
<1>1. /\ hand.pc \in {"claim", "start"} /\ hand.n \in Numbers /\ hand \in Hands
      /\ UNCHANGED <<brief, door, retrying>>
  BY DEF Claim, ClaimLost, ReadThreads, Types, HandOK, vault
<1>2. /\ hand'.pc \in {"start", "run"} /\ hand'.n = hand.n
      /\ row'.state = "running" \/ (unsaid' /\ row' = row)
  <2>1. CASE Claim
    BY <2>1 DEF Claim, Types, RowOK, Rows, HandOK, Hands
  <2>2. CASE ClaimLost
    BY <2>2 DEF ClaimLost, ledger, Types, HandOK, Hands
  <2>3. CASE ReadThreads
    BY <2>3 DEF ReadThreads, ledger, Types, HandOK, Hands, Shape, Worker
  <2> QED
    BY <2>1, <2>2, <2>3
<1>3. Still /\ door[Self].pc # "asked" /\ ~retrying /\ row'.state \in InFlightStates
  BY <1>1, <1>2, Busy DEF InFlightStates
<1>4. brief[hand.n].status = "running" /\ hand.n \in Waiting /\ \A m, n \in Waiting : m = n
  BY <1>1 DEF Shape, Worker, InQueue, Waiting
<1>5. Waiting' = Waiting
  BY <1>1 DEF Waiting
<1>6. Worker'
  BY <1>1, <1>2, <1>3, <1>4 DEF Worker, Parking
<1>7. \A m \in Waiting' : brief'[m].status = "running"
  BY <1>1, <1>4, <1>5
<1>8. InQueue'
  BY <1>3, <1>4, <1>5, <1>7 DEF InQueue
<1> QED
  BY <1>1, <1>3, <1>6, <1>8, HandShape

(* The brief the dispatcher works on is the one that waits.                *)
LEMMA OneInHand ==
    ASSUME Types, Shape, hand.pc \in {"claim", "start", "run"}
    PROVE  hand.n \in Numbers /\ Alone(hand.n)
  BY DEF Types, HandOK, Shape, Worker, InQueue, Waiting, Alone

LEMMA EndShape == ASSUME Types, Shape, Done \/ Fail PROVE Shape'
<1>1. PICK s \in {"done", "failed"} :
          /\ SetStatus(hand.n, s)
          /\ hand' = [hand EXCEPT !.pc = "close", !.report = s]
          /\ hand.pc \in {"start", "run"}
          /\ UNCHANGED <<row, door, retrying>>
  BY DEF Done, Fail, ledger
<1>2. Still /\ door[Self].pc # "asked" /\ ~retrying /\ row.state \in InFlightStates
  BY <1>1, Busy
<1>3. hand.n \in Numbers /\ Alone(hand.n)
  BY <1>1, OneInHand
<1>4. brief \in [Numbers -> Briefs] /\ s \in Statuses /\ s \notin {"pending", "running"}
  BY DEF Types, VaultOK, Statuses
<1>5. Waiting' = {}
  <2>1. (\A m \in Waiting' : m = hand.n) /\ hand.n \notin Waiting'
    BY <1>1, <1>3, <1>4, StatusWaits
  <2> QED
    BY <2>1
<1>6. hand'.pc = "close" /\ hand'.report = s
  BY <1>1 DEF Types, HandOK, Hands
<1>7. Worker' /\ InQueue'
  BY <1>1, <1>2, <1>5, <1>6 DEF Worker, InQueue, Parking
<1> QED
  BY <1>1, <1>2, <1>7, HandShape

LEMMA ParkShape == ASSUME Types, Shape, Park PROVE Shape'
<1>1. /\ hand.pc = "run" /\ hand'.pc = "close" /\ hand'.report = "admitted" /\ hand'.n = hand.n
      /\ brief'[hand.n].status = "pending" /\ hand.n \in Numbers
      /\ \A m \in Numbers : m # hand.n => brief'[m] = brief[m]
      /\ UNCHANGED <<row, door, retrying>>
  BY ParkIs DEF ledger
<1>2. Still /\ door[Self].pc # "asked" /\ ~retrying /\ row.state \in InFlightStates
  BY <1>1, Busy
<1>3. \A m \in Waiting : m = hand.n
  BY <1>1, OneInHand DEF Alone
<1>4. \A m \in Waiting' : m = hand.n
  BY <1>1, <1>3 DEF Waiting
<1>5. Worker'
  BY <1>1, <1>2 DEF Worker, Parking
<1>6. InQueue'
  BY <1>1, <1>2, <1>4 DEF InQueue, Parking
<1> QED
  BY <1>1, <1>2, <1>5, <1>6, HandShape

LEMMA ReportShape == ASSUME Types, Shape, Report PROVE Shape'
<1>1. /\ hand.pc = "close" /\ UNCHANGED <<brief, door, retrying>> /\ hand' = Idle
  BY DEF Report, vault
<1>2. hand'.pc = "idle" /\ row'.state = hand.report /\ Waiting' = Waiting
  BY <1>1 DEF Report, Idle, Types, RowOK, Rows, Waiting
<1>3. Still /\ door[Self].pc # "asked" /\ ~retrying
  BY <1>1, Busy
<1>4. \/ Waiting' = {}
      \/ row'.state = "admitted" /\ \A m, n \in Waiting' : m = n
  BY <1>1, <1>2 DEF Shape, Worker, InQueue, Parking
<1>5. Still'
  BY <1>1, <1>3 DEF Still
<1> QED
  BY <1>1, <1>2, <1>3, <1>4, <1>5, Quiet

(* The dispatcher dies, but not between the two writes of park_brief.      *)
LEMMA DieShape == ASSUME Types, Shape, Die, ~torn' PROVE Shape'
<1>1. /\ hand # Idle /\ hand' = Idle /\ UNCHANGED <<row, brief, door, retrying>>
  BY DEF Die, ledger, vault
<1>2. ~Parking
  BY DEF Die, Parking
<1>3. hand.pc # "idle" /\ hand'.pc = "idle" /\ Waiting' = Waiting
  BY <1>1 DEF Types, HandOK, Idle, Waiting
<1>4. Still /\ door[Self].pc # "asked" /\ ~retrying /\ row.state \in InFlightStates
  BY <1>3, Busy
<1>5. Worker'
  BY <1>3 DEF Worker, Parking
<1>6. InQueue'
  BY <1>1, <1>2, <1>3, <1>4 DEF Shape, InQueue
<1> QED
  BY <1>1, <1>4, <1>5, <1>6, HandShape

LEMMA ReapBriefShape == ASSUME Types, Shape, NEW n \in Numbers, ReapBrief(n) PROVE Shape'
<1>1. /\ hand.pc = "idle" /\ door[Self].pc # "asked" /\ brief[n].status = "running"
      /\ UNCHANGED <<row, door, retrying>> /\ SetStatus(n, "failed")
      /\ hand' = [pc |-> "close", n |-> n, report |-> "failed"]
  BY FreeIs DEF ReapBrief, ledger
<1>2. n \in Waiting
  BY <1>1 DEF Waiting
<1>3. Still /\ ~retrying
  BY <1>1, <1>2 DEF Shape, Writers, Writer, Still, Retrying
<1>4. Alone(n) /\ row.state \in InFlightStates
  BY <1>2, <1>3 DEF Shape, InQueue, Alone
<1>5. Waiting' = {}
  <2>1. brief \in [Numbers -> Briefs] /\ "failed" \in Statuses
    BY DEF Types, VaultOK, Statuses
  <2> QED
    BY <1>1, <1>4, <2>1, StatusWaits
<1>6. hand'.pc = "close" /\ hand'.report = "failed"
  BY <1>1
<1>7. Worker' /\ InQueue'
  BY <1>1, <1>3, <1>4, <1>5, <1>6 DEF Worker, InQueue, Parking
<1> QED
  BY <1>1, <1>3, <1>7, HandShape

LEMMA ReapRowShape == ASSUME Types, Shape, ReapRow PROVE Shape'
<1>1. /\ hand.pc = "idle" /\ door[Self].pc # "asked" /\ row.state = "running"
      /\ UNCHANGED <<brief, door, hand, retrying>>
      /\ \A n \in Numbers : brief[n].status # "running"
  BY FreeIs DEF ReapRow, vault
<1>2. Still /\ ~retrying
  BY <1>1 DEF Shape, Writers, Writer, Still, Retrying
<1>3. \A n \in Waiting : brief[n].status = "pending"
  BY <1>1 DEF Waiting
<1>4. Waiting = {}
  BY <1>1, <1>2, <1>3 DEF Shape, InQueue, Parking
<1>5. Waiting' = {} /\ Still'
  BY <1>1, <1>2, <1>4 DEF Waiting, Still
<1> QED
  BY <1>1, <1>2, <1>5, Quiet

LEMMA RetryBriefShape == ASSUME Prompt, Types, Shape, RetryBrief PROVE Shape'
<1> DEFINE n == row.path
<1>1. /\ ~retrying /\ row.state = "failed" /\ hand.pc = "idle" /\ Still /\ door[Self].pc # "asked"
      /\ SetStatus(n, "pending") /\ retrying' = TRUE
      /\ UNCHANGED <<row, door, hand>>
  BY DoorsAre DEF RetryBrief, Idle, Between, Still, Writes, ledger
<1>2. n \in Numbers /\ brief \in [Numbers -> Briefs] /\ "pending" \in Statuses
  BY DEF RetryBrief, Types, RowOK, Rows, VaultOK, Statuses
<1>3. Alone(n)
  BY <1>1, FreeRow DEF InFlightStates, Alone
<1> HIDE DEF n
<1>4. (\A m \in Waiting' : m = n) /\ brief'[n].status = "pending"
  BY <1>1, <1>2, <1>3, StatusWaits
<1>5. Worker' /\ InQueue' /\ Retrying'
  BY <1>1, <1>4 DEF Worker, InQueue, Retrying, Parking
<1>6. Writers' /\ Asker'
  BY <1>1 DEF Still, Writers, Asker
<1> QED
  BY <1>5, <1>6 DEF Shape

LEMMA RetryRowShape == ASSUME Types, Shape, RetryRow PROVE Shape'
<1>1. /\ retrying /\ hand.pc = "idle" /\ retrying' = FALSE
      /\ UNCHANGED <<brief, door, hand>>
      /\ \A m, n \in Waiting : m = n
  BY DEF RetryRow, vault, Shape, Retrying, InQueue
<1>2. Still /\ door[Self].pc # "asked"
  BY <1>1 DEF Shape, Writers, Writer, Still, Asker
<1>3. Still' /\ Waiting' = Waiting
  BY <1>1, <1>2 DEF Still, Waiting
<1>4. row'.state = "admitted"
  BY DEF RetryRow, Types, RowOK, Rows
<1> QED
  BY <1>1, <1>2, <1>3, <1>4, Quiet

LEMMA OutsideShape ==
    ASSUME Shape, UNCHANGED <<row, brief, door, hand, retrying, unsaid>>
    PROVE  Shape'
<1>1. Waiting' = Waiting /\ Parking' = Parking
  BY DEF Waiting, Parking
<1> QED
  BY <1>1 DEF Shape, Writers, Writer, Worker, InQueue, Retrying, Asker

LEMMA TornStays == ASSUME [Next]_vars, torn PROVE torn'
<1> USE DEF Deliver, ListComments, Look, vars
<1>1. ASSUME NEW h \in Hooks, NEW c \in Comments, Webhook(h, c) PROVE torn' = torn
  BY <1>1 DEF Webhook
<1>2. ASSUME NEW d \in Doors, DoorStep(d) \/ BriefError(d) \/ DoorDies(d) PROVE torn' = torn
  BY <1>2 DEF DoorStep, MarkBrief, WriteBrief, BriefError, DoorDies
<1>3. ASSUME NEW p \in Pollers, PollStep(p) PROVE torn' = torn
  BY <1>3 DEF PollStep, Hand
<1>4. ASSUME NEW n \in Numbers, Take(n) \/ Refuse(n) \/ ReapBrief(n) PROVE torn' = torn
  BY <1>4 DEF Take, Refuse, ReapBrief
<1>5. CASE Claim \/ ClaimLost \/ ReadThreads \/ Done \/ Fail \/ Report \/ ReapRow \/ Park
           \/ Ask \/ OpenOwn \/ RetryRow
  BY <1>5 DEF Claim, ClaimLost, ReadThreads, Done, Fail, Report, ReapRow, Park, Ask, OpenOwn,
     RetryRow
<1>6. CASE Die \/ RetryLost
  BY <1>6, Zenon DEF Die, RetryLost
<1>7. CASE People \/ Tick \/ UNCHANGED vars
  BY <1>7 DEF People, RetryBrief, ClosePR, SwitchMode, Comment, Tick
<1> QED
  BY <1>1, <1>2, <1>3, <1>4, <1>5, <1>6, <1>7 DEF Next, RunStep, Mishap

LEMMA ShapeStep ==
    ASSUME Prompt, Types, torn \/ Shape, [Next]_vars
    PROVE  torn' \/ Shape'
<1> SUFFICES ASSUME ~torn' PROVE Shape'
  OBVIOUS
<1>a. Shape
  BY TornStays
<1>1. ASSUME NEW h \in Hooks, NEW c \in Comments, Webhook(h, c) PROVE Shape'
  BY <1>1, <1>a, DoorsAre, DeliverShape DEF Webhook
<1>2. ASSUME NEW d \in Doors, DoorStep(d) \/ BriefError(d) \/ DoorDies(d) PROVE Shape'
  BY <1>2, <1>a, MarkBriefShape, WriteBriefShape, BriefErrorShape, DoorDiesShape DEF DoorStep
<1>3. ASSUME NEW p \in Pollers, PollStep(p) PROVE Shape'
  BY <1>3, <1>a, PollShape
<1>4. CASE Ask \/ OpenOwn \/ RetryRow
  BY <1>4, <1>a, AskShape, OpenOwnShape, RetryRowShape
<1>5. CASE RunStep \/ ClaimLost \/ Park \/ Die \/ RetryLost
  <2>1. ~RetryLost
    BY DEF RetryLost
  <2> QED
    BY <1>5, <1>a, <2>1, TakeShape, ClaimShape, EndShape, ReportShape, ReapBriefShape,
       ReapRowShape, ParkShape, DieShape DEF RunStep
<1>6. CASE People \/ Tick \/ UNCHANGED vars
  <2>1. CASE RetryBrief
    BY <1>a, <2>1, RetryBriefShape
  <2>2. CASE ~RetryBrief
    <3>1. UNCHANGED <<row, brief, door, hand, retrying, unsaid>>
      BY <1>6, <2>2 DEF People, ClosePR, SwitchMode, Comment, Tick, vars, ledger, vault
    <3> QED
      BY <1>a, <3>1, OutsideShape
  <2> QED
    BY <2>1, <2>2
<1> QED
  BY <1>1, <1>2, <1>3, <1>4, <1>5, <1>6 DEF Next, Mishap

(* One round at a time: a comment that comes while a brief of the pull     *)
(* request waits or runs opens no second one (open_review_round), but for  *)
(* a brief that park_brief or /retry made pending again behind the back of *)
(* its row, their second write lost.                                       *)
THEOREM OneRoundHolds == ASSUME Prompt PROVE Spec => []OneRound
<1> DEFINE I == Types /\ (torn \/ Shape)
<1>1. Init => I
  BY TypesStart, ShapeStart
<1>2. I /\ [Next]_vars => I'
  BY TypesStep, ShapeStep
<1>3. I => OneRound
  <2> SUFFICES ASSUME Types, Shape PROVE Cardinality(Waiting) <= 1
    BY DEF OneRound, OneFixer
  <2>1. \A m, n \in Waiting : m = n
    BY DEF Shape, InQueue
  <2>2. CASE Waiting = {}
    BY <2>2, FS_EmptySet
  <2>3. CASE Waiting # {}
    <3>1. PICK n : Waiting = {n}
      BY <2>1, <2>3
    <3>2. Cardinality({n}) = 1
      BY FS_Singleton, Zenon
    <3> QED
      BY <3>1, <3>2
  <2> QED
    BY <2>2, <2>3
<1> HIDE DEF I
<1> QED
  BY <1>1, <1>2, <1>3, PTL DEF Spec

-----------------------------------------------------------------------------
(* The rounds that were spent.  A round is counted when the door opens and *)
(* given back when its brief could not be written.                         *)
Rounds ==
    /\ Cardinality(Written) <= row.rounds
    /\ \A d \in Doors : door[d].pc = "write" =>
          /\ Cardinality(Written) <= door[d].was.rounds
          /\ door[d].live => Cardinality(Written) < row.rounds

LEMMA WrittenFinite == IsFiniteSet(Written) /\ Cardinality(Written) \in Nat
<1>1. IsFiniteSet(Numbers)
  BY ReviewAssumption, FS_Interval DEF Numbers
<1>2. Written \in SUBSET Numbers
  BY DEF Written
<1> QED
  BY <1>1, <1>2, FS_Subset, FS_CardinalityType

LEMMA RoundsStart == Init => Rounds
<1> SUFFICES ASSUME Init PROVE Rounds
  OBVIOUS
<1>1. Written = {} /\ row.rounds = 0 /\ \A d \in Doors : door[d].pc = "idle"
  BY DEF Init, Written, NoBrief, NoRow, NoJob
<1> QED
  BY <1>1, FS_EmptySet DEF Rounds

LEMMA RoundsKept ==
    ASSUME Rounds, Written' = Written, row'.rounds = row.rounds,
           \A d \in Doors : door'[d].pc = "write" => door'[d] = door[d]
    PROVE  Rounds'
  BY DEF Rounds

(* A caller that does not open a round.                                    *)
LEMMA RoundsDoor ==
    ASSUME Types, Rounds, NEW d \in Doors, NEW j, j.pc # "write",
           door' = [door EXCEPT ![d] = j], row'.rounds = row.rounds, UNCHANGED brief
    PROVE  Rounds'
<1>1. \A e \in Doors : door'[e].pc = "write" => door'[e] = door[e]
  BY DEF Types, DoorOK
<1>2. Written' = Written
  BY DEF Written
<1> QED
  BY <1>1, <1>2, RoundsKept

(* The status of a brief that was written changes.                         *)
LEMMA RoundsStatus ==
    ASSUME Types, Rounds, NEW n \in Numbers, NEW s \in Statuses, SetStatus(n, s),
           brief[n].status \notin {"absent", "draft"}, s \notin {"absent", "draft"},
           row'.rounds = row.rounds, UNCHANGED door
    PROVE  Rounds'
<1>1. brief'[n].status = s /\ \A m \in Numbers : m # n => brief'[m] = brief[m]
  BY StatusIs DEF Types, VaultOK
<1>2. Written' = Written
  BY <1>1 DEF Written
<1> QED
  BY <1>2, RoundsKept

LEMMA OpensRounds ==
    ASSUME Types, Shape, Rounds, NEW d \in Doors, NEW c, NEW t, ~retrying,
           OpenReviewRound(d, row, c, t), UNCHANGED brief
    PROVE  Rounds'
<1>0. row \in Rows /\ door \in [Doors -> Jobs] /\ NoJob.pc # "write"
  BY NoJobIs DEF Types, RowOK, DoorOK
<1>1. CASE InFlight(d, row, t) \/ SameDraft(d, row) \/ CapReached(d, row)
  <2>1. row'.rounds = row.rounds /\ door' = [door EXCEPT ![d] = NoJob]
    BY <1>0, <1>1 DEF InFlight, SameDraft, CapReached, Rows
  <2> QED
    BY <1>0, <2>1, RoundsDoor
<1>2. CASE OpensRound(d, row, c, t)
  <2>1. \A e \in Doors : e # d => door'[e] = door[e] /\ door[e].pc # "write"
    BY <1>0, <1>2, FreeRow DEF OpensRound, Still, Writes
  <2>2. door'[d].was.rounds = row.rounds /\ door'[d].live = live
    BY <1>0, <1>2 DEF OpensRound, NoJob, NoRow
  <2>3. row'.rounds = Counted(row.rounds) /\ row.rounds \in Nat
    BY <1>0, <1>2, ReviewAssumption DEF OpensRound, Rows
  <2> DEFINE n == Cardinality(Written)
  <2>4. n \in Nat /\ n <= row.rounds
    BY WrittenFinite DEF Rounds
  <2>5. Written' = Written
    BY DEF Written
  <2> HIDE DEF n
  <2>6. n <= row'.rounds /\ (live => n < row'.rounds)
    BY <2>3, <2>4 DEF Counted
  <2> QED
    BY <2>1, <2>2, <2>4, <2>5, <2>6 DEF Rounds, n
<1> QED
  BY <1>1, <1>2 DEF OpenReviewRound

LEMMA DeliverRounds ==
    ASSUME Prompt, Types, Shape, Rounds, NEW d \in Doors, NEW c, NEW id, Deliver(d, id, c)
    PROVE  Rounds'
<1>1. ~retrying /\ UNCHANGED brief /\ NoJob.pc # "write"
  BY NoJobIs DEF Deliver, Undisturbed, vault
<1>2. CASE OpenReviewRound(d, row, c, At(c))
  BY <1>1, <1>2, OpensRounds
<1>3. CASE UNCHANGED row /\ door' = [door EXCEPT ![d] = NoJob]
  BY <1>1, <1>3, RoundsDoor
<1> QED
  BY <1>2, <1>3 DEF Deliver

LEMMA PollRounds == ASSUME Prompt, Types, Shape, Rounds, NEW p \in Pollers, PollStep(p) PROVE Rounds'
<1>1. p \in Doors
  BY DoorsAre
<1>2. CASE Hand(p)
  BY <1>1, <1>2, DeliverRounds DEF Hand
<1>3. CASE Look(p)
  <2> DEFINE j == IF Pending(door[p].c) THEN [door[p] EXCEPT !.pc = "found"] ELSE NoJob
  <2>1. j.pc # "write"
    BY <1>1, NoJobIs DEF Types, DoorOK, Jobs
  <2>2. door' = [door EXCEPT ![p] = j] /\ UNCHANGED <<row, brief>>
    BY <1>3 DEF Look, ledger, vault
  <2> HIDE DEF j
  <2> QED
    BY <1>1, <2>1, <2>2, RoundsDoor
<1>4. CASE ListComments(p)
  <2>1. PICK c \in Comments : door' = [door EXCEPT ![p] = [NoJob EXCEPT !.pc = "listed", !.c = c]]
    BY <1>4 DEF ListComments
  <2> DEFINE j == [NoJob EXCEPT !.pc = "listed", !.c = c]
  <2>2. j.pc # "write" /\ door' = [door EXCEPT ![p] = j]
    BY <2>1 DEF NoJob
  <2> HIDE DEF j
  <2> QED
    BY <1>1, <1>4, <2>2, RoundsDoor DEF ListComments, ledger, vault
<1> QED
  BY <1>2, <1>3, <1>4 DEF PollStep

LEMMA WriteBriefRounds ==
    ASSUME Types, Shape, Rounds, NEW d \in Doors, WriteBrief(d)
    PROVE  Rounds'
<1>1. PICK n \in Numbers :
          /\ brief[n].status = "absent"
          /\ brief' = [brief EXCEPT ![n] =
                 [NoBrief EXCEPT !.status = IF door[d].live THEN "pending" ELSE "draft"]]
          /\ door' = [door EXCEPT ![d] = [NoJob EXCEPT !.pc = "mark", !.live = door[d].live, !.n = n]]
  BY DEF WriteBrief
<1>2. /\ door'[d].pc = "mark" /\ \A e \in Doors : e # d => door'[e] = door[e]
      /\ brief'[n].status = IF door[d].live THEN "pending" ELSE "draft"
      /\ \A m \in Numbers : m # n => brief'[m] = brief[m]
  BY <1>1 DEF Types, DoorOK, VaultOK, NoJob, NoBrief
<1>3. /\ door[d].pc = "write" /\ row' = row
      /\ \A e \in Doors : Writes(door[e]) => e = d
  BY DEF WriteBrief, Shape, Writers, Writes, ledger
<1>4. \A e \in Doors : door'[e].pc # "write"
  BY <1>2, <1>3 DEF Writes
<1>5. Cardinality(Written') <= row.rounds
  <2>1. CASE door[d].live
    <3>1. Written' = Written \cup {n} /\ n \notin Written
      BY <1>1, <1>2, <2>1 DEF Written
    <3>2. Cardinality(Written') = Cardinality(Written) + 1
      BY <3>1, WrittenFinite, FS_AddElement
    <3>3. Cardinality(Written) < row.rounds /\ row.rounds \in Nat
      BY <1>3, <2>1, ReviewAssumption DEF Rounds, Types, RowOK, Rows
    <3> QED
      BY <3>2, <3>3, WrittenFinite
  <2>2. CASE ~door[d].live
    <3>1. Written' = Written
      BY <1>1, <1>2, <2>2 DEF Written
    <3> QED
      BY <3>1 DEF Rounds
  <2> QED
    BY <2>1, <2>2
<1> QED
  BY <1>3, <1>4, <1>5 DEF Rounds

LEMMA DoorRounds ==
    ASSUME Types, Shape, Rounds, NEW d \in Doors, DoorStep(d) \/ BriefError(d) \/ DoorDies(d)
    PROVE  Rounds'
<1>0. row \in Rows /\ door \in [Doors -> Jobs] /\ NoJob.pc = "idle"
  BY NoJobIs DEF Types, RowOK, DoorOK
<1>1. CASE MarkBrief(d)
  <2>1. row'.rounds = row.rounds
    BY <1>0, <1>1 DEF MarkBrief, Rows
  <2> QED
    BY <1>0, <1>1, <2>1, RoundsDoor DEF MarkBrief, vault
<1>2. CASE WriteBrief(d)
  BY <1>2, WriteBriefRounds
<1>3. CASE DoorDies(d)
  BY <1>0, <1>3, RoundsDoor DEF DoorDies, ledger, vault
<1>4. CASE BriefError(d)
  <2>1. /\ door[d].pc = "write" /\ row'.rounds = door[d].was.rounds
        /\ door' = [door EXCEPT ![d] = NoJob] /\ UNCHANGED brief
    BY <1>0, <1>4 DEF BriefError, RolledBack, Rows, vault
  <2>2. \A e \in Doors : door'[e].pc # "write"
    BY <1>0, <2>1 DEF Shape, Writers, Writes
  <2>3. Written' = Written
    BY <2>1 DEF Written
  <2> QED
    BY <2>1, <2>2, <2>3 DEF Rounds
<1> QED
  BY <1>1, <1>2, <1>3, <1>4 DEF DoorStep

LEMMA RunRounds ==
    ASSUME Types, Shape, Rounds, RunStep \/ ClaimLost \/ Park \/ Die \/ RetryLost
    PROVE  Rounds'
<1>0. row \in Rows /\ {"running", "skipped", "failed", "done", "pending"} \subseteq Statuses
  BY DEF Types, RowOK, Statuses
<1>1. ASSUME NEW n \in Numbers, Take(n) \/ Refuse(n) \/ ReapBrief(n) PROVE Rounds'
  <2>1. PICK s \in {"running", "skipped", "failed"} : SetStatus(n, s)
    BY <1>1 DEF Take, Refuse, ReapBrief
  <2>2. brief[n].status \in {"pending", "running"} /\ UNCHANGED <<row, door>>
    BY <1>1 DEF Take, Refuse, ReapBrief, ledger
  <2> QED
    BY <1>0, <2>1, <2>2, RoundsStatus
<1>2. CASE Done \/ Fail
  <2>1. PICK s \in {"done", "failed"} : SetStatus(hand.n, s)
    BY <1>2 DEF Done, Fail
  <2>2. hand.pc \in {"start", "run"} /\ UNCHANGED <<row, door>>
    BY <1>2 DEF Done, Fail, ledger
  <2>3. hand.n \in Numbers /\ brief[hand.n].status = "running"
    BY <2>2 DEF Types, HandOK, Shape, Worker
  <2> QED
    BY <1>0, <2>1, <2>2, <2>3, RoundsStatus
<1>3. CASE Park
  <2>1. brief[hand.n].status = "running"
    BY <1>3 DEF Park, Shape, Worker
  <2>2. Written' = Written
    BY <1>3, <2>1, ParkIs DEF Written
  <2> QED
    BY <1>3, <2>2, ParkIs, RoundsKept DEF ledger
<1>4. CASE Claim \/ Report \/ ReapRow
  <2>1. row'.rounds = row.rounds /\ UNCHANGED <<brief, door>>
    BY <1>0, <1>4 DEF Claim, Report, ReapRow, Rows, vault
  <2> QED
    BY <2>1, RoundsKept DEF Written
<1>5. CASE ReadThreads \/ ClaimLost \/ Die \/ RetryLost
  BY <1>5, RoundsKept DEF ReadThreads, ClaimLost, Die, RetryLost, Written, ledger, vault
<1> QED
  BY <1>1, <1>2, <1>3, <1>4, <1>5 DEF RunStep

LEMMA RetryRounds == ASSUME Types, Rounds, RetryBrief \/ RetryRow PROVE Rounds'
<1>1. CASE RetryBrief
  <2>1. /\ row.path \in Numbers /\ brief[row.path].status = "failed"
        /\ SetStatus(row.path, "pending") /\ UNCHANGED <<row, door>>
    BY <1>1 DEF RetryBrief, ledger, Types, RowOK, Rows
  <2> QED
    BY <2>1, RoundsStatus DEF Statuses
<1>2. CASE RetryRow
  <2>1. row'.rounds = row.rounds /\ UNCHANGED <<brief, door>>
    BY <1>2 DEF RetryRow, Types, RowOK, Rows, vault
  <2> QED
    BY <2>1, RoundsKept DEF Written
<1> QED
  BY <1>1, <1>2

LEMMA RoundsStep ==
    ASSUME Prompt, Types, torn \/ (Shape /\ Rounds), [Next]_vars
    PROVE  torn' \/ Rounds'
<1> SUFFICES ASSUME Shape, Rounds PROVE Rounds'
  BY TornStays
<1>1. ASSUME NEW h \in Hooks, NEW c \in Comments, Webhook(h, c) PROVE Rounds'
  BY <1>1, DoorsAre, DeliverRounds DEF Webhook
<1>2. ASSUME NEW d \in Doors, DoorStep(d) \/ BriefError(d) \/ DoorDies(d) PROVE Rounds'
  BY <1>2, DoorRounds
<1>3. ASSUME NEW p \in Pollers, PollStep(p) PROVE Rounds'
  BY <1>3, PollRounds
<1>4. CASE Ask
  <2> DEFINE j == [NoJob EXCEPT !.pc = "asked", !.at = clock, !.was = row]
  <2>1. j.pc # "write" /\ door' = [door EXCEPT ![Self] = j]
    BY <1>4 DEF Ask, NoJob
  <2> HIDE DEF j
  <2> QED
    BY <1>4, <2>1, DoorsAre, RoundsDoor DEF Ask, ledger, vault
<1>5. CASE OpenOwn
  <2>1. ~retrying /\ OpenReviewRound(Self, row, 0, door[Self].at) /\ UNCHANGED brief
    BY <1>5 DEF OpenOwn, Shape, Asker, vault
  <2> QED
    BY <2>1, DoorsAre, OpensRounds
<1>6. CASE RunStep \/ ClaimLost \/ Park \/ Die \/ RetryLost
  BY <1>6, RunRounds
<1>7. CASE RetryBrief \/ RetryRow
  BY <1>7, RetryRounds
<1>8. CASE (People /\ ~RetryBrief) \/ Tick \/ UNCHANGED vars
  <2>1. UNCHANGED <<row, brief, door>>
    BY <1>8 DEF People, ClosePR, SwitchMode, Comment, Tick, vars, ledger, vault
  <2> QED
    BY <2>1, RoundsKept DEF Written
<1> QED
  BY <1>1, <1>2, <1>3, <1>4, <1>5, <1>6, <1>7, <1>8 DEF Next, Mishap, People

(* max_review_fix_rounds bounds the briefs that were written to be worked  *)
(* on, whatever failed and was given back in between (open_review_round,   *)
(* _emit_brief), with the same exception.                                  *)
THEOREM CapIsHeld == ASSUME Prompt PROVE Spec => []CapHolds
<1> DEFINE I == Types /\ (torn \/ (Shape /\ Rounds))
<1>1. Init => I
  BY TypesStart, ShapeStart, RoundsStart
<1>2. I /\ [Next]_vars => I'
  <2> SUFFICES ASSUME I, [Next]_vars PROVE I'
    OBVIOUS
  <2>1. Types' /\ (torn' \/ Shape') /\ (torn' \/ Rounds')
    BY TypesStep, ShapeStep, RoundsStep
  <2> QED
    BY <2>1
<1>3. I => CapHolds
  <2> SUFFICES ASSUME Types, Rounds PROVE Cardinality(Written) <= Cap
    BY DEF CapHolds
  <2>1. row.rounds \in Nat /\ row.rounds <= Cap /\ Cap \in Nat
    BY ReviewAssumption DEF Types, RowOK, Rows
  <2> QED
    BY <2>1, WrittenFinite DEF Rounds
<1> HIDE DEF I
<1> QED
  BY <1>1, <1>2, <1>3, PTL DEF Spec

-----------------------------------------------------------------------------
(* A brief keeps the session it was parked with.                           *)
Sessions == \A n \in Numbers : brief[n].status = "absent" => ~brief[n].parked

LEMMA SessionsStart == Init => Sessions
  BY DEF Init, Sessions, NoBrief

\* No brief loses its session, and none that is there is taken for absent.
Keeps ==
    \A n \in Numbers : /\ brief[n].parked => brief'[n].parked
                       /\ brief'[n].status = "absent" => brief'[n] = brief[n]

LEMMA StatusKeeps ==
    ASSUME Types, NEW n \in Numbers, NEW s \in Statuses, s # "absent", SetStatus(n, s)
    PROVE  Keeps
  BY StatusIs DEF Types, VaultOK, Keeps

LEMMA BriefsKeep == ASSUME Types, Sessions, [Next]_vars PROVE Keeps
<1> USE DEF vault
<1>0. brief' = brief => Keeps
  BY DEF Keeps
<1>a. {"running", "skipped", "failed", "done", "pending"} \subseteq Statuses \ {"absent"}
  BY DEF Statuses
<1>1. ASSUME NEW h \in Hooks, NEW c \in Comments, Webhook(h, c) PROVE Keeps
  BY <1>0, <1>1 DEF Webhook, Deliver
<1>2. ASSUME NEW d \in Doors, MarkBrief(d) \/ BriefError(d) \/ DoorDies(d) PROVE Keeps
  BY <1>0, <1>2 DEF MarkBrief, BriefError, DoorDies
<1>3. ASSUME NEW d \in Doors, WriteBrief(d) PROVE Keeps
  <2>1. PICK n \in Numbers :
            /\ brief[n].status = "absent"
            /\ brief' = [brief EXCEPT ![n] =
                   [NoBrief EXCEPT !.status = IF door[d].live THEN "pending" ELSE "draft"]]
    BY <1>3 DEF WriteBrief
  <2>2. /\ brief'[n].status \in {"pending", "draft"} /\ ~brief[n].parked
        /\ \A m \in Numbers : m # n => brief'[m] = brief[m]
    BY <2>1 DEF Types, VaultOK, NoBrief, Sessions
  <2> QED
    BY <2>2 DEF Keeps
<1>4. ASSUME NEW p \in Pollers, PollStep(p) PROVE Keeps
  BY <1>0, <1>4 DEF PollStep, ListComments, Look, Hand, Deliver
<1>5. ASSUME NEW n \in Numbers, Take(n) \/ Refuse(n) \/ ReapBrief(n) PROVE Keeps
  <2>1. PICK s \in {"running", "skipped", "failed"} : SetStatus(n, s)
    BY <1>5 DEF Take, Refuse, ReapBrief
  <2> QED
    BY <1>a, <2>1, StatusKeeps
<1>6. CASE Done \/ Fail
  <2>1. PICK s \in {"done", "failed"} : SetStatus(hand.n, s) /\ hand.n \in Numbers
    BY <1>6 DEF Done, Fail, Types, HandOK
  <2> QED
    BY <1>a, <2>1, StatusKeeps
<1>7. CASE Park
  BY <1>7, ParkIs DEF Keeps
<1>8. CASE RetryBrief
  <2>1. SetStatus(row.path, "pending") /\ row.path \in Numbers
    BY <1>8 DEF RetryBrief, Types, RowOK, Rows
  <2> QED
    BY <1>a, <2>1, StatusKeeps
<1>9. CASE Ask \/ OpenOwn \/ RetryRow \/ Claim \/ ReadThreads \/ Report \/ ReapRow
           \/ ClaimLost \/ Die \/ RetryLost
  BY <1>0, <1>9 DEF Ask, OpenOwn, RetryRow, Claim, ReadThreads, Report, ReapRow, ClaimLost, Die,
     RetryLost
<1>10. CASE (People /\ ~RetryBrief) \/ Tick \/ UNCHANGED vars
  BY <1>0, <1>10 DEF People, ClosePR, SwitchMode, Comment, Tick, vars
<1> QED
  BY <1>1, <1>2, <1>3, <1>4, <1>5, <1>6, <1>7, <1>8, <1>9, <1>10
     DEF Next, DoorStep, RunStep, Mishap, People

LEMMA ParkedStays == ASSUME Types, Sessions, [Next]_vars, Parked PROVE Parked'
  BY BriefsKeep DEF Parked, Keeps

LEMMA SessionsStep == ASSUME Types, Sessions, [Next]_vars PROVE Sessions'
  BY BriefsKeep DEF Keeps, Sessions

-----------------------------------------------------------------------------
(* What the mark and the claim of the row say of the comments.             *)
ReadUpTo(t) == \A c \in Comments : Worthy(c) /\ At(c) <= t => c \in Read

\* No further comment will bear the time t.
Past(t) == clock > t \/ clock = End

Asked == door[Self].pc = "asked" => door[Self].at <= clock

\* The session has read the threads, and the row has not been told the end.
Finishing == hand.pc = "run" \/ (hand.pc = "close" /\ hand.report = "done")

\* The row was told of the last run, and what it was told is so.
Told ==
    /\ row.state = "running" => row.mark <= row.claimed
    /\ Finishing => row.state = "running" /\ ReadUpTo(row.claimed) /\ Past(row.claimed)
    /\ row.state = "done" => ReadUpTo(row.mark) /\ Past(row.mark)

Marks ==
    /\ \A c \in Comments : At(c) <= clock
    /\ Asked
    /\ row.mark <= clock /\ row.claimed <= clock
    /\ row.state = "absent" => row.mark = 0
    /\ unsaid \/ Told

LEMMA MarksStart == Init => Marks
<1> SUFFICES ASSUME Init PROVE Marks
  OBVIOUS
<1>1. clock = 1 /\ said = <<>> /\ row = NoRow /\ hand.pc = "idle" /\ door[Self].pc = "idle"
  BY DoorsAre DEF Init, Idle, NoJob
<1>2. Comments = {}
  BY <1>1 DEF Comments
<1> QED
  BY <1>1, <1>2 DEF Marks, Told, Asked, Finishing, NoRow

(* The row stays as it is.                                                 *)
LEMMA MarksStay ==
    ASSUME Marks, UNCHANGED <<clock, said, row, read, unsaid>>, Finishing' => Finishing, Asked'
    PROVE  Marks'
<1>1. /\ Comments' = Comments
      /\ \A t : Past(t)' <=> Past(t)
      /\ \A c : At(c)' = At(c) /\ (Worthy(c)' <=> Worthy(c))
      /\ Read' = Read
  BY DEF Comments, Past, At, Worthy, Read
<1>2. ReadUpTo(row.claimed)' <=> ReadUpTo(row.claimed)
  BY <1>1 DEF ReadUpTo
<1>3. ReadUpTo(row.mark)' <=> ReadUpTo(row.mark)
  BY <1>1 DEF ReadUpTo
<1> QED
  BY <1>1, <1>2, <1>3 DEF Marks, Told

(* The row changes, and the session does not.                              *)
LEMMA MarksRow ==
    ASSUME Marks, UNCHANGED <<clock, said, read, unsaid>>, Asked',
           row'.mark <= clock, row'.claimed <= clock, row'.state # "absent",
           \/ unsaid
           \/ /\ row'.state # "done"
              /\ row'.state = "running" => row'.mark <= row'.claimed
              /\ Finishing' => Finishing /\ row'.state = "running" /\ row'.claimed = row.claimed
    PROVE  Marks'
<1>1. /\ Comments' = Comments
      /\ \A t : Past(t)' <=> Past(t)
      /\ \A c : At(c)' = At(c) /\ (Worthy(c)' <=> Worthy(c))
      /\ Read' = Read
  BY DEF Comments, Past, At, Worthy, Read
<1>2. row'.claimed = row.claimed => (ReadUpTo(row.claimed)' <=> ReadUpTo(row.claimed))
  BY <1>1 DEF ReadUpTo
<1>3. row'.claimed = row.claimed => (Past(row.claimed)' <=> Past(row.claimed))
  BY <1>1 DEF Past
<1>4. CASE unsaid
  BY <1>1, <1>4 DEF Marks
<1>5. CASE ~unsaid
  <2>1. Told'
    BY <1>2, <1>3, <1>5 DEF Marks, Told
  <2> QED
    BY <1>1, <2>1 DEF Marks
<1> QED
  BY <1>4, <1>5

(* A caller goes on that is not about to ask.                              *)
LEMMA AskedKept ==
    ASSUME Types, Marks, NEW d \in Doors, NEW j, j.pc # "asked",
           door' = [door EXCEPT ![d] = j], UNCHANGED clock
    PROVE  Asked'
<1>1. Self \in Doors /\ door \in [Doors -> Jobs]
  BY DoorsAre DEF Types, DoorOK
<1>2. door'[Self] = IF d = Self THEN j ELSE door[Self]
  BY <1>1
<1> QED
  BY <1>2 DEF Marks, Asked

LEMMA NotAsked == NoJob.pc # "asked"
  BY NoJobIs

(* The mark moves up to the time of a comment, which is not in the future, *)
(* nor after the claim of the round that is going to read it.              *)
LEMMA OpensMarks ==
    ASSUME Types, Shape, Marks, NEW d \in Doors, NEW c, NEW t \in 0..End, t <= clock,
           OpenReviewRound(d, row, c, t), ~retrying,
           UNCHANGED <<clock, said, read, hand, unsaid>>
    PROVE  Marks'
<1>0. row \in Rows /\ row.mark \in 0..End /\ clock \in 0..End /\ row.mark <= clock
  BY ReviewAssumption DEF Types, RowOK, Rows, Globals, Marks
<1>1. Later(row.mark, t) <= clock /\ Later(t, row.mark) <= clock
  BY <1>0, LaterIs
<1>a. Finishing' <=> Finishing
  BY DEF Finishing
<1>2. CASE InFlight(d, row, t)
  <2>1. Asked'
    BY <1>2, NotAsked, AskedKept DEF InFlight
  <2> DEFINE m == IF Absorbed(row, t) THEN Later(row.mark, t) ELSE row.mark
  <2>2. m <= clock
    BY <1>0, <1>1
  <2>3. ~unsaid /\ row.state = "running" => m <= row.claimed
    BY <1>0, LaterIs DEF Absorbed, Marks, Told
  <2>4. row' = [row EXCEPT !.mark = m]
    BY <1>2 DEF InFlight
  <2> HIDE DEF m
  <2>5. /\ row'.mark = m /\ row'.state = row.state /\ row'.claimed = row.claimed
        /\ row.state \in InFlightStates
    BY <1>0, <1>2, <2>4 DEF Rows, InFlight
  <2>6. row'.claimed <= clock /\ row'.state \notin {"absent", "done"}
    BY <2>5 DEF Marks, InFlightStates
  <2>7. ~unsaid /\ Finishing => row.state = "running"
    BY DEF Marks, Told
  <2> QED
    BY <1>a, <2>1, <2>2, <2>3, <2>5, <2>6, <2>7, MarksRow
<1>3. CASE SameDraft(d, row)
  <2>1. Asked' /\ UNCHANGED row
    BY <1>3, NotAsked, AskedKept DEF SameDraft
  <2> QED
    BY <1>a, <2>1, MarksStay
<1>4. CASE CapReached(d, row)
  <2>1. Asked'
    BY <1>4, NotAsked, AskedKept DEF CapReached
  <2>2. ~Finishing
    BY <1>4 DEF CapReached, Finishing, Shape, Worker
  <2>3. CASE row' = row
    BY <1>a, <2>1, <2>3, MarksStay
  <2>4. CASE row' = [row EXCEPT !.state = "rejected_round_cap"]
    <3>1. /\ row'.state = "rejected_round_cap"
          /\ row'.mark = row.mark /\ row'.claimed = row.claimed
      BY <1>0, <2>4 DEF Rows
    <3>2. row'.mark <= clock /\ row'.claimed <= clock
      BY <3>1 DEF Marks
    <3> QED
      BY <1>a, <2>1, <2>2, <3>1, <3>2, MarksRow
  <2> QED
    BY <1>4, <2>3, <2>4 DEF CapReached
<1>5. CASE OpensRound(d, row, c, t)
  <2> DEFINE j == [NoJob EXCEPT !.pc = "write", !.c = c, !.live = live,
                                !.was = [NoRow EXCEPT !.rounds = row.rounds]]
  <2>1. door' = [door EXCEPT ![d] = j] /\ j.pc # "asked"
    BY <1>5 DEF OpensRound, NoJob
  <2> HIDE DEF j
  <2>2. Asked'
    BY <2>1, AskedKept
  <2>3. ~Finishing
    BY <1>5 DEF OpensRound, Finishing, Shape, Worker
  <2>4. /\ row'.state = "admitted" /\ row'.mark = Later(t, row.mark)
        /\ row'.claimed = row.claimed
    BY <1>0, <1>5 DEF OpensRound, Rows
  <2>5. row'.mark <= clock /\ row'.claimed <= clock
    BY <1>1, <2>4 DEF Marks
  <2> QED
    BY <1>a, <2>2, <2>3, <2>4, <2>5, MarksRow
<1> QED
  BY <1>2, <1>3, <1>4, <1>5 DEF OpenReviewRound

LEMMA DeliverMarks ==
    ASSUME Prompt, Types, Shape, Marks, NEW d \in Doors, NEW c \in Comments, NEW id,
           Deliver(d, id, c)
    PROVE  Marks'
<1>1. ~retrying /\ UNCHANGED <<clock, said, read, hand, unsaid>>
  BY DEF Deliver, Undisturbed, github, vault
<1>2. At(c) \in 0..End /\ At(c) <= clock
  BY CommentsAre DEF Types, Marks
<1>3. CASE OpenReviewRound(d, row, c, At(c))
  BY <1>1, <1>2, <1>3, OpensMarks
<1>4. CASE UNCHANGED row /\ door' = [door EXCEPT ![d] = NoJob]
  BY <1>1, <1>4, NotAsked, AskedKept, MarksStay DEF Finishing
<1> QED
  BY <1>3, <1>4 DEF Deliver

(* A caller of the door goes on.                                           *)
LEMMA DoorMarks ==
    ASSUME Types, Marks, NEW d \in Doors, NEW j, j.pc # "asked",
           door' = [door EXCEPT ![d] = j], UNCHANGED <<clock, said, row, read, hand, unsaid>>
    PROVE  Marks'
  BY AskedKept, MarksStay DEF Finishing

LEMMA PollMarks == ASSUME Prompt, Types, Shape, Marks, NEW p \in Pollers, PollStep(p) PROVE Marks'
<1>1. p \in Doors
  BY DoorsAre
<1>2. CASE Hand(p)
  <2>1. door[p].c \in Comments
    BY <1>1, <1>2 DEF Hand, Types, DoorOK, JobOK
  <2> QED
    BY <1>1, <1>2, <2>1, DeliverMarks DEF Hand
<1>3. CASE Look(p)
  <2> DEFINE j == IF Pending(door[p].c) THEN [door[p] EXCEPT !.pc = "found"] ELSE NoJob
  <2>1. j.pc # "asked"
    BY <1>1, NotAsked DEF Types, DoorOK, Jobs
  <2>2. door' = [door EXCEPT ![p] = j] /\ UNCHANGED <<clock, said, row, read, hand, unsaid>>
    BY <1>3 DEF Look, github, ledger, vault
  <2> HIDE DEF j
  <2> QED
    BY <1>1, <2>1, <2>2, DoorMarks
<1>4. CASE ListComments(p)
  <2>1. PICK c \in Comments : door' = [door EXCEPT ![p] = [NoJob EXCEPT !.pc = "listed", !.c = c]]
    BY <1>4 DEF ListComments
  <2> DEFINE j == [NoJob EXCEPT !.pc = "listed", !.c = c]
  <2>2. j.pc # "asked"
    BY DEF NoJob
  <2>3. door' = [door EXCEPT ![p] = j] /\ UNCHANGED <<clock, said, row, read, hand, unsaid>>
    BY <1>4, <2>1 DEF ListComments, github, ledger, vault
  <2> HIDE DEF j
  <2> QED
    BY <1>1, <2>2, <2>3, DoorMarks
<1> QED
  BY <1>2, <1>3, <1>4 DEF PollStep

LEMMA OwnMarks == ASSUME Prompt, Types, Shape, Marks, Ask \/ OpenOwn PROVE Marks'
<1>0. Self \in Doors
  BY DoorsAre
<1>1. CASE Ask
  <2> DEFINE j == [NoJob EXCEPT !.pc = "asked", !.at = clock, !.was = row]
  <2>1. j.at = clock
    BY DEF NoJob
  <2>2. door' = [door EXCEPT ![Self] = j] /\ UNCHANGED <<clock, said, row, read, hand, unsaid>>
    BY <1>1 DEF Ask, github, ledger, vault
  <2> HIDE DEF j
  <2>3. clock \in Nat /\ door'[Self] = j
    BY <1>0, <2>2 DEF Types, Globals, DoorOK
  <2>4. Asked'
    BY <2>1, <2>2, <2>3 DEF Asked
  <2> QED
    BY <2>2, <2>4, MarksStay DEF Finishing
<1>2. CASE OpenOwn
  <2>1. door[Self].was = row /\ ~retrying
    BY <1>2 DEF OpenOwn, Shape, Asker
  <2>2. door[Self].at \in 0..End /\ door[Self].at <= clock
    BY <1>0, <1>2 DEF Types, DoorOK, Jobs, Marks, Asked, OpenOwn
  <2>3. /\ OpenReviewRound(Self, row, 0, door[Self].at)
        /\ UNCHANGED <<clock, said, read, hand, unsaid>>
    BY <1>2, <2>1 DEF OpenOwn, github, vault
  <2> QED
    BY <1>0, <2>1, <2>2, <2>3, OpensMarks
<1> QED
  BY <1>1, <1>2

LEMMA WritesMarks ==
    ASSUME Types, Shape, Marks, NEW d \in Doors, DoorStep(d) \/ BriefError(d) \/ DoorDies(d)
    PROVE  Marks'
<1>0. row \in Rows
  BY DEF Types, RowOK
<1>1. CASE WriteBrief(d)
  <2>1. PICK n \in Numbers :
            door' = [door EXCEPT ![d] = [NoJob EXCEPT !.pc = "mark", !.live = door[d].live, !.n = n]]
    BY <1>1 DEF WriteBrief
  <2> DEFINE j == [NoJob EXCEPT !.pc = "mark", !.live = door[d].live, !.n = n]
  <2>2. j.pc # "asked"
    BY DEF NoJob
  <2>3. door' = [door EXCEPT ![d] = j] /\ UNCHANGED <<clock, said, row, read, hand, unsaid>>
    BY <1>1, <2>1 DEF WriteBrief, github, ledger
  <2> HIDE DEF j
  <2> QED
    BY <2>2, <2>3, DoorMarks
<1>2. CASE DoorDies(d)
  BY <1>2, NotAsked, DoorMarks DEF DoorDies, github, ledger, vault
<1>3. CASE MarkBrief(d) \/ BriefError(d)
  <2>1. /\ door' = [door EXCEPT ![d] = NoJob] /\ UNCHANGED <<clock, said, read, hand, unsaid>>
        /\ Writes(door[d])
    BY <1>3 DEF MarkBrief, BriefError, github, vault, Writes
  <2>2. Asked' /\ hand.pc = "idle"
    BY <2>1, NotAsked, AskedKept DEF Shape, Writers, Writer
  <2>3. /\ row'.state \in {"admitted", "dry_run", "brief_error"}
        /\ row'.mark = row.mark /\ row'.claimed = row.claimed
    <3>1. CASE MarkBrief(d)
      BY <1>0, <3>1 DEF MarkBrief, Rows
    <3>2. CASE BriefError(d)
      BY <1>0, <3>2 DEF BriefError, RolledBack, Rows
    <3> QED
      BY <1>3, <3>1, <3>2
  <2>4. row'.mark <= clock /\ row'.claimed <= clock
    BY <2>3 DEF Marks
  <2> QED
    BY <2>1, <2>2, <2>3, <2>4, MarksRow DEF Finishing
<1> QED
  BY <1>1, <1>2, <1>3 DEF DoorStep

(* The dispatcher.  At its claim the mark is no later than now, and the    *)
(* threads are read later than the claim: in them is all that the claim    *)
(* and so the mark cover.                                                  *)
LEMMA ReadMarks == ASSUME Types, Shape, Marks, ~Parked, ReadThreads PROVE Marks'
<1>1. /\ hand.n \in Numbers /\ ~brief[hand.n].parked /\ (row.state = "running" \/ unsaid)
  BY DEF ReadThreads, Types, HandOK, Parked, Shape, Worker
<1>2. read' = [read EXCEPT ![hand.n] = Comments] /\ UNCHANGED <<clock, said, row, door, unsaid>>
  BY <1>1 DEF ReadThreads, github, ledger
<1>3. Comments \subseteq Read'
  BY <1>1, <1>2 DEF Types, VaultOK, Read
<1>4. Comments' = Comments
  BY <1>2 DEF Comments
<1>5. ReadUpTo(row.claimed)'
  BY <1>3, <1>4 DEF ReadUpTo
<1>6. Past(row.claimed)'
  BY <1>2 DEF ReadThreads, Past
<1>7. Asked' /\ \A c \in Comments : At(c)' = At(c)
  BY <1>2 DEF Marks, Asked, At
<1>8. ~unsaid /\ row.state = "done" => FALSE
  BY <1>1
<1>9. unsaid' \/ Told'
  BY <1>1, <1>2, <1>5, <1>6, <1>8 DEF Marks, Told
<1> QED
  BY <1>2, <1>4, <1>7, <1>9 DEF Marks

LEMMA ReportMarks == ASSUME Types, Shape, Marks, Report PROVE Marks'
<1>0. /\ row \in Rows /\ hand.report \in Reports /\ hand.pc = "close"
      /\ clock \in 0..End /\ row.mark \in 0..End /\ row.claimed \in 0..End
  BY ReviewAssumption DEF Types, RowOK, HandOK, Report, Globals, Rows
<1> DEFINE cl == IF hand.report = "admitted" THEN 0 ELSE row.claimed
           pa == IF hand.report \in {"done", "rejected_pr_closed"} THEN hand.n ELSE row.path
<1>1. row' = [row EXCEPT !.state = hand.report, !.claimed = cl, !.path = pa]
  BY DEF Report
<1>2. cl <= clock
  BY <1>0 DEF Marks
<1>a. hand.report = "done" => cl = row.claimed
  OBVIOUS
<1> HIDE DEF cl, pa
<1>3. row'.state = hand.report /\ row'.mark = row.mark /\ row'.claimed = cl
  BY <1>0, <1>1 DEF Rows
<1>4. UNCHANGED <<clock, said, read, door, unsaid>> /\ hand'.pc = "idle"
  BY DEF Report, github, vault, Idle
<1>5. Asked' /\ row'.mark <= clock
  BY <1>3, <1>4 DEF Marks, Asked
<1>6. CASE hand.report # "done"
  <2>1. row'.state \notin {"absent", "done", "running"}
    BY <1>0, <1>3, <1>6 DEF Reports
  <2> QED
    BY <1>2, <1>3, <1>4, <1>5, <2>1, MarksRow DEF Finishing
<1>8. CASE hand.report = "done" /\ unsaid
  <2>1. row'.state # "absent"
    BY <1>3, <1>8
  <2> QED
    BY <1>2, <1>3, <1>4, <1>5, <1>8, <2>1, MarksRow
<1>7. CASE hand.report = "done" /\ ~unsaid
  <2>1. /\ row.state = "running" /\ row.mark <= row.claimed
        /\ ReadUpTo(row.claimed) /\ Past(row.claimed)
    BY <1>0, <1>7 DEF Marks, Told, Finishing
  <2>2. ReadUpTo(row.mark)
    <3> SUFFICES ASSUME NEW c \in Comments, Worthy(c), At(c) <= row.mark PROVE c \in Read
      BY DEF ReadUpTo
    <3>1. At(c) \in 1..End
      BY CommentsAre DEF Types
    <3>2. At(c) <= row.claimed
      BY <1>0, <2>1, <3>1
    <3> QED
      BY <2>1, <3>2 DEF ReadUpTo
  <2>3. Past(row.mark)
    BY <1>0, <2>1 DEF Past
  <2>4. /\ Comments' = Comments /\ Read' = Read
        /\ \A c : At(c)' = At(c) /\ (Worthy(c)' <=> Worthy(c))
    BY <1>4 DEF Comments, Read, At, Worthy
  <2>5. ReadUpTo(row.mark)' /\ Past(row.mark)'
    BY <1>3, <1>4, <2>2, <2>3, <2>4 DEF ReadUpTo, Past
  <2>6. row'.state = "done" /\ row'.claimed <= clock /\ \A c \in Comments' : At(c)' <= clock
    BY <1>2, <1>3, <1>7, <2>4 DEF Marks
  <2> QED
    BY <1>4, <1>5, <2>5, <2>6 DEF Marks, Told, Finishing
<1> QED
  BY <1>6, <1>7, <1>8

LEMMA RunMarks ==
    ASSUME Types, Shape, Marks, ~Parked, RunStep \/ ClaimLost \/ Die \/ RetryRow
    PROVE  Marks'
<1>0. /\ row \in Rows /\ clock \in 0..End /\ row.mark \in 0..End /\ row.claimed \in 0..End
      /\ row.mark <= clock /\ row.claimed <= clock
  BY ReviewAssumption DEF Types, RowOK, Globals, Rows, Marks
<1>1. ASSUME NEW n \in Numbers, Take(n) \/ Refuse(n) \/ ReapBrief(n) PROVE Marks'
  <2>1. UNCHANGED <<clock, said, row, read, door, unsaid>> /\ ~Finishing'
    BY <1>1 DEF Take, Refuse, ReapBrief, github, ledger, Finishing
  <2> QED
    BY <2>1, MarksStay DEF Marks, Asked
<1>2. CASE Done \/ Fail \/ Die
  <2>1. UNCHANGED <<clock, said, row, read, door, unsaid>>
    BY <1>2 DEF Done, Fail, Die, github, ledger, vault
  <2>2. Finishing' => Finishing
    <3>1. CASE Done
      BY <3>1 DEF Done, Finishing
    <3>2. CASE Fail
      BY <3>2 DEF Fail, Finishing, Types, HandOK, Hands
    <3>3. CASE Die
      BY <3>3 DEF Die, Finishing, Idle
    <3> QED
      BY <1>2, <3>1, <3>2, <3>3
  <2> QED
    BY <2>1, <2>2, MarksStay DEF Marks, Asked
<1>3. CASE Claim
  <2>1. /\ row'.state = "running" /\ row'.claimed = clock /\ row'.mark = row.mark
        /\ UNCHANGED <<clock, said, read, door>> /\ hand'.pc = "start"
    BY <1>0, <1>3 DEF Claim, Rows, github, vault, Types, HandOK, Hands
  <2>2. Asked' /\ ~Finishing'
    BY <2>1 DEF Marks, Asked, Finishing
  <2>3. row'.mark <= clock /\ row'.claimed <= clock /\ row'.mark <= row'.claimed
    BY <1>0, <2>1
  <2>4. \A c \in Comments' : At(c)' <= clock'
    BY <2>1 DEF Marks, Comments, At
  <2>5. Told'
    BY <2>1, <2>2, <2>3 DEF Told
  <2> QED
    BY <2>1, <2>2, <2>3, <2>4, <2>5 DEF Marks
<1>5. CASE ClaimLost
  <2>1. /\ UNCHANGED <<clock, said, row, read, door>> /\ unsaid'
    BY <1>5 DEF ClaimLost, github, ledger, vault
  <2>2. \A c \in Comments' : At(c)' <= clock'
    BY <2>1 DEF Marks, Comments, At
  <2> QED
    BY <2>1, <2>2 DEF Marks, Asked
<1>4. CASE ReapRow \/ RetryRow
  <2>1. /\ row'.state \in {"failed", "admitted"} /\ row'.mark = row.mark
        /\ row'.claimed \in {0, row.claimed}
    <3>1. CASE ReapRow
      BY <1>0, <3>1 DEF ReapRow, Rows
    <3>2. CASE RetryRow
      BY <1>0, <3>2 DEF RetryRow, Rows
    <3> QED
      BY <1>4, <3>1, <3>2
  <2>2. UNCHANGED <<clock, said, read, door, hand, unsaid>>
    BY <1>4 DEF ReapRow, RetryRow, github, vault
  <2>3. hand.pc = "idle"
    BY <1>4, FreeIs DEF ReapRow, RetryRow, Shape, Retrying
  <2>4. Asked' /\ ~Finishing'
    BY <2>2, <2>3 DEF Marks, Asked, Finishing
  <2>5. row'.mark <= clock /\ row'.claimed <= clock
    BY <1>0, <2>1
  <2> QED
    BY <2>1, <2>2, <2>4, <2>5, MarksRow
<1> QED
  BY <1>1, <1>2, <1>3, <1>4, <1>5, ReadMarks, ReportMarks DEF RunStep

(* A new comment is later than the claim of a round that has read, and     *)
(* than the mark of one that is done.                                      *)
LEMMA CommentMarks ==
    ASSUME Types, Marks, NEW k \in {"worthy", "refused"}, Comment(k)
    PROVE  Marks'
<1>0. /\ Len(said) \in Nat /\ clock \in 1..End /\ clock < End
      /\ row.mark \in 0..End /\ row.claimed \in 0..End /\ said \in Seq(Sayings)
  BY CommentsAre DEF Types, Globals, RowOK, Rows, Comment
<1>1. /\ said' = Append(said, [at |-> clock, kind |-> k])
      /\ UNCHANGED <<clock, row, read, hand, door, unsaid>>
  BY DEF Comment, ledger, vault
<1>l. PICK l : l = Len(said) + 1
  OBVIOUS
<1>2. /\ Comments' = Comments \cup {l} /\ l \in Nat \ {0}
      /\ said'[l] = [at |-> clock, kind |-> k]
      /\ \A c \in Comments : said'[c] = said[c] /\ c # 0
  <2>1. Len(said') = l
    BY <1>0, <1>1, <1>l
  <2>2. Comments' = 1..l
    BY <2>1 DEF Comments
  <2> QED
    BY <1>0, <1>1, <1>l, <2>2 DEF Comments
<1>3. At(l)' = clock
  BY <1>2 DEF At
<1>4. \A c \in Comments : At(c)' = At(c) /\ (Worthy(c)' <=> Worthy(c))
  BY <1>2 DEF At, Worthy
<1>5. Read' = Read
  BY <1>1 DEF Read
<1>6. ASSUME NEW t \in 0..End, ReadUpTo(t), clock > t
      PROVE  \A c \in Comments' : Worthy(c)' /\ At(c)' <= t => c \in Read'
  BY <1>0, <1>2, <1>3, <1>4, <1>5, <1>6 DEF ReadUpTo
<1>7. Told /\ Finishing => ReadUpTo(row.claimed)' /\ Past(row.claimed)'
  BY <1>0, <1>1, <1>6 DEF Told, Past, ReadUpTo
<1>8. Told /\ row.state = "done" => ReadUpTo(row.mark)' /\ Past(row.mark)'
  BY <1>0, <1>1, <1>6 DEF Told, Past, ReadUpTo
<1>9. \A c \in Comments' : At(c)' <= clock'
  BY <1>0, <1>1, <1>2, <1>3, <1>4 DEF Marks
<1> QED
  BY <1>1, <1>7, <1>8, <1>9 DEF Marks, Told, Asked, Finishing

LEMMA TickMarks == ASSUME Types, Marks, Tick PROVE Marks'
<1>0. /\ clock \in Nat /\ End \in Nat /\ clock < End /\ clock' = clock + 1
      /\ row.mark \in Nat /\ row.claimed \in Nat
      /\ UNCHANGED <<said, row, read, hand, door, unsaid>>
  BY ReviewAssumption DEF Types, Globals, RowOK, Rows, Tick, ledger, vault
<1>1. Comments' = Comments /\ Read' = Read
  BY <1>0 DEF Comments, Read
<1>2. \A c \in Comments : At(c) = said[c].at /\ At(c)' = At(c) /\ At(c) \in Nat
  <2>1. \A c \in Comments : c # 0
    BY DEF Comments
  <2> QED
    BY <1>0, <2>1, CommentsAre DEF At, Types
<1>3. \A c : Worthy(c)' <=> Worthy(c)
  BY <1>0 DEF Worthy
<1>4. ReadUpTo(row.claimed) => ReadUpTo(row.claimed)'
  BY <1>0, <1>1, <1>2, <1>3 DEF ReadUpTo
<1>5. ReadUpTo(row.mark) => ReadUpTo(row.mark)'
  BY <1>0, <1>1, <1>2, <1>3 DEF ReadUpTo
<1>6. /\ Past(row.claimed) => Past(row.claimed)'
      /\ Past(row.mark) => Past(row.mark)'
  BY <1>0 DEF Past
<1>7. Asked'
  <2>1. door[Self].pc = "asked" => door[Self].at \in Nat
    BY DoorsAre DEF Types, DoorOK, JobOK
  <2> QED
    BY <1>0, <2>1 DEF Marks, Asked
<1>8. \A c \in Comments' : At(c)' <= clock'
  BY <1>0, <1>1, <1>2 DEF Marks
<1>9. row'.mark <= clock' /\ row'.claimed <= clock'
  BY <1>0 DEF Marks
<1> QED
  BY <1>0, <1>4, <1>5, <1>6, <1>7, <1>8, <1>9 DEF Marks, Told, Finishing

LEMMA MarksStep ==
    ASSUME Prompt, Types, Sessions, torn \/ Shape, torn \/ Parked \/ Marks, [Next]_vars
    PROVE  torn' \/ Parked' \/ Marks'
<1> SUFFICES ASSUME ~torn', ~Parked' PROVE Marks'
  OBVIOUS
<1>a. ~Parked /\ Shape /\ Marks
  BY ParkedStays, TornStays
<1>1. ASSUME NEW h \in Hooks, NEW c \in Comments, Webhook(h, c) PROVE Marks'
  BY <1>1, <1>a, DoorsAre, DeliverMarks DEF Webhook
<1>2. ASSUME NEW d \in Doors, DoorStep(d) \/ BriefError(d) \/ DoorDies(d) PROVE Marks'
  BY <1>2, <1>a, WritesMarks
<1>3. ASSUME NEW p \in Pollers, PollStep(p) PROVE Marks'
  BY <1>3, <1>a, PollMarks
<1>4. CASE Ask \/ OpenOwn
  BY <1>4, <1>a, OwnMarks
<1>5. CASE RunStep \/ ClaimLost \/ Die \/ RetryRow
  BY <1>5, <1>a, RunMarks
<1>6. ~Park /\ ~RetryLost
  BY ParkIs DEF Parked, RetryLost
<1>7. CASE RetryBrief \/ ClosePR \/ SwitchMode \/ UNCHANGED vars
  <2>1. UNCHANGED <<clock, said, row, read, door, hand, unsaid>>
    BY <1>7 DEF RetryBrief, ClosePR, SwitchMode, vars, github, ledger, vault
  <2> QED
    BY <1>a, <2>1, MarksStay DEF Marks, Asked, Finishing
<1>8. ASSUME NEW k \in {"worthy", "refused"}, Comment(k) PROVE Marks'
  BY <1>8, <1>a, CommentMarks
<1>9. CASE Tick
  BY <1>9, <1>a, TickMarks
<1> QED
  BY <1>1, <1>2, <1>3, <1>4, <1>5, <1>6, <1>7, <1>8, <1>9 DEF Next, Mishap, People

LEMMA MarksSafe == ASSUME Types, Shape, Marks PROVE MarkIsSafe
<1> SUFFICES ASSUME NEW c \in Comments, Worthy(c), At(c) <= row.mark,
                    c \notin Read, ~Underway, ~EndedBadly, ~unsaid
             PROVE  Orphaned
  BY DEF MarkIsSafe
<1>0. row \in Rows /\ row.mark \in Nat /\ row.claimed \in Nat /\ At(c) \in 1..End
  BY CommentsAre, ReviewAssumption DEF Types, RowOK, Rows
<1>1. row.state \in InFlightStates
  <2>1. row.state # "absent"
    BY <1>0 DEF Marks
  <2>2. row.state # "done"
    BY DEF Marks, Told, ReadUpTo
  <2> QED
    BY <1>0, <2>1, <2>2 DEF Rows, States, EndedBadly
<1>2. ASSUME NEW n \in Waiting PROVE FALSE
  <2>1. n \in Numbers /\ brief[n].status = "running" /\ hand.n = n
    BY DEF Waiting, Underway, EndedBadly
  <2>2. hand.pc # "idle"
    BY <2>1, ReviewAssumption DEF Types, HandOK, Idle, Numbers
  <2>3. hand.pc \notin {"claim", "start"}
    BY <2>1 DEF Underway
  <2>4. hand.pc # "close"
    BY <2>1 DEF Shape, Worker
  <2>5. hand.pc = "run"
    BY <2>2, <2>3, <2>4 DEF Types, HandOK, Hands
  <2>6. row.mark <= row.claimed /\ ReadUpTo(row.claimed)
    BY <2>5 DEF Marks, Told, Finishing, Shape, Worker
  <2> QED
    BY <1>0, <2>6 DEF ReadUpTo
<1> QED
  BY <1>1, <1>2 DEF Orphaned

(* The mark never passes a comment nobody reads: what is not newer than    *)
(* last_comment_at has been read, or a round is on its way to it, or has   *)
(* ended badly, or is one of the known holes (open_review_round): among    *)
(* them a run the row was not told of (record_event_state), until the next.*)
THEOREM MarkHolds == ASSUME Prompt PROVE Spec => []MarkIsSafe
<1> DEFINE I == Types /\ Sessions /\ (torn \/ Shape) /\ (torn \/ Parked \/ Marks)
<1>1. Init => I
  BY TypesStart, SessionsStart, ShapeStart, MarksStart
<1>2. I /\ [Next]_vars => I'
  <2> SUFFICES ASSUME I, [Next]_vars PROVE I'
    OBVIOUS
  <2>1. Types' /\ (torn' \/ Shape')
    BY TypesStep, ShapeStep
  <2>2. Sessions'
    BY <2>1, SessionsStep
  <2>3. torn' \/ Parked' \/ Marks'
    BY MarksStep
  <2> QED
    BY <2>1, <2>2, <2>3
<1>3. I => MarkIsSafe
  <2> SUFFICES ASSUME I PROVE MarkIsSafe
    OBVIOUS
  <2>1. CASE Parked \/ torn
    BY <2>1 DEF MarkIsSafe
  <2>2. CASE ~Parked /\ ~torn
    BY <2>2, MarksSafe
  <2> QED
    BY <2>1, <2>2
<1> HIDE DEF I
<1> QED
  BY <1>1, <1>2, <1>3, PTL DEF Spec
=============================================================================
