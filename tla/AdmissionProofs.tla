--------------------------- MODULE AdmissionProofs --------------------------
(***************************************************************************)
(* Proofs about Admission, for any number of items, briefs, handlers and   *)
(* mishaps.                                                                *)
(*                                                                         *)
(* The argument for OneWaiting: a brief can only be written for an item    *)
(* whose row is open to a new one, and as long as the row is open nothing  *)
(* waits for the item.  The transaction of _record closes the row, and it  *)
(* stays closed until the brief is written, because no other step opens a  *)
(* row that says admitted: not the dispatcher, which has nothing of this   *)
(* item in hand, and not a late MarkBrief of an older brief, which writes  *)
(* admitted once more.                                                     *)
(*                                                                         *)
(* The step it hinges on is the report of a failure: it may leave the row  *)
(* with the path of another brief than the one in hand, so nothing may     *)
(* wait for the item then.  A /retry between the two writes of the         *)
(* dispatcher breaks that, hence the assumption Patient.                   *)
(***************************************************************************)
EXTENDS Admission, TLAPS

\* A row _record would give a new brief to.
Open(row) ==
    \/ row.state \in {"absent", "dry_run"}
    \/ row.state \notin ActiveStates /\ row.path = None

\* Handler h has the row of i to itself: it will write a brief, or mark a draft.
Owns(h, i) ==
    /\ job[h].item = i
    /\ job[h].pc = "write" \/ (job[h].pc = "mark" /\ ~job[h].live)

JobOK ==
    \A h \in Handlers :
        /\ job[h].pc \in {"write", "mark"} => job[h].item \in Items
        /\ job[h].n = None <=> job[h].pc # "mark"

OwnerAlone ==
    \A h \in Handlers, i \in Items : Owns(h, i) =>
        /\ ledger[i].state = "admitted"
        /\ hand.item # i
        /\ Waiting(i) = {}
        /\ job[h].pc = "mark" => vault[i][job[h].n] = "draft"
        /\ \A g \in Handlers : Owns(g, i) => g = h

OpenIsEmpty ==
    \A i \in Items : Open(ledger[i]) =>
        /\ hand.item # i
        /\ Waiting(i) = {}
        /\ ledger[i].state = "dry_run" =>
              \E n \in Numbers : /\ ledger[i].path = <<n, "todo">>
                                 /\ vault[i][n] \in {"draft", "superseded"}

\* What /retry may requeue: nothing else waits.
FailedIsPath ==
    \A i \in Items : ledger[i].state \in {"failed", "running"} =>
        /\ ledger[i].state = "running" => ledger[i].path # None
        /\ ledger[i].path # None =>
              /\ Waiting(i) \subseteq {ledger[i].path[1]}
              /\ hand.item = i => hand.n = ledger[i].path[1]

HandOK ==
    hand.pc # "idle" =>
        /\ Waiting(hand.item) \subseteq {hand.n}
        /\ hand.status = "running" <=> hand.pc # "close"
        /\ hand.status = "failed" => Waiting(hand.item) = {}

Core ==
    /\ JobOK
    /\ OwnerAlone
    /\ OpenIsEmpty
    /\ FailedIsPath
    /\ HandOK
    /\ OneWaiting

IInv == TypeOK /\ Core

-----------------------------------------------------------------------------
(* Type correctness.                                                       *)

LEMMA JobTyped ==
    /\ NoJob \in Job
    /\ \A b, l \in BOOLEAN : [NoJob EXCEPT !.pc = "listed", !.live = l, !.backfill = b] \in Job
    /\ \A j \in Job : [j EXCEPT !.pc = "scan"] \in Job
    /\ \A j \in Job, n \in Numbers : [j EXCEPT !.pc = "mark", !.n = n] \in Job
    /\ \A j \in Job, i \in Items, id \in Nat, l \in BOOLEAN :
          [j EXCEPT !.pc = "write", !.item = i, !.id = id, !.live = l] \in Job
  BY DEF NoJob, Job

LEMMA LeftTyped ==
    ASSUME left \in [Kinds -> Nat], NEW k \in Kinds, Spend(k)
    PROVE  left' \in [Kinds -> Nat]
  BY DEF Spend

LEMMA RetiredTyped ==
    ASSUME TypeOK, NEW i \in Items
    PROVE  Retired(vault[i], ledger[i]) \in [Numbers -> Brief]
PROOF
  <1>1. CASE OnDisk(vault[i], ledger[i].path)
    <2>1. ledger[i].path[1] \in Numbers
      BY <1>1 DEF OnDisk, TypeOK, Row, Paths
    <2>2. "superseded" \in Brief
      BY DEF Brief, MovedStatus
    <2>3. vault[i] \in [Numbers -> Brief]
      BY DEF TypeOK
    <2> QED
      BY <2>1, <2>2, <2>3 DEF Retired
  <1> QED
    BY <1>1 DEF Retired, TypeOK

LEMMA RecordTyped ==
    ASSUME TypeOK, NEW h \in Handlers, NEW i \in Items, NEW id \in Nat,
           NEW verdict \in Verdicts, NEW isLive \in BOOLEAN, NEW idle \in Job,
           Record(h, i, id, verdict, isLive, idle)
    PROVE  /\ ledger' \in [Items -> Row]
           /\ vault' \in [Items -> [Numbers -> Brief]]
           /\ seen' \subseteq Nat
           /\ job' \in [Handlers -> Job]
           /\ left' \in [Kinds -> Nat]
PROOF
  <1>1. Recorded(ledger[i], verdict, isLive) \in Row
    BY DEF TypeOK, Recorded, Row, RowStates, Verdicts
  <1>2. Retired(vault[i], ledger[i]) \in [Numbers -> Brief]
    BY RetiredTyped
  <1>3. /\ ledger' \in [Items -> Row]
        /\ vault' \in [Items -> [Numbers -> Brief]]
        /\ seen' \subseteq Nat
    BY <1>1, <1>2 DEF Record, TypeOK
  <1>6. left' \in [Kinds -> Nat]
    BY LeftTyped DEF Record, TypeOK, Kinds
  <1>4. [idle EXCEPT !.pc = "write", !.item = i, !.id = id, !.live = isLive] \in Job
    BY JobTyped
  <1>5. job' \in [Handlers -> Job]
    BY <1>4 DEF Record, TypeOK
  <1> QED
    BY <1>3, <1>5, <1>6

LEMMA CutShortTyped ==
    ASSUME TypeOK, NEW i \in Items, NEW id, NEW verdict, NEW isLive,
           CutShort(i, id, verdict, isLive)
    PROVE  vault' \in [Items -> [Numbers -> Brief]]
PROOF
  <1>1. Retired(vault[i], ledger[i]) \in [Numbers -> Brief]
    BY RetiredTyped
  <1> QED
    BY <1>1 DEF CutShort, TypeOK

LEMMA HandTyped ==
    ASSUME hand \in Hands, NextHand
    PROVE  hand' \in Hands
PROOF
  <1>1. hand.pc = "claim" => [hand EXCEPT !.pc = "run"] \in Hands
    BY DEF Hands, Idle
  <1> QED
    BY <1>1 DEF NextHand, Hands

LEMMA BriefTyped ==
    ASSUME TypeOK, NEW i \in Items, NEW n \in Numbers,
           NEW status \in TodoStatus \cup MovedStatus, SetBrief(i, n, status)
    PROVE  vault' \in [Items -> [Numbers -> Brief]]
PROOF
  <1>1. status \in Brief
    BY DEF Brief
  <1> QED
    BY <1>1 DEF SetBrief, TypeOK

LEMMA MirrorTyped ==
    ASSUME TypeOK, hand.pc # "idle"
    PROVE  Mirrored(hand.item, hand.n, hand.status) \in Row
PROOF
  <1>1. hand.item \in Items /\ hand.n \in Numbers /\ hand.status \in Reports
    BY DEF TypeOK, Hands, Idle
  <1>2. MirrorState(hand.status) \in RowStates
    BY <1>1 DEF Reports, MirrorState, RowStates, Verdicts
  <1>3. <<hand.n, Place(hand.status)>> \in Paths
    BY <1>1 DEF Place, Paths
  <1>4. ledger[hand.item].path \in Paths \cup {None}
    BY <1>1 DEF TypeOK, Row
  <1> QED
    BY <1>2, <1>3, <1>4 DEF Mirrored, Row

LEMMA TypeStep ==
    ASSUME IInv, [Next]_vars
    PROVE  TypeOK'
PROOF
  <1> TypeOK /\ JobOK /\ HandOK
    BY DEF IInv, Core
  <1>1. CASE \E h \in Hooks, d \in sent : Receive(h, d)
    <2>1. PICK h \in Hooks, d \in sent : Receive(h, d)
      BY <1>1
    <2>2. /\ d.item \in Items /\ d.id \in Nat /\ hookLive \in BOOLEAN
          /\ Verdict(d.item, d.label, FALSE) \in Verdicts
          /\ h \in Handlers
      BY DEF TypeOK, Delivery, Verdict, Verdicts, Handlers
    <2>3. Record(h, d.item, d.id, Verdict(d.item, d.label, FALSE), hookLive, NoJob)
      BY <2>1 DEF Receive
    <2>4. /\ ledger' \in [Items -> Row]
          /\ vault' \in [Items -> [Numbers -> Brief]]
          /\ seen' \subseteq Nat
          /\ job' \in [Handlers -> Job]
          /\ left' \in [Kinds -> Nat]
      BY <2>2, <2>3, RecordTyped, JobTyped
    <2> QED
      BY <2>1, <2>4 DEF Receive, TypeOK
  <1>2. ASSUME NEW p \in Pollers,
               List(p) \/ DropKnown(p) \/ EndScan(p) \/ PollerDies(p)
        PROVE  TypeOK'
    <2>0. p \in Handlers
      BY DEF Handlers
    <2>1. CASE List(p)
      <3>1. {[item |-> i, label |-> issue[i]] :
                i \in {j \in Polled : issue[j] \in {"open", "skip"}}} \subseteq Listing
        BY AdmissionAssumption DEF Listing
      <3>2. todo' \in [Handlers -> SUBSET Listing]
        BY <2>0, <2>1, <3>1 DEF List, TypeOK
      <3>3. job' \in [Handlers -> Job]
        BY <2>0, <2>1, JobTyped DEF List, TypeOK
      <3> QED
        BY <2>1, <3>2, <3>3 DEF List, TypeOK, qvars
    <2>2. CASE DropKnown(p)
      BY <2>0, <2>2, JobTyped DEF DropKnown, TypeOK, qvars
    <2>3. CASE EndScan(p)
      BY <2>0, <2>3, JobTyped DEF EndScan, TypeOK, qvars
    <2>4. CASE PollerDies(p)
      <3>1. left' \in [Kinds -> Nat]
        BY <2>4, LeftTyped DEF PollerDies, TypeOK, Kinds
      <3>2. vault' \in [Items -> [Numbers -> Brief]]
        <4>1. \A t \in todo[p] : t.item \in Items
          BY <2>0 DEF TypeOK, Listing
        <4> QED
          BY <2>4, <4>1, CutShortTyped DEF PollerDies, TypeOK
      <3> QED
        BY <2>0, <2>4, <3>1, <3>2, JobTyped DEF PollerDies, TypeOK
    <2> QED
      BY <1>2, <2>1, <2>2, <2>3, <2>4
  <1>3. ASSUME NEW p \in Pollers, NEW t \in todo[p], Admit(p, t)
        PROVE  TypeOK'
    <2>1. /\ t.item \in Items /\ job[p] \in Job /\ p \in Handlers
          /\ job[p].live \in BOOLEAN
          /\ Verdict(t.item, t.label, job[p].backfill) \in Verdicts
      BY DEF TypeOK, Listing, Job, Verdict, Verdicts, Handlers
    <2>2. todo' \in [Handlers -> SUBSET Listing]
      BY <1>3, <2>1 DEF Admit, TypeOK
    <2>3. Record(p, t.item, 0, Verdict(t.item, t.label, job[p].backfill), job[p].live, job[p])
      BY <1>3 DEF Admit
    <2>4. /\ ledger' \in [Items -> Row]
          /\ vault' \in [Items -> [Numbers -> Brief]]
          /\ seen' \subseteq Nat
          /\ job' \in [Handlers -> Job]
          /\ left' \in [Kinds -> Nat]
      BY <2>1, <2>3, RecordTyped
    <2> QED
      BY <1>3, <2>2, <2>4 DEF Admit, TypeOK
  <1>4. ASSUME NEW h \in Handlers,
               WriteBrief(h) \/ BriefError(h) \/ MarkBrief(h) \/ LedgerDown(h)
        PROVE  TypeOK'
    <2>1. CASE WriteBrief(h)
      <3>1. PICK n \in Numbers :
               /\ SetBrief(job[h].item, n,
                           IF job[h].live THEN "pending" ELSE "draft")
               /\ job' = [job EXCEPT ![h].pc = "mark", ![h].n = n]
        BY <2>1 DEF WriteBrief, Fresh
      <3>2. job[h].item \in Items /\ job[h] \in Job
        BY <2>1 DEF WriteBrief, JobOK, TypeOK
      <3>3. vault' \in [Items -> [Numbers -> Brief]]
        BY <3>1, <3>2, BriefTyped DEF TodoStatus
      <3>4. job' = [job EXCEPT ![h] = [job[h] EXCEPT !.pc = "mark", !.n = n]]
        BY <3>1 DEF TypeOK
      <3>5. job' \in [Handlers -> Job]
        BY <3>2, <3>4, JobTyped DEF TypeOK
      <3> QED
        BY <2>1, <3>3, <3>5 DEF WriteBrief, TypeOK
    <2>2. CASE BriefError(h)
      <3>1. \A r \in Row : [r EXCEPT !.state = "brief_error"] \in Row
        BY DEF Row, RowStates
      <3> QED
        BY <2>2, <3>1, JobTyped, LeftTyped DEF BriefError, TypeOK, Kinds
    <2>3. CASE MarkBrief(h)
      <3>1. After(h) \in Job
        BY DEF TypeOK, After, NoJob, Job
      <3>2. job[h].item \in Items /\ job[h].n \in Numbers
        BY <2>3 DEF MarkBrief, JobOK, TypeOK, Job
      <3>3. [state |-> IF job[h].live THEN "admitted" ELSE "dry_run",
             path  |-> <<job[h].n, "todo">>] \in Row
        BY <3>2 DEF Row, RowStates, Verdicts, Paths
      <3> QED
        BY <2>3, <3>1, <3>2, <3>3 DEF MarkBrief, TypeOK
    <2>4. CASE LedgerDown(h)
      BY <2>4, JobTyped, LeftTyped DEF LedgerDown, TypeOK, qvars, Kinds
    <2> QED
      BY <1>4, <2>1, <2>2, <2>3, <2>4
  <1>5. ASSUME NEW i \in Items, Edit(i) \/ Alert(i)
        PROVE  TypeOK'
    <2>1. left' \in [Kinds -> Nat] /\ left["edit"] \in Nat
      BY <1>5, LeftTyped DEF Edit, Alert, TypeOK, Kinds
    <2>2. CASE Edit(i)
      BY <2>1, <2>2 DEF Edit, TypeOK, IssueStates, Delivery, qvars
    <2>3. CASE Alert(i)
      BY <2>1, <2>3 DEF Alert, TypeOK, IssueStates, Delivery, qvars
    <2> QED
      BY <1>5, <2>2, <2>3
  <1>6. CASE SwitchMode
    BY <1>6, LeftTyped DEF SwitchMode, TypeOK, Kinds, qvars
  <1>7. CASE Restart
    <2>1. job' \in [Handlers -> Job]
      BY <1>7, JobTyped DEF Restart, TypeOK
    <2>2. left' \in [Kinds -> Nat]
      BY <1>7, LeftTyped DEF Restart, TypeOK, Kinds
    <2>3. vault' \in [Items -> [Numbers -> Brief]]
      <3>1. \A d \in sent : d.item \in Items
        BY DEF TypeOK, Delivery
      <3> QED
        BY <1>7, <3>1, CutShortTyped DEF Restart, TypeOK
    <2> QED
      BY <1>7, <2>1, <2>2, <2>3 DEF Restart, TypeOK
  <1>8. ASSUME NEW i \in Items, NEW n \in Numbers, Working(i, n)
        PROVE  TypeOK'
    <2>1. PICK status \in TodoStatus \cup MovedStatus :
             SetBrief(i, n, status)
      BY <1>8 DEF Working, Take, Refuse, Finish, ReapBrief, TypeOK, Brief,
                  TodoStatus, MovedStatus
    <2>2. vault' \in [Items -> [Numbers -> Brief]]
      BY <2>1, BriefTyped
    <2>3. \E pc \in {"claim", "close"}, s \in Reports : Grab(pc, i, n, s)
      BY <1>8 DEF Reports, Working, Take, Refuse, Finish, ReapBrief
    <2>4. UNCHANGED <<ledger, retrying, avars>>
      BY <1>8 DEF Working, Take, Refuse, Finish, ReapBrief
    <2>5. hand' \in Hands
      BY <2>3 DEF Grab, Hands
    <2> QED
      BY <2>2, <2>4, <2>5 DEF TypeOK, avars
  <1>9. CASE Ledgering
    <2>1. CASE Mirror
      <3>1. hand' \in Hands
        BY <2>1, HandTyped DEF Mirror, TypeOK
      <3>2. hand.item \in Items /\ hand.n \in Numbers
        BY <2>1 DEF Mirror, TypeOK, Hands, Idle
      <3>3. Mirrored(hand.item, hand.n, hand.status) \in Row
        BY <2>1, <3>2, MirrorTyped DEF Mirror
      <3> QED
        BY <1>9, <2>1, <3>1, <3>2, <3>3 DEF Ledgering, Mirror, TypeOK, avars
    <2>2. CASE RetryRow
      <3>1. \A r \in Row : [r EXCEPT !.state = "admitted"] \in Row
        BY DEF Row, RowStates, Verdicts
      <3> QED
        BY <1>9, <2>2, <3>1 DEF Ledgering, RetryRow, TypeOK, avars
    <2>3. ASSUME NEW i \in Items, RetryBrief(i) \/ ReapRow(i)
          PROVE  TypeOK'
      <3>1. CASE RetryBrief(i)
        <4>1. ledger[i].path[1] \in Numbers
          BY <3>1 DEF RetryBrief, OnDisk, TypeOK, Row, Paths
        <4>2. vault' \in [Items -> [Numbers -> Brief]]
          BY <3>1, <4>1, BriefTyped DEF RetryBrief, TodoStatus
        <4> QED
          BY <1>9, <3>1, <4>2 DEF Ledgering, RetryBrief, TypeOK, avars
      <3>2. CASE ReapRow(i)
        <4>1. \A r \in Row : [r EXCEPT !.state = "failed"] \in Row
          BY DEF Row, RowStates
        <4> QED
          BY <1>9, <3>2, <4>1 DEF Ledgering, ReapRow, TypeOK, avars
      <3> QED
        BY <2>3, <3>1, <3>2
    <2> QED
      BY <1>9, <2>1, <2>2, <2>3 DEF Ledgering
  <1>10. CASE Mishap
    <2>1. left' \in [Kinds -> Nat]
      BY <1>10, LeftTyped DEF Mishap, TypeOK, Kinds
    <2>2. hand' \in Hands /\ retrying' \in Items \cup {None}
      BY <1>10, HandTyped DEF Mishap, MirrorLost, RetryLost, Die, Hands, TypeOK
    <2>3. UNCHANGED <<ledger, vault>>
      BY <1>10 DEF Mishap, MirrorLost, RetryLost, Die
    <2> QED
      BY <1>10, <2>1, <2>2, <2>3 DEF Mishap, TypeOK
  <1>11. CASE UNCHANGED vars
    BY <1>11 DEF TypeOK, vars, qvars, avars
  <1> QED
    BY <1>1, <1>2, <1>3, <1>4, <1>5, <1>6, <1>7, <1>8, <1>9, <1>10, <1>11 DEF Next

-----------------------------------------------------------------------------
(* The rest of the invariant, action by action.                            *)

LEMMA InitCore == Init => TypeOK /\ Core
PROOF
  <1> SUFFICES ASSUME Init PROVE TypeOK /\ Core
    OBVIOUS
  <1>1. TypeOK
    BY AdmissionAssumption, JobTyped
       DEF Init, TypeOK, NoRow, Row, RowStates, NoBrief, Brief, Hands, IssueStates
  <1>2. \A i \in Items : Waiting(i) = {}
    BY DEF Init, Waiting, NoBrief, Queued
  <1>3. JobOK /\ OwnerAlone
    BY DEF Init, JobOK, OwnerAlone, Owns, NoJob
  <1>4. OpenIsEmpty /\ FailedIsPath
    BY <1>2, LedgerAssumption DEF Init, OpenIsEmpty, FailedIsPath, NoRow, Idle
  <1>5. HandOK /\ OneWaiting
    BY <1>2 DEF Init, HandOK, Idle, OneWaiting
  <1> QED
    BY <1>1, <1>3, <1>4, <1>5 DEF Core

\* At most drafts of rows in dry_run are put away.
Retiring ==
    \A i \in Items, n \in Numbers :
        \/ vault'[i][n] = vault[i][n]
        \/ /\ ledger[i].state = "dry_run"
           /\ vault[i][n] = "draft"
           /\ vault'[i][n] = "superseded"

LEMMA RetiredIsRetiring ==
    ASSUME IInv, NEW i \in Items,
           vault' = [vault EXCEPT ![i] = Retired(@, ledger[i])]
    PROVE  Retiring
PROOF
  <1>0. TypeOK /\ Core
    BY DEF IInv
  <1>1. /\ \A j \in Items : j # i => vault'[j] = vault[j]
        /\ vault'[i] = Retired(vault[i], ledger[i])
    BY <1>0 DEF TypeOK
  <1>2. CASE ledger[i].state = "dry_run" /\ OnDisk(vault[i], ledger[i].path)
    <2>1. PICK n \in Numbers : /\ ledger[i].path = <<n, "todo">>
                               /\ vault[i][n] \in {"draft", "superseded"}
      BY <1>0, <1>2 DEF Core, OpenIsEmpty, Open
    <2>2. ledger[i].path[1] = n /\ vault[i][n] = "draft"
      BY <1>2, <2>1 DEF OnDisk, Place, MovedStatus
    <2>3. vault'[i] = [vault[i] EXCEPT ![n] = "superseded"]
      BY <1>1, <1>2, <2>2 DEF Retired
    <2>4. \A m \in Numbers :
             /\ m # n => vault'[i][m] = vault[i][m]
             /\ m = n => vault'[i][m] = "superseded"
      BY <1>0, <2>3 DEF TypeOK, Brief
    <2> QED
      BY <1>1, <1>2, <2>2, <2>4 DEF Retiring
  <1>3. CASE ~(ledger[i].state = "dry_run" /\ OnDisk(vault[i], ledger[i].path))
    BY <1>1, <1>3 DEF Retired, Retiring
  <1> QED
    BY <1>2, <1>3

LEMMA RetiringKeepsWaiting ==
    ASSUME Retiring, NEW i \in Items
    PROVE  Waiting(i)' = Waiting(i)
  BY DEF Retiring, Waiting, Queued

\* Rows and hand stay, and no handler starts or marks a brief.
LEMMA QuietStep ==
    ASSUME IInv, UNCHANGED <<ledger, hand>>, Retiring,
           \A h \in Handlers : \/ job'[h] = job[h]
                               \/ /\ job'[h].pc \notin {"write", "mark"}
                                  /\ job'[h].n = None
    PROVE  Core'
PROOF
  <1>0. TypeOK /\ Core
    BY DEF IInv
  <1>1. \A i \in Items : Waiting(i)' = Waiting(i)
    BY RetiringKeepsWaiting
  <1>2. \A h \in Handlers, i \in Items :
           Owns(h, i)' => /\ Owns(h, i) /\ job'[h] = job[h]
                          /\ job[h].pc = "mark" => job[h].n \in Numbers
    BY <1>0 DEF Owns, Core, JobOK, TypeOK, Job
  <1>3. JobOK'
    BY <1>0 DEF Core, JobOK
  <1>4. OwnerAlone'
    BY <1>0, <1>1, <1>2 DEF Core, OwnerAlone, Retiring
  <1>5. OpenIsEmpty' /\ FailedIsPath' /\ OneWaiting'
    BY <1>0, <1>1 DEF Core, OpenIsEmpty, FailedIsPath, OneWaiting, Retiring
  <1>6. HandOK'
    <2>1. hand.pc # "idle" => hand.item \in Items /\ hand.n \in Numbers
      BY <1>0 DEF TypeOK, Hands, Idle
    <2> QED
      BY <1>0, <1>1, <2>1 DEF Core, HandOK, Retiring
  <1> QED
    BY <1>3, <1>4, <1>5, <1>6 DEF Core

\* One brief is written.
LEMMA SetWaiting ==
    ASSUME TypeOK, NEW i \in Items, NEW n \in Numbers, NEW status,
           SetBrief(i, n, status)
    PROVE  /\ \A j \in Items : j # i => Waiting(j)' = Waiting(j)
           /\ Waiting(i)' = IF status \in {"pending", "running"}
                            THEN Waiting(i) \cup {n} ELSE Waiting(i) \ {n}
           /\ \A j \in Items, m \in Numbers :
                 j # i \/ m # n => vault'[j][m] = vault[j][m]
           /\ vault'[i][n] = status
  BY DEF TypeOK, SetBrief, Waiting, Queued

\* One row is written.
LEMMA SetRow ==
    ASSUME TypeOK, NEW i \in Items, NEW row,
           ledger' = [ledger EXCEPT ![i] = row]
    PROVE  /\ ledger'[i] = row
           /\ \A j \in Items : j # i => ledger'[j] = ledger[j]
  BY DEF TypeOK

\* One handler moves.
LEMMA SetJob ==
    ASSUME TypeOK, NEW h \in Handlers, NEW j,
           job' = [job EXCEPT ![h] = j]
    PROVE  /\ job'[h] = j
           /\ \A g \in Handlers : g # h => job'[g] = job[g]
  BY DEF TypeOK

LEMMA RecordStep ==
    ASSUME IInv, NEW h \in Handlers, NEW i \in Items, NEW id \in Nat,
           NEW verdict \in Verdicts, NEW isLive \in BOOLEAN, NEW idle \in Job,
           Record(h, i, id, verdict, isLive, idle), UNCHANGED hand,
           idle.pc \notin {"write", "mark"}, idle.n = None,
           job[h].pc \notin {"write", "mark"}
    PROVE  Core'
PROOF
  <1> DEFINE needs == NeedsBrief(ledger[i], verdict, isLive)
  <1>0. TypeOK /\ Core
    BY DEF IInv
  <1>1. CASE id \in seen \/ (~needs /\ ledger[i].state # "absent")
    <2>1. UNCHANGED <<ledger, vault, hand>> /\ job' = [job EXCEPT ![h] = idle]
      BY <1>0, <1>1 DEF Record, Recorded, TypeOK
    <2> QED
      BY <1>0, <2>1, QuietStep, SetJob DEF Retiring
  <1>2. CASE id \notin seen /\ ~needs /\ ledger[i].state = "absent"
    <2>1. /\ ledger' = [ledger EXCEPT ![i] = [state |-> verdict, path |-> None]]
          /\ vault' = vault /\ job' = [job EXCEPT ![h] = idle]
          /\ verdict # "admitted"
      BY <1>0, <1>2 DEF Record, Recorded, NeedsBrief, TypeOK
    <2>2. /\ ledger'[i] = [state |-> verdict, path |-> None]
          /\ \A j \in Items : j # i => ledger'[j] = ledger[j]
      BY <1>0, <2>1, SetRow
    <2>3. \A j \in Items : Waiting(j)' = Waiting(j)
      BY <2>1 DEF Waiting
    <2>4. /\ Open(ledger[i]) /\ hand.item # i /\ Waiting(i) = {}
          /\ \A g \in Handlers : ~Owns(g, i)
      BY <1>0, <1>2 DEF Core, Open, OpenIsEmpty, OwnerAlone
    <2>5. \A g \in Handlers, j \in Items : Owns(g, j)' => Owns(g, j) /\ job'[g] = job[g]
      BY <1>0, <2>1, SetJob DEF Owns
    <2>6. JobOK'
      BY <1>0, <2>1, SetJob DEF Core, JobOK
    <2>7. OwnerAlone'
      BY <1>0, <2>1, <2>2, <2>3, <2>4, <2>5 DEF Core, OwnerAlone
    <2>8. OpenIsEmpty'
      BY <1>0, <2>1, <2>2, <2>3, <2>4 DEF Core, OpenIsEmpty, Verdicts
    <2>9. FailedIsPath'
      BY <1>0, <2>2, <2>3 DEF Core, FailedIsPath, Verdicts
    <2>10. HandOK' /\ OneWaiting'
      BY <1>0, <2>1, <2>3 DEF Core, HandOK, OneWaiting, Waiting
    <2> QED
      BY <2>6, <2>7, <2>8, <2>9, <2>10 DEF Core
  <1>3. CASE id \notin seen /\ needs
    <2>1. /\ ledger' = [ledger EXCEPT ![i] = [state |-> "admitted", path |-> None]]
          /\ \/ vault' = vault
             \/ vault' = [vault EXCEPT ![i] = Retired(@, ledger[i])]
          /\ job' = [job EXCEPT ![h] = [idle EXCEPT !.pc = "write", !.item = i,
                                                    !.id = id, !.live = isLive]]
          /\ Open(ledger[i])
      BY <1>0, <1>3 DEF Record, Recorded, NeedsBrief, TypeOK, Open
    <2>2. /\ ledger'[i] = [state |-> "admitted", path |-> None]
          /\ \A j \in Items : j # i => ledger'[j] = ledger[j]
      BY <1>0, <2>1, SetRow
    <2>3. Retiring
      BY <2>1, RetiredIsRetiring DEF Retiring
    <2>4. \A j \in Items : Waiting(j)' = Waiting(j)
      BY <2>3, RetiringKeepsWaiting
    <2>5. /\ hand.item # i /\ Waiting(i) = {}
          /\ \A g \in Handlers : ~Owns(g, i)
      BY <1>0, <2>1 DEF Core, Open, OpenIsEmpty, OwnerAlone, ActiveStates
    <2>6. /\ job'[h].pc = "write" /\ job'[h].item = i /\ job'[h].n = None
          /\ \A g \in Handlers : g # h => job'[g] = job[g]
      <3> DEFINE j == [idle EXCEPT !.pc = "write", !.item = i,
                                   !.id = id, !.live = isLive]
      <3>1. j.pc = "write" /\ j.item = i /\ j.n = None
        BY DEF Job
      <3>2. job' = [job EXCEPT ![h] = j]
        BY <2>1
      <3> HIDE DEF j
      <3> QED
        BY <1>0, <3>1, <3>2, SetJob
    <2>7. \A g \in Handlers, j \in Items :
             Owns(g, j)' => \/ g = h /\ j = i
                            \/ g # h /\ j # i /\ Owns(g, j) /\ job'[g] = job[g]
      BY <2>5, <2>6 DEF Owns
    <2>14. \A g \in Handlers : job[g].pc = "mark" => job[g].n \in Numbers
      BY <1>0 DEF Core, JobOK, TypeOK, Job
    <2>8. JobOK'
      BY <1>0, <2>6 DEF Core, JobOK
    <2>9. OwnerAlone'
      BY <1>0, <2>2, <2>3, <2>4, <2>5, <2>6, <2>7, <2>14 DEF Core, OwnerAlone, Retiring
    <2>10. OpenIsEmpty'
      BY <1>0, <2>2, <2>3, <2>4 DEF Core, OpenIsEmpty, Open, ActiveStates, Retiring
    <2>11. FailedIsPath'
      BY <1>0, <2>2, <2>4 DEF Core, FailedIsPath
    <2>12. HandOK'
      <3>1. hand.pc # "idle" => hand.item \in Items /\ hand.n \in Numbers
        BY <1>0 DEF TypeOK, Hands, Idle
      <3> QED
        BY <1>0, <2>3, <2>4, <3>1 DEF Core, HandOK, Retiring
    <2>13. OneWaiting'
      BY <1>0, <2>4 DEF Core, OneWaiting
    <2> QED
      BY <2>8, <2>9, <2>10, <2>11, <2>12, <2>13 DEF Core
  <1> QED
    BY <1>1, <1>2, <1>3

\* A pending or running brief closes the row: nobody owns it.
LEMMA QueuedCloses ==
    ASSUME IInv, NEW i \in Items, NEW n \in Numbers,
           vault[i][n] \in {"pending", "running"}
    PROVE  /\ Waiting(i) = {n}
           /\ ~Open(ledger[i])
           /\ \A h \in Handlers : ~Owns(h, i)
PROOF
  <1>0. TypeOK /\ Core
    BY DEF IInv
  <1>1. n \in Waiting(i)
    BY DEF Waiting, Queued
  <1>2. Waiting(i) = {n}
    BY <1>0, <1>1 DEF Core, OneWaiting, Waiting
  <1> QED
    BY <1>0, <1>1, <1>2 DEF Core, OpenIsEmpty, OwnerAlone

LEMMA WriteStep ==
    ASSUME IInv, NEW h \in Handlers, WriteBrief(h)
    PROVE  Core'
PROOF
  <1>0. TypeOK /\ Core
    BY DEF IInv
  <1> DEFINE status == IF job[h].live THEN "pending" ELSE "draft"
  <1>1. PICK i \in Items : i = job[h].item /\ Owns(h, i)
    BY <1>0 DEF Core, JobOK, WriteBrief, Owns
  <1>2. PICK n \in Numbers :
           /\ SetBrief(i, n, status)
           /\ job' = [job EXCEPT ![h] = [job[h] EXCEPT !.pc = "mark", !.n = n]]
    BY <1>0, <1>1 DEF WriteBrief, Fresh, TypeOK
  <1>3. UNCHANGED <<ledger, hand>>
    BY DEF WriteBrief
  <1>4. /\ ledger[i].state = "admitted" /\ hand.item # i
        /\ Waiting(i) = {}
        /\ \A g \in Handlers : Owns(g, i) => g = h
    BY <1>0, <1>1 DEF Core, OwnerAlone
  <1>6. /\ Waiting(i)' = IF status = "pending" THEN {n} ELSE {}
        /\ \A j \in Items : j # i => Waiting(j)' = Waiting(j)
        /\ \A j \in Items, m \in Numbers :
              j # i \/ m # n => vault'[j][m] = vault[j][m]
        /\ vault'[i][n] = status
    <2>1. status \in {"pending", "draft"} /\ SetBrief(i, n, status)
      BY <1>2
    <2> HIDE DEF status
    <2>2. Waiting(i)' = IF status \in {"pending", "running"}
                        THEN Waiting(i) \cup {n} ELSE Waiting(i) \ {n}
      BY <1>0, <2>1, SetWaiting
    <2>3. Waiting(i)' = IF status = "pending" THEN {n} ELSE {}
      BY <1>4, <2>1, <2>2
    <2>4. /\ \A j \in Items : j # i => Waiting(j)' = Waiting(j)
          /\ \A j \in Items, m \in Numbers :
                j # i \/ m # n => vault'[j][m] = vault[j][m]
          /\ vault'[i][n] = status
      BY <1>0, <2>1, SetWaiting
    <2> QED
      BY <2>3, <2>4
  <1>7. /\ job'[h].pc = "mark" /\ job'[h].n = n /\ job'[h].item = i
        /\ job'[h].live = job[h].live
        /\ \A g \in Handlers : g # h => job'[g] = job[g]
    <2> DEFINE j == [job[h] EXCEPT !.pc = "mark", !.n = n]
    <2>1. j.pc = "mark" /\ j.n = n /\ j.item = i /\ j.live = job[h].live
      BY <1>0, <1>1 DEF TypeOK, Job
    <2>2. job' = [job EXCEPT ![h] = j]
      BY <1>2
    <2> HIDE DEF j
    <2> QED
      BY <1>0, <2>1, <2>2, SetJob
  <1>8. \A g \in Handlers, j \in Items :
           Owns(g, j)' => \/ g = h /\ j = i /\ ~job[h].live
                          \/ g # h /\ j # i /\ Owns(g, j) /\ job'[g] = job[g]
    BY <1>1, <1>4, <1>7 DEF Owns
  <1>9. JobOK'
    BY <1>0, <1>1, <1>7, LedgerAssumption DEF Core, JobOK
  <1>10. OwnerAlone'
    <2> SUFFICES ASSUME NEW g \in Handlers, NEW j \in Items, Owns(g, j)'
                 PROVE  /\ ledger'[j].state = "admitted"
                        /\ hand'.item # j
                        /\ Waiting(j)' = {}
                        /\ job'[g].pc = "mark" => vault'[j][job'[g].n] = "draft"
                        /\ \A f \in Handlers : Owns(f, j)' => f = g
      BY DEF OwnerAlone
    <2>1. CASE g = h /\ j = i /\ ~job[h].live
      <3>1. status = "draft"
        BY <2>1
      <3> HIDE DEF status
      <3> QED
        BY <1>3, <1>4, <1>6, <1>7, <1>8, <2>1, <3>1
    <2>2. CASE g # h /\ j # i /\ Owns(g, j) /\ job'[g] = job[g]
      <3>1. job[g].pc = "mark" => job[g].n \in Numbers
        BY <1>0 DEF Core, JobOK, TypeOK, Job
      <3> QED
        BY <1>0, <1>3, <1>6, <1>8, <2>2, <3>1 DEF Core, OwnerAlone
    <2> QED
      BY <1>8, <2>1, <2>2
  <1>11. OpenIsEmpty'
    BY <1>0, <1>3, <1>4, <1>6 DEF Core, OpenIsEmpty, Open, ActiveStates
  <1>12. FailedIsPath'
    BY <1>0, <1>3, <1>4, <1>6 DEF Core, FailedIsPath
  <1>13. HandOK'
    <2>1. hand.pc # "idle" => hand.item \in Items /\ hand.n \in Numbers
      BY <1>0 DEF TypeOK, Hands, Idle
    <2> QED
      BY <1>0, <1>3, <1>4, <1>6, <2>1 DEF Core, HandOK
  <1>14. OneWaiting'
    <2> SUFFICES ASSUME NEW j \in Items, NEW l \in Waiting(j)', NEW m \in Waiting(j)'
                 PROVE  l = m
      BY DEF OneWaiting
    <2>1. CASE j = i
      BY <1>6, <2>1
    <2>2. CASE j # i
      BY <1>0, <1>6, <2>2 DEF Core, OneWaiting
    <2> QED
      BY <2>1, <2>2
  <1> QED
    BY <1>9, <1>10, <1>11, <1>12, <1>13, <1>14 DEF Core

\* One row is written, and no brief and no hand on it moves.
LEMMA RowStep ==
    ASSUME IInv, NEW i \in Items, NEW row,
           ledger' = [ledger EXCEPT ![i] = row],
           UNCHANGED <<vault, hand>>, JobOK',
           \A g \in Handlers, j \in Items :
              Owns(g, j)' => /\ Owns(g, j) /\ job'[g] = job[g]
                             /\ j = i => row.state = "admitted",
           Open(row) =>
              /\ hand.item # i
              /\ Waiting(i) = {}
              /\ row.state = "dry_run" =>
                    \E n \in Numbers : /\ row.path = <<n, "todo">>
                                       /\ vault[i][n] \in {"draft", "superseded"},
           row.state \in {"failed", "running"} =>
              /\ row.state = "running" => row.path # None
              /\ row.path # None => /\ Waiting(i) \subseteq {row.path[1]}
                                    /\ hand.item = i => hand.n = row.path[1]
    PROVE  Core'
PROOF
  <1>0. TypeOK /\ Core
    BY DEF IInv
  <1>1. /\ ledger'[i] = row
        /\ \A j \in Items : j # i => ledger'[j] = ledger[j]
    BY <1>0, SetRow
  <1>2. \A j \in Items : Waiting(j)' = Waiting(j)
    BY DEF Waiting
  <1>3. OwnerAlone'
    BY <1>0, <1>1, <1>2 DEF Core, OwnerAlone
  <1>4. OpenIsEmpty'
    BY <1>0, <1>1, <1>2 DEF Core, OpenIsEmpty
  <1>5. FailedIsPath'
    BY <1>0, <1>1, <1>2 DEF Core, FailedIsPath
  <1>6. HandOK' /\ OneWaiting'
    BY <1>0, <1>2 DEF Core, HandOK, OneWaiting, Waiting
  <1> QED
    BY <1>3, <1>4, <1>5, <1>6 DEF Core

LEMMA BriefErrorStep ==
    ASSUME IInv, NEW h \in Handlers, BriefError(h)
    PROVE  Core'
PROOF
  <1>0. TypeOK /\ Core
    BY DEF IInv
  <1> DEFINE i == job[h].item
             row == [ledger[i] EXCEPT !.state = "brief_error"]
  <1>1. i \in Items /\ Owns(h, i) /\ job[h].n = None
    BY <1>0 DEF Core, JobOK, BriefError, Owns
  <1>2. /\ hand.item # i
        /\ Waiting(i) = {}
        /\ \A g \in Handlers : Owns(g, i) => g = h
    BY <1>0, <1>1 DEF Core, OwnerAlone
  <1>4. /\ job'[h] = NoJob
        /\ \A g \in Handlers : g # h => job'[g] = job[g]
    BY <1>0 DEF BriefError, TypeOK
  <1>5. JobOK'
    BY <1>0, <1>4 DEF Core, JobOK, NoJob
  <1>6. \A g \in Handlers, j \in Items :
           Owns(g, j)' => Owns(g, j) /\ job'[g] = job[g] /\ j # i
    BY <1>2, <1>4 DEF Owns, NoJob
  <1>7. row.state = "brief_error"
    BY <1>0, <1>1 DEF TypeOK, Row
  <1>8. ledger' = [ledger EXCEPT ![i] = row] /\ UNCHANGED <<vault, hand>>
    BY DEF BriefError
  <1> HIDE DEF row, i
  <1> QED
    BY <1>1, <1>2, <1>5, <1>6, <1>7, <1>8, RowStep

LEMMA MarkStep ==
    ASSUME IInv, NEW h \in Handlers, MarkBrief(h)
    PROVE  Core'
PROOF
  <1>0. TypeOK /\ Core
    BY DEF IInv
  <1> DEFINE i == job[h].item
             n == job[h].n
             row == [state |-> IF job[h].live THEN "admitted" ELSE "dry_run",
                     path  |-> <<n, "todo">>]
  <1>1. i \in Items /\ n \in Numbers /\ job[h].live \in BOOLEAN
    BY <1>0 DEF Core, JobOK, MarkBrief, TypeOK, Job
  <1>2. /\ job'[h].pc \in {"idle", "scan"} /\ job'[h].n = None
        /\ \A g \in Handlers : g # h => job'[g] = job[g]
    <2>1. After(h).pc \in {"idle", "scan"} /\ After(h).n = None
      BY DEF After, NoJob
    <2> QED
      BY <1>0, <2>1 DEF MarkBrief, TypeOK
  <1>3. JobOK'
    BY <1>0, <1>2 DEF Core, JobOK
  <1>4. ledger' = [ledger EXCEPT ![i] = row] /\ UNCHANGED <<vault, hand>>
    BY DEF MarkBrief
  <1>5. CASE job[h].live
    <2>1. \A g \in Handlers, j \in Items :
             Owns(g, j)' => Owns(g, j) /\ job'[g] = job[g]
      BY <1>2 DEF Owns
    <2>2. row.state = "admitted"
      BY <1>5
    <2>3. ~Open(row)
      BY <2>2 DEF Open, ActiveStates
    <2> HIDE DEF row, i
    <2> QED
      BY <1>1, <1>3, <1>4, <2>1, <2>2, <2>3, RowStep
  <1>6. CASE ~job[h].live
    <2>1. Owns(h, i)
      BY <1>6 DEF Owns, MarkBrief
    <2>2. /\ hand.item # i /\ Waiting(i) = {}
          /\ vault[i][n] = "draft"
          /\ \A g \in Handlers : Owns(g, i) => g = h
      BY <1>0, <1>1, <2>1 DEF Core, OwnerAlone, MarkBrief
    <2>4. \A g \in Handlers, j \in Items :
             Owns(g, j)' => Owns(g, j) /\ job'[g] = job[g] /\ j # i
      BY <1>2, <2>2 DEF Owns
    <2>5. row.state = "dry_run" /\ row.path = <<n, "todo">>
      BY <1>6
    <2> HIDE DEF row, i, n
    <2> QED
      BY <1>1, <1>3, <1>4, <2>2, <2>4, <2>5, RowStep
  <1> QED
    BY <1>1, <1>5, <1>6

\* The dispatcher takes a waiting brief in hand.
LEMMA TakeStep ==
    ASSUME IInv, NEW i \in Items, NEW n \in Numbers,
           Take(i, n) \/ Refuse(i, n) \/ ReapBrief(i, n), UNCHANGED job
    PROVE  Core'
PROOF
  <1>0. TypeOK /\ Core
    BY DEF IInv
  <1>1. /\ Waiting(i) = {n}
        /\ ~Open(ledger[i])
        /\ \A h \in Handlers : ~Owns(h, i)
    <2>1. vault[i][n] \in {"pending", "running"}
      BY DEF Take, Refuse, ReapBrief
    <2> QED
      BY <2>1, QueuedCloses
  <1>2. PICK status \in {"running", "skipped", "failed"},
             pc \in {"claim", "close"} :
           /\ SetBrief(i, n, status)
           /\ hand' = [pc |-> pc, item |-> i, n |-> n, status |-> status]
           /\ pc = "claim" <=> status = "running"
    BY <1>0 DEF Take, Refuse, ReapBrief, Grab, TypeOK, Brief
  <1>3. hand = Idle /\ UNCHANGED ledger
    BY DEF Take, Refuse, ReapBrief
  <1>4. /\ Waiting(i)' \subseteq {n}
        /\ \A j \in Items : j # i => Waiting(j)' = Waiting(j)
        /\ \A j \in Items, m \in Numbers :
              j # i \/ m # n => vault'[j][m] = vault[j][m]
        /\ vault'[i][n] = status
    BY <1>0, <1>1, <1>2, SetWaiting
  <1>5. JobOK'
    BY <1>0 DEF Core, JobOK
  <1>6. OwnerAlone'
    <2>1. \A h \in Handlers, j \in Items :
             Owns(h, j)' => Owns(h, j) /\ j # i /\ (job[h].pc = "mark" => job[h].n \in Numbers)
      BY <1>0, <1>1 DEF Owns, Core, JobOK, TypeOK, Job
    <2> QED
      BY <1>0, <1>2, <1>3, <1>4, <2>1 DEF Core, OwnerAlone
  <1>7. OpenIsEmpty'
    BY <1>0, <1>1, <1>2, <1>3, <1>4 DEF Core, OpenIsEmpty
  <1>8. FailedIsPath'
    BY <1>0, <1>1, <1>2, <1>3, <1>4 DEF Core, FailedIsPath
  <1>9. HandOK'
    <2>1. status = "failed" => n \notin Waiting(i)'
      BY <1>4 DEF Waiting, Queued
    <2>2. hand'.item = i /\ hand'.n = n /\ hand'.status = status
      BY <1>2
    <2>3. Waiting(hand.item)' = Waiting(i)'
      BY <2>2 DEF Waiting
    <2> QED
      BY <1>2, <1>4, <2>1, <2>2, <2>3 DEF HandOK
  <1>10. OneWaiting'
    BY <1>0, <1>4 DEF Core, OneWaiting
  <1> QED
    BY <1>5, <1>6, <1>7, <1>8, <1>9, <1>10 DEF Core

\* What the dispatcher has in hand is closed to everybody else.
LEMMA HandCloses ==
    ASSUME IInv, hand.pc # "idle"
    PROVE  /\ hand.item \in Items /\ hand.n \in Numbers
           /\ Waiting(hand.item) \subseteq {hand.n}
           /\ ~Open(ledger[hand.item])
           /\ \A h \in Handlers : ~Owns(h, hand.item)
PROOF
  <1>1. hand.item \in Items /\ hand.n \in Numbers
    BY DEF IInv, TypeOK, Hands, Idle
  <1> QED
    BY <1>1 DEF IInv, Core, HandOK, OpenIsEmpty, OwnerAlone

LEMMA FinishStep ==
    ASSUME IInv, NEW i \in Items, NEW n \in Numbers, Finish(i, n), UNCHANGED job
    PROVE  Core'
PROOF
  <1>0. TypeOK /\ Core
    BY DEF IInv
  <1>1. /\ hand.item = i /\ hand.n = n
        /\ Waiting(i) \subseteq {n}
        /\ ~Open(ledger[i])
        /\ \A h \in Handlers : ~Owns(h, i)
    BY HandCloses DEF Finish, Holding
  <1>2. PICK status \in {"pr_open", "failed", "pending"} :
           /\ SetBrief(i, n, status)
           /\ hand' = [pc |-> "close", item |-> i, n |-> n, status |-> status]
    BY DEF Finish, Grab
  <1>3. UNCHANGED ledger
    BY DEF Finish
  <1>4. /\ Waiting(i)' \subseteq {n}
        /\ \A j \in Items : j # i => Waiting(j)' = Waiting(j)
        /\ \A j \in Items, m \in Numbers :
              j # i \/ m # n => vault'[j][m] = vault[j][m]
        /\ vault'[i][n] = status
    BY <1>0, <1>1, <1>2, SetWaiting
  <1>5. JobOK'
    BY <1>0 DEF Core, JobOK
  <1>6. OwnerAlone'
    <2>1. \A h \in Handlers, j \in Items :
             Owns(h, j)' => Owns(h, j) /\ j # i /\ (job[h].pc = "mark" => job[h].n \in Numbers)
      BY <1>0, <1>1 DEF Owns, Core, JobOK, TypeOK, Job
    <2> QED
      BY <1>0, <1>2, <1>3, <1>4, <2>1 DEF Core, OwnerAlone
  <1>7. OpenIsEmpty'
    BY <1>0, <1>1, <1>2, <1>3, <1>4 DEF Core, OpenIsEmpty
  <1>8. FailedIsPath'
    <2> SUFFICES ASSUME NEW j \in Items, ledger[j].state \in {"failed", "running"}
                 PROVE  /\ ledger[j].state = "running" => ledger[j].path # None
                        /\ ledger[j].path # None =>
                              /\ Waiting(j)' \subseteq {ledger[j].path[1]}
                              /\ i = j => n = ledger[j].path[1]
      BY <1>2, <1>3 DEF FailedIsPath
    <2> QED
      BY <1>0, <1>1, <1>4 DEF Core, FailedIsPath
  <1>9. HandOK'
    <2>1. status = "failed" => n \notin Waiting(i)'
      BY <1>4 DEF Waiting, Queued
    <2>2. hand'.item = i /\ hand'.n = n /\ hand'.status = status
      BY <1>2
    <2>3. Waiting(hand.item)' = Waiting(i)'
      BY <2>2 DEF Waiting
    <2> QED
      BY <1>2, <1>4, <2>1, <2>2, <2>3 DEF HandOK
  <1>10. OneWaiting'
    BY <1>0, <1>4 DEF Core, OneWaiting
  <1> QED
    BY <1>5, <1>6, <1>7, <1>8, <1>9, <1>10 DEF Core

\* The dispatcher goes on, or dies, without having told the ledger.
LEMMA LetGoStep ==
    ASSUME IInv, NextHand \/ hand' = Idle, UNCHANGED <<ledger, vault, job>>
    PROVE  Core'
PROOF
  <1>0. TypeOK /\ Core
    BY DEF IInv
  <1>1. \/ hand' = Idle
        \/ /\ hand.pc = "claim"
           /\ hand'.pc = "run" /\ hand'.item = hand.item /\ hand'.n = hand.n
           /\ hand'.status = hand.status
    BY <1>0 DEF NextHand, TypeOK, Hands, Idle
  <1>2. \A i \in Items :
           /\ Waiting(i)' = Waiting(i)
           /\ hand'.item = i => hand.item = i /\ hand.n = hand'.n
    BY <1>1, LedgerAssumption DEF Waiting, Idle
  <1>3. JobOK' /\ OneWaiting'
    BY <1>0, <1>2 DEF Core, JobOK, OneWaiting
  <1>4. OwnerAlone'
    BY <1>0, <1>2 DEF Core, OwnerAlone, Owns
  <1>5. OpenIsEmpty'
    BY <1>0, <1>2 DEF Core, OpenIsEmpty
  <1>6. FailedIsPath'
    BY <1>0, <1>2 DEF Core, FailedIsPath
  <1>7. HandOK'
    BY <1>0, <1>1 DEF Core, HandOK, Idle, Waiting
  <1> QED
    BY <1>3, <1>4, <1>5, <1>6, <1>7 DEF Core

LEMMA MirrorStep ==
    ASSUME IInv, Mirror, UNCHANGED job
    PROVE  Core'
PROOF
  <1>0. TypeOK /\ Core /\ hand.pc \in {"claim", "close"}
    BY DEF IInv, Mirror
  <1>1. PICK i \in Items, n \in Numbers : hand.item = i /\ hand.n = n
    BY <1>0, HandCloses
  <1>2. /\ Waiting(i) \subseteq {n}
        /\ \A h \in Handlers : ~Owns(h, i)
    BY <1>0, <1>1, HandCloses
  <1> DEFINE s == hand.status
             row == Mirrored(i, n, s)
  <1>3. s \in {"running", "pending", "pr_open", "skipped", "failed"}
    BY <1>0 DEF TypeOK, Hands, Idle, Reports
  <1>4. /\ row.state = MirrorState(s)
        /\ row.path = IF s \in {"failed", "pending"} THEN ledger[i].path ELSE <<n, Place(s)>>
    BY DEF Mirrored
  <1>5. s = "running" => row.state = "running" /\ row.path = <<n, "todo">> /\ row.path # None
    BY <1>4, LedgerAssumption DEF MirrorState, Place, MovedStatus, Paths
  <1>6. s = "pending" => row.state = "admitted"
    BY <1>4 DEF MirrorState
  <1>7. s = "pr_open" => row.state = "pr_open"
    BY <1>4 DEF MirrorState
  <1>8. s = "skipped" => row.state = "rejected_closed" /\ row.path # None
    BY <1>4, LedgerAssumption DEF MirrorState, Place, MovedStatus, Paths
  <1>9. s = "failed" => row.state = "failed" /\ Waiting(i) = {} /\ hand' = Idle
    <2>1. s = "failed" => Waiting(i) = {}
      BY <1>0, <1>1 DEF Core, HandOK
    <2>2. s = "failed" => hand.pc = "close"
      BY <1>0, <1>1 DEF Core, HandOK
    <2> QED
      BY <1>2, <1>4, <2>1, <2>2 DEF MirrorState, Mirror, NextHand
  <1>10. /\ ledger' = [ledger EXCEPT ![i] = row]
         /\ vault' = vault
    BY <1>1 DEF Mirror
  <1>11. \/ hand' = Idle
         \/ /\ hand'.item = i /\ hand'.n = n /\ hand'.pc = "run"
            /\ hand'.status = "running"
    BY <1>0, <1>1 DEF Mirror, NextHand, TypeOK, Hands, Idle, Core, HandOK
  <1>12. \A j \in Items : hand'.item = j => j = i /\ hand'.n = n
    BY <1>11, LedgerAssumption DEF Idle
  <1>13. /\ ledger'[i] = row
         /\ \A j \in Items : j # i => ledger'[j] = ledger[j] /\ hand.item # j
    BY <1>0, <1>1, <1>10, SetRow
  <1>14. \A j \in Items : Waiting(j)' = Waiting(j)
    BY <1>10 DEF Waiting
  <1> HIDE DEF row
  <1>15. JobOK' /\ OneWaiting'
    BY <1>0, <1>14 DEF Core, JobOK, OneWaiting
  <1>16. OwnerAlone'
    BY <1>0, <1>2, <1>10, <1>12, <1>13, <1>14 DEF Core, OwnerAlone, Owns
  <1>17. OpenIsEmpty'
    <2> SUFFICES ASSUME NEW j \in Items, Open(ledger'[j])
                 PROVE  /\ hand'.item # j
                        /\ Waiting(j)' = {}
                        /\ ledger'[j].state = "dry_run" =>
                              \E m \in Numbers :
                                 /\ ledger'[j].path = <<m, "todo">>
                                 /\ vault'[j][m] \in {"draft", "superseded"}
      BY DEF OpenIsEmpty, Open
    <2>1. CASE j = i
      <3>1. s = "failed"
        BY <1>3, <1>5, <1>6, <1>7, <1>8, <1>13, <2>1 DEF Open, ActiveStates
      <3>2. hand' = Idle /\ Waiting(i)' = {} /\ ledger'[j].state = "failed"
        BY <1>9, <1>13, <1>14, <2>1, <3>1
      <3> QED
        BY <2>1, <3>2, LedgerAssumption DEF Idle
    <2>2. CASE j # i
      BY <1>0, <1>10, <1>12, <1>13, <1>14, <2>2 DEF Core, OpenIsEmpty
    <2> QED
      BY <2>1, <2>2
  <1>18. FailedIsPath'
    <2> SUFFICES ASSUME NEW j \in Items, ledger'[j].state \in {"failed", "running"}
                 PROVE  /\ ledger'[j].state = "running" => ledger'[j].path # None
                        /\ ledger'[j].path # None =>
                              /\ Waiting(j)' \subseteq {ledger'[j].path[1]}
                              /\ hand'.item = j => hand'.n = ledger'[j].path[1]
      BY DEF FailedIsPath
    <2>1. CASE j = i
      <3>1. CASE s = "failed"
        BY <1>9, <1>13, <1>14, <2>1, <3>1, LedgerAssumption DEF Idle
      <3>2. CASE s = "running"
        BY <1>2, <1>5, <1>12, <1>13, <1>14, <2>1, <3>2
      <3> QED
        BY <1>3, <1>6, <1>7, <1>8, <1>13, <2>1, <3>1, <3>2
    <2>2. CASE j # i
      BY <1>0, <1>12, <1>13, <1>14, <2>2 DEF Core, FailedIsPath
    <2> QED
      BY <2>1, <2>2
  <1>19. HandOK'
    <2>1. CASE hand' = Idle
      BY <2>1 DEF HandOK, Idle
    <2>2. CASE /\ hand'.item = i /\ hand'.n = n /\ hand'.pc = "run"
               /\ hand'.status = "running"
      BY <1>2, <1>10, <1>14, <2>2 DEF HandOK
    <2> QED
      BY <1>11, <2>1, <2>2
  <1> QED
    BY <1>15, <1>16, <1>17, <1>18, <1>19 DEF Core

LEMMA ReapRowStep ==
    ASSUME IInv, NEW i \in Items, ReapRow(i), UNCHANGED job
    PROVE  Core'
PROOF
  <1>0. TypeOK /\ Core
    BY DEF IInv
  <1> DEFINE row == [ledger[i] EXCEPT !.state = "failed"]
  <1>1. row.state = "failed" /\ row.path = ledger[i].path
    BY <1>0 DEF TypeOK, Row
  <1>2. /\ ledger[i].path # None
        /\ Waiting(i) \subseteq {ledger[i].path[1]}
        /\ hand.item # i
        /\ \A h \in Handlers : ~Owns(h, i)
    BY <1>0, LedgerAssumption DEF Core, FailedIsPath, OwnerAlone, ReapRow, Idle
  <1>3. ledger' = [ledger EXCEPT ![i] = row] /\ UNCHANGED <<vault, hand>>
    BY DEF ReapRow
  <1>4. JobOK' /\ \A g \in Handlers, j \in Items :
                     Owns(g, j)' => Owns(g, j) /\ job'[g] = job[g] /\ j # i
    BY <1>0, <1>2 DEF Core, JobOK, Owns
  <1>5. ~Open(row)
    BY <1>1, <1>2 DEF Open
  <1> HIDE DEF row
  <1> QED
    BY <1>1, <1>2, <1>3, <1>4, <1>5, RowStep

LEMMA RetryRowStep ==
    ASSUME IInv, RetryRow, UNCHANGED job
    PROVE  Core'
PROOF
  <1>0. TypeOK /\ Core
    BY DEF IInv
  <1>1. PICK i \in Items : i = retrying
    BY <1>0 DEF RetryRow, TypeOK
  <1> DEFINE row == [ledger[i] EXCEPT !.state = "admitted"]
  <1>2. row.state = "admitted" /\ ~Open(row)
    BY <1>0 DEF TypeOK, Row, Open, ActiveStates
  <1>3. ledger' = [ledger EXCEPT ![i] = row] /\ UNCHANGED <<vault, hand>>
    BY <1>1 DEF RetryRow
  <1>4. JobOK' /\ \A g \in Handlers, j \in Items :
                     Owns(g, j)' => Owns(g, j) /\ job'[g] = job[g]
    BY <1>0 DEF Core, JobOK, Owns
  <1> HIDE DEF row
  <1> QED
    BY <1>2, <1>3, <1>4, RowStep

LEMMA RetryBriefStep ==
    ASSUME Patient, IInv, NEW i \in Items, RetryBrief(i), UNCHANGED job
    PROVE  Core'
PROOF
  <1>0. TypeOK /\ Core
    BY DEF IInv
  <1>1. PICK n \in Numbers : ledger[i].path[1] = n /\ ledger[i].path # None
    BY <1>0 DEF RetryBrief, OnDisk, TypeOK, Row, Paths
  <1>2. ledger[i].state = "failed" /\ UNCHANGED <<ledger, hand>>
    BY DEF RetryBrief, RetryableStates
  <1>3. /\ Waiting(i) \subseteq {n}
        /\ hand.item = i => hand.n = n
        /\ ~Open(ledger[i])
        /\ \A h \in Handlers : ~Owns(h, i)
    BY <1>0, <1>1, <1>2 DEF Core, FailedIsPath, Open, OwnerAlone
  <1>4. /\ Waiting(i)' = {n}
        /\ \A j \in Items : j # i => Waiting(j)' = Waiting(j)
        /\ \A j \in Items, m \in Numbers :
              j # i \/ m # n => vault'[j][m] = vault[j][m]
        /\ vault'[i][n] = "pending"
    <2>1. SetBrief(i, n, "pending")
      BY <1>1 DEF RetryBrief
    <2>2. Waiting(i)' = Waiting(i) \cup {n}
      BY <1>0, <2>1, SetWaiting
    <2>3. /\ \A j \in Items : j # i => Waiting(j)' = Waiting(j)
          /\ \A j \in Items, m \in Numbers :
                j # i \/ m # n => vault'[j][m] = vault[j][m]
          /\ vault'[i][n] = "pending"
      BY <1>0, <2>1, SetWaiting
    <2> QED
      BY <1>3, <2>2, <2>3
  <1>5. JobOK'
    BY <1>0 DEF Core, JobOK
  <1>6. OwnerAlone'
    <2>1. \A h \in Handlers, j \in Items :
             Owns(h, j)' => Owns(h, j) /\ j # i /\ (job[h].pc = "mark" => job[h].n \in Numbers)
      BY <1>0, <1>3 DEF Owns, Core, JobOK, TypeOK, Job
    <2> QED
      BY <1>0, <1>2, <1>4, <2>1 DEF Core, OwnerAlone
  <1>7. OpenIsEmpty'
    BY <1>0, <1>2, <1>3, <1>4 DEF Core, OpenIsEmpty
  <1>8. FailedIsPath'
    BY <1>0, <1>1, <1>2, <1>3, <1>4 DEF Core, FailedIsPath
  <1>9. HandOK'
    <2>1. hand.pc # "idle" => hand.item \in Items /\ hand.n \in Numbers
      BY <1>0 DEF TypeOK, Hands, Idle
    <2>2. hand.item # i
      BY DEF RetryBrief
    <2> QED
      BY <1>0, <1>2, <1>4, <2>1, <2>2 DEF Core, HandOK
  <1>10. OneWaiting'
    <2> SUFFICES ASSUME NEW j \in Items, NEW l \in Waiting(j)', NEW m \in Waiting(j)'
                 PROVE  l = m
      BY DEF OneWaiting
    <2> QED
      BY <1>0, <1>4 DEF Core, OneWaiting
  <1> QED
    BY <1>5, <1>6, <1>7, <1>8, <1>9, <1>10 DEF Core

-----------------------------------------------------------------------------
(* The theorems.                                                           *)

LEMMA CoreStep ==
    ASSUME Patient, IInv, [Next]_vars
    PROVE  Core'
PROOF
  <1>0. TypeOK /\ Core
    BY DEF IInv
  <1>1. CASE \E h \in Hooks, d \in sent : Receive(h, d)
    <2>1. PICK h \in Hooks, d \in sent : Receive(h, d)
      BY <1>1
    <2>2. /\ d.item \in Items /\ d.id \in Nat /\ hookLive \in BOOLEAN
          /\ Verdict(d.item, d.label, FALSE) \in Verdicts
          /\ h \in Handlers /\ NoJob \in Job
      BY <1>0, JobTyped DEF TypeOK, Delivery, Verdict, Verdicts, Handlers
    <2>3. /\ Record(h, d.item, d.id, Verdict(d.item, d.label, FALSE), hookLive, NoJob)
          /\ UNCHANGED hand /\ job[h].pc \notin {"write", "mark"}
      BY <2>1 DEF Receive
    <2>4. NoJob.pc \notin {"write", "mark"} /\ NoJob.n = None
      BY DEF NoJob
    <2> QED
      BY <2>2, <2>3, <2>4, RecordStep
  <1>2. ASSUME NEW p \in Pollers,
               List(p) \/ DropKnown(p) \/ EndScan(p) \/ PollerDies(p)
        PROVE  Core'
    <2>0. p \in Handlers
      BY DEF Handlers
    <2>1. UNCHANGED <<ledger, hand>> /\ Retiring
      <3>1. \A t \in todo[p] : t.item \in Items
        BY <1>0, <2>0 DEF TypeOK, Listing
      <3>2. CASE PollerDies(p)
        BY <3>1, <3>2, RetiredIsRetiring DEF PollerDies, CutShort, Retiring
      <3> QED
        BY <1>2, <3>2 DEF List, DropKnown, EndScan, qvars, Retiring
    <2>2. ASSUME NEW h \in Handlers
          PROVE  \/ job'[h] = job[h]
                 \/ job'[h].pc \notin {"write", "mark"} /\ job'[h].n = None
      <3>1. CASE h # p
        BY <1>0, <1>2, <3>1 DEF List, DropKnown, EndScan, PollerDies, TypeOK
      <3>2. CASE h = p /\ List(p)
        BY <1>0, <3>2 DEF List, NoJob, TypeOK
      <3>3. CASE h = p /\ DropKnown(p)
        <4>1. job[p].n = None
          BY <1>0, <3>3 DEF DropKnown, Core, JobOK
        <4>2. [job[p] EXCEPT !.pc = "scan"].pc = "scan" /\ [job[p] EXCEPT !.pc = "scan"].n = None
          BY <1>0, <3>3, <4>1 DEF TypeOK, Job
        <4> QED
          BY <1>0, <3>3, <4>2 DEF DropKnown, TypeOK
      <3>4. CASE h = p /\ (EndScan(p) \/ PollerDies(p))
        BY <1>0, <3>4 DEF EndScan, PollerDies, NoJob, TypeOK
      <3> QED
        BY <1>2, <3>1, <3>2, <3>3, <3>4
    <2> QED
      BY <2>1, <2>2, QuietStep
  <1>3. ASSUME NEW p \in Pollers, NEW t \in todo[p], Admit(p, t)
        PROVE  Core'
    <2>1. /\ t.item \in Items /\ job[p] \in Job /\ p \in Handlers
          /\ job[p].live \in BOOLEAN
          /\ Verdict(t.item, t.label, job[p].backfill) \in Verdicts
      BY <1>0 DEF TypeOK, Listing, Job, Verdict, Verdicts, Handlers
    <2>2. /\ Record(p, t.item, 0, Verdict(t.item, t.label, job[p].backfill),
                    job[p].live, job[p])
          /\ UNCHANGED hand /\ job[p].pc = "scan"
      BY <1>3 DEF Admit
    <2>3. job[p].n = None
      BY <1>0, <2>1, <2>2 DEF Core, JobOK
    <2> QED
      BY <2>1, <2>2, <2>3, RecordStep
  <1>4. ASSUME NEW h \in Handlers,
               WriteBrief(h) \/ BriefError(h) \/ MarkBrief(h) \/ LedgerDown(h)
        PROVE  Core'
    <2>1. CASE LedgerDown(h)
      BY <1>0, <2>1, QuietStep DEF LedgerDown, qvars, TypeOK, NoJob, Retiring
    <2> QED
      BY <1>4, <2>1, WriteStep, BriefErrorStep, MarkStep
  <1>5. CASE \E i \in Items : Edit(i) \/ Alert(i)
    BY <1>5, QuietStep DEF Edit, Alert, qvars, Retiring
  <1>6. CASE SwitchMode \/ Restart
    <2>1. ASSUME NEW h \in Handlers
          PROVE  \/ job'[h] = job[h]
                 \/ job'[h].pc \notin {"write", "mark"} /\ job'[h].n = None
      <3>1. \/ job' = job
            \/ job' = [g \in Handlers |-> IF g \in Hooks THEN NoJob ELSE job[g]]
        BY <1>6 DEF SwitchMode, Restart
      <3> QED
        BY <3>1 DEF NoJob
    <2>2. UNCHANGED <<ledger, hand>> /\ Retiring
      <3>1. \A d \in sent : d.item \in Items
        BY <1>0 DEF TypeOK, Delivery
      <3>2. CASE Restart
        BY <3>1, <3>2, RetiredIsRetiring DEF Restart, CutShort, Retiring
      <3> QED
        BY <1>6, <3>2 DEF SwitchMode, qvars, Retiring
    <2> QED
      BY <2>1, <2>2, QuietStep
  <1>7. ASSUME NEW i \in Items, NEW n \in Numbers, Working(i, n)
        PROVE  Core'
    <2>1. UNCHANGED job
      BY <1>7 DEF Working, avars
    <2> QED
      BY <1>7, <2>1, TakeStep, FinishStep DEF Working
  <1>8. CASE Ledgering
    <2>1. UNCHANGED job
      BY <1>8 DEF Ledgering, avars
    <2> QED
      BY <1>8, <2>1, MirrorStep, RetryRowStep, RetryBriefStep, ReapRowStep DEF Ledgering
  <1>9. CASE Mishap
    <2>1. CASE RetryLost
      BY <1>9, <2>1, QuietStep DEF Mishap, RetryLost, Retiring
    <2>2. CASE MirrorLost \/ Die
      BY <1>9, <2>2, LetGoStep DEF Mishap, MirrorLost, Die
    <2> QED
      BY <1>9, <2>1, <2>2 DEF Mishap
  <1>10. CASE UNCHANGED vars
    BY <1>10, QuietStep DEF vars, qvars, avars, Retiring
  <1> QED
    BY <1>1, <1>2, <1>3, <1>4, <1>5, <1>6, <1>7, <1>8, <1>9, <1>10 DEF Next

\* The invariant is inductive.
THEOREM Invariance ==
    ASSUME Patient
    PROVE  Spec => []IInv
PROOF
  <1>1. Init => IInv
    BY InitCore DEF IInv
  <1>2. IInv /\ [Next]_vars => IInv'
    BY TypeStep, CoreStep DEF IInv
  <1> QED
    BY <1>1, <1>2, PTL DEF Spec

\* Rows, briefs and handlers keep to their types: in particular no row ever
\* gets a state or a path outside those the code names.
THEOREM TypeCorrect ==
    ASSUME Patient
    PROVE  Spec => []TypeOK
  BY Invariance, PTL DEF IInv

\* Never two briefs of one item with something to come (triage.py, _record,
\* _retire_draft), whatever the threads, processes and mishaps.
THEOREM AtMostOneWaiting ==
    ASSUME Patient
    PROVE  Spec => []OneWaiting
PROOF
  <1>1. IInv => OneWaiting
    BY DEF IInv, Core
  <1> QED
    BY <1>1, Invariance, PTL

\* Nothing of an item runs or waits to run while its row says dry_run, and the
\* row leads to the draft (_record, _emit_brief, _retire_draft).
THEOREM DryRunStaysQuiet ==
    ASSUME Patient
    PROVE  Spec => []DryRunIsQuiet
PROOF
  <1>1. IInv => DryRunIsQuiet
    BY DEF IInv, Core, OpenIsEmpty, Open, DryRunIsQuiet
  <1> QED
    BY <1>1, Invariance, PTL

-----------------------------------------------------------------------------
(* MovedStays.  The one step that could bring a brief back is /retry, by   *)
(* the path of the row: so a row whose path leads out of the queue         *)
(* directory is one /retry refuses, and stays so while the path does,      *)
(* because nothing of its item waits, is in hand or will be written.       *)

Moved(i) == ledger[i].path # None /\ ledger[i].path[2] = "moved"

MovedIsOver ==
    \A i \in Items : Moved(i) =>
        /\ Waiting(i) = {} /\ hand.item # i
        /\ \A h \in Handlers : ~Owns(h, i)
        /\ ledger[i].state \notin {"failed", "running"}

\* The brief in hand is as the dispatcher left it.
HandIsTrue ==
    /\ hand.pc \in {"claim", "run"} => vault[hand.item][hand.n] = "running"
    /\ hand.pc = "close" /\ hand.status # "pending" => Waiting(hand.item) = {}

Shelved == MovedIsOver /\ HandIsTrue

Kept == \A i \in Items, n \in Numbers :
            vault[i][n] \in MovedStatus => vault'[i][n] = vault[i][n]

LEMMA ShelvedStart == Init => Shelved
  BY DEF Init, Shelved, MovedIsOver, Moved, HandIsTrue, NoRow, Idle

LEMMA QuietShelves ==
    ASSUME IInv, Shelved, UNCHANGED <<ledger, hand>>, Retiring,
           \A h \in Handlers : \/ job'[h] = job[h]
                               \/ job'[h].pc \notin {"write", "mark"}
    PROVE  Shelved' /\ Kept
PROOF
  <1>1. \A i \in Items : Waiting(i)' = Waiting(i)
    BY RetiringKeepsWaiting
  <1>2. hand.pc # "idle" => hand.item \in Items /\ hand.n \in Numbers
    BY DEF IInv, TypeOK, Hands, Idle
  <1>3. \A h \in Handlers, i \in Items : Owns(h, i)' => Owns(h, i)
    BY DEF Owns
  <1>4. MovedIsOver'
    BY <1>1, <1>3 DEF Shelved, MovedIsOver, Moved
  <1>5. HandIsTrue'
    BY <1>1, <1>2 DEF Shelved, HandIsTrue, Retiring
  <1>6. Kept
    BY DEF Kept, Retiring, MovedStatus
  <1> QED
    BY <1>4, <1>5, <1>6 DEF Shelved

\* One row is written, or none; the briefs and the hand stay.
LEMMA RowShelves ==
    ASSUME IInv, Shelved, NEW i \in Items, NEW row,
           ledger' = [ledger EXCEPT ![i] = row], UNCHANGED hand, Retiring,
           row.path # None /\ row.path[2] = "moved" =>
              Moved(i) /\ row.state \notin {"failed", "running"},
           \A h \in Handlers, j \in Items :
              Owns(h, j)' => Owns(h, j) \/ (j = i /\ row.path = None)
    PROVE  Shelved' /\ Kept
PROOF
  <1>1. \A j \in Items : Waiting(j)' = Waiting(j)
    BY RetiringKeepsWaiting
  <1>2. /\ ledger'[i] = row
        /\ \A j \in Items : j # i => ledger'[j] = ledger[j]
    BY SetRow DEF IInv
  <1>3. hand.pc # "idle" => hand.item \in Items /\ hand.n \in Numbers
    BY DEF IInv, TypeOK, Hands, Idle
  <1>4. MovedIsOver'
    BY <1>1, <1>2 DEF Shelved, MovedIsOver, Moved
  <1>5. HandIsTrue'
    BY <1>1, <1>3 DEF Shelved, HandIsTrue, Retiring
  <1>6. Kept
    BY DEF Kept, Retiring, MovedStatus
  <1> QED
    BY <1>4, <1>5, <1>6 DEF Shelved

LEMMA RecordShelves ==
    ASSUME IInv, Shelved, NEW h \in Handlers, NEW i \in Items, NEW id \in Nat,
           NEW verdict \in Verdicts, NEW isLive \in BOOLEAN, NEW idle \in Job,
           Record(h, i, id, verdict, isLive, idle), UNCHANGED hand,
           idle.pc \notin {"write", "mark"}
    PROVE  Shelved' /\ Kept
PROOF
  <1> DEFINE needs == NeedsBrief(ledger[i], verdict, isLive)
  <1>0. TypeOK
    BY DEF IInv
  <1>1. CASE id \in seen \/ (~needs /\ ledger[i].state # "absent")
    <2>1. UNCHANGED <<ledger, vault, hand>> /\ job' = [job EXCEPT ![h] = idle]
      BY <1>0, <1>1 DEF Record, Recorded, TypeOK
    <2> QED
      BY <1>0, <2>1, QuietShelves, SetJob DEF Retiring
  <1>2. CASE id \notin seen /\ ~needs /\ ledger[i].state = "absent"
    <2>1. /\ ledger' = [ledger EXCEPT ![i] = [state |-> verdict, path |-> None]]
          /\ vault' = vault /\ job' = [job EXCEPT ![h] = idle]
      BY <1>0, <1>2 DEF Record, Recorded, NeedsBrief, TypeOK
    <2>2. \A g \in Handlers, j \in Items : Owns(g, j)' => Owns(g, j)
      BY <1>0, <2>1, SetJob DEF Owns
    <2>3. Retiring
      BY <2>1 DEF Retiring
    <2> DEFINE row == [state |-> verdict, path |-> None]
    <2>4. row.path = None /\ ledger' = [ledger EXCEPT ![i] = row]
      BY <2>1
    <2> HIDE DEF row
    <2> QED
      BY <2>2, <2>3, <2>4, RowShelves
  <1>3. CASE id \notin seen /\ needs
    <2>1. /\ ledger' = [ledger EXCEPT ![i] = [state |-> "admitted", path |-> None]]
          /\ \/ vault' = vault
             \/ vault' = [vault EXCEPT ![i] = Retired(@, ledger[i])]
          /\ job' = [job EXCEPT ![h] = [idle EXCEPT !.pc = "write", !.item = i,
                                                    !.id = id, !.live = isLive]]
      BY <1>0, <1>3 DEF Record, Recorded, NeedsBrief, TypeOK
    <2>2. Retiring
      BY <2>1, RetiredIsRetiring DEF Retiring
    <2>3. \A g \in Handlers, j \in Items : Owns(g, j)' => Owns(g, j) \/ j = i
      <3> DEFINE j == [idle EXCEPT !.pc = "write", !.item = i,
                                   !.id = id, !.live = isLive]
      <3>1. j.item = i /\ job' = [job EXCEPT ![h] = j]
        BY <2>1 DEF Job
      <3> HIDE DEF j
      <3> QED
        BY <1>0, <3>1, SetJob DEF Owns
    <2> DEFINE row == [state |-> "admitted", path |-> None]
    <2>4. row.path = None /\ ledger' = [ledger EXCEPT ![i] = row]
      BY <2>1
    <2> HIDE DEF row
    <2> QED
      BY <2>2, <2>3, <2>4, RowShelves
  <1> QED
    BY <1>1, <1>2, <1>3

\* A brief that is neither absent from the disk nor moved changes, and what
\* the hand and the row say of its item changes with it.
LEMMA BriefShelves ==
    ASSUME IInv, Shelved, NEW i \in Items, NEW n \in Numbers, NEW status,
           SetBrief(i, n, status), UNCHANGED ledger, ~Moved(i),
           vault[i][n] \notin MovedStatus,
           \A h \in Handlers, j \in Items : j # i /\ Owns(h, j)' => Owns(h, j),
           \A j \in Items : hand'.item = j => j = i \/ hand.item = j,
           HandIsTrue'
    PROVE  Shelved' /\ Kept
PROOF
  <1>1. /\ \A j \in Items : j # i => Waiting(j)' = Waiting(j)
        /\ \A j \in Items, m \in Numbers : j # i \/ m # n => vault'[j][m] = vault[j][m]
    BY SetWaiting DEF IInv
  <1>2. MovedIsOver'
    BY <1>1 DEF Shelved, MovedIsOver, Moved
  <1>3. Kept
    BY <1>1 DEF Kept
  <1> QED
    BY <1>2, <1>3 DEF Shelved

LEMMA WriteShelves ==
    ASSUME IInv, Shelved, NEW h \in Handlers, WriteBrief(h)
    PROVE  Shelved' /\ Kept
PROOF
  <1>0. TypeOK /\ Core
    BY DEF IInv
  <1> DEFINE status == IF job[h].live THEN "pending" ELSE "draft"
  <1>1. PICK i \in Items : i = job[h].item /\ Owns(h, i)
    BY <1>0 DEF Core, JobOK, WriteBrief, Owns
  <1>2. PICK n \in Numbers :
           /\ SetBrief(i, n, status) /\ vault[i][n] = "absent"
           /\ job' = [job EXCEPT ![h] = [job[h] EXCEPT !.pc = "mark", !.n = n]]
    BY <1>0, <1>1 DEF WriteBrief, Fresh, TypeOK
  <1> HIDE DEF status
  <1>3. UNCHANGED <<ledger, hand>> /\ ~Moved(i) /\ hand.item # i
    BY <1>0, <1>1 DEF WriteBrief, Shelved, MovedIsOver, Core, OwnerAlone
  <1>4. \A g \in Handlers, j \in Items : j # i /\ Owns(g, j)' => Owns(g, j)
    <2>1. [job[h] EXCEPT !.pc = "mark", !.n = n].item = i
      BY <1>0, <1>1 DEF TypeOK, Job
    <2>2. job'[h].item = i /\ \A g \in Handlers : g # h => job'[g] = job[g]
      BY <1>0, <1>2, <2>1, SetJob
    <2> QED
      BY <2>2 DEF Owns
  <1>5. HandIsTrue'
    <2>1. hand.pc # "idle" => hand.item \in Items /\ hand.n \in Numbers
      BY <1>0 DEF TypeOK, Hands, Idle
    <2>2. /\ \A j \in Items : j # i => Waiting(j)' = Waiting(j)
          /\ \A j \in Items, m \in Numbers : j # i => vault'[j][m] = vault[j][m]
      BY <1>0, <1>2, SetWaiting
    <2> QED
      BY <1>3, <2>1, <2>2 DEF Shelved, HandIsTrue
  <1>6. vault[i][n] \notin MovedStatus
    BY <1>2 DEF MovedStatus
  <1> QED
    BY <1>2, <1>3, <1>4, <1>5, <1>6, BriefShelves

LEMMA BriefErrorShelves ==
    ASSUME IInv, Shelved, NEW h \in Handlers, BriefError(h)
    PROVE  Shelved' /\ Kept
PROOF
  <1>0. TypeOK /\ Core
    BY DEF IInv
  <1> DEFINE i == job[h].item
             row == [ledger[i] EXCEPT !.state = "brief_error"]
  <1>1. i \in Items /\ Owns(h, i)
    BY <1>0 DEF Core, JobOK, BriefError, Owns
  <1>2. row.path = ledger[i].path /\ ~Moved(i)
    BY <1>0, <1>1 DEF TypeOK, Row, Shelved, MovedIsOver
  <1>3. \A g \in Handlers, j \in Items : Owns(g, j)' => Owns(g, j)
    BY <1>0 DEF Owns, BriefError, TypeOK, NoJob
  <1>4. ledger' = [ledger EXCEPT ![i] = row] /\ UNCHANGED <<vault, hand>>
    BY DEF BriefError
  <1>5. Retiring
    BY <1>4 DEF Retiring
  <1> HIDE DEF row, i
  <1> QED
    BY <1>1, <1>2, <1>3, <1>4, <1>5, RowShelves DEF Moved

LEMMA MarkShelves ==
    ASSUME IInv, Shelved, NEW h \in Handlers, MarkBrief(h)
    PROVE  Shelved' /\ Kept
PROOF
  <1>0. TypeOK /\ Core
    BY DEF IInv
  <1> DEFINE i == job[h].item
             row == [state |-> IF job[h].live THEN "admitted" ELSE "dry_run",
                     path  |-> <<job[h].n, "todo">>]
  <1>1. i \in Items
    BY <1>0 DEF Core, JobOK, MarkBrief
  <1>2. row.path[2] = "todo"
    OBVIOUS
  <1>3. \A g \in Handlers, j \in Items : Owns(g, j)' => Owns(g, j)
    <2>1. After(h).pc \in {"idle", "scan"}
      BY DEF After, NoJob
    <2> QED
      BY <1>0, <2>1 DEF Owns, MarkBrief, TypeOK
  <1>4. ledger' = [ledger EXCEPT ![i] = row] /\ UNCHANGED <<vault, hand>>
    BY DEF MarkBrief
  <1>5. Retiring
    BY <1>4 DEF Retiring
  <1> HIDE DEF row, i
  <1> QED
    BY <1>1, <1>2, <1>3, <1>4, <1>5, RowShelves

\* The dispatcher takes a brief that waits, or writes how its run ended.
LEMMA TakeShelves ==
    ASSUME IInv, Shelved, NEW i \in Items, NEW n \in Numbers, UNCHANGED job,
           Take(i, n) \/ Refuse(i, n) \/ ReapBrief(i, n) \/ Finish(i, n)
    PROVE  Shelved' /\ Kept
PROOF
  <1>0. TypeOK /\ Core
    BY DEF IInv
  <1>1. vault[i][n] \in {"pending", "running"}
    BY DEF Take, Refuse, ReapBrief, Finish, Holding, Shelved, HandIsTrue
  <1>2. Waiting(i) = {n}
    BY <1>1, QueuedCloses
  <1>3. PICK status \in {"running", "skipped", "failed", "pr_open", "pending"},
             pc \in {"claim", "close"} :
           /\ SetBrief(i, n, status)
           /\ hand' = [pc |-> pc, item |-> i, n |-> n, status |-> status]
           /\ pc = "claim" <=> status = "running"
    BY DEF Take, Refuse, ReapBrief, Finish, Grab
  <1>4. vault'[i][n] = status
    BY <1>0, <1>3, SetWaiting
  <1>5. status \notin {"running", "pending"} => Waiting(i)' = {}
    BY <1>0, <1>2, <1>3, SetWaiting
  <1>6. HandIsTrue'
    <2>1. hand'.pc = pc /\ hand'.item = i /\ hand'.n = n /\ hand'.status = status
      BY <1>3
    <2>2. Waiting(hand.item)' = Waiting(i)'
      BY <2>1 DEF Waiting
    <2> QED
      BY <1>3, <1>4, <1>5, <2>1, <2>2 DEF HandIsTrue
  <1>7. ~Moved(i) /\ UNCHANGED ledger
    BY <1>2 DEF Shelved, MovedIsOver, Take, Refuse, ReapBrief, Finish
  <1>8. \A j \in Items : hand'.item = j => j = i
    BY <1>3
  <1>9. vault[i][n] \notin MovedStatus
    BY <1>1 DEF MovedStatus
  <1>10. \A g \in Handlers, j \in Items : Owns(g, j)' => Owns(g, j)
    BY DEF Owns
  <1> QED
    BY <1>3, <1>6, <1>7, <1>8, <1>9, <1>10, BriefShelves

LEMMA MirrorShelves ==
    ASSUME IInv, Shelved, Mirror, UNCHANGED job
    PROVE  Shelved' /\ Kept
PROOF
  <1>0. TypeOK /\ Core /\ hand.pc \in {"claim", "close"}
    BY DEF IInv, Mirror
  <1>1. PICK i \in Items, n \in Numbers : hand.item = i /\ hand.n = n
    BY <1>0, HandCloses
  <1>2. (\A h \in Handlers : ~Owns(h, i)) /\ ~Moved(i)
    BY <1>0, <1>1, HandCloses DEF Shelved, MovedIsOver
  <1> DEFINE s == hand.status
             row == Mirrored(i, n, s)
  <1>3. s \in Reports /\ (s = "running" <=> hand.pc = "claim")
    BY <1>0 DEF TypeOK, Hands, Idle, Core, HandOK
  <1>4. /\ row.state = MirrorState(s)
        /\ row.path = IF s \in {"failed", "pending"} THEN ledger[i].path ELSE <<n, Place(s)>>
    BY DEF Mirrored
  <1>5. ASSUME row.path # None, row.path[2] = "moved"
        PROVE  /\ row.state \notin {"failed", "running"}
               /\ Waiting(i) = {} /\ hand' = Idle
    <2>1. s \in {"pr_open", "skipped"}
      BY <1>2, <1>3, <1>4, <1>5 DEF Reports, Moved, Place, MovedStatus
    <2>2. row.state \in {"pr_open", "rejected_closed"}
      BY <1>4, <2>1 DEF MirrorState
    <2>3. Waiting(i) = {}
      BY <1>0, <1>1, <1>3, <2>1 DEF Shelved, HandIsTrue
    <2> QED
      BY <1>0, <1>3, <2>1, <2>2, <2>3 DEF Mirror, NextHand
  <1>6. /\ ledger' = [ledger EXCEPT ![i] = row]
        /\ vault' = vault
    BY <1>1 DEF Mirror
  <1> HIDE DEF row
  <1>7. /\ ledger'[i] = row
        /\ \A j \in Items : j # i => ledger'[j] = ledger[j]
    BY <1>0, <1>6, SetRow
  <1>8. \/ hand' = Idle
        \/ /\ hand.pc = "claim"
           /\ hand'.pc = "run" /\ hand'.item = i /\ hand'.n = n
    BY <1>0, <1>1 DEF Mirror, NextHand, TypeOK, Hands, Idle
  <1>9. \A j \in Items : Waiting(j)' = Waiting(j) /\ (hand'.item = j => j = i)
    BY <1>6, <1>8, LedgerAssumption DEF Waiting, Idle
  <1>10. ASSUME NEW j \in Items, Moved(j)'
         PROVE  /\ Waiting(j)' = {} /\ hand'.item # j
                /\ \A h \in Handlers : ~Owns(h, j)'
                /\ ledger'[j].state \notin {"failed", "running"}
    <2>1. CASE j = i
      <3>1. row.path # None /\ row.path[2] = "moved"
        BY <1>7, <1>10, <2>1 DEF Moved
      <3> QED
        BY <1>2, <1>5, <1>7, <1>9, <2>1, <3>1, LedgerAssumption DEF Owns, Idle
    <2>2. CASE j # i
      BY <1>7, <1>9, <1>10, <2>2 DEF Shelved, MovedIsOver, Moved, Owns
    <2> QED
      BY <2>1, <2>2
  <1>11. MovedIsOver'
    BY <1>10 DEF MovedIsOver
  <1>12. HandIsTrue'
    BY <1>1, <1>6, <1>8 DEF Shelved, HandIsTrue, Idle
  <1>13. Kept
    BY <1>6 DEF Kept
  <1> QED
    BY <1>11, <1>12, <1>13 DEF Shelved

LEMMA LetGoShelves ==
    ASSUME IInv, Shelved, NextHand \/ hand' = Idle, UNCHANGED <<ledger, vault, job>>
    PROVE  Shelved' /\ Kept
PROOF
  <1>1. \/ hand' = Idle
        \/ /\ hand.pc = "claim"
           /\ hand'.pc = "run" /\ hand'.item = hand.item /\ hand'.n = hand.n
    BY DEF NextHand, IInv, TypeOK, Hands, Idle
  <1>2. \A i \in Items : Waiting(i)' = Waiting(i) /\ (hand'.item = i => hand.item = i)
    BY <1>1, LedgerAssumption DEF Waiting, Idle
  <1>3. MovedIsOver'
    BY <1>2 DEF Shelved, MovedIsOver, Moved, Owns
  <1>4. HandIsTrue'
    BY <1>1 DEF Shelved, HandIsTrue, Idle
  <1> QED
    BY <1>3, <1>4 DEF Shelved, Kept

LEMMA RowsShelve ==
    ASSUME IInv, Shelved, UNCHANGED job, RetryRow \/ \E i \in Items : ReapRow(i)
    PROVE  Shelved' /\ Kept
PROOF
  <1>1. PICK i \in Items :
            \/ i = retrying /\ RetryRow
            \/ ReapRow(i)
    BY DEF RetryRow, IInv, TypeOK
  <1>2. PICK state \in {"admitted", "failed"} :
            /\ ledger' = [ledger EXCEPT ![i] = [ledger[i] EXCEPT !.state = state]]
            /\ state = "failed" => ledger[i].state = "running"
    BY <1>1 DEF RetryRow, ReapRow
  <1>3. UNCHANGED <<vault, hand>>
    BY <1>1 DEF RetryRow, ReapRow
  <1> DEFINE row == [ledger[i] EXCEPT !.state = state]
  <1>4. row.path = ledger[i].path /\ row.state = state
    BY DEF IInv, TypeOK, Row
  <1>5. ledger' = [ledger EXCEPT ![i] = row]
    BY <1>2
  <1> HIDE DEF row
  <1>6. Moved(i) => row.state \notin {"failed", "running"}
    BY <1>2, <1>4 DEF Shelved, MovedIsOver
  <1>7. Retiring /\ \A h \in Handlers, j \in Items : Owns(h, j)' => Owns(h, j)
    BY <1>3 DEF Retiring, Owns
  <1> QED
    BY <1>3, <1>4, <1>5, <1>6, <1>7, RowShelves DEF Moved

\* /retry finds the brief where the row says, and that is in the queue
\* directory.
LEMMA RetryShelves ==
    ASSUME Patient, IInv, Shelved, NEW i \in Items, RetryBrief(i), UNCHANGED job
    PROVE  Shelved' /\ Kept
PROOF
  <1>0. TypeOK
    BY DEF IInv
  <1>1. PICK n \in Numbers : /\ ledger[i].path # None /\ ledger[i].path[1] = n
                             /\ ledger[i].path[2] \in {"todo", "moved"}
                             /\ Place(vault[i][n]) = ledger[i].path[2]
    BY <1>0 DEF RetryBrief, OnDisk, TypeOK, Row, Paths
  <1>2. ~Moved(i)
    BY DEF RetryBrief, RetryableStates, Shelved, MovedIsOver
  <1>3. vault[i][n] \notin MovedStatus
    BY <1>1, <1>2 DEF Moved, Place
  <1>4. SetBrief(i, n, "pending") /\ UNCHANGED <<ledger, hand>> /\ hand.item # i
    BY <1>1 DEF RetryBrief
  <1>5. HandIsTrue'
    <2>1. hand.pc # "idle" => hand.item \in Items /\ hand.n \in Numbers
      BY <1>0 DEF TypeOK, Hands, Idle
    <2>2. /\ \A j \in Items : j # i => Waiting(j)' = Waiting(j)
          /\ \A j \in Items, m \in Numbers : j # i => vault'[j][m] = vault[j][m]
      BY <1>0, <1>4, SetWaiting
    <2> QED
      BY <1>4, <2>1, <2>2 DEF Shelved, HandIsTrue
  <1> QED
    BY <1>2, <1>3, <1>4, <1>5, BriefShelves DEF Owns

LEMMA ShelvedStep ==
    ASSUME Patient, IInv, Shelved, [Next]_vars
    PROVE  Shelved' /\ Kept
PROOF
  <1>0. TypeOK
    BY DEF IInv
  <1>1. CASE \E h \in Hooks, d \in sent : Receive(h, d)
    <2>1. PICK h \in Hooks, d \in sent : Receive(h, d)
      BY <1>1
    <2>2. /\ d.item \in Items /\ d.id \in Nat /\ hookLive \in BOOLEAN
          /\ Verdict(d.item, d.label, FALSE) \in Verdicts
          /\ h \in Handlers /\ NoJob \in Job
      BY <1>0, JobTyped DEF TypeOK, Delivery, Verdict, Verdicts, Handlers
    <2>3. /\ Record(h, d.item, d.id, Verdict(d.item, d.label, FALSE), hookLive, NoJob)
          /\ UNCHANGED hand /\ NoJob.pc \notin {"write", "mark"}
      BY <2>1 DEF Receive, NoJob
    <2> QED
      BY <2>2, <2>3, RecordShelves
  <1>2. ASSUME NEW p \in Pollers,
               List(p) \/ DropKnown(p) \/ EndScan(p) \/ PollerDies(p)
        PROVE  Shelved' /\ Kept
    <2>0. p \in Handlers
      BY DEF Handlers
    <2>1. UNCHANGED <<ledger, hand>> /\ Retiring
      <3>1. \A t \in todo[p] : t.item \in Items
        BY <1>0, <2>0 DEF TypeOK, Listing
      <3>2. CASE PollerDies(p)
        BY <3>1, <3>2, RetiredIsRetiring DEF PollerDies, CutShort, Retiring
      <3> QED
        BY <1>2, <3>2 DEF List, DropKnown, EndScan, qvars, Retiring
    <2>2. ASSUME NEW h \in Handlers
          PROVE  job'[h] = job[h] \/ job'[h].pc \notin {"write", "mark"}
      <3>1. CASE h # p
        BY <1>0, <1>2, <3>1 DEF List, DropKnown, EndScan, PollerDies, TypeOK
      <3>2. CASE h = p /\ List(p)
        BY <1>0, <3>2 DEF List, NoJob, TypeOK
      <3>3. CASE h = p /\ DropKnown(p)
        <4>1. [job[p] EXCEPT !.pc = "scan"].pc = "scan"
          BY <1>0, <3>3 DEF TypeOK, Job
        <4> QED
          BY <1>0, <3>3, <4>1 DEF DropKnown, TypeOK
      <3>4. CASE h = p /\ (EndScan(p) \/ PollerDies(p))
        BY <1>0, <3>4 DEF EndScan, PollerDies, NoJob, TypeOK
      <3> QED
        BY <1>2, <3>1, <3>2, <3>3, <3>4
    <2> QED
      BY <2>1, <2>2, QuietShelves
  <1>3. ASSUME NEW p \in Pollers, NEW t \in todo[p], Admit(p, t)
        PROVE  Shelved' /\ Kept
    <2>1. /\ t.item \in Items /\ job[p] \in Job /\ p \in Handlers
          /\ job[p].live \in BOOLEAN
          /\ Verdict(t.item, t.label, job[p].backfill) \in Verdicts
      BY <1>0 DEF TypeOK, Listing, Job, Verdict, Verdicts, Handlers
    <2>2. /\ Record(p, t.item, 0, Verdict(t.item, t.label, job[p].backfill),
                    job[p].live, job[p])
          /\ UNCHANGED hand /\ job[p].pc \notin {"write", "mark"}
      BY <1>3 DEF Admit
    <2> QED
      BY <2>1, <2>2, RecordShelves
  <1>4. ASSUME NEW h \in Handlers,
               WriteBrief(h) \/ BriefError(h) \/ MarkBrief(h) \/ LedgerDown(h)
        PROVE  Shelved' /\ Kept
    <2>1. CASE LedgerDown(h)
      BY <1>0, <2>1, QuietShelves DEF LedgerDown, qvars, TypeOK, NoJob, Retiring
    <2> QED
      BY <1>4, <2>1, WriteShelves, BriefErrorShelves, MarkShelves
  <1>5. CASE \E i \in Items : Edit(i) \/ Alert(i)
    BY <1>5, QuietShelves DEF Edit, Alert, qvars, Retiring
  <1>6. CASE SwitchMode \/ Restart
    <2>1. ASSUME NEW h \in Handlers
          PROVE  job'[h] = job[h] \/ job'[h].pc \notin {"write", "mark"}
      <3>1. \/ job' = job
            \/ job' = [g \in Handlers |-> IF g \in Hooks THEN NoJob ELSE job[g]]
        BY <1>6 DEF SwitchMode, Restart
      <3> QED
        BY <3>1 DEF NoJob
    <2>2. UNCHANGED <<ledger, hand>> /\ Retiring
      <3>1. \A d \in sent : d.item \in Items
        BY <1>0 DEF TypeOK, Delivery
      <3>2. CASE Restart
        BY <3>1, <3>2, RetiredIsRetiring DEF Restart, CutShort, Retiring
      <3> QED
        BY <1>6, <3>2 DEF SwitchMode, qvars, Retiring
    <2> QED
      BY <2>1, <2>2, QuietShelves
  <1>7. ASSUME NEW i \in Items, NEW n \in Numbers, Working(i, n)
        PROVE  Shelved' /\ Kept
    <2>1. UNCHANGED job
      BY <1>7 DEF Working, avars
    <2> QED
      BY <1>7, <2>1, TakeShelves DEF Working
  <1>8. CASE Ledgering
    <2>1. UNCHANGED job
      BY <1>8 DEF Ledgering, avars
    <2> QED
      BY <1>8, <2>1, MirrorShelves, RowsShelve, RetryShelves DEF Ledgering
  <1>9. CASE Mishap
    <2>1. CASE RetryLost
      BY <1>9, <2>1, QuietShelves DEF Mishap, RetryLost, Retiring
    <2>2. CASE MirrorLost \/ Die
      BY <1>9, <2>2, LetGoShelves DEF Mishap, MirrorLost, Die
    <2> QED
      BY <1>9, <2>1, <2>2 DEF Mishap
  <1>10. CASE UNCHANGED vars
    BY <1>10, QuietShelves DEF vars, qvars, avars, Retiring
  <1> QED
    BY <1>1, <1>2, <1>3, <1>4, <1>5, <1>6, <1>7, <1>8, <1>9, <1>10 DEF Next

\* A brief that has left the queue directory keeps its place and its status
\* (_bot_retry looks where the row says, and a row that says "moved" is never
\* failed): no handler, pass, /retry or reaper brings it back as a pending
\* brief that nobody would ever see.
THEOREM MovedBriefsStay ==
    ASSUME Patient
    PROVE  Spec => MovedStays
PROOF
  <1>1. Init => IInv /\ Shelved
    BY InitCore, ShelvedStart DEF IInv
  <1>2. IInv /\ Shelved /\ [Next]_vars => (IInv /\ Shelved)'
    BY TypeStep, CoreStep, ShelvedStep DEF IInv
  <1>3. IInv /\ Shelved /\ [Next]_vars =>
           [\A i \in Items, n \in Numbers :
               vault[i][n] \in MovedStatus => vault'[i][n] = vault[i][n]]_vars
    BY ShelvedStep DEF Kept
  <1> QED
    BY <1>1, <1>2, <1>3, PTL DEF Spec, MovedStays
=============================================================================
