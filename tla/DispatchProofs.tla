--------------------------- MODULE DispatchProofs ---------------------------
(***************************************************************************)
(* Proofs about Dispatch, for any number of briefs, passes, runs and       *)
(* mishaps, and any caps.                                                  *)
(*                                                                         *)
(* Most of it is about what a pass has read and acts on later: the brief   *)
(* it has chosen is still pending when the run is marked, and still        *)
(* running when the outcome is written (Fresh), and a run id that was read *)
(* at the scan still names a worktree of that brief, or none (Resumes).    *)
(* Both need the assumption Patient.                                       *)
(***************************************************************************)
EXTENDS Dispatch, FiniteSetTheorems, TLAPS

Working   == {"check", "claim", "prepare", "create", "run", "result", "close", "reaped"}
Started   == {"claim", "prepare", "create", "run", "result"}
Preparing == {"check", "claim", "prepare", "create"}
Launching == {"claim", "prepare", "create"}

Passes == [pc     : {"off", "reap", "scan", "pick", "enqueue"} \cup Working,
           item   : Items \cup {None},
           resume : Runs \cup {None},
           run    : Runs \cup {None},
           result : {"none", "running", "failed", "skipped", "pr_open", "done", "limit"}]

Outcomes == {"failed", "pr_open", "done", "limit"}

PassOK ==
    /\ pass \in Passes
    /\ At("off") <=> pass = NoPass
    /\ pass.item \in Items <=> pass.pc \in Working
    /\ At("run") => pass.run \in Runs
    /\ pass.pc \in Started /\ ~At("result") => pass.result = "running"
    /\ At("result") => pass.result \in Outcomes
    /\ At("close") => pass.result \in Outcomes \cup {"skipped"}
    /\ At("reaped") => pass.result = "failed"

\* The containers but those that docker failed to stop.
Loose == live \ Strays

\* A container is the one of the run in hand, or was left by a dead pass, or
\* docker failed to stop it.
Alone ==
    /\ At("run") => Loose \subseteq {pass.run}
    /\ pass.pc \notin {"off", "run"} => Loose = {}
    /\ \A r, s \in Loose : r = s
    /\ \A r \in live : Worker(r) # None

Switches ==
    /\ pass.pc \in Preparing => ~limit
    /\ asked => ~paused
    /\ ~asked /\ ~paused => late = 0
    /\ paused => late = 0 \/ (late = 1 /\ pass.pc \notin Preparing)

Fresh ==
    /\ \A i \in Items : brief[i].status \in {"absent", "pending"} => i \notin ran
    /\ pass.pc \in Launching => pass.item \notin ran
    /\ At("check") => brief[pass.item].status = "pending"
    /\ \A b \in queue : At("pick") /\ brief[b.item].status = "pending"
    /\ pass.pc \in Started => brief[pass.item].status = "running"

\* Run id r, where it is given for item i, names no worktree of another.
Belongs(r, i) == r # None => tree[r].item \in {i, None}

Resumes ==
    /\ \A r \in Runs : tree[r].kind = "none" <=> tree[r].item = None
    /\ \A i \in Items : Belongs(brief[i].resume, i)
    /\ \A b \in queue : Belongs(b.resume, b.item)
    /\ pass.pc \in Working => Belongs(pass.resume, pass.item)
    /\ At("run") => tree[pass.run].item = pass.item
    /\ At("result") /\ pass.result = "limit" => Belongs(pass.run, pass.item)

IInv == TypeOK /\ PassOK /\ Alone /\ Switches /\ Fresh /\ Resumes

\* Who a kept worktree waits for: the brief that resumes it, or the pass that
\* is about to reopen it or to park it.
Awaited(r) ==
    LET i == tree[r].item
    IN  \/ brief[i].status = "pending" /\ brief[i].resume = r
        \/ pass.item = i /\ pass.pc \in {"claim", "prepare"} /\ pass.resume = r
        \/ pass.item = i /\ At("result") /\ pass.result = "limit" /\ pass.run = r

\* No two worktrees of one brief.
Distinct ==
    \A r, s \in Runs : tree[r].item = tree[s].item /\ tree[r].item # None => r = s

KeptIsAwaited == \A r \in Runs : tree[r].kind = "kept" => Awaited(r)

\* A parked brief is back in the ledger before anything else happens to it.
ParkedIsAdmitted ==
    \A i \in Items :
        brief[i].status = "pending" /\ brief[i].resume # None =>
            row[i].state = "admitted" \/ (At("close") /\ pass.item = i)

\* The resume data read at the scan is that of the file.
ScanIsFresh ==
    /\ \A b \in queue : b.resume = brief[b.item].resume
    /\ At("check") => pass.resume = brief[pass.item].resume

\* Where the brief of the run in hand stands.
HandIsTidy ==
    /\ \A i \in Items : brief[i].status = "running" => brief[i].resume = None
    /\ At("close") /\ pass.result = "limit" => brief[pass.item].status = "pending"
    /\ At("reaped") \/ (At("close") /\ pass.result # "limit") =>
          brief[pass.item].status \notin {"absent", "pending"}
    /\ At("run") => tree[pass.run].kind = "plain"

\* What the files say while no pass has died and every UPDATE has arrived.
Tidy == Distinct /\ KeptIsAwaited /\ ParkedIsAdmitted /\ ScanIsFresh /\ HandIsTidy

Counted == \A k \in Kinds : left[k] <= Budget[k]

TidyWhileUnharmed == Counted /\ (Unharmed => Tidy)
-----------------------------------------------------------------------------
(* What the operations of the model do to one variable.                    *)
Files == [Items -> Briefs]

Shelf == [Runs -> Trees]

LEMMA StatusIsSet ==
    ASSUME brief \in Files, NEW i \in Items,
           NEW s \in {"pending", "running", "failed", "skipped", "pr_open", "done"},
           SetStatus(i, s)
    PROVE  /\ brief' \in Files
           /\ \A j \in Items :
                 /\ brief'[j].status = IF j = i THEN s ELSE brief[j].status
                 /\ brief'[j].resume = brief[j].resume
                 /\ brief'[j].since = brief[j].since
BY DEF Files, Briefs, SetStatus

LEMMA SpendCounts ==
    ASSUME left \in [Kinds -> Nat], NEW k \in Kinds, Spend(k)
    PROVE  /\ left' \in [Kinds -> Nat]
           /\ left'[k] < left[k]
           /\ \A j \in Kinds : left'[j] <= left[j]
BY DEF Spend

LEMMA ReleaseDropsMarkers ==
    ASSUME NEW trees \in Shelf, NEW runs
    PROVE  /\ Release(trees, runs) \in Shelf
           /\ \A r \in Runs :
                 /\ Release(trees, runs)[r].item = trees[r].item
                 /\ Release(trees, runs)[r].kind = "none" <=> trees[r].kind = "none"
                 /\ Release(trees, runs)[r].kind = "kept" <=> trees[r].kind = "kept" /\ r \notin runs
<1> DEFINE T == Release(trees, runs)
<1>1. \A r \in Runs : T[r] \in Trees
  BY DEF Release, Shelf, Trees
<1>2. T \in Shelf
  BY <1>1 DEF Release, Shelf
<1>3. ASSUME NEW r \in Runs
      PROVE  /\ T[r].item = trees[r].item
             /\ T[r].kind = "none" <=> trees[r].kind = "none"
             /\ T[r].kind = "kept" <=> trees[r].kind = "kept" /\ r \notin runs
  BY DEF Release, Shelf, Trees
<1> QED
  BY <1>2, <1>3

LEMMA SweepTakesPlain ==
    ASSUME tree \in Shelf
    PROVE  /\ Swept \in Shelf
           /\ \A r \in Runs : IF tree[r].kind = "plain" THEN Swept[r] = NoTree ELSE Swept[r] = tree[r]
BY DEF Shelf, Swept, Stale, Trees, NoTree

\* What is remembered of the containers that docker fails to stop.
LEMMA SparedStray ==
    ASSUME IInv, NEW those \in SUBSET live, Spared(those)
    PROVE  /\ stray' \in [Runs -> Items \cup {None}]
           /\ left' \in [Kinds -> Nat] /\ \A k \in Kinds : left'[k] <= left[k]
           /\ \A r \in Runs : r \in Strays' <=> r \in Strays \cup those
           /\ \A r \in Strays \cup those : stray'[r] = Worker(r) /\ Worker(r) # None
<1>1. /\ stray \in [Runs -> Items \cup {None}] /\ tree \in Shelf /\ live \subseteq Runs
      /\ left \in [Kinds -> Nat]
  BY DEF IInv, TypeOK, Shelf
<1>2. \A r \in live \cup Strays : r \in Runs /\ Worker(r) # None
  BY <1>1 DEF IInv, Alone, Worker, Strays
<1>3. \A r \in Runs : Worker(r) \in Items \cup {None}
  BY <1>1 DEF Worker, Shelf, Trees
<1>4. CASE those = {} /\ UNCHANGED <<left, stray>>
  BY <1>1, <1>2, <1>4 DEF Strays, Worker
<1>5. CASE /\ Spend("fault")
           /\ stray' = [r \in Runs |-> IF r \in those THEN Worker(r) ELSE stray[r]]
  <2>1. left' \in [Kinds -> Nat] /\ \A k \in Kinds : left'[k] <= left[k]
    BY <1>1, <1>5, SpendCounts DEF Kinds
  <2>2. stray' \in [Runs -> Items \cup {None}]
    BY <1>1, <1>3, <1>5
  <2>3. \A r \in Runs : stray'[r] = IF r \in those THEN Worker(r) ELSE stray[r]
    BY <1>5
  <2>4. \A r \in Strays \cup those : stray'[r] = Worker(r)
    BY <1>2, <2>3 DEF Worker
  <2>5. \A r \in Runs : r \in Strays' <=> r \in Strays \cup those
    BY <1>2, <2>3 DEF Strays
  <2> QED
    BY <1>2, <2>1, <2>2, <2>4, <2>5
<1> QED
  BY <1>4, <1>5 DEF Spared

\* A step that starts no container.
LEMMA AloneKept ==
    ASSUME IInv, stray' = stray, live' \subseteq live,
           \A r \in Runs : tree'[r].item = tree[r].item,
           pass'.pc = "run" => pass.pc = "run" /\ pass'.run = pass.run,
           pass'.pc \notin {"off", "run"} => pass.pc \notin {"off", "run"}
    PROVE  Alone'
<1>1. Strays' = Strays
  BY DEF Strays
<1>2. Loose' \subseteq Loose
  BY <1>1 DEF Loose
<1>3. live \subseteq Runs
  BY DEF IInv, TypeOK
<1>4. \A r \in live' : Worker(r)' # None
  BY <1>1, <1>3 DEF IInv, Alone, Worker
<1> QED
  BY <1>2, <1>4 DEF IInv, Alone, At

\* The pass moves on with nothing in hand.
LEMMA EmptyHanded ==
    ASSUME NEW pc \in {"reap", "scan", "pick", "enqueue"}, GoTo(pc)
    PROVE  /\ pass' \in Passes /\ pass' # NoPass
           /\ pass'.pc = pc /\ pass'.item = None /\ pass'.resume = None /\ pass'.run = None
           /\ pass'.result = "none"
BY DEF GoTo, Passes, NoPass

-----------------------------------------------------------------------------
(* One lemma for each action: it keeps the invariant.                      *)
LEMMA Start == Init => IInv
<1> SUFFICES ASSUME Init PROVE IInv
  OBVIOUS
<1> USE DispatchAssumption DEF Init
<1>1. TypeOK
  <2>1. NoRow \in Rows /\ NoBrief \in Briefs /\ NoTree \in Trees
    BY DEF NoRow, Rows, NoBrief, Briefs, NoTree, Trees
  <2>2. row \in [Items -> Rows] /\ brief \in Files /\ tree \in Shelf
    BY <2>1 DEF Files, Shelf
  <2>3. pr \in [Issues -> {"none", "open", "closed"}] /\ left \in [Kinds -> Nat]
    OBVIOUS
  <2>4. /\ paused \in BOOLEAN /\ asked \in BOOLEAN /\ limit \in BOOLEAN /\ open \in BOOLEAN
        /\ (pass = NoPass) <=> (holder = None)
    OBVIOUS
  <2>5. /\ queue = {} /\ visited = {} /\ live = {} /\ ran = {} /\ late = 0
        /\ retrying = None /\ holder = None /\ putOff \in BOOLEAN
        /\ stray \in [Runs -> Items \cup {None}]
    OBVIOUS
  <2> HIDE DEF Init
  <2> QED
    BY <2>2, <2>3, <2>4, <2>5 DEF TypeOK, Files, Shelf
<1>2. PassOK
  <2>1. NoPass \in Passes /\ NoPass.pc = "off" /\ NoPass.item = None
    BY DEF Passes, NoPass
  <2> QED
    BY <2>1 DEF PassOK, Working, Started, At
<1>3. Alone
  BY DEF Alone, Loose, NoPass
<1>4. Switches
  BY DEF Switches, NoPass, Preparing
<1>5. Fresh
  BY DEF Fresh, NoPass, Launching, Started, At
<1>6. Resumes
  <2>1. \A i \in Items : brief[i].resume = None
    BY DEF NoBrief
  <2>2. \A r \in Runs : tree[r].kind = "none" /\ tree[r].item = None
    BY DEF NoTree
  <2> QED
    BY <2>1, <2>2 DEF Resumes, Belongs, NoPass, Working, At
<1> QED
  BY <1>1, <1>2, <1>3, <1>4, <1>5, <1>6 DEF IInv

LEMMA BeginKeeps == ASSUME IInv, NEW p \in Timers \cup Commands, Begin(p) PROVE IInv'
<1> USE DispatchAssumption
<1>1. PICK those \in SUBSET live : live' = those /\ Spared(those)
  BY DEF Begin, KillOrphans
<1>2. /\ holder = None /\ pass = NoPass /\ holder' = p /\ pass' = [NoPass EXCEPT !.pc = "reap"]
      /\ UNCHANGED <<row, brief, retrying, queue, visited, tree, pr, paused, asked, limit, open>>
      /\ UNCHANGED <<ran, late, putOff>>
  BY DEF Begin, GoTo, ledgerVars, switches, IInv, TypeOK
<1>3. /\ pass' \in Passes /\ pass' # NoPass /\ pass'.pc = "reap" /\ pass'.item = None
      /\ pass.pc = "off"
  BY <1>2 DEF Passes, NoPass
<1>4. /\ stray' \in [Runs -> Items \cup {None}] /\ left' \in [Kinds -> Nat]
      /\ \A r \in live' : r \in Strays' /\ stray'[r] # None
  BY <1>1, SparedStray DEF IInv, TypeOK
<1>5. TypeOK'
  BY <1>1, <1>2, <1>3, <1>4 DEF IInv, TypeOK
<1>6. PassOK'
  BY <1>3 DEF PassOK, Working, Started, Outcomes, At
<1>7. Alone'
  BY <1>3, <1>4 DEF Alone, Loose, Worker, At
<1>8. Switches'
  BY <1>2, <1>3 DEF IInv, Switches, Preparing
<1>9. Fresh'
  BY <1>2, <1>3 DEF IInv, Fresh, Started, Launching, At
<1>10. Resumes'
  BY <1>2, <1>3 DEF IInv, Resumes, Belongs, Working, At
<1> QED
  BY <1>5, <1>6, <1>7, <1>8, <1>9, <1>10 DEF IInv

LEMMA ReapBriefKeeps == ASSUME IInv, Patient, NEW i \in Items, ReapBrief(i) PROVE IInv'
<1> USE DispatchAssumption
<1>1. /\ pass' \in Passes /\ pass' # NoPass /\ pass'.pc = "reaped"
      /\ pass'.item = i /\ pass'.resume = None /\ pass'.result = "failed"
  BY DEF ReapBrief, Passes, NoPass, Working
<1>2. /\ brief' \in Files
      /\ \A j \in Items :
            /\ brief'[j].status = IF j = i THEN "failed" ELSE brief[j].status
            /\ brief'[j].resume = brief[j].resume
  BY StatusIsSet DEF ReapBrief, Reaped, IInv, TypeOK, Files
<1>3. /\ At("reap")
      /\ UNCHANGED <<row, retrying, holder, queue, visited, tree, live, pr, paused, asked>>
      /\ UNCHANGED <<limit, open, left, ran, late, putOff, stray>>
  BY DEF ReapBrief, runVars, switches, history
<1>4. TypeOK'
  BY <1>1, <1>2, <1>3 DEF IInv, TypeOK, PassOK, At, Files
<1>5. PassOK'
  BY <1>1 DEF PassOK, At, Working, Started, NoPass
<1>6. Alone'
  BY <1>1, <1>3, AloneKept DEF At
<1>7. Switches'
  BY <1>1, <1>3 DEF IInv, Switches, At, Preparing
<1>8. Fresh'
  BY <1>1, <1>2, <1>3 DEF IInv, Fresh, At, Launching, Started
<1>9. Resumes'
  BY <1>1, <1>2, <1>3 DEF IInv, Resumes, Belongs, At, TypeOK
<1> QED
  BY <1>4, <1>5, <1>6, <1>7, <1>8, <1>9 DEF IInv

LEMMA ReapRowKeeps == ASSUME IInv, NEW i \in Items, ReapRow(i) PROVE IInv'
<1>1. row' \in [Items -> Rows]
  BY DEF IInv, TypeOK, ReapRow, Rows
<1>2. UNCHANGED <<brief, retrying, holder, pass, queue, visited, tree, live, pr>>
  BY DEF ReapRow, passVars, runVars
<1>3. UNCHANGED <<paused, asked, limit, open, left, ran, late, putOff, stray>>
  BY DEF ReapRow, switches, history
<1>4. TypeOK'
  BY <1>1, <1>2, <1>3 DEF IInv, TypeOK
<1> QED
  BY <1>2, <1>3, <1>4, AloneKept DEF IInv, PassOK, Switches, Fresh, Resumes, Belongs, At

LEMMA EndReapKeeps == ASSUME IInv, EndReap PROVE IInv'
<1> USE DispatchAssumption DEF IInv, EndReap, At, GoTo, ledgerVars, passVars, runVars,
                               switches, history
<1>1. TypeOK'
  BY DEF TypeOK, PassOK, Passes, NoPass
<1>2. PassOK'
  BY DEF PassOK, Passes, NoPass, Working, Started, Outcomes, TypeOK
<1>3. Alone'
  BY AloneKept DEF NoPass
<1>4. Switches'
  BY DEF Switches, TypeOK, Preparing, PassOK, Passes, NoPass
<1>5. Fresh'
  BY DEF Fresh, TypeOK, PassOK, Passes, NoPass, Working, Started, Launching
<1>6. Resumes'
  BY DEF Resumes, Belongs, TypeOK, PassOK, Passes, NoPass, Working
<1> QED
  BY <1>1, <1>2, <1>3, <1>4, <1>5, <1>6

LEMMA ScanKeeps == ASSUME IInv, Scan PROVE IInv'
<1> USE DispatchAssumption
<1>1. /\ pass' \in Passes /\ pass' # NoPass
      /\ pass'.pc = "pick" /\ pass'.item = None /\ pass'.resume = None /\ pass'.run = None
  BY EmptyHanded DEF Scan
<1>2. \A b \in queue' :
         /\ b \in [item : Items, resume : Runs \cup {None}]
         /\ brief[b.item].status = "pending" /\ b.resume = brief[b.item].resume
  BY DEF Scan, IInv, TypeOK, Briefs
<1>3. /\ At("scan") /\ UNCHANGED <<row, brief, retrying, holder, visited, tree, live, pr>>
      /\ UNCHANGED <<paused, asked, limit, open, left, ran, late, putOff, stray>>
  BY DEF Scan, ledgerVars, runVars, switches, history
<1>4. TypeOK'
  BY <1>1, <1>2, <1>3 DEF IInv, TypeOK, PassOK, At
<1>5. PassOK'
  BY <1>1 DEF PassOK, At, Working, Started, NoPass
<1>6. Alone'
  BY <1>1, <1>3, AloneKept DEF At
<1>7. Switches'
  BY <1>1, <1>3 DEF IInv, Switches, At, Preparing
<1>8. Fresh'
  BY <1>1, <1>2, <1>3 DEF IInv, Fresh, At, Launching, Started
<1>9. Resumes'
  BY <1>1, <1>2, <1>3 DEF IInv, Resumes, Belongs, At, Working
<1> QED
  BY <1>4, <1>5, <1>6, <1>7, <1>8, <1>9 DEF IInv

LEMMA EndPassKeeps == ASSUME IInv, EndPass PROVE IInv'
<1> USE DispatchAssumption DEF IInv, EndPass, At, ledgerVars, passVars, runVars,
                               switches, history
<1>1. TypeOK'
  BY DEF TypeOK, PassOK, Passes, NoPass
<1>2. PassOK'
  BY DEF PassOK, Passes, NoPass, Working, Started, Outcomes, TypeOK
<1>3. Alone'
  BY AloneKept DEF NoPass
<1>4. Switches'
  BY DEF Switches, TypeOK, Preparing, PassOK, Passes, NoPass
<1>5. Fresh'
  BY DEF Fresh, TypeOK, PassOK, Passes, NoPass, Working, Started, Launching
<1>6. Resumes'
  BY DEF Resumes, Belongs, TypeOK, PassOK, Passes, NoPass, Working
<1> QED
  BY <1>1, <1>2, <1>3, <1>4, <1>5, <1>6

LEMMA DeferKeeps == ASSUME IInv, NEW b \in queue, Defer(b) PROVE IInv'
<1>1. /\ queue' \subseteq queue
      /\ UNCHANGED <<row, brief, retrying, holder, pass, tree, live, pr>>
      /\ UNCHANGED <<paused, asked, limit, open, ran, late, putOff, stray>>
  BY DEF Defer, InWindow, ledgerVars, runVars, switches, history
<1>2. left' \in [Kinds -> Nat]
  BY SpendCounts DEF Defer, IInv, TypeOK, Kinds
<1>3. visited' \subseteq Items
  BY DEF Defer, Visit, IInv, TypeOK
<1>4. TypeOK'
  BY <1>1, <1>2, <1>3 DEF IInv, TypeOK
<1> QED
  BY <1>1, <1>4, AloneKept DEF IInv, PassOK, Switches, Fresh, Resumes, Belongs, At

LEMMA ChooseKeeps == ASSUME IInv, Patient, NEW b \in queue, Choose(b) PROVE IInv'
<1> USE DispatchAssumption
<1>1. b.item \in Items /\ b.resume \in Runs \cup {None} /\ brief[b.item].status = "pending"
  BY DEF IInv, TypeOK, Fresh
<1>2. /\ pass' \in Passes /\ pass' # NoPass /\ pass'.pc = "check"
      /\ pass'.item = b.item /\ pass'.resume = b.resume
  BY <1>1 DEF Choose, Passes, NoPass, Working
<1>3. /\ At("pick") /\ ~paused /\ ~limit /\ queue' = {}
      /\ UNCHANGED <<row, brief, retrying, holder, tree, live, pr, paused, asked, limit, open>>
      /\ UNCHANGED <<left, ran, late, putOff, stray>>
  BY DEF Choose, Visit, Halted, ledgerVars, runVars, switches, history
<1>4. TypeOK'
  <2>1. visited' \subseteq Items
    BY <1>1 DEF Choose, Visit, IInv, TypeOK
  <2> QED
    BY <1>2, <1>3, <2>1 DEF IInv, TypeOK, PassOK, At
<1>5. PassOK'
  BY <1>1, <1>2 DEF PassOK, At, Working, Started, NoPass
<1>6. Alone'
  BY <1>2, <1>3, AloneKept DEF At
<1>7. Switches'
  BY <1>2, <1>3 DEF IInv, Switches, At, TypeOK
<1>8. Fresh'
  BY <1>1, <1>2, <1>3 DEF IInv, Fresh, At, Launching, Started
<1>9. Resumes'
  BY <1>1, <1>2, <1>3 DEF IInv, Resumes, Belongs, At
<1> QED
  BY <1>4, <1>5, <1>6, <1>7, <1>8, <1>9 DEF IInv

LEMMA UnknownKeeps == ASSUME IInv, Unknown PROVE IInv'
<1> USE DispatchAssumption
<1>1. /\ pass' \in Passes /\ pass' # NoPass
      /\ pass'.pc = "scan" /\ pass'.item = None /\ pass'.resume = None /\ pass'.run = None
  BY EmptyHanded DEF Unknown
<1>2. /\ At("check") /\ UNCHANGED <<row, brief, retrying, holder, queue, visited, tree, live, pr>>
      /\ UNCHANGED <<paused, asked, limit, open, ran, late, stray>>
  BY DEF Unknown, ledgerVars, runVars, switches
<1>3. left' \in [Kinds -> Nat] /\ putOff' \in BOOLEAN
  BY SpendCounts DEF Unknown, IInv, TypeOK, Kinds
<1>4. TypeOK'
  BY <1>1, <1>2, <1>3 DEF IInv, TypeOK, PassOK, At
<1>5. PassOK'
  BY <1>1 DEF PassOK, At, Working, Started, NoPass
<1>6. Alone'
  BY <1>1, <1>2, AloneKept DEF At
<1>7. Switches'
  BY <1>1, <1>2 DEF IInv, Switches, At, Preparing
<1>8. Fresh'
  BY <1>1, <1>2 DEF IInv, Fresh, At, Launching, Started
<1>9. Resumes'
  BY <1>1, <1>2 DEF IInv, Resumes, Belongs, At, Working
<1> QED
  BY <1>4, <1>5, <1>6, <1>7, <1>8, <1>9 DEF IInv

LEMMA RefuseKeeps ==
    ASSUME IInv, NEW status \in {"skipped", "failed"}, Refuse(status)
    PROVE  IInv'
<1> USE DispatchAssumption
<1>1. At("check") /\ pass.item \in Items /\ pass \in Passes
  BY DEF Refuse, IInv, PassOK, At, Working
<1>2. /\ pass' \in Passes /\ pass' # NoPass /\ pass'.pc = "close" /\ pass'.item = pass.item
      /\ pass'.resume = pass.resume /\ pass'.result = status
  BY <1>1 DEF Refuse, Passes, NoPass, Working
<1>3. /\ brief' \in Files
      /\ \A j \in Items :
            /\ brief'[j].status = IF j = pass.item THEN status ELSE brief[j].status
            /\ brief'[j].resume = brief[j].resume
  BY <1>1, StatusIsSet DEF Refuse, IInv, TypeOK, Files
<1>4. tree' \in Shelf /\ \A r \in Runs : /\ tree'[r].item = tree[r].item
                                         /\ tree'[r].kind = "none" <=> tree[r].kind = "none"
  BY ReleaseDropsMarkers DEF Refuse, LetGo, IInv, TypeOK, Shelf
<1>5. UNCHANGED <<row, retrying, holder, queue, visited, live, pr, paused, asked, limit, open>>
      /\ UNCHANGED <<left, ran, late, putOff, stray>>
  BY DEF Refuse, switches, history
<1>6. TypeOK'
  BY <1>1, <1>2, <1>3, <1>4, <1>5 DEF IInv, TypeOK, PassOK, At, Files, Shelf
<1>7. PassOK'
  BY <1>1, <1>2 DEF PassOK, At, Working, Started, NoPass, Outcomes
<1>8. Alone'
  BY <1>1, <1>2, <1>4, <1>5, AloneKept DEF At
<1>9. Switches'
  BY <1>1, <1>2, <1>5 DEF IInv, Switches, At, Preparing
<1>10. Fresh'
  BY <1>1, <1>2, <1>3, <1>5 DEF IInv, Fresh, At, Launching, Started
<1>11. Resumes'
  <2>1. \A i \in Items : brief[i].resume \in Runs \cup {None}
    BY DEF IInv, TypeOK, Briefs
  <2>2. \A i \in Items : Belongs(brief[i].resume, i)'
    BY <1>3, <1>4, <2>1 DEF IInv, Resumes, Belongs
  <2>3. queue' = {}
    BY <1>1, <1>5 DEF IInv, Fresh, At
  <2>4. Belongs(pass.resume, pass.item)'
    BY <1>1, <1>2, <1>4 DEF IInv, Resumes, Belongs, At, Working, Passes
  <2> QED
    BY <1>2, <1>4, <2>2, <2>3, <2>4 DEF IInv, Resumes, At
<1> QED
  BY <1>6, <1>7, <1>8, <1>9, <1>10, <1>11 DEF IInv

LEMMA MarkRunningKeeps == ASSUME IInv, MarkRunning PROVE IInv'
<1> USE DispatchAssumption
<1>1. At("check") /\ pass.item \in Items /\ pass \in Passes /\ brief[pass.item].status = "pending"
  BY DEF MarkRunning, IInv, PassOK, Fresh, At, Working
<1>2. /\ pass' \in Passes /\ pass' # NoPass /\ pass'.pc = "claim" /\ pass'.item = pass.item
      /\ pass'.resume = pass.resume /\ pass'.result = "running"
  BY <1>1 DEF MarkRunning, Passes, NoPass, Working
<1>3. /\ brief' \in Files
      /\ \A j \in Items :
            /\ brief'[j].status = IF j = pass.item THEN "running" ELSE brief[j].status
            /\ brief'[j].resume = IF j = pass.item THEN None ELSE brief[j].resume
  BY <1>1 DEF MarkRunning, IInv, TypeOK, Files, Briefs
<1>4. UNCHANGED <<row, retrying, holder, queue, visited, tree, live, pr, paused, asked, limit, open>>
      /\ UNCHANGED <<left, ran, late, putOff, stray>>
  BY DEF MarkRunning, runVars, switches, history
<1>5. TypeOK'
  BY <1>1, <1>2, <1>3, <1>4 DEF IInv, TypeOK, PassOK, At, Files
<1>6. PassOK'
  BY <1>1, <1>2 DEF PassOK, At, Working, Started, NoPass, Outcomes
<1>7. Alone'
  BY <1>1, <1>2, <1>4, AloneKept DEF At
<1>8. Switches'
  BY <1>1, <1>2, <1>4 DEF IInv, Switches, At, Preparing
<1>9. Fresh'
  BY <1>1, <1>2, <1>3, <1>4 DEF IInv, Fresh, At, Launching, Started
<1>10. Resumes'
  BY <1>1, <1>2, <1>3, <1>4 DEF IInv, Resumes, Belongs, At, Working
<1> QED
  BY <1>5, <1>6, <1>7, <1>8, <1>9, <1>10 DEF IInv

\* A pass that launches a container has the checks behind it.
LEMMA AboutToLaunch ==
    ASSUME IInv, pass.pc \in {"prepare", "create"}
    PROVE  /\ pass.item \in Items /\ pass \in Passes /\ pass # NoPass
           /\ pass.item \notin ran /\ brief[pass.item].status = "running"
           /\ Loose = {} /\ queue = {} /\ ~limit
           /\ paused => late = 0
BY DEF IInv, PassOK, Alone, Switches, Fresh, At, Working, Launching, Started, Preparing

\* What Launch does, when the run gets the worktree r.
LEMMA Launched ==
    ASSUME IInv, pass.pc \in {"prepare", "create"}, NEW r \in Runs, NEW others,
           Launch(r, others)
    PROVE  /\ pass' \in Passes /\ pass' # NoPass /\ pass'.pc = "run" /\ pass'.run = r
           /\ pass'.item = pass.item /\ pass'.resume = pass.resume
           /\ pass'.result = "running"
           /\ live' = others \cup {r}
           /\ ran' = ran \cup {pass.item}
           /\ late' \in 0..2 /\ late' = IF (paused \/ asked) /\ late < 2 THEN late + 1 ELSE late
           /\ putOff' = putOff
<1>1. pass \in Passes /\ late \in 0..2 /\ pass.result = "running"
  BY AboutToLaunch DEF IInv, TypeOK, PassOK, Started, At
<1>2. /\ pass' \in Passes /\ pass' # NoPass /\ pass'.pc = "run" /\ pass'.run = r
      /\ pass'.item = pass.item /\ pass'.resume = pass.resume /\ pass'.result = "running"
  BY <1>1 DEF Launch, Passes, NoPass, Working
<1>3. live' = others \cup {r} /\ ran' = ran \cup {pass.item}
  BY <1>1 DEF Launch
<1> QED
  BY <1>1, <1>2, <1>3 DEF Launch

\* The invariant after a launch, from what happens to the worktrees.
LEMMA LaunchKeeps ==
    ASSUME IInv, pass.pc \in {"prepare", "create"}, NEW r \in Runs,
           NEW others \in SUBSET live, Launch(r, others),
           UNCHANGED <<ledgerVars, holder, queue, visited, pr, switches>>,
           left' \in [Kinds -> Nat], stray' \in [Runs -> Items \cup {None}],
           \A s \in others : s \in Strays' /\ stray'[s] # None,
           tree' \in Shelf, tree'[r].item = pass.item,
           \A s \in Runs : s # r => tree'[s].item \in {tree[s].item, None},
           \A s \in Runs : tree'[s].kind = "none" <=> tree'[s].item = None,
           \A i \in Items : brief[i].resume = r => i = pass.item
    PROVE  IInv'
<1> USE DispatchAssumption, AboutToLaunch
<1>1. /\ pass' \in Passes /\ pass' # NoPass /\ pass'.pc = "run" /\ pass'.run = r
      /\ pass'.item = pass.item /\ pass'.resume = pass.resume /\ pass'.result = "running"
      /\ live' = others \cup {r} /\ live' \subseteq Runs /\ ran' = ran \cup {pass.item}
      /\ late' \in 0..2 /\ late' = IF (paused \/ asked) /\ late < 2 THEN late + 1 ELSE late
      /\ putOff' = putOff
  BY Launched DEF IInv, TypeOK
<1>2. UNCHANGED <<row, brief, retrying, holder, queue, visited, pr, paused, asked, limit, open>>
  BY DEF ledgerVars, switches
<1>3. TypeOK'
  BY <1>1, <1>2 DEF IInv, TypeOK, PassOK, Shelf
<1>4. PassOK'
  BY <1>1 DEF PassOK, At, Working, Started, NoPass
<1>5. Alone'
  <2>1. Loose' \subseteq {r}
    BY <1>1 DEF Loose
  <2>2. pass.item # None
    OBVIOUS
  <2>3. \A s \in live' : Worker(s)' # None
    BY <1>1, <2>2 DEF Worker, Strays
  <2> QED
    BY <1>1, <2>1, <2>3 DEF Alone, At
<1>6. Switches'
  BY <1>1, <1>2 DEF IInv, Switches, At, Preparing
<1>7. Fresh'
  BY <1>1, <1>2 DEF IInv, Fresh, At, Launching, Started
<1>8. Resumes'
  <2>1. \A i \in Items : Belongs(brief[i].resume, i)'
    BY <1>1, <1>2 DEF IInv, Resumes, Belongs, TypeOK, Briefs
  <2>2. Belongs(pass.resume, pass.item)'
    BY <1>1 DEF IInv, Resumes, Belongs, Working, Passes
  <2> QED
    BY <1>1, <1>2, <2>1, <2>2 DEF Resumes, At, Working
<1> QED
  BY <1>3, <1>4, <1>5, <1>6, <1>7, <1>8 DEF IInv

LEMMA ReopenKeeps == ASSUME IInv, Reopen PROVE IInv'
<1> USE DispatchAssumption, AboutToLaunch
<1> DEFINE r == pass.resume
<1>1. At("prepare") /\ pass.pc \in {"prepare", "create"}
  BY DEF Reopen, At
<1>2. r \in Runs /\ tree[r].item = pass.item /\ tree[r].kind = "kept"
  BY <1>1 DEF Reopen, CanReopen, IInv, Resumes, Belongs, At, Working, Passes
<1>3. /\ tree' \in Shelf /\ tree'[r].item = pass.item
      /\ \A s \in Runs : tree'[s].item = tree[s].item
      /\ \A s \in Runs : tree'[s].kind = "none" <=> tree[s].kind = "none"
  BY <1>2 DEF Reopen, IInv, TypeOK, Shelf, Trees
<1>4. UNCHANGED <<ledgerVars, holder, queue, visited, pr, switches, left>>
  BY DEF Reopen
<1>5. \A s \in Runs : tree'[s].kind = "none" <=> tree'[s].item = None
  BY <1>3 DEF IInv, Resumes
<1>6. CASE Launch(r, live) /\ UNCHANGED stray
  <2>1. \A i \in Items : brief[i].resume = r => i = pass.item
    BY <1>1, <1>2 DEF IInv, Resumes, Belongs
  <2>2. left' \in [Kinds -> Nat] /\ stray' \in [Runs -> Items \cup {None}]
    BY <1>4, <1>6 DEF IInv, TypeOK
  <2>3. \A s \in live : s \in Strays' /\ stray'[s] # None
    BY <1>1, <1>6 DEF Loose, Strays
  <2> QED
    BY <1>1, <1>2, <1>3, <1>4, <1>5, <1>6, <2>1, <2>2, <2>3, LaunchKeeps
<1>7. CASE /\ \/ pass' = [pass EXCEPT !.pc = "create"]
              \/ pass' = [pass EXCEPT !.pc = "result", !.result = "failed"]
           /\ UNCHANGED <<live, history>>
  <2>1. /\ pass' \in Passes /\ pass' # NoPass /\ pass'.pc \in {"create", "result"}
        /\ pass'.item = pass.item /\ pass'.resume = pass.resume
        /\ IF pass'.pc = "create" THEN pass'.result = "running" ELSE pass'.result = "failed"
    <3>1. pass \in Passes /\ pass.result = "running"
      BY <1>1 DEF IInv, PassOK, Started, At
    <3>2. CASE pass' = [pass EXCEPT !.pc = "create"]
      BY <3>1, <3>2 DEF Passes, NoPass, Working
    <3>3. CASE pass' = [pass EXCEPT !.pc = "result", !.result = "failed"]
      BY <3>1, <3>3 DEF Passes, NoPass, Working
    <3> QED
      BY <1>7, <3>2, <3>3
  <2>2. /\ UNCHANGED <<row, brief, retrying, holder, queue, visited, pr, paused, asked, limit, open>>
        /\ UNCHANGED <<left, live, ran, late, putOff, stray>>
    BY <1>4, <1>7 DEF ledgerVars, switches, history
  <2>3. TypeOK'
    BY <1>1, <1>3, <2>1, <2>2 DEF IInv, TypeOK, PassOK, Shelf, At
  <2>4. PassOK'
    BY <1>1, <2>1 DEF PassOK, At, Working, Started, NoPass, Outcomes
  <2>5. Alone'
    BY <1>1, <1>3, <2>1, <2>2, AloneKept DEF At
  <2>6. Switches'
    BY <1>1, <2>1, <2>2 DEF IInv, Switches, At, Preparing
  <2>7. Fresh'
    BY <1>1, <2>1, <2>2 DEF IInv, Fresh, At, Launching, Started
  <2>8. Resumes'
    <3>1. \A i \in Items : Belongs(brief[i].resume, i)'
      BY <1>3, <2>2 DEF IInv, Resumes, Belongs, TypeOK, Briefs
    <3> QED
      BY <1>1, <1>2, <1>3, <1>5, <2>1, <2>2, <3>1 DEF Resumes, Belongs, At
  <2> QED
    BY <2>3, <2>4, <2>5, <2>6, <2>7, <2>8 DEF IInv
<1> QED
  BY <1>6, <1>7 DEF Reopen

\* The sweep: who is left was already astray or is now.
LEMMA SpareTheStale ==
    ASSUME IInv, Loose = {}, NEW those \in SUBSET (live \cap Stale), Spared(those)
    PROVE  /\ left' \in [Kinds -> Nat] /\ stray' \in [Runs -> Items \cup {None}]
           /\ \A s \in (live \ Stale) \cup those : s \in Strays' /\ stray'[s] # None
<1>1. live \subseteq Strays /\ live \subseteq Runs
  BY DEF Loose, IInv, TypeOK
<1> QED
  BY <1>1, SparedStray

LEMMA CreateKeeps == ASSUME IInv, Create PROVE IInv'
<1> USE DispatchAssumption, AboutToLaunch
<1>1. pass.pc \in {"prepare", "create"}
  BY DEF Create, At
<1>2. PICK r \in Runs : /\ Unused(r)
                        /\ tree' = [Swept EXCEPT ![r] = [kind |-> "plain", item |-> pass.item]]
                        /\ \E those \in SUBSET (live \cap Stale) :
                              Launch(r, (live \ Stale) \cup those) /\ Spared(those)
  BY DEF Create
<1>3. UNCHANGED <<ledgerVars, holder, queue, visited, pr, switches>>
  BY DEF Create
<1>4. Swept \in Shelf /\ \A s \in Runs : Swept[s] = NoTree \/ Swept[s] = tree[s]
  BY SweepTakesPlain DEF IInv, TypeOK, Shelf
<1>5. /\ tree' \in Shelf /\ tree'[r].item = pass.item /\ tree'[r].kind = "plain"
      /\ \A s \in Runs : s # r => tree'[s] = NoTree \/ tree'[s] = tree[s]
  <2>1. [kind |-> "plain", item |-> pass.item] \in Trees
    BY <1>1 DEF Trees
  <2> QED
    BY <1>2, <1>4, <2>1 DEF Shelf
<1>6. \A s \in Runs : s # r => tree'[s].item \in {tree[s].item, None}
  BY <1>5 DEF NoTree
<1>7. \A s \in Runs : tree'[s].kind = "none" <=> tree'[s].item = None
  BY <1>1, <1>5 DEF IInv, Resumes, NoTree
<1>8. \A i \in Items : brief[i].resume # r
  BY <1>2 DEF Unused
<1>9. PICK those \in SUBSET (live \cap Stale) :
         Launch(r, (live \ Stale) \cup those) /\ Spared(those)
  BY <1>2
<1>10. /\ left' \in [Kinds -> Nat] /\ stray' \in [Runs -> Items \cup {None}]
       /\ \A s \in (live \ Stale) \cup those : s \in Strays' /\ stray'[s] # None
  BY <1>1, <1>9, AboutToLaunch, SpareTheStale
<1> QED
  BY <1>1, <1>3, <1>5, <1>6, <1>7, <1>8, <1>9, <1>10, LaunchKeeps

LEMMA CreateFailsKeeps == ASSUME IInv, CreateFails PROVE IInv'
<1> USE DispatchAssumption, AboutToLaunch
<1>1. pass.pc \in {"prepare", "create"}
  BY DEF CreateFails, At
<1>2. /\ pass' \in Passes /\ pass' # NoPass /\ pass'.pc = "result" /\ pass'.item = pass.item
      /\ pass'.resume = pass.resume /\ pass'.result = "failed"
  BY <1>1 DEF CreateFails, Passes, NoPass, Working
<1>3. /\ UNCHANGED <<row, brief, retrying, holder, queue, visited, pr, paused, asked, limit, open>>
      /\ UNCHANGED <<ran, late, putOff>>
  BY <1>1 DEF CreateFails, ledgerVars, switches
<1>4. tree' \in Shelf /\ \A s \in Runs : tree'[s] = NoTree \/ tree'[s] = tree[s]
  <2>1. tree \in Shelf /\ (tree' = tree \/ tree' = Swept)
    BY DEF CreateFails, IInv, TypeOK, Shelf
  <2> QED
    BY <2>1, SweepTakesPlain
<1>11. /\ left' \in [Kinds -> Nat] /\ stray' \in [Runs -> Items \cup {None}]
       /\ live' \subseteq Runs /\ \A s \in live' : s \in Strays' /\ stray'[s] # None
  <2>1. /\ live \subseteq Strays /\ live \subseteq Runs /\ left \in [Kinds -> Nat]
        /\ stray \in [Runs -> Items \cup {None}]
    BY <1>1 DEF Loose, IInv, TypeOK
  <2>2. CASE UNCHANGED <<tree, live, left, stray>>
    BY <2>1, <2>2 DEF Strays
  <2>3. ASSUME NEW those \in SUBSET (live \cap Stale), Spared(those),
               live' = (live \ Stale) \cup those
        PROVE  /\ left' \in [Kinds -> Nat] /\ stray' \in [Runs -> Items \cup {None}]
               /\ live' \subseteq Runs /\ \A s \in live' : s \in Strays' /\ stray'[s] # None
    BY <1>1, <2>1, <2>3, SpareTheStale
  <2> QED
    BY <2>2, <2>3 DEF CreateFails
<1>5. TypeOK'
  BY <1>1, <1>2, <1>3, <1>4, <1>11 DEF IInv, TypeOK, PassOK, Shelf
<1>6. PassOK'
  BY <1>1, <1>2 DEF PassOK, At, Working, Started, NoPass, Outcomes
<1>7. Alone'
  BY <1>2, <1>11 DEF Alone, Loose, Worker, At
<1>8. Switches'
  BY <1>2, <1>3 DEF IInv, Switches, At, Preparing
<1>9. Fresh'
  BY <1>1, <1>2, <1>3 DEF IInv, Fresh, At, Launching, Started
<1>10. Resumes'
  <2>1. /\ \A s \in Runs : tree'[s].item \in {tree[s].item, None}
        /\ \A s \in Runs : tree'[s].kind = "none" <=> tree'[s].item = None
    BY <1>4 DEF IInv, Resumes, NoTree
  <2>2. \A i \in Items : Belongs(brief[i].resume, i)'
    BY <1>3, <2>1 DEF IInv, Resumes, Belongs, TypeOK, Briefs
  <2>3. Belongs(pass.resume, pass.item)'
    BY <1>1, <1>2, <2>1 DEF IInv, Resumes, Belongs, Working, Passes
  <2> QED
    BY <1>1, <1>2, <1>3, <2>1, <2>2, <2>3 DEF Resumes, At
<1> QED
  BY <1>5, <1>6, <1>7, <1>8, <1>9, <1>10 DEF IInv

\* The end of a run: its container is gone or goes astray, its worktree is gone
\* or kept.
LEMMA OverKeeps ==
    ASSUME IInv, At("run"),
           live' \subseteq live, stray' \in [Runs -> Items \cup {None}],
           \A r \in Strays \cap live : r \in Strays' /\ stray'[r] = stray[r],
           pass.run \in live' => pass.run \in Strays',
           tree' \in Shelf,
           \A s \in Runs : tree'[s].item \in {tree[s].item, None},
           \A s \in Runs : tree'[s].kind = "none" <=> tree'[s].item = None,
           pass' \in Passes, pass'.pc = "result", pass'.item = pass.item,
           pass'.resume = pass.resume, pass'.run \in {pass.run, None},
           pass'.result \in Outcomes, left' \in [Kinds -> Nat],
           UNCHANGED <<ledgerVars, holder, queue, visited, pr, switches, ran, late, putOff>>
    PROVE  IInv'
<1> USE DispatchAssumption
<1>1. pass' # NoPass /\ pass # NoPass /\ pass.item \in Items /\ pass.run \in Runs
      /\ tree[pass.run].item = pass.item
  BY DEF NoPass, IInv, PassOK, Working, At, Resumes
<1>2. UNCHANGED <<row, brief, retrying, holder, queue, visited, pr, paused, asked, limit, open>>
  BY DEF ledgerVars, switches
<1>3. TypeOK'
  BY <1>1, <1>2 DEF IInv, TypeOK, Shelf
<1>4. PassOK'
  BY <1>1 DEF PassOK, At, Working, Started, NoPass
<1>5. Alone'
  <2>1. live \subseteq Strays \cup {pass.run} /\ live \subseteq Runs
    BY DEF IInv, Alone, Loose, TypeOK
  <2>2. live' \subseteq Strays'
    BY <2>1
  <2>3. \A r \in live' : stray'[r] # None
    BY <2>2 DEF Strays
  <2> QED
    BY <2>2, <2>3 DEF Alone, Loose, Worker, At
<1>6. Switches'
  BY <1>2 DEF IInv, Switches, At, Preparing
<1>7. Fresh'
  BY <1>2 DEF IInv, Fresh, At, Launching, Started
<1>8. Resumes'
  <2>1. \A i \in Items : Belongs(brief[i].resume, i)'
    BY <1>2 DEF IInv, Resumes, Belongs, TypeOK, Briefs
  <2>2. Belongs(pass.resume, pass.item)' /\ Belongs(pass.run, pass.item)'
    BY <1>1 DEF IInv, Resumes, Belongs, Working, Passes, At
  <2>3. queue' = {}
    BY <1>2 DEF IInv, Fresh, At
  <2> QED
    BY <2>1, <2>2, <2>3 DEF Resumes, At
<1> QED
  BY <1>3, <1>4, <1>5, <1>6, <1>7, <1>8 DEF IInv

LEMMA RunEndsKeeps ==
    ASSUME IInv, NEW result \in {"pr_open", "done", "failed"}, RunEnds(result)
    PROVE  IInv'
<1>1. At("run") /\ pass.run \in Runs /\ pass \in Passes /\ live' = live \ {pass.run}
  BY DEF RunEnds, IInv, PassOK
<1>2. /\ tree' \in Shelf
      /\ \A s \in Runs : tree'[s] = tree[s] \/ tree'[s] = NoTree
  BY <1>1 DEF RunEnds, IInv, TypeOK, Shelf, Trees, NoTree
<1>3. /\ \A s \in Runs : tree'[s].item \in {tree[s].item, None}
      /\ \A s \in Runs : tree'[s].kind = "none" <=> tree'[s].item = None
  BY <1>2 DEF IInv, Resumes, NoTree
<1>4. /\ pass' \in Passes /\ pass'.pc = "result" /\ pass'.item = pass.item
      /\ pass'.resume = pass.resume /\ pass'.run = pass.run /\ pass'.result \in Outcomes
  BY <1>1 DEF RunEnds, Passes, Working, Outcomes
<1>5. /\ UNCHANGED <<ledgerVars, holder, queue, visited, pr, switches, history>>
      /\ left' \in [Kinds -> Nat] /\ stray' = stray /\ stray \in [Runs -> Items \cup {None}]
      /\ UNCHANGED <<ran, late, putOff>>
  BY DEF RunEnds, IInv, TypeOK, history
<1>6. Strays' = Strays
  BY <1>5 DEF Strays
<1> QED
  BY <1>1, <1>2, <1>3, <1>4, <1>5, <1>6, OverKeeps

LEMMA RunEscapesKeeps == ASSUME IInv, RunEscapes PROVE IInv'
<1>1. At("run") /\ pass.run \in Runs /\ pass \in Passes /\ pass.run \in live /\ live' = live
  BY DEF RunEscapes, IInv, PassOK
<1>2. /\ tree' \in Shelf
      /\ \A s \in Runs : tree'[s] = tree[s] \/ tree'[s] = NoTree
  BY <1>1 DEF RunEscapes, IInv, TypeOK, Shelf, Trees, NoTree
<1>3. /\ \A s \in Runs : tree'[s].item \in {tree[s].item, None}
      /\ \A s \in Runs : tree'[s].kind = "none" <=> tree'[s].item = None
  BY <1>2 DEF IInv, Resumes, NoTree
<1>4. /\ pass' \in Passes /\ pass'.pc = "result" /\ pass'.item = pass.item
      /\ pass'.resume = pass.resume /\ pass'.run = None /\ pass'.result \in Outcomes
  BY <1>1 DEF RunEscapes, Passes, Working, Outcomes
<1>5. UNCHANGED <<ledgerVars, holder, queue, visited, pr, switches, ran, late, putOff>>
  BY DEF RunEscapes
<1>6. Spared({pass.run}) /\ {pass.run} \in SUBSET live
  BY <1>1 DEF RunEscapes
<1>7. /\ stray' \in [Runs -> Items \cup {None}] /\ left' \in [Kinds -> Nat]
      /\ pass.run \in Strays'
      /\ \A r \in Strays \cap live : r \in Strays' /\ stray'[r] = stray[r]
  BY <1>1, <1>6, SparedStray DEF Worker, Strays
<1> QED
  BY <1>1, <1>2, <1>3, <1>4, <1>5, <1>7, OverKeeps

LEMMA UsageLimitKeeps == ASSUME IInv, UsageLimit PROVE IInv'
<1> USE DispatchAssumption
<1>1. At("run") /\ pass.run \in Runs /\ pass \in Passes /\ live' = live \ {pass.run}
      /\ tree[pass.run].item = pass.item /\ pass.item # None
  BY DEF UsageLimit, IInv, PassOK, Resumes, At, Working
<1>2. /\ tree' \in Shelf
      /\ \A s \in Runs : tree'[s].item \in {tree[s].item, None}
      /\ \A s \in Runs : tree'[s].kind = "none" <=> tree'[s].item = None
  <2>1. CASE tree' = [tree EXCEPT ![pass.run].kind = "kept"]
    <3>1. tree' \in Shelf /\ \A s \in Runs : /\ tree'[s].item = tree[s].item
                                             /\ s # pass.run => tree'[s].kind = tree[s].kind
      BY <1>1, <2>1 DEF IInv, TypeOK, Shelf, Trees
    <3>2. tree'[pass.run].kind = "kept"
      BY <1>1, <2>1 DEF IInv, TypeOK, Shelf, Trees
    <3>3. ASSUME NEW s \in Runs PROVE tree'[s].kind = "none" <=> tree'[s].item = None
      <4>1. CASE s = pass.run
        BY <1>1, <3>1, <3>2, <4>1
      <4>2. CASE s # pass.run
        BY <3>1, <4>2 DEF IInv, Resumes
      <4> QED
        BY <4>1, <4>2
    <3> QED
      BY <3>1, <3>3
  <2>2. CASE tree' = [tree EXCEPT ![pass.run] = NoTree]
    <3>1. tree' \in Shelf /\ \A s \in Runs : tree'[s] = tree[s] \/ tree'[s] = NoTree
      BY <1>1, <2>2 DEF IInv, TypeOK, Shelf, Trees, NoTree
    <3> QED
      BY <3>1 DEF IInv, Resumes, NoTree
  <2> QED
    BY <2>1, <2>2 DEF UsageLimit
<1>3. /\ pass' \in Passes /\ pass'.pc = "result" /\ pass'.item = pass.item
      /\ pass'.resume = pass.resume /\ pass'.run \in {pass.run, None}
      /\ pass'.result \in Outcomes
  <2>1. \/ pass' = [pass EXCEPT !.pc = "result", !.result = "limit"]
        \/ \E r \in {pass.run, None} :
                pass' = [pass EXCEPT !.pc = "result", !.result = "limit", !.run = r]
    BY DEF UsageLimit
  <2> QED
    BY <1>1, <2>1 DEF Passes, Working, Outcomes
<1>4. left' \in [Kinds -> Nat]
  BY SpendCounts DEF UsageLimit, IInv, TypeOK, Kinds
<1>5. /\ UNCHANGED <<ledgerVars, holder, queue, visited, pr, switches, ran, late, putOff>>
      /\ stray' = stray /\ stray \in [Runs -> Items \cup {None}]
  BY DEF UsageLimit, history, IInv, TypeOK
<1>6. Strays' = Strays
  BY <1>5 DEF Strays
<1> QED
  BY <1>1, <1>2, <1>3, <1>4, <1>5, <1>6, OverKeeps

LEMMA CompleteKeeps == ASSUME IInv, Complete PROVE IInv'
<1> USE DispatchAssumption
<1>1. /\ At("result") /\ pass.item \in Items /\ pass \in Passes
      /\ pass.result \in {"pr_open", "done"}
  BY DEF Complete, IInv, PassOK, At, Working
<1>2. /\ pass' \in Passes /\ pass' # NoPass /\ pass # NoPass /\ pass'.pc = "close"
      /\ pass'.item = pass.item /\ pass'.resume = pass.resume /\ pass'.result = pass.result
  BY <1>1 DEF Complete, Passes, NoPass, Working, At
<1>3. /\ brief' \in Files
      /\ \A j \in Items :
            /\ brief'[j].status = IF j = pass.item THEN pass.result ELSE brief[j].status
            /\ brief'[j].resume = brief[j].resume
  BY <1>1, StatusIsSet DEF Complete, IInv, TypeOK, Files
<1>4. /\ UNCHANGED <<row, retrying, holder, queue, visited, tree, live, pr, paused, asked>>
      /\ UNCHANGED <<limit, open, left, ran, late, putOff, stray>>
  BY DEF Complete, runVars, switches, history
<1>5. TypeOK'
  BY <1>2, <1>3, <1>4 DEF IInv, TypeOK, Files
<1>6. PassOK'
  BY <1>1, <1>2 DEF PassOK, At, Working, Started, NoPass, Outcomes
<1>7. Alone'
  BY <1>1, <1>2, <1>4, AloneKept DEF At
<1>8. Switches'
  BY <1>1, <1>2, <1>4 DEF IInv, Switches, At, Preparing
<1>9. Fresh'
  BY <1>1, <1>2, <1>3, <1>4 DEF IInv, Fresh, At, Launching, Started
<1>10. Resumes'
  BY <1>1, <1>2, <1>3, <1>4 DEF IInv, Resumes, Belongs, At, Working
<1> QED
  BY <1>5, <1>6, <1>7, <1>8, <1>9, <1>10 DEF IInv

LEMMA FailKeeps == ASSUME IInv, Fail PROVE IInv'
<1> USE DispatchAssumption
<1>1. At("result") /\ pass.item \in Items /\ pass \in Passes
  BY DEF Fail, IInv, PassOK, At, Working
<1>2. /\ pass' \in Passes /\ pass' # NoPass /\ pass # NoPass /\ pass'.pc = "close"
      /\ pass'.item = pass.item /\ pass'.resume = pass.resume /\ pass'.result = "failed"
  <2>1. pass' = [pass EXCEPT !.pc = "close", !.result = "failed"]
    BY DEF Fail
  <2>2. pass # NoPass
    BY <1>1 DEF NoPass, At
  <2>3. /\ pass' \in Passes /\ pass'.pc = "close"
        /\ pass'.item = pass.item /\ pass'.resume = pass.resume /\ pass'.result = "failed"
    BY <1>1, <2>1 DEF Passes, Working
  <2> QED
    BY <2>2, <2>3 DEF NoPass
<1>3. /\ brief' \in Files
      /\ \A j \in Items :
            /\ brief'[j].status = IF j = pass.item THEN "failed" ELSE brief[j].status
            /\ brief'[j].resume = brief[j].resume
  BY <1>1, StatusIsSet DEF Fail, IInv, TypeOK, Files
<1>4. tree' \in Shelf /\ \A r \in Runs : /\ tree'[r].item = tree[r].item
                                         /\ tree'[r].kind = "none" <=> tree[r].kind = "none"
  <2>1. tree \in Shelf
    BY DEF IInv, TypeOK, Shelf
  <2>2. CASE tree' = Release(tree, {pass.resume})
    BY <2>1, <2>2, ReleaseDropsMarkers
  <2>3. CASE tree' = Release(Release(tree, {pass.run}), {pass.resume})
    BY <2>1, <2>3, ReleaseDropsMarkers
  <2> QED
    BY <2>2, <2>3 DEF Fail, LetGo
<1>5. UNCHANGED <<row, retrying, holder, queue, visited, live, pr, paused, asked, limit, open>>
      /\ UNCHANGED <<left, ran, late, putOff, stray>>
  BY DEF Fail, switches, history
<1>6. TypeOK'
  BY <1>2, <1>3, <1>4, <1>5 DEF IInv, TypeOK, Files, Shelf
<1>7. PassOK'
  BY <1>1, <1>2 DEF PassOK, At, Working, Started, NoPass, Outcomes
<1>8. Alone'
  BY <1>1, <1>2, <1>4, <1>5, AloneKept DEF At
<1>9. Switches'
  BY <1>1, <1>2, <1>5 DEF IInv, Switches, At, Preparing
<1>10. Fresh'
  BY <1>1, <1>2, <1>3, <1>5 DEF IInv, Fresh, At, Launching, Started
<1>11. Resumes'
  <2>1. \A i \in Items : brief[i].resume \in Runs \cup {None}
    BY DEF IInv, TypeOK, Briefs
  <2>2. \A i \in Items : Belongs(brief[i].resume, i)'
    BY <1>3, <1>4, <2>1 DEF IInv, Resumes, Belongs
  <2>3. queue' = {}
    BY <1>1, <1>5 DEF IInv, Fresh, At
  <2>4. Belongs(pass.resume, pass.item)'
    BY <1>1, <1>2, <1>4 DEF IInv, Resumes, Belongs, At, Working, Passes
  <2> QED
    BY <1>2, <1>4, <2>2, <2>3, <2>4 DEF IInv, Resumes, At
<1> QED
  BY <1>6, <1>7, <1>8, <1>9, <1>10, <1>11 DEF IInv

LEMMA ParkKeeps == ASSUME IInv, Park PROVE IInv'
<1> USE DispatchAssumption
<1>1. At("result") /\ pass.item \in Items /\ pass \in Passes /\ pass.result = "limit"
  BY DEF Park, IInv, PassOK, At, Working
<1>2. /\ pass' \in Passes /\ pass' # NoPass /\ pass # NoPass /\ pass'.pc = "close"
      /\ pass'.item = pass.item /\ pass'.resume = pass.resume /\ pass'.result = "limit"
  BY <1>1 DEF Park, Passes, NoPass, Working, At
<1>3. /\ brief' \in Files
      /\ brief'[pass.item].status = "pending" /\ brief'[pass.item].resume = pass.run
      /\ \A j \in Items : j # pass.item => brief'[j] = brief[j]
  BY <1>1 DEF Park, IInv, TypeOK, Files, Briefs, Passes
<1>4. /\ UNCHANGED <<row, retrying, holder, queue, visited, tree, live, pr, paused, asked>>
      /\ UNCHANGED <<open, left, late, putOff, stray>> /\ limit' = TRUE /\ ran' = ran \ {pass.item}
  BY DEF Park, runVars
<1>5. TypeOK'
  BY <1>2, <1>3, <1>4 DEF IInv, TypeOK, Files
<1>6. PassOK'
  BY <1>1, <1>2 DEF PassOK, At, Working, Started, NoPass, Outcomes
<1>7. Alone'
  BY <1>1, <1>2, <1>4, AloneKept DEF At
<1>8. Switches'
  BY <1>1, <1>2, <1>4 DEF IInv, Switches, At, Preparing
<1>9. Fresh'
  BY <1>1, <1>2, <1>3, <1>4 DEF IInv, Fresh, At, Launching, Started
<1>10. Resumes'
  <2>1. \A i \in Items : Belongs(brief[i].resume, i)'
    BY <1>1, <1>3, <1>4 DEF IInv, Resumes, Belongs, At
  <2>2. Belongs(pass.resume, pass.item)' /\ queue' = {}
    BY <1>1, <1>2, <1>4 DEF IInv, Resumes, Belongs, Fresh, Working, At
  <2> QED
    BY <1>2, <1>4, <2>1, <2>2 DEF IInv, Resumes, At
<1> QED
  BY <1>5, <1>6, <1>7, <1>8, <1>9, <1>10 DEF IInv

\* Where the pass goes when the ledger has been told, or has not answered.
LEMMA GoesOn ==
    ASSUME IInv, pass.pc \in {"claim", "close", "reaped"}, GoOn
    PROVE  /\ pass' \in Passes
           /\ \/ /\ pass' = NoPass /\ holder' = None /\ pass'.pc = "off" /\ visited' = {}
                 /\ At("close") /\ pass.result = "limit"
              \/ /\ pass' # NoPass /\ holder' = holder /\ pass # NoPass /\ visited' = visited
                 /\ \/ /\ At("claim") /\ pass'.pc = "prepare" /\ pass'.item = pass.item
                       /\ pass'.resume = pass.resume /\ pass'.run = pass.run
                       /\ pass'.result = "running"
                    \/ /\ ~At("claim") /\ pass'.pc \in {"reap", "scan", "enqueue"}
                       /\ pass'.item = None /\ pass'.result = "none"
<1>1. pass \in Passes /\ pass # NoPass
  BY DEF IInv, PassOK, At, NoPass
<1>2. CASE At("close") /\ pass.result = "limit"
  <2>1. NoPass \in Passes /\ NoPass.pc = "off"
    BY DEF Passes, NoPass
  <2> QED
    BY <1>2, <2>1 DEF GoOn
<1>3. CASE At("claim")
  <2>1. pass' = [pass EXCEPT !.pc = "prepare"] /\ holder' = holder /\ visited' = visited
    BY <1>3 DEF GoOn, At
  <2>2. pass.result = "running"
    BY <1>3 DEF IInv, PassOK, At, Started
  <2>3. /\ pass' \in Passes /\ pass'.pc = "prepare" /\ pass'.item = pass.item
        /\ pass'.resume = pass.resume /\ pass'.run = pass.run /\ pass'.result = "running"
    BY <1>1, <2>1, <2>2 DEF Passes, Working
  <2> QED
    BY <1>1, <1>3, <2>1, <2>3 DEF NoPass
<1>4. CASE ~At("claim") /\ ~(At("close") /\ pass.result = "limit")
  <2>1. PICK pc \in {"reap", "scan", "enqueue"} : GoTo(pc)
    BY <1>4 DEF GoOn
  <2>2. holder' = holder /\ visited' = visited
    BY <1>4 DEF GoOn
  <2> QED
    BY <1>1, <1>4, <2>1, <2>2, EmptyHanded
<1> QED
  BY <1>2, <1>3, <1>4

\* The pass goes on and nothing but the rows and the budget changes.
LEMMA GoOnKeeps ==
    ASSUME IInv, pass.pc \in {"claim", "close", "reaped"}, GoOn,
           row' \in [Items -> Rows], left' \in [Kinds -> Nat],
           UNCHANGED <<brief, retrying, queue, runVars, switches, history>>
    PROVE  IInv'
<1> USE DispatchAssumption, GoesOn
<1>1. /\ UNCHANGED <<brief, retrying, queue, tree, live, pr, paused, asked, limit, open>>
      /\ UNCHANGED <<ran, late, putOff, stray>>
  BY DEF runVars, switches, history
<1>2. pass # NoPass /\ queue = {} /\ pass.item \in Items
  BY DEF IInv, PassOK, Fresh, At, Working, NoPass
<1>3. TypeOK'
  <2>1. visited' \subseteq Items /\ ((pass' = NoPass) <=> (holder' = None))
        /\ holder' \in Timers \cup Commands \cup {None}
    BY <1>2 DEF IInv, TypeOK
  <2> QED
    BY <1>1, <2>1 DEF IInv, TypeOK
<1>4. PassOK'
  BY <1>2 DEF PassOK, At, Working, Started, NoPass
<1>5. Alone'
  BY <1>1, AloneKept
<1>6. Switches'
  BY <1>1 DEF IInv, Switches, At, Preparing
<1>7. Fresh'
  BY <1>1, <1>2 DEF IInv, Fresh, At, Launching, Started
<1>8. Resumes'
  BY <1>1, <1>2 DEF IInv, Resumes, Belongs, At, Working
<1> QED
  BY <1>3, <1>4, <1>5, <1>6, <1>7, <1>8 DEF IInv

LEMMA TellKeeps == ASSUME IInv, Tell PROVE IInv'
<1>1. pass.item \in Items /\ pass.result \in Outcomes \cup {"running", "skipped"}
  BY DEF Tell, IInv, PassOK, At, Working, Started, Outcomes
<1>2. ASSUME NEW r \in Rows PROVE Told(r, pass.result) \in Rows
  BY <1>1, <1>2 DEF Told, Rows, Outcomes
<1>3. row' \in [Items -> Rows]
  BY <1>1, <1>2 DEF Tell, IInv, TypeOK
<1> QED
  BY <1>3, GoOnKeeps DEF Tell, IInv, TypeOK

LEMMA TellLostKeeps == ASSUME IInv, TellLost PROVE IInv'
<1>1. left' \in [Kinds -> Nat]
  BY SpendCounts DEF TellLost, IInv, TypeOK, Kinds
<1>2. row' \in [Items -> Rows] /\ brief' = brief /\ retrying' = retrying
  BY DEF TellLost, IInv, TypeOK, ledgerVars
<1> QED
  BY <1>1, <1>2, GoOnKeeps DEF TellLost

\* A brief appears, with its row.
LEMMA Posted ==
    ASSUME IInv, NEW i \in Items, Post(i)
    PROVE  /\ row' \in [Items -> Rows] /\ brief' \in Files
           /\ brief[i].status = "absent"
           /\ \A j \in Items :
                 /\ brief'[j].status = IF j = i THEN "pending" ELSE brief[j].status
                 /\ brief'[j].resume = brief[j].resume
<1>1. row' \in [Items -> Rows]
  BY DEF Post, IInv, TypeOK, Rows
<1> QED
  BY <1>1, StatusIsSet DEF Post, IInv, TypeOK, Files

LEMMA EnqueueKeeps == ASSUME IInv, Enqueue PROVE IInv'
<1> USE DispatchAssumption
<1>1. /\ pass' \in Passes /\ pass' # NoPass
      /\ pass'.pc = "scan" /\ pass'.item = None /\ pass'.resume = None /\ pass'.run = None
  BY EmptyHanded DEF Enqueue
<1>2. /\ At("enqueue") /\ UNCHANGED <<retrying, holder, queue, visited, tree, live, pr>>
      /\ UNCHANGED <<paused, asked, limit, open, left, ran, late, putOff, stray>>
  BY DEF Enqueue, runVars, switches, history
<1>3. /\ row' \in [Items -> Rows] /\ brief' \in Files
      /\ \A j \in Items : /\ brief'[j].resume = brief[j].resume
                          /\ \/ brief'[j].status = brief[j].status
                             \/ brief[j].status = "absent" /\ brief'[j].status = "pending"
  <2>1. CASE UNCHANGED <<row, brief>>
    BY <2>1 DEF IInv, TypeOK, Files
  <2>2. ASSUME NEW i \in Rounds, Post(i) PROVE <1>3
    BY <2>2, Posted DEF Items
  <2> QED
    BY <2>1, <2>2 DEF Enqueue
<1>4. TypeOK'
  BY <1>1, <1>2, <1>3 DEF IInv, TypeOK, PassOK, At, Files
<1>5. PassOK'
  BY <1>1 DEF PassOK, At, Working, Started, NoPass
<1>6. Alone'
  BY <1>1, <1>2, AloneKept DEF At
<1>7. Switches'
  BY <1>1, <1>2 DEF IInv, Switches, At, Preparing
<1>8. Fresh'
  BY <1>1, <1>2, <1>3 DEF IInv, Fresh, At, Launching, Started
<1>9. Resumes'
  BY <1>1, <1>2, <1>3 DEF IInv, Resumes, Belongs, At, Working
<1> QED
  BY <1>4, <1>5, <1>6, <1>7, <1>8, <1>9 DEF IInv

LEMMA DieKeeps == ASSUME IInv, Die PROVE IInv'
<1> USE DispatchAssumption
<1>1. /\ pass' = NoPass /\ NoPass \in Passes /\ NoPass.pc = "off" /\ NoPass.item = None
      /\ holder' = None /\ queue' = {} /\ visited' = {}
      /\ UNCHANGED <<row, brief, retrying, tree, live, pr, paused, asked, limit, open, ran, late, putOff, stray>>
  BY DEF Die, Passes, NoPass, ledgerVars, runVars, switches, history
<1>2. left' \in [Kinds -> Nat]
  BY SpendCounts DEF Die, IInv, TypeOK, Kinds
<1>3. TypeOK'
  BY <1>1, <1>2 DEF IInv, TypeOK
<1>4. PassOK' /\ Alone' /\ Switches' /\ Fresh' /\ Resumes'
  BY <1>1, AloneKept DEF IInv, PassOK, Switches, Fresh, Resumes, Belongs, At, Working, Started,
              Launching, Preparing
<1> QED
  BY <1>3, <1>4 DEF IInv

LEMMA ArriveKeeps == ASSUME IInv, NEW i \in Items, Arrive(i) PROVE IInv'
<1> USE DispatchAssumption
<1>1. UNCHANGED <<retrying, holder, pass, queue, visited, tree, live, pr, paused, asked>>
      /\ UNCHANGED <<limit, open, left, ran, late, putOff, stray>>
  BY DEF Arrive, passVars, runVars, switches, history
<1>2. /\ row' \in [Items -> Rows] /\ brief' \in Files /\ brief[i].status = "absent"
      /\ \A j \in Items :
            /\ brief'[j].status = IF j = i THEN "pending" ELSE brief[j].status
            /\ brief'[j].resume = brief[j].resume
  BY Posted DEF Arrive
<1>3. TypeOK'
  BY <1>1, <1>2 DEF IInv, TypeOK, Files
<1>4. Fresh'
  <2>1. pass.pc \in Started \cup {"check"} => pass.item \in Items /\ pass.item # i
    BY <1>2 DEF IInv, PassOK, Fresh, At, Working, Started
  <2>2. \A b \in queue : b.item \in Items
    BY DEF IInv, TypeOK
  <2> QED
    BY <1>1, <1>2, <2>1, <2>2 DEF IInv, Fresh, At
<1>5. Resumes'
  BY <1>1, <1>2 DEF IInv, Resumes, Belongs, At
<1> QED
  BY <1>1, <1>3, <1>4, <1>5, AloneKept DEF IInv, PassOK, Switches, At

LEMMA RetryBriefKeeps == ASSUME IInv, Patient, NEW i \in Items, RetryBrief(i) PROVE IInv'
<1> USE DispatchAssumption
<1>1. UNCHANGED <<row, holder, pass, queue, visited, tree, live, pr, paused, asked>>
      /\ UNCHANGED <<limit, open, late, putOff, stray>> /\ ran' = ran \ {i} /\ retrying' = i /\ pass.item # i
  BY DEF RetryBrief, passVars, runVars, switches
<1>2. left' \in [Kinds -> Nat]
  BY SpendCounts DEF RetryBrief, IInv, TypeOK, Kinds
<1>3. /\ brief' \in Files
      /\ \A j \in Items :
            /\ brief'[j].status = IF j = i THEN "pending" ELSE brief[j].status
            /\ brief'[j].resume = IF j = i THEN None ELSE brief[j].resume
  BY DEF RetryBrief, IInv, TypeOK, Files, Briefs, NoBrief
<1>4. TypeOK'
  BY <1>1, <1>2, <1>3 DEF IInv, TypeOK, Files
<1>5. Fresh'
  <2>1. pass.pc \in Started \cup {"check"} => pass.item \in Items
    BY DEF IInv, PassOK, Working, Started
  <2>2. \A b \in queue : b.item \in Items
    BY DEF IInv, TypeOK
  <2> QED
    BY <1>1, <1>3, <2>1, <2>2 DEF IInv, Fresh, At
<1>6. Resumes'
  BY <1>1, <1>3 DEF IInv, Resumes, Belongs, At
<1> QED
  BY <1>1, <1>4, <1>5, <1>6, AloneKept DEF IInv, PassOK, Switches, At

LEMMA KeepExpiresKeeps == ASSUME IInv, NEW r \in Runs, KeepExpires(r) PROVE IInv'
<1> USE DispatchAssumption
<1>1. UNCHANGED <<row, brief, retrying, holder, pass, queue, visited, live, pr, paused, asked>>
      /\ UNCHANGED <<limit, open, ran, late, putOff, stray>>
  BY DEF KeepExpires, ledgerVars, passVars, switches, history
<1>2. tree' \in Shelf /\ \A s \in Runs : /\ tree'[s].item = tree[s].item
                                         /\ tree'[s].kind = "none" <=> tree[s].kind = "none"
  BY ReleaseDropsMarkers DEF KeepExpires, IInv, TypeOK, Shelf
<1>3. left' \in [Kinds -> Nat]
  BY SpendCounts DEF KeepExpires, IInv, TypeOK, Kinds
<1>4. TypeOK'
  BY <1>1, <1>2, <1>3 DEF IInv, TypeOK, Shelf
<1>5. Resumes'
  <2>1. ASSUME NEW s \in Runs \cup {None}, NEW j, Belongs(s, j) PROVE Belongs(s, j)'
    BY <1>2, <2>1 DEF Belongs
  <2>2. \A i \in Items : brief[i].resume \in Runs \cup {None}
    BY DEF IInv, TypeOK, Briefs
  <2>3. \A b \in queue : b.resume \in Runs \cup {None}
    BY DEF IInv, TypeOK
  <2>4. pass.resume \in Runs \cup {None} /\ pass.run \in Runs \cup {None} /\ (At("run") => pass.run \in Runs)
    BY DEF IInv, PassOK, Passes
  <2> QED
    BY <1>1, <1>2, <2>1, <2>2, <2>3, <2>4 DEF IInv, Resumes, At
<1> QED
  BY <1>1, <1>2, <1>4, <1>5, AloneKept DEF IInv, PassOK, Switches, Fresh, At

\* Actions that touch none of what the invariant is about.
LEMMA RetryRowKeeps == ASSUME IInv, RetryRow \/ RetryLost PROVE IInv'
<1>1. UNCHANGED <<brief, holder, pass, queue, visited, tree, live, pr, paused, asked, limit, open>>
      /\ UNCHANGED <<ran, late, putOff, stray>> /\ retrying' = None
  BY DEF RetryRow, RetryLost, passVars, runVars, switches, history
<1>2. row' \in [Items -> Rows]
  BY DEF RetryRow, RetryLost, IInv, TypeOK, Rows
<1>3. left' \in [Kinds -> Nat]
  BY SpendCounts DEF RetryRow, RetryLost, IInv, TypeOK, Kinds
<1>4. TypeOK'
  BY <1>1, <1>2, <1>3 DEF IInv, TypeOK
<1> QED
  BY <1>1, <1>4, AloneKept DEF IInv, PassOK, Switches, Fresh, Resumes, Belongs, At

LEMMA OutsideKeeps ==
    ASSUME IInv,
           \/ \E i \in Issues : ClosePR(i)
           \/ \E r \in Runs : OpenPR(r) \/ OrphanEnds(r)
           \/ Pause \/ PauseAtLast \/ Resume \/ LimitLifts \/ Window \/ NewDay
    PROVE  IInv'
<1>1. UNCHANGED <<brief, retrying, holder, pass, queue, visited, tree, ran>>
  BY DEF ClosePR, OpenPR, OrphanEnds, Pause, PauseAtLast, Resume, LimitLifts, Window, NewDay,
         ledgerVars, passVars, runVars, switches, history
<1>2. live' \subseteq live /\ pr' \in [Issues -> {"none", "open", "closed"}]
  BY DEF ClosePR, OpenPR, OrphanEnds, Pause, PauseAtLast, Resume, LimitLifts, Window, NewDay,
         runVars, IInv, TypeOK
<1>3. row' \in [Items -> Rows]
  <2>1. CASE row' = row
    BY <2>1 DEF IInv, TypeOK
  <2>2. CASE NewDay
    <3>1. \A i \in Items : [row[i] EXCEPT !.claimed = FALSE] \in Rows
      BY DEF IInv, TypeOK, Rows
    <3> QED
      BY <2>2, <3>1 DEF NewDay
  <2> QED
    BY <2>1, <2>2 DEF ClosePR, OpenPR, OrphanEnds, Pause, PauseAtLast, Resume, LimitLifts, Window,
                      ledgerVars
<1>4. left' \in [Kinds -> Nat]
  <2>1. CASE UNCHANGED left
    BY <2>1 DEF IInv, TypeOK
  <2>2. CASE Pause \/ Window \/ NewDay \/ \E i \in Issues : ClosePR(i)
    BY <2>2, SpendCounts DEF Pause, Window, NewDay, ClosePR, IInv, TypeOK, Kinds
  <2> QED
    BY <2>1, <2>2 DEF OpenPR, OrphanEnds, PauseAtLast, Resume, LimitLifts
<1>5. Switches' /\ paused' \in BOOLEAN /\ asked' \in BOOLEAN /\ limit' \in BOOLEAN
      /\ open' \in BOOLEAN /\ late' \in 0..2
  <2>0. asked \in BOOLEAN /\ limit \in BOOLEAN /\ open \in BOOLEAN
    BY DEF IInv, TypeOK
  <2>1. CASE UNCHANGED <<paused, asked, limit, open, late>>
    BY <1>1, <2>1 DEF IInv, TypeOK, Switches, At
  <2>2. CASE Pause
    BY <1>1, <2>2 DEF Pause, BotBusy, IInv, TypeOK, Switches, At
  <2>3. CASE PauseAtLast
    <3>1. /\ paused' = TRUE /\ asked' = FALSE /\ late' = 0
          /\ limit' = limit /\ open' = open
      BY <2>3 DEF PauseAtLast
    <3>2. Switches'
      BY <1>1, <3>1 DEF IInv, Switches, At
    <3>3. paused' \in BOOLEAN /\ asked' \in BOOLEAN /\ limit' \in BOOLEAN /\ open' \in BOOLEAN
      BY <2>0, <3>1, Zenon
    <3>4. late' \in 0..2
      BY <3>1
    <3> QED
      BY <3>2, <3>3, <3>4
  <2>4. CASE Resume
    <3>1. /\ paused' = FALSE /\ limit' = FALSE /\ late' = 0
          /\ asked' = asked /\ ~asked /\ open' = open
      BY <2>4 DEF Resume
    <3>2. Switches'
      BY <1>1, <3>1 DEF IInv, Switches, At
    <3>3. paused' \in BOOLEAN /\ asked' \in BOOLEAN /\ limit' \in BOOLEAN /\ open' \in BOOLEAN
      BY <2>0, <3>1, Zenon
    <3>4. late' \in 0..2
      BY <3>1
    <3> QED
      BY <3>2, <3>3, <3>4
  <2>5. CASE LimitLifts
    BY <1>1, <2>5 DEF LimitLifts, history, IInv, TypeOK, Switches, At
  <2>6. CASE Window
    BY <1>1, <2>6 DEF Window, history, IInv, TypeOK, Switches, At
  <2> QED
    BY <2>1, <2>2, <2>3, <2>4, <2>5, <2>6 DEF ClosePR, OpenPR, OrphanEnds, NewDay, switches, history
<1>6. putOff' = putOff /\ stray' = stray
  BY DEF ClosePR, OpenPR, OrphanEnds, Pause, PauseAtLast, Resume, LimitLifts, Window, NewDay, history
<1>7. TypeOK'
  BY <1>1, <1>2, <1>3, <1>4, <1>5, <1>6 DEF IInv, TypeOK
<1> QED
  BY <1>1, <1>2, <1>5, <1>6, <1>7, AloneKept DEF IInv, PassOK, Fresh, Resumes, Belongs, At

-----------------------------------------------------------------------------
LEMMA StutterKeeps == ASSUME IInv, UNCHANGED vars PROVE IInv'
BY AloneKept DEF IInv, TypeOK, PassOK, Switches, Fresh, Resumes, Belongs, At, vars, ledgerVars,
       passVars, runVars, switches, history

LEMMA StepKeeps == ASSUME IInv, Patient, [Next]_vars PROVE IInv'
<1>1. CASE UNCHANGED vars
  BY <1>1, StutterKeeps
<1>2. ASSUME NEW p \in Timers \cup Commands, Begin(p) PROVE IInv'
  BY <1>2, BeginKeeps
<1>3. CASE PassStep
  <2>1. ASSUME NEW i \in Items, ReapBrief(i) \/ ReapRow(i) PROVE IInv'
    BY <2>1, ReapBriefKeeps, ReapRowKeeps
  <2>2. CASE EndReap \/ Scan \/ EndPass
    BY <2>2, EndReapKeeps, ScanKeeps, EndPassKeeps
  <2>3. ASSUME NEW b \in queue, Defer(b) \/ Choose(b) PROVE IInv'
    BY <2>3, DeferKeeps, ChooseKeeps
  <2>4. CASE MarkRunning \/ Reopen \/ Create \/ CreateFails
    BY <2>4, MarkRunningKeeps, ReopenKeeps, CreateKeeps, CreateFailsKeeps
  <2>5. ASSUME NEW status \in {"skipped", "failed"}, Refuse(status) PROVE IInv'
    BY <2>5, RefuseKeeps
  <2>6. ASSUME NEW result \in {"pr_open", "done", "failed"}, RunEnds(result) PROVE IInv'
    BY <2>6, RunEndsKeeps
  <2>7. CASE Complete \/ Fail \/ Park \/ Tell \/ Enqueue
    BY <2>7, CompleteKeeps, FailKeeps, ParkKeeps, TellKeeps, EnqueueKeeps
  <2> QED
    BY <1>3, <2>1, <2>2, <2>3, <2>4, <2>5, <2>6, <2>7 DEF PassStep
<1>4. CASE Mishap
  BY <1>4, UnknownKeeps, RunEscapesKeeps, UsageLimitKeeps, TellLostKeeps, RetryRowKeeps, DieKeeps DEF Mishap
<1>5. CASE Outside
  <2>1. ASSUME NEW i \in Items, Arrive(i) \/ RetryBrief(i) PROVE IInv'
    BY <2>1, ArriveKeeps, RetryBriefKeeps
  <2>2. ASSUME NEW r \in Runs, KeepExpires(r) PROVE IInv'
    BY <2>2, KeepExpiresKeeps
  <2> QED
    BY <1>5, <2>1, <2>2, RetryRowKeeps, OutsideKeeps DEF Outside
<1> QED
  BY <1>1, <1>2, <1>3, <1>4, <1>5 DEF Next

THEOREM Invariant == ASSUME Patient PROVE Spec => []IInv
<1>1. Init => IInv
  BY Start
<1>2. IInv /\ [Next]_vars => IInv'
  BY StepKeeps
<1> QED
  BY <1>1, <1>2, PTL DEF Spec

(* Every variable keeps to its values.                                     *)
THEOREM TypesHold == ASSUME Patient PROVE Spec => []TypeOK
<1>1. IInv => TypeOK
  BY DEF IInv
<1> QED
  BY <1>1, Invariant, PTL

(* "With the lock held there is no run in progress" (run_once): there is   *)
(* at most one container, whatever passes have died (dispatch.py), but for *)
(* the containers that docker did not stop when it was asked to.           *)
THEOREM OneAtATime == ASSUME Patient PROVE Spec => []OneContainer
<1>1. IInv => OneContainer
  <2> SUFFICES ASSUME IInv PROVE OneContainer
    OBVIOUS
  <2>1. \A r, s \in Loose : r = s
    BY DEF IInv, Alone
  <2>2. CASE Loose = {}
    BY <2>2, FS_EmptySet DEF OneContainer, Loose
  <2>3. ASSUME NEW r \in Loose PROVE OneContainer
    <3>1. Loose = {r}
      BY <2>1, <2>3
    <3> QED
      BY <3>1, FS_Singleton DEF OneContainer, Loose
  <2> QED
    BY <2>2, <2>3
<1> QED
  BY <1>1, Invariant, PTL

(* "At most the run that was being prepared still starts" after /pause is  *)
(* handled.                                                                *)
THEOREM PauseIsKept == ASSUME Patient PROVE Spec => []PauseHolds
<1>1. IInv => PauseHolds
  BY DEF IInv, Switches, PauseHolds, TypeOK
<1> QED
  BY <1>1, Invariant, PTL

\* A container starts only when a brief that was pending is launched.
LEMMA NewContainer ==
    ASSUME IInv, Patient, [Next]_vars, NEW r \in live' \ live
    PROVE  /\ pass.pc \in {"prepare", "create"} /\ r \in Runs
           /\ pass'.pc = "run" /\ pass'.run = r /\ pass'.item = pass.item
<1>1. live' # live /\ ~(live' \subseteq live)
  OBVIOUS
<1>2. Reopen \/ Create
  BY <1>1 DEF Next, PassStep, Mishap, Outside, vars, runVars,
     Begin, KillOrphans, ReapBrief, ReapRow, EndReap, Scan, EndPass, Defer, Choose, Unknown, Refuse,
     MarkRunning, CreateFails, RunEnds, RunEscapes, UsageLimit, Complete, Fail, Park, Tell, TellLost,
     Enqueue, Die, Arrive, RetryBrief, KeepExpires, RetryRow, RetryLost, ClosePR, OpenPR,
     OrphanEnds, Pause, PauseAtLast, Resume, LimitLifts, Window, NewDay
<1>3. PICK s \in Runs, others \in SUBSET live : Launch(s, others) /\ r \notin others
  <2>1. CASE Create
    BY <2>1 DEF Create
  <2>2. CASE Reopen
    BY <1>1, <2>2 DEF Reopen, CanReopen, IInv, PassOK, Passes
  <2> QED
    BY <1>2, <2>1, <2>2
<1>4. pass.pc \in {"prepare", "create"}
  BY <1>2 DEF Reopen, Create, At
<1> QED
  BY <1>3, <1>4, Launched

(* While the usage limit holds no run starts (docs/event-harness.md).      *)
THEOREM LimitIsKept == ASSUME Patient PROVE Spec => LimitHolds
<1>1. IInv /\ [Next]_vars => (live' \ live # {} => ~limit)
  <2> SUFFICES ASSUME IInv, [Next]_vars, NEW r \in live' \ live PROVE ~limit
    OBVIOUS
  <2> QED
    BY NewContainer, AboutToLaunch
<1> QED
  BY <1>1, Invariant, PTL DEF Spec, LimitHolds

(* A container starts for an item that was run before only after /retry or *)
(* after the usage limit parked it (mark_running).                         *)
THEOREM NeverBlindly == ASSUME Patient PROVE Spec => NoBlindRerun
<1>1. IInv /\ [Next]_vars => \A r \in live' \ live : tree'[r].item \notin ran
  <2> SUFFICES ASSUME IInv, [Next]_vars, NEW r \in live' \ live PROVE tree'[r].item \notin ran
    OBVIOUS
  <2>1. pass'.pc = "run" /\ pass'.run = r /\ pass'.item = pass.item /\ pass.item \notin ran
    BY NewContainer, AboutToLaunch
  <2>2. IInv'
    BY StepKeeps
  <2> QED
    BY <2>1, <2>2 DEF IInv, Resumes, At
<1> QED
  BY <1>1, Invariant, PTL DEF Spec, NoBlindRerun

-----------------------------------------------------------------------------
(* While no pass has died and every UPDATE has arrived the files are tidy: *)
(* what a worktree is kept for is told by a brief or by the pass.          *)
Quiet == {"off", "reap", "scan", "pick", "enqueue"}

\* A pass with nothing in hand goes on, or takes a brief to check.
LEMMA QuietTidies ==
    ASSUME IInv, Tidy, pass.pc \in Quiet, pass'.pc \in Quiet \cup {"check"},
           UNCHANGED <<row, brief, tree>>, ScanIsFresh'
    PROVE  Tidy'
<1>1. Distinct'
  BY DEF Tidy, Distinct
<1>2. KeptIsAwaited'
  BY DEF Tidy, KeptIsAwaited, Awaited, Quiet, At
<1>3. ParkedIsAdmitted' /\ HandIsTidy'
  BY DEF Tidy, ParkedIsAdmitted, HandIsTidy, Quiet, At
<1> QED
  BY <1>1, <1>2, <1>3 DEF Tidy

LEMMA BetweenRunsTidies ==
    ASSUME IInv, Tidy,
           \/ \E p \in Timers \cup Commands : Begin(p)
           \/ EndReap \/ Scan \/ EndPass
           \/ \E b \in queue : Defer(b) \/ Choose(b)
    PROVE  Tidy'
<1>1. UNCHANGED <<row, brief, tree>>
  BY DEF Begin, EndReap, Scan, EndPass, Defer, Choose, ledgerVars, runVars
<1>2. ASSUME NEW p \in Timers \cup Commands, Begin(p) PROVE Tidy'
  <2>1. pass.pc \in Quiet /\ pass'.pc = "reap" /\ queue' = queue
    BY <1>2, EmptyHanded DEF Begin, IInv, TypeOK, PassOK, At, Quiet
  <2> QED
    BY <1>1, <2>1, QuietTidies DEF Tidy, ScanIsFresh, At, Quiet
<1>3. CASE EndReap
  <2>1. pass.pc \in Quiet /\ pass'.pc = "scan" /\ queue' = queue
    BY <1>3, EmptyHanded DEF EndReap, At, Quiet
  <2> QED
    BY <1>1, <2>1, QuietTidies DEF Tidy, ScanIsFresh, At, Quiet
<1>4. CASE Scan
  <2>1. pass.pc \in Quiet /\ pass'.pc = "pick"
    BY <1>4, EmptyHanded DEF Scan, At, Quiet
  <2>2. \A b \in queue' : b.resume = brief[b.item].resume
    BY <1>4 DEF Scan
  <2> QED
    BY <1>1, <2>1, <2>2, QuietTidies DEF ScanIsFresh, At, Quiet
<1>5. CASE EndPass
  <2>1. pass.pc \in Quiet /\ pass'.pc = "off" /\ queue' = {}
    BY <1>5 DEF EndPass, At, Quiet, NoPass
  <2> QED
    BY <1>1, <2>1, QuietTidies DEF ScanIsFresh, At, Quiet
<1>6. ASSUME NEW b \in queue, Defer(b) PROVE Tidy'
  <2>1. pass.pc \in Quiet /\ pass' = pass /\ queue' \subseteq queue
    BY <1>6 DEF Defer, Visit, InWindow, At, Quiet
  <2> QED
    BY <1>1, <2>1, QuietTidies DEF Tidy, ScanIsFresh, At, Quiet
<1>7. ASSUME NEW b \in queue, Choose(b) PROVE Tidy'
  <2>1. /\ pass.pc \in Quiet /\ pass'.pc = "check" /\ queue' = {}
        /\ pass'.item = b.item /\ pass'.resume = b.resume
    BY <1>7 DEF Choose, Visit, At, Quiet, NoPass
  <2> QED
    BY <1>1, <2>1, QuietTidies DEF Tidy, ScanIsFresh, At, Quiet
<1> QED
  BY <1>2, <1>3, <1>4, <1>5, <1>6, <1>7

LEMMA ReapTidies == ASSUME IInv, Tidy, NEW i \in Items, ReapBrief(i) \/ ReapRow(i) PROVE Tidy'
<1>1. CASE ReapBrief(i)
  <2>1. /\ At("reap") /\ brief[i].status = "running"
        /\ pass'.pc = "reaped" /\ pass'.item = i
        /\ UNCHANGED <<row, queue, tree>>
    BY <1>1 DEF ReapBrief, Zombies, NoPass, runVars
  <2>2. \A j \in Items :
            /\ brief'[j].status = IF j = i THEN "failed" ELSE brief[j].status
            /\ brief'[j].resume = brief[j].resume
    BY <1>1, StatusIsSet DEF ReapBrief, Reaped, IInv, TypeOK, Files
  <2>3. Distinct'
    BY <2>1 DEF Tidy, Distinct
  <2>4. KeptIsAwaited'
    <3> SUFFICES ASSUME NEW r \in Runs, tree[r].kind = "kept" PROVE Awaited(r)'
      BY <2>1 DEF KeptIsAwaited
    <3>1. tree[r].item \in Items
      BY DEF IInv, TypeOK, Trees, Resumes
    <3> QED
      BY <2>1, <2>2, <3>1 DEF Tidy, KeptIsAwaited, Awaited, At
  <2>5. ParkedIsAdmitted' /\ HandIsTidy'
    BY <2>1, <2>2 DEF Tidy, ParkedIsAdmitted, HandIsTidy, At
  <2>6. ScanIsFresh'
    BY <2>1 DEF IInv, Fresh, ScanIsFresh, At
  <2> QED
    BY <2>3, <2>4, <2>5, <2>6 DEF Tidy
<1>2. CASE ReapRow(i)
  <2>1. /\ UNCHANGED <<brief, pass, queue, tree>> /\ row[i].state = "running"
        /\ \A j \in Items : j # i => row'[j].state = row[j].state
    BY <1>2 DEF ReapRow, passVars, runVars, IInv, TypeOK, Rows
  <2>2. ParkedIsAdmitted'
    BY <2>1 DEF Tidy, ParkedIsAdmitted, At
  <2> QED
    BY <2>1, <2>2 DEF Tidy, Distinct, KeptIsAwaited, Awaited, ScanIsFresh, HandIsTidy, At
<1> QED
  BY <1>1, <1>2

\* The item of a kept worktree.
LEMMA KeptHasItem ==
    ASSUME IInv, NEW r \in Runs, tree[r].kind = "kept"
    PROVE  tree[r].item \in Items
BY DEF IInv, TypeOK, Trees, Resumes

LEMMA RefuseTidies ==
    ASSUME IInv, Tidy, NEW status \in {"skipped", "failed"}, Refuse(status)
    PROVE  Tidy'
<1>1. /\ At("check") /\ pass.item \in Items /\ pass \in Passes
      /\ pass.resume = brief[pass.item].resume
  BY DEF Refuse, IInv, PassOK, Tidy, ScanIsFresh, At, Working
<1>2. pass'.pc = "close" /\ pass'.item = pass.item /\ pass'.result = status
  BY <1>1 DEF Refuse, Passes
<1>3. \A j \in Items :
            /\ brief'[j].status = IF j = pass.item THEN status ELSE brief[j].status
            /\ brief'[j].resume = brief[j].resume
  BY <1>1, StatusIsSet DEF Refuse, IInv, TypeOK, Files
<1>4. \A r \in Runs : /\ tree'[r].item = tree[r].item
                      /\ tree'[r].kind = "kept" => tree[r].kind = "kept" /\ r # pass.resume
  BY ReleaseDropsMarkers DEF Refuse, LetGo, IInv, TypeOK, Shelf
<1>5. row' = row /\ queue' = {}
  BY <1>1 DEF Refuse, IInv, Fresh, At
<1>6. Distinct'
  BY <1>4 DEF Tidy, Distinct
<1>7. KeptIsAwaited'
  <2> SUFFICES ASSUME NEW r \in Runs, tree'[r].kind = "kept" PROVE Awaited(r)'
    BY DEF KeptIsAwaited
  <2>1. brief[tree[r].item].status = "pending" /\ brief[tree[r].item].resume = r
    BY <1>1, <1>4 DEF Tidy, KeptIsAwaited, Awaited, At
  <2>2. tree[r].item \in Items /\ tree[r].item # pass.item
    BY <1>1, <1>4, <2>1, KeptHasItem
  <2> QED
    BY <1>3, <1>4, <2>1, <2>2 DEF Awaited
<1>8. ParkedIsAdmitted'
  BY <1>1, <1>3, <1>5 DEF Tidy, ParkedIsAdmitted, At
<1>9. ScanIsFresh'
  BY <1>2, <1>5 DEF ScanIsFresh, At
<1>10. HandIsTidy'
  BY <1>1, <1>2, <1>3 DEF Tidy, HandIsTidy, At
<1> QED
  BY <1>6, <1>7, <1>8, <1>9, <1>10 DEF Tidy

LEMMA MarkRunningTidies == ASSUME IInv, Tidy, MarkRunning PROVE Tidy'
<1>1. /\ At("check") /\ pass.item \in Items /\ pass \in Passes
      /\ pass.resume = brief[pass.item].resume
  BY DEF MarkRunning, IInv, PassOK, Tidy, ScanIsFresh, At, Working
<1>2. /\ pass'.pc = "claim" /\ pass'.item = pass.item /\ pass'.resume = pass.resume
      /\ row' = row /\ tree' = tree /\ queue' = {}
  BY <1>1 DEF MarkRunning, Passes, runVars, IInv, Fresh, At
<1>3. \A j \in Items :
            /\ brief'[j].status = IF j = pass.item THEN "running" ELSE brief[j].status
            /\ brief'[j].resume = IF j = pass.item THEN None ELSE brief[j].resume
  BY <1>1 DEF MarkRunning, IInv, TypeOK, Files, Briefs
<1>4. Distinct'
  BY <1>2 DEF Tidy, Distinct
<1>5. KeptIsAwaited'
  <2> SUFFICES ASSUME NEW r \in Runs, tree[r].kind = "kept" PROVE Awaited(r)'
    BY <1>2 DEF KeptIsAwaited
  <2>1. brief[tree[r].item].status = "pending" /\ brief[tree[r].item].resume = r
    BY <1>1 DEF Tidy, KeptIsAwaited, Awaited, At
  <2>2. tree[r].item \in Items
    BY KeptHasItem
  <2> QED
    BY <1>1, <1>2, <1>3, <2>1, <2>2 DEF Awaited
<1>6. ParkedIsAdmitted'
  BY <1>1, <1>2, <1>3 DEF Tidy, ParkedIsAdmitted, At
<1>7. ScanIsFresh' /\ HandIsTidy'
  BY <1>1, <1>2, <1>3 DEF Tidy, ScanIsFresh, HandIsTidy, At
<1> QED
  BY <1>4, <1>5, <1>6, <1>7 DEF Tidy

\* At "prepare" and "create" no worktree is kept for the item in hand, but the
\* one that can be reopened.
LEMMA NothingElseKept ==
    ASSUME IInv, Tidy, pass.pc \in {"prepare", "create"},
           NEW r \in Runs, tree[r].kind = "kept"
    PROVE  \/ tree[r].item # pass.item /\ brief[tree[r].item].status = "pending"
                                       /\ brief[tree[r].item].resume = r
           \/ At("prepare") /\ CanReopen /\ r = pass.resume
<1>1. brief[pass.item].status = "running" /\ r # None
  BY AboutToLaunch, DispatchAssumption
<1>2. \/ brief[tree[r].item].status = "pending" /\ brief[tree[r].item].resume = r
      \/ At("prepare") /\ pass.resume = r
  BY DEF Tidy, KeptIsAwaited, Awaited, At
<1> QED
  BY <1>1, <1>2 DEF CanReopen

\* From here to the end of the run the queue is empty and no brief changes.
LEMMA BusyTidies ==
    ASSUME IInv, Tidy, pass.pc \in {"prepare", "create", "run"},
           pass'.pc \in {"create", "run", "result"},
           UNCHANGED <<row, brief, queue>>,
           Distinct', KeptIsAwaited',
           At("run")' => tree'[pass'.run].kind = "plain"
    PROVE  Tidy'
<1>1. queue = {}
  BY DEF IInv, Fresh, At
<1>2. ParkedIsAdmitted'
  BY DEF Tidy, ParkedIsAdmitted, At
<1>3. ScanIsFresh' /\ HandIsTidy'
  BY <1>1 DEF Tidy, ScanIsFresh, HandIsTidy, At
<1> QED
  BY <1>2, <1>3 DEF Tidy

LEMMA ReopenTidies == ASSUME IInv, Tidy, Reopen PROVE Tidy'
<1> USE DispatchAssumption
<1>1. At("prepare") /\ CanReopen /\ pass \in Passes /\ pass.resume \in Runs
  BY DEF Reopen, CanReopen, IInv, PassOK, Passes
<1>2. \A r \in Runs : /\ tree'[r].item = tree[r].item
                      /\ tree'[r].kind = IF r = pass.resume THEN "plain" ELSE tree[r].kind
  BY <1>1 DEF Reopen, IInv, TypeOK, Trees
<1>3. UNCHANGED <<row, brief, queue>>
  BY DEF Reopen, ledgerVars
<1>4. /\ pass'.pc \in {"create", "run", "result"}
      /\ pass'.pc = "run" => pass'.run = pass.resume
  <2>1. CASE Launch(pass.resume, live)
    BY <1>1, <2>1, Launched DEF At
  <2>2. CASE pass' = [pass EXCEPT !.pc = "create"]
    BY <1>1, <2>2 DEF Passes
  <2>3. CASE pass' = [pass EXCEPT !.pc = "result", !.result = "failed"]
    BY <1>1, <2>3 DEF Passes
  <2> QED
    BY <2>1, <2>2, <2>3 DEF Reopen
<1>5. Distinct'
  BY <1>2 DEF Tidy, Distinct
<1>6. KeptIsAwaited'
  <2> SUFFICES ASSUME NEW r \in Runs, tree'[r].kind = "kept" PROVE Awaited(r)'
    BY DEF KeptIsAwaited
  <2>1. tree[r].kind = "kept" /\ r # pass.resume
    BY <1>2
  <2>2. brief[tree[r].item].status = "pending" /\ brief[tree[r].item].resume = r
    BY <1>1, <2>1, NothingElseKept DEF At
  <2> QED
    BY <1>2, <1>3, <2>2 DEF Awaited
<1> QED
  BY <1>1, <1>2, <1>3, <1>4, <1>5, <1>6, BusyTidies DEF At

LEMMA CreateTidies == ASSUME IInv, Tidy, Create PROVE Tidy'
<1> USE DispatchAssumption, AboutToLaunch
<1>1. pass.pc \in {"prepare", "create"} /\ ~(At("prepare") /\ CanReopen)
  BY DEF Create, At
<1>2. PICK r \in Runs : /\ tree' = [Swept EXCEPT ![r] = [kind |-> "plain", item |-> pass.item]]
                        /\ \E others : Launch(r, others)
  BY DEF Create
<1>3. pass'.pc = "run" /\ pass'.run = r
  BY <1>1, <1>2, Launched
<1>4. UNCHANGED <<row, brief, queue>>
  BY DEF Create, ledgerVars
<1>5. /\ tree'[r].kind = "plain" /\ tree'[r].item = pass.item
      /\ \A s \in Runs : s # r /\ tree'[s] # NoTree => tree'[s] = tree[s] /\ tree[s].kind # "plain"
  <2>1. tree \in Shelf
    BY DEF IInv, TypeOK, Shelf
  <2> QED
    BY <1>2, <2>1, SweepTakesPlain DEF Shelf
\* What is left of the others is kept for another item.
<1>6. ASSUME NEW s \in Runs, s # r, tree'[s].item # None
      PROVE  /\ tree'[s] = tree[s] /\ tree[s].item # pass.item
             /\ brief[tree[s].item].status = "pending" /\ brief[tree[s].item].resume = s
  <2>1. tree'[s] = tree[s] /\ tree[s].kind # "plain"
    BY <1>5, <1>6 DEF NoTree
  <2>2. tree[s].kind = "kept"
    BY <1>6, <2>1 DEF IInv, Resumes, TypeOK, Trees
  <2> QED
    BY <1>1, <2>1, <2>2, NothingElseKept
<1>7. Distinct'
  <2> SUFFICES ASSUME NEW s \in Runs, NEW q \in Runs,
                      tree'[s].item = tree'[q].item, tree'[s].item # None
               PROVE  s = q
    BY DEF Distinct
  <2>1. CASE s # r /\ q # r
    BY <1>6, <2>1 DEF Tidy, Distinct
  <2>2. CASE s = r \/ q = r
    BY <1>5, <1>6, <2>2
  <2> QED
    BY <2>1, <2>2
<1>8. KeptIsAwaited'
  <2> SUFFICES ASSUME NEW s \in Runs, tree'[s].kind = "kept" PROVE Awaited(s)'
    BY DEF KeptIsAwaited
  <2>1. s # r /\ tree'[s] = tree[s]
    BY <1>5 DEF NoTree
  <2>2. tree'[s].item # None
    BY <1>1, <2>1, KeptHasItem
  <2> QED
    BY <1>4, <1>6, <2>1, <2>2 DEF Awaited
<1> QED
  BY <1>1, <1>3, <1>4, <1>5, <1>7, <1>8, BusyTidies

LEMMA CreateFailsTidies == ASSUME IInv, Tidy, CreateFails PROVE Tidy'
<1> USE DispatchAssumption
<1>1. pass.pc \in {"prepare", "create"} /\ ~(At("prepare") /\ CanReopen) /\ pass \in Passes
  BY DEF CreateFails, At, IInv, PassOK
<1>2. pass'.pc = "result" /\ UNCHANGED <<row, brief, queue>>
  BY <1>1 DEF CreateFails, Passes, ledgerVars
<1>3. \A s \in Runs : tree'[s] = NoTree \/ tree'[s] = tree[s]
  <2>1. tree \in Shelf /\ (tree' = tree \/ tree' = Swept)
    BY DEF CreateFails, IInv, TypeOK, Shelf
  <2> QED
    BY <2>1, SweepTakesPlain
<1>4. Distinct'
  BY <1>3 DEF Tidy, Distinct, NoTree
<1>5. KeptIsAwaited'
  <2> SUFFICES ASSUME NEW s \in Runs, tree'[s].kind = "kept" PROVE Awaited(s)'
    BY DEF KeptIsAwaited
  <2>1. tree'[s] = tree[s]
    BY <1>3 DEF NoTree
  <2>2. brief[tree[s].item].status = "pending" /\ brief[tree[s].item].resume = s
    BY <1>1, <2>1, NothingElseKept
  <2> QED
    BY <1>2, <2>1, <2>2 DEF Awaited
<1> QED
  BY <1>1, <1>2, <1>4, <1>5, BusyTidies DEF At

LEMMA RunEndsTidies ==
    ASSUME IInv, Tidy, NEW result \in {"pr_open", "done", "failed"}, RunEnds(result)
    PROVE  Tidy'
<1>1. At("run") /\ pass.run \in Runs /\ pass \in Passes
  BY DEF RunEnds, IInv, PassOK
<1>2. pass'.pc = "result" /\ UNCHANGED <<row, brief, queue>>
  BY <1>1 DEF RunEnds, Passes, ledgerVars
<1>3. \A s \in Runs : tree'[s] = NoTree \/ tree'[s] = tree[s]
  BY <1>1 DEF RunEnds, IInv, TypeOK
<1>4. Distinct'
  BY <1>3 DEF Tidy, Distinct, NoTree
<1>5. KeptIsAwaited'
  <2> SUFFICES ASSUME NEW s \in Runs, tree'[s].kind = "kept" PROVE Awaited(s)'
    BY DEF KeptIsAwaited
  <2>1. tree'[s] = tree[s]
    BY <1>3 DEF NoTree
  <2>2. brief[tree[s].item].status = "pending" /\ brief[tree[s].item].resume = s
    BY <1>1, <2>1 DEF Tidy, KeptIsAwaited, Awaited, At
  <2> QED
    BY <1>2, <2>1, <2>2 DEF Awaited
<1> QED
  BY <1>1, <1>2, <1>4, <1>5, BusyTidies DEF At

LEMMA UsageLimitTidies == ASSUME IInv, Tidy, UsageLimit PROVE Tidy'
<1> USE DispatchAssumption
<1>1. At("run") /\ pass.run \in Runs /\ pass \in Passes /\ tree[pass.run].item = pass.item
  BY DEF UsageLimit, IInv, PassOK, Resumes
<1>2. UNCHANGED <<row, brief, queue>>
  BY DEF UsageLimit, ledgerVars
<1>3. CASE /\ tree' = [tree EXCEPT ![pass.run].kind = "kept"]
           /\ pass' = [pass EXCEPT !.pc = "result", !.result = "limit"]
  <2>1. \A s \in Runs : /\ tree'[s].item = tree[s].item
                        /\ s # pass.run => tree'[s].kind = tree[s].kind
    BY <1>1, <1>3 DEF IInv, TypeOK, Trees
  <2>2. /\ pass'.pc = "result" /\ pass'.result = "limit" /\ pass'.item = pass.item
        /\ pass'.run = pass.run
    BY <1>1, <1>3 DEF Passes
  <2>3. Distinct'
    BY <2>1 DEF Tidy, Distinct
  <2>4. KeptIsAwaited'
    <3> SUFFICES ASSUME NEW s \in Runs, tree'[s].kind = "kept" PROVE Awaited(s)'
      BY DEF KeptIsAwaited
    <3>1. CASE s = pass.run
      BY <1>1, <2>1, <2>2, <3>1 DEF Awaited, At
    <3>2. CASE s # pass.run
      <4>1. brief[tree[s].item].status = "pending" /\ brief[tree[s].item].resume = s
        BY <1>1, <2>1, <3>2 DEF Tidy, KeptIsAwaited, Awaited, At
      <4> QED
        BY <1>2, <2>1, <4>1 DEF Awaited
    <3> QED
      BY <3>1, <3>2
  <2> QED
    BY <1>1, <1>2, <2>2, <2>3, <2>4, BusyTidies DEF At
<1>4. CASE /\ tree' = [tree EXCEPT ![pass.run] = NoTree]
           /\ \E r \in {pass.run, None} :
                 pass' = [pass EXCEPT !.pc = "result", !.result = "limit", !.run = r]
  <2>1. \A s \in Runs : tree'[s] = NoTree \/ tree'[s] = tree[s]
    BY <1>1, <1>4 DEF IInv, TypeOK
  <2>2. pass'.pc = "result"
    BY <1>1, <1>4 DEF Passes
  <2>3. Distinct'
    BY <2>1 DEF Tidy, Distinct, NoTree
  <2>4. KeptIsAwaited'
    <3> SUFFICES ASSUME NEW s \in Runs, tree'[s].kind = "kept" PROVE Awaited(s)'
      BY DEF KeptIsAwaited
    <3>1. tree'[s] = tree[s]
      BY <2>1 DEF NoTree
    <3>2. brief[tree[s].item].status = "pending" /\ brief[tree[s].item].resume = s
      BY <1>1, <3>1 DEF Tidy, KeptIsAwaited, Awaited, At
    <3> QED
      BY <1>2, <3>1, <3>2 DEF Awaited
  <2> QED
    BY <1>1, <1>2, <2>2, <2>3, <2>4, BusyTidies DEF At
<1> QED
  BY <1>3, <1>4 DEF UsageLimit

LEMMA OutcomeTidies == ASSUME IInv, Tidy, Complete \/ Fail PROVE Tidy'
<1>1. At("result") /\ pass.item \in Items /\ pass \in Passes /\ brief[pass.item].status = "running"
  BY DEF Complete, Fail, IInv, PassOK, Fresh, At, Working, Started
<1>2. PICK s \in {"pr_open", "done", "failed"} :
          SetStatus(pass.item, s) /\ pass'.result = s /\ pass'.pc = "close" /\ pass'.item = pass.item
  <2>1. CASE Complete
    BY <1>1, <2>1 DEF Complete, Passes
  <2>2. CASE Fail
    <3>1. pass' = [pass EXCEPT !.pc = "close", !.result = "failed"] /\ SetStatus(pass.item, "failed")
      BY <2>2 DEF Fail
    <3> QED
      BY <1>1, <3>1 DEF Passes
  <2> QED
    BY <2>1, <2>2
<1>3. \A j \in Items : /\ brief'[j].status = IF j = pass.item THEN s ELSE brief[j].status
                       /\ brief'[j].resume = brief[j].resume
  BY <1>1, <1>2, StatusIsSet DEF IInv, TypeOK, Files
<1>4. row' = row /\ queue' = {}
  BY <1>1 DEF Complete, Fail, IInv, Fresh, At
<1>5. \A r \in Runs : /\ tree'[r].item = tree[r].item
                      /\ tree'[r].kind = "kept" => /\ tree[r].kind = "kept"
                                                   /\ pass.result = "limit" => r # pass.run
  <2>1. tree \in Shelf
    BY DEF IInv, TypeOK, Shelf
  <2>2. CASE Complete
    BY <2>2 DEF Complete, runVars
  <2>3. CASE pass.result = "failed" /\ tree' = Release(tree, {pass.resume})
    BY <2>1, <2>3, ReleaseDropsMarkers
  <2>4. CASE tree' = Release(Release(tree, {pass.run}), {pass.resume})
    <3>1. Release(tree, {pass.run}) \in Shelf
      BY <2>1, ReleaseDropsMarkers
    <3> QED
      BY <2>1, <2>4, <3>1, ReleaseDropsMarkers
  <2> QED
    BY <2>2, <2>3, <2>4 DEF Fail, LetGo
<1>6. Distinct'
  BY <1>5 DEF Tidy, Distinct
<1>7. KeptIsAwaited'
  <2> SUFFICES ASSUME NEW r \in Runs, tree'[r].kind = "kept" PROVE Awaited(r)'
    BY DEF KeptIsAwaited
  <2>1. brief[tree[r].item].status = "pending" /\ brief[tree[r].item].resume = r
    BY <1>1, <1>5 DEF Tidy, KeptIsAwaited, Awaited, At
  <2>2. tree[r].item \in Items
    BY <1>5, KeptHasItem
  <2> QED
    BY <1>1, <1>3, <1>5, <2>1, <2>2 DEF Awaited
<1>8. ParkedIsAdmitted'
  BY <1>1, <1>3, <1>4 DEF Tidy, ParkedIsAdmitted, At
<1>9. ScanIsFresh' /\ HandIsTidy'
  BY <1>1, <1>2, <1>3, <1>4 DEF Tidy, ScanIsFresh, HandIsTidy, At
<1> QED
  BY <1>6, <1>7, <1>8, <1>9 DEF Tidy

LEMMA ParkTidies == ASSUME IInv, Tidy, Park PROVE Tidy'
<1>1. At("result") /\ pass.item \in Items /\ pass \in Passes /\ pass.result = "limit"
  BY DEF Park, IInv, PassOK, At, Working
<1>2. /\ pass'.pc = "close" /\ pass'.item = pass.item /\ pass'.result = "limit"
      /\ row' = row /\ tree' = tree /\ queue' = {}
  BY <1>1 DEF Park, Passes, runVars, IInv, Fresh, At
<1>3. /\ brief'[pass.item].status = "pending" /\ brief'[pass.item].resume = pass.run
      /\ \A j \in Items : j # pass.item => brief'[j] = brief[j]
  BY <1>1 DEF Park, IInv, TypeOK, Briefs
<1>4. Distinct'
  BY <1>2 DEF Tidy, Distinct
<1>5. KeptIsAwaited'
  <2> SUFFICES ASSUME NEW r \in Runs, tree[r].kind = "kept" PROVE Awaited(r)'
    BY <1>2 DEF KeptIsAwaited
  <2>1. tree[r].item \in Items /\ brief[pass.item].status = "running"
    BY <1>1, KeptHasItem DEF IInv, Fresh, At, Started
  <2>2. \/ tree[r].item # pass.item /\ brief[tree[r].item].status = "pending"
                                    /\ brief[tree[r].item].resume = r
        \/ tree[r].item = pass.item /\ pass.run = r
    BY <1>1, <2>1 DEF Tidy, KeptIsAwaited, Awaited, At
  <2> QED
    BY <1>2, <1>3, <2>1, <2>2 DEF Awaited
<1>6. ParkedIsAdmitted'
  BY <1>1, <1>2, <1>3 DEF Tidy, ParkedIsAdmitted, At
<1>7. ScanIsFresh' /\ HandIsTidy'
  BY <1>1, <1>2, <1>3 DEF Tidy, ScanIsFresh, HandIsTidy, At
<1> QED
  BY <1>4, <1>5, <1>6, <1>7 DEF Tidy

LEMMA TellTidies == ASSUME IInv, Tidy, Tell PROVE Tidy'
<1>1. /\ pass.pc \in {"claim", "close", "reaped"} /\ pass.item \in Items /\ GoOn
      /\ UNCHANGED <<brief, tree, queue>> /\ queue = {}
  BY DEF Tell, IInv, PassOK, Fresh, Working, At, runVars
<1>2. \A j \in Items : j # pass.item => row'[j] = row[j]
  BY <1>1 DEF Tell, IInv, TypeOK
<1>3. At("close") /\ pass.result = "limit" => row'[pass.item].state = "admitted"
  BY <1>1 DEF Tell, Told, IInv, TypeOK, Rows
<1>4. Distinct'
  BY <1>1 DEF Tidy, Distinct
<1>5. KeptIsAwaited'
  <2>1. At("claim") => pass'.pc = "prepare" /\ pass'.item = pass.item /\ pass'.resume = pass.resume
    BY <1>1, GoesOn DEF At
  <2> QED
    BY <1>1, <2>1 DEF Tidy, KeptIsAwaited, Awaited, At
<1>6. ParkedIsAdmitted'
  <2> SUFFICES ASSUME NEW i \in Items, brief[i].status = "pending", brief[i].resume # None
               PROVE  row'[i].state = "admitted"
    BY <1>1 DEF ParkedIsAdmitted
  <2>1. CASE i # pass.item
    BY <1>2, <2>1 DEF Tidy, ParkedIsAdmitted
  <2>2. CASE i = pass.item
    <3>1. ~At("claim")
      BY <2>2 DEF IInv, Fresh, At, Started
    <3>2. At("close") /\ pass.result = "limit"
      BY <1>1, <2>2, <3>1 DEF Tidy, HandIsTidy, At
    <3> QED
      BY <1>3, <2>2, <3>2
  <2> QED
    BY <2>1, <2>2
<1>7. ScanIsFresh' /\ HandIsTidy'
  <2>1. pass'.pc \in {"off", "prepare", "reap", "scan", "enqueue"}
    BY <1>1, GoesOn
  <2> QED
    BY <1>1, <2>1 DEF Tidy, ScanIsFresh, HandIsTidy, At
<1> QED
  BY <1>4, <1>5, <1>6, <1>7 DEF Tidy

\* A brief appears, or /retry requeues one.
LEMMA RequeueTidies ==
    ASSUME IInv, Patient, Tidy, NEW i \in Items,
           \/ Arrive(i)
           \/ RetryBrief(i)
           \/ Enqueue /\ Post(i)
    PROVE  Tidy'
<1> USE DispatchAssumption
<1>1. UNCHANGED <<tree, queue>> /\ (pass' = pass \/ (At("enqueue") /\ pass'.pc = "scan"))
  BY EmptyHanded DEF Arrive, RetryBrief, Enqueue, passVars, runVars
<1>2. \A j \in Items :
         /\ brief'[j].status = IF j = i THEN "pending" ELSE brief[j].status
         /\ j # i => brief'[j].resume = brief[j].resume /\ row'[j] = row[j]
  <2>1. CASE Post(i)
    BY <2>1, Posted DEF Post, IInv, TypeOK
  <2>2. CASE RetryBrief(i)
    BY <2>2 DEF RetryBrief, NoBrief, IInv, TypeOK
  <2> QED
    BY <2>1, <2>2 DEF Arrive
\* No worktree is kept for it, and nobody has read its resume data.
<1>3. /\ brief[i].status = "pending" => brief[i].resume = None
      /\ pass.pc \in Working => pass.item # i
      /\ brief'[i].resume = brief[i].resume \/ brief'[i].resume = None
      /\ brief'[i].resume = None \/ row'[i].state = "admitted"
  <2>1. CASE Post(i)
    <3>1. brief[i].status = "absent" /\ brief'[i].resume = brief[i].resume /\ row'[i].state = "admitted"
      BY <2>1, Posted DEF Post, IInv, TypeOK
    <3>2. pass.pc \in Working => pass.item # i
      BY <3>1 DEF IInv, PassOK, Fresh, Tidy, HandIsTidy, At, Started, Working
    <3> QED
      BY <3>1, <3>2
  <2>2. CASE RetryBrief(i)
    <3>1. row[i].state = "failed" /\ pass.item # i /\ brief'[i].resume = None
      BY <2>2 DEF RetryBrief, NoBrief, IInv, TypeOK
    <3>2. brief[i].status = "pending" => brief[i].resume = None
      BY <3>1 DEF Tidy, ParkedIsAdmitted
    <3> QED
      BY <3>1, <3>2
  <2> QED
    BY <2>1, <2>2 DEF Arrive
<1>4. Distinct'
  BY <1>1 DEF Tidy, Distinct
<1>5. KeptIsAwaited'
  <2> SUFFICES ASSUME NEW r \in Runs, tree[r].kind = "kept" PROVE Awaited(r)'
    BY <1>1 DEF KeptIsAwaited
  <2>1. tree[r].item \in Items
    BY KeptHasItem
  <2>2. Awaited(r)
    BY DEF Tidy, KeptIsAwaited
  <2> QED
    BY <1>1, <1>2, <1>3, <2>1, <2>2 DEF Awaited, At, Working
<1>6. ParkedIsAdmitted'
  BY <1>1, <1>2, <1>3 DEF Tidy, ParkedIsAdmitted, At
<1>7. ScanIsFresh'
  <2>1. \A b \in queue : b.item \in Items /\ brief[b.item].status = "pending"
    BY DEF IInv, TypeOK, Fresh
  <2>2. At("check") => pass.item \in Items
    BY DEF IInv, PassOK, At, Working
  <2> QED
    BY <1>1, <1>2, <1>3, <2>1, <2>2 DEF Tidy, ScanIsFresh, At, Working
<1>8. HandIsTidy'
  <2>1. At("close") \/ At("reaped") => pass.item \in Items /\ pass.item # i
    BY <1>3 DEF IInv, PassOK, At, Working
  <2> QED
    BY <1>1, <1>2, <2>1 DEF Tidy, HandIsTidy, At
<1> QED
  BY <1>4, <1>5, <1>6, <1>7, <1>8 DEF Tidy

LEMMA ElsewhereTidies ==
    ASSUME IInv, Tidy,
           \/ RetryRow \/ RetryLost
           \/ \E i \in Issues : ClosePR(i)
           \/ \E r \in Runs : OpenPR(r) \/ OrphanEnds(r) \/ KeepExpires(r)
           \/ Pause \/ PauseAtLast \/ Resume \/ LimitLifts \/ Window \/ NewDay
    PROVE  Tidy'
<1>1. UNCHANGED <<brief, pass, queue>>
  BY DEF RetryRow, RetryLost, ClosePR, OpenPR, OrphanEnds, KeepExpires, Pause, PauseAtLast, Resume,
         LimitLifts, Window, NewDay, ledgerVars, passVars
<1>2. \A i \in Items : row[i].state = "admitted" => row'[i].state = "admitted"
  <2>1. CASE row' = row
    BY <2>1
  <2>2. CASE RetryRow \/ NewDay
    <3>1. row \in [Items -> Rows]
      BY DEF IInv, TypeOK
    <3> QED
      BY <2>2, <3>1 DEF RetryRow, NewDay, Rows
  <2> QED
    BY <2>1, <2>2 DEF RetryLost, ClosePR, OpenPR, OrphanEnds, KeepExpires, Pause, PauseAtLast, Resume,
                      LimitLifts, Window, ledgerVars
<1>3. \A r \in Runs : /\ tree'[r].item = tree[r].item
                      /\ tree'[r].kind = "kept" => tree[r].kind = "kept"
                      /\ tree'[r].kind = "plain" \/ tree[r].kind # "plain"
  <2>1. CASE tree' = tree
    BY <2>1
  <2>2. ASSUME NEW r \in Runs, KeepExpires(r) PROVE <1>3
    BY <2>2 DEF KeepExpires, Release, IInv, TypeOK, Trees
  <2> QED
    BY <2>1, <2>2 DEF RetryRow, RetryLost, ClosePR, OpenPR, OrphanEnds, Pause, PauseAtLast, Resume,
                      LimitLifts, Window, NewDay, runVars
<1>4. Distinct'
  BY <1>3 DEF Tidy, Distinct
<1>5. KeptIsAwaited'
  BY <1>1, <1>3 DEF Tidy, KeptIsAwaited, Awaited, At
<1>6. ParkedIsAdmitted'
  BY <1>1, <1>2 DEF Tidy, ParkedIsAdmitted, At
<1>7. ScanIsFresh' /\ HandIsTidy'
  <2>1. At("run") => pass.run \in Runs
    BY DEF IInv, PassOK
  <2> QED
    BY <1>1, <1>3, <2>1 DEF Tidy, ScanIsFresh, HandIsTidy, At
<1> QED
  BY <1>4, <1>5, <1>6, <1>7 DEF Tidy

\* A step that may be one of a mishap uses up what is left of it.
LEMMA LeftCounts ==
    ASSUME IInv, Counted, [Next]_vars
    PROVE  /\ Counted'
           /\ Unharmed' => Unharmed /\ ~Die /\ ~Unknown /\ ~TellLost /\ ~RunEscapes
<1> USE DispatchAssumption
<1>1. left \in [Kinds -> Nat] /\ Budget \in [Kinds -> Nat] /\ {"crash", "fault"} \subseteq Kinds
  BY DEF IInv, TypeOK, Kinds
<1>2. left' = left \/ \E k \in Kinds : Spend(k)
  BY DEF Next, PassStep, Mishap, Outside, vars, Kinds, Spared,
     Begin, ReapBrief, ReapRow, EndReap, Scan, EndPass, Defer, Choose, Unknown, Refuse, MarkRunning,
     Reopen, Create, CreateFails, RunEnds, RunEscapes, UsageLimit, Complete, Fail, Park, Tell,
     TellLost, Enqueue, Die, Arrive, RetryBrief, KeepExpires, RetryRow, RetryLost, ClosePR, OpenPR,
     OrphanEnds, Pause, PauseAtLast, Resume, LimitLifts, Window, NewDay
<1>3. \A k \in Kinds : left'[k] \in Nat /\ left'[k] <= left[k]
  BY <1>1, <1>2, SpendCounts
<1>4. Counted'
  BY <1>1, <1>3 DEF Counted
<1>5. Unharmed' => Unharmed
  BY <1>1, <1>3 DEF Unharmed, Counted
<1>6. Die => left'["crash"] < left["crash"]
  BY <1>1, SpendCounts DEF Die
<1>7. Unknown \/ TellLost \/ RunEscapes => left'["fault"] < left["fault"]
  BY <1>1, SpendCounts DEF Unknown, TellLost, RunEscapes, Spared
<1> QED
  BY <1>1, <1>4, <1>5, <1>6, <1>7 DEF Unharmed, Counted

LEMMA StepTidies ==
    ASSUME IInv, Patient, TidyWhileUnharmed, [Next]_vars
    PROVE  TidyWhileUnharmed'
<1> SUFFICES ASSUME Unharmed' PROVE Tidy'
  BY LeftCounts DEF TidyWhileUnharmed
<1>1. Tidy /\ ~Die /\ ~Unknown /\ ~TellLost /\ ~RunEscapes
  BY LeftCounts DEF TidyWhileUnharmed
<1>2. CASE UNCHANGED vars
  BY <1>1, <1>2 DEF Tidy, Distinct, KeptIsAwaited, Awaited, ParkedIsAdmitted, ScanIsFresh, HandIsTidy,
                    At, vars, ledgerVars, passVars, runVars
<1>3. CASE PassStep
  <2>1. ASSUME NEW i \in Items, ReapBrief(i) \/ ReapRow(i) PROVE Tidy'
    BY <1>1, <2>1, ReapTidies
  <2>2. CASE EndReap \/ Scan \/ EndPass \/ \E b \in queue : Defer(b) \/ Choose(b)
    BY <1>1, <2>2, BetweenRunsTidies
  <2>3. CASE MarkRunning \/ Reopen \/ Create \/ CreateFails
    BY <1>1, <2>3, MarkRunningTidies, ReopenTidies, CreateTidies, CreateFailsTidies
  <2>4. ASSUME NEW status \in {"skipped", "failed"}, Refuse(status) PROVE Tidy'
    BY <1>1, <2>4, RefuseTidies
  <2>5. ASSUME NEW result \in {"pr_open", "done", "failed"}, RunEnds(result) PROVE Tidy'
    BY <1>1, <2>5, RunEndsTidies
  <2>6. CASE Complete \/ Fail \/ Park \/ Tell
    BY <1>1, <2>6, OutcomeTidies, ParkTidies, TellTidies
  <2>7. CASE Enqueue
    <3>1. CASE \E i \in Rounds : Post(i)
      BY <1>1, <2>7, <3>1, RequeueTidies DEF Items
    <3>2. CASE UNCHANGED <<row, brief>>
      <4>1. pass.pc = "enqueue" /\ pass'.pc = "scan" /\ UNCHANGED <<tree, queue>>
        BY <2>7, EmptyHanded DEF Enqueue, At, runVars
      <4>2. ScanIsFresh'
        BY <1>1, <3>2, <4>1 DEF Tidy, ScanIsFresh, At
      <4> QED
        BY <1>1, <3>2, <4>1, <4>2, QuietTidies DEF Quiet
    <3> QED
      BY <2>7, <3>1, <3>2 DEF Enqueue
  <2> QED
    BY <1>3, <2>1, <2>2, <2>3, <2>4, <2>5, <2>6, <2>7 DEF PassStep
<1>4. CASE Mishap
  BY <1>1, <1>4, UsageLimitTidies, ElsewhereTidies DEF Mishap
<1>5. CASE Outside
  <2>1. ASSUME NEW i \in Items, Arrive(i) \/ RetryBrief(i) PROVE Tidy'
    BY <1>1, <2>1, RequeueTidies
  <2> QED
    BY <1>1, <1>5, <2>1, ElsewhereTidies DEF Outside
<1>6. CASE \E p \in Timers \cup Commands : Begin(p)
  BY <1>1, <1>6, BetweenRunsTidies
<1> QED
  BY <1>2, <1>3, <1>4, <1>5, <1>6 DEF Next

(* While a run is going no other worktree of the same brief is left, which *)
(* would hold its branch (sweep_stale), as long as no pass has died and no *)
(* UPDATE was lost.                                                        *)
THEOREM BranchIsFree == ASSUME Patient PROVE Spec => []BranchFree
<1>1. Init => TidyWhileUnharmed
  <2> SUFFICES ASSUME Init PROVE Counted /\ Tidy
    BY DEF TidyWhileUnharmed
  <2> USE DEF Init
  <2>1. Counted
    BY DispatchAssumption DEF Counted
  <2>2. /\ \A i \in Items : brief[i].status = "absent"
        /\ \A r \in Runs : tree[r].item = None /\ tree[r].kind = "none"
        /\ queue = {} /\ pass.pc = "off"
    BY DEF NoBrief, NoTree, NoPass
  <2> HIDE DEF Init
  <2> QED
    BY <2>1, <2>2 DEF Tidy, Distinct, KeptIsAwaited, ParkedIsAdmitted, ScanIsFresh, HandIsTidy, At
<1>2. IInv /\ TidyWhileUnharmed /\ [Next]_vars => TidyWhileUnharmed'
  BY StepTidies
<1>3. IInv /\ TidyWhileUnharmed => BranchFree
  <2> SUFFICES ASSUME IInv, Tidy, At("run"), NEW r \in Runs, tree[r].item = pass.item
               PROVE  r = pass.run
    BY DEF TidyWhileUnharmed, BranchFree
  <2>1. pass.run \in Runs /\ tree[pass.run].item = pass.item /\ pass.item \in Items
    BY DEF IInv, PassOK, Resumes, At, Working
  <2> QED
    BY <2>1, DispatchAssumption DEF Tidy, Distinct
<1> QED
  BY <1>1, <1>2, <1>3, Invariant, PTL DEF Spec

-----------------------------------------------------------------------------
(* Every step of a pass is a step of Queue, or none.                       *)

\* What Queue sees of the pass, by where it is.
HandIsSeen ==
    /\ pass.pc \in {"off", "reap", "scan", "pick", "check", "enqueue"} => InHand = Abstract!Idle
    /\ At("claim") => InHand = [pc |-> "claim", item |-> pass.item, n |-> 1, status |-> "running"]
    /\ pass.pc \in {"prepare", "create", "run", "result"} =>
          InHand = [pc |-> "run", item |-> pass.item, n |-> 1, status |-> "running"]
    /\ pass.pc \in {"close", "reaped"} =>
          InHand = [pc |-> "close", item |-> pass.item, n |-> 1, status |-> Reported(pass.result)]

LEMMA HandSeen == IInv => HandIsSeen
<1> SUFFICES ASSUME PassOK PROVE HandIsSeen
  BY DEF IInv
<1>1. At("claim") => Reported(pass.result) = "running"
  BY DEF PassOK, Started, At, Reported, Shown
<1> QED
  BY <1>1 DEF HandIsSeen, InHand, Abstract!Idle, At

LEMMA HandSeenNext == IInv' => HandIsSeen'
BY HandSeen, PTL

LEMMA VaultSeen ==
    ASSUME brief' \in Files, NEW i \in Items, NEW s,
           \A j \in Items : brief'[j].status = IF j = i THEN s ELSE brief[j].status
    PROVE  VaultView' = [VaultView EXCEPT ![i][1] = Shown(s)]
<1>1. VaultView' = [j \in Items |-> [n \in {1} |-> Shown(brief'[j].status)]]
  BY DEF VaultView
<1>2. [VaultView EXCEPT ![i][1] = Shown(s)]
        = [j \in Items |-> [n \in {1} |-> IF j = i THEN Shown(s) ELSE Shown(brief[j].status)]]
  BY DEF VaultView
<1> QED
  BY <1>1, <1>2

LEMMA NothingSeen ==
    /\ row' = row => LedgerView' = LedgerView
    /\ brief' = brief => VaultView' = VaultView
    /\ pass' = pass => InHand' = InHand
BY DEF LedgerView, VaultView, InHand, At

LEMMA SeenPointwise ==
    ASSUME NEW i \in Items
    PROVE  /\ VaultView[i][1] = Shown(brief[i].status)
           /\ LedgerView[i].state = Shown(row[i].state)
           /\ LedgerView[i].path = IF row[i].path = None THEN None ELSE <<1, row[i].path>>
BY DEF VaultView, LedgerView

LEMMA MarkRunningIsTake == ASSUME IInv, IInv', MarkRunning PROVE Abstract!Take(pass.item, 1)
<1>1. At("check") /\ pass.item \in Items /\ brief[pass.item].status = "pending"
  BY DEF MarkRunning, IInv, PassOK, Fresh, At, Working
<1>2. pass'.pc = "claim" /\ pass'.item = pass.item /\ row' = row /\ retrying' = retrying
  BY DEF MarkRunning, IInv, PassOK, Passes
<1>3. /\ brief' \in Files
      /\ \A j \in Items : brief'[j].status = IF j = pass.item THEN "running" ELSE brief[j].status
  BY <1>1 DEF MarkRunning, IInv, TypeOK, Files, Briefs
<1>4. VaultView' = [VaultView EXCEPT ![pass.item][1] = "running"]
  BY <1>1, <1>3, VaultSeen DEF Shown
<1>5. InHand = Abstract!Idle
  BY <1>1, HandSeen DEF HandIsSeen, At
<1>6. InHand' = [pc |-> "claim", item |-> pass.item, n |-> 1, status |-> "running"]
  BY <1>2, HandSeenNext DEF HandIsSeen, At
<1>7. VaultView[pass.item][1] = "pending"
  BY <1>1, SeenPointwise DEF Shown
<1> QED
  BY <1>2, <1>4, <1>5, <1>6, <1>7, NothingSeen DEF Abstract!Take, Abstract!SetBrief, Abstract!Grab

LEMMA RefuseIsRefuse ==
    ASSUME IInv, IInv', NEW status \in {"skipped", "failed"}, Refuse(status)
    PROVE  Abstract!Refuse(pass.item, 1)
<1>1. At("check") /\ pass.item \in Items /\ brief[pass.item].status = "pending"
  BY DEF Refuse, IInv, PassOK, Fresh, At, Working
<1>2. /\ pass'.pc = "close" /\ pass'.item = pass.item /\ pass'.result = status
      /\ row' = row /\ retrying' = retrying
  BY DEF Refuse, IInv, PassOK, Passes
<1>3. VaultView' = [VaultView EXCEPT ![pass.item][1] = status]
  <2>1. /\ brief' \in Files
        /\ \A j \in Items : brief'[j].status = IF j = pass.item THEN status ELSE brief[j].status
    BY <1>1, StatusIsSet DEF Refuse, IInv, TypeOK, Files
  <2>2. Shown(status) = status
    BY DEF Shown
  <2> QED
    BY <1>1, <2>1, <2>2, VaultSeen
<1>4. InHand = Abstract!Idle
  BY <1>1, HandSeen DEF HandIsSeen, At
<1>5. InHand' = [pc |-> "close", item |-> pass.item, n |-> 1, status |-> status]
  BY <1>2, HandSeenNext DEF HandIsSeen, At, Reported, Shown
<1>6. VaultView[pass.item][1] = "pending"
  BY <1>1, SeenPointwise DEF Shown
<1> QED
  BY <1>2, <1>3, <1>4, <1>5, <1>6, NothingSeen DEF Abstract!Refuse, Abstract!SetBrief, Abstract!Grab

LEMMA ReapBriefIsReapBrief ==
    ASSUME IInv, IInv', NEW i \in Items, ReapBrief(i)
    PROVE  Abstract!ReapBrief(i, 1)
<1>1. At("reap") /\ brief[i].status = "running"
  BY DEF ReapBrief, Zombies
<1>2. /\ pass'.pc = "reaped" /\ pass'.item = i /\ pass'.result = "failed"
      /\ row' = row /\ retrying' = retrying
  BY DEF ReapBrief, NoPass
<1>3. VaultView' = [VaultView EXCEPT ![i][1] = "failed"]
  <2>1. /\ brief' \in Files
        /\ \A j \in Items : brief'[j].status = IF j = i THEN "failed" ELSE brief[j].status
    BY StatusIsSet DEF ReapBrief, Reaped, IInv, TypeOK, Files
  <2> QED
    BY <2>1, VaultSeen DEF Shown
<1>4. InHand = Abstract!Idle
  BY <1>1, HandSeen DEF HandIsSeen, At
<1>5. InHand' = [pc |-> "close", item |-> i, n |-> 1, status |-> "failed"]
  BY <1>2, HandSeenNext DEF HandIsSeen, At, Reported, Shown
<1>6. VaultView[i][1] = "running"
  BY <1>1, SeenPointwise DEF Shown
<1> QED
  BY <1>2, <1>3, <1>4, <1>5, <1>6, NothingSeen
  DEF Abstract!ReapBrief, Abstract!SetBrief, Abstract!Grab

LEMMA ReapRowIsReapRow ==
    ASSUME IInv, NEW i \in Items, ReapRow(i)
    PROVE  Abstract!ReapRow(i)
<1>1. /\ At("reap") /\ row[i].state = "running" /\ \A j \in Items : brief[j].status # "running"
      /\ row' = [row EXCEPT ![i].state = "failed"] /\ UNCHANGED <<brief, retrying, pass>>
  BY DEF ReapRow, Zombies, passVars
<1>2. LedgerView' = [LedgerView EXCEPT ![i].state = "failed"]
  <2>1. /\ \A j \in Items : j # i => row'[j] = row[j]
        /\ row'[i].state = "failed" /\ row'[i].path = row[i].path
    BY <1>1 DEF IInv, TypeOK, Rows
  <2> HIDE <1>1
  <2> QED
    BY <2>1 DEF LedgerView, Shown
<1>3. InHand = Abstract!Idle
  BY <1>1, HandSeen DEF HandIsSeen, At
<1>4. LedgerView[i].state = "running" /\ \A j \in Items, n \in {1} : VaultView[j][n] # "running"
  BY <1>1, SeenPointwise DEF Shown
<1> QED
  BY <1>1, <1>2, <1>3, <1>4, NothingSeen DEF Abstract!ReapRow

LEMMA OutcomeIsFinish ==
    ASSUME IInv, IInv', Complete \/ Fail \/ Park
    PROVE  Abstract!Finish(pass.item, 1)
<1>1. At("result") /\ pass.item \in Items /\ pass \in Passes
  BY DEF Complete, Fail, Park, IInv, PassOK, At, Working
<1>2. row' = row /\ retrying' = retrying
  BY DEF Complete, Fail, Park
<1>3. PICK s \in {"pr_open", "done", "failed", "pending"} :
          /\ brief' \in Files
          /\ \A j \in Items : brief'[j].status = IF j = pass.item THEN s ELSE brief[j].status
          /\ pass'.pc = "close" /\ pass'.item = pass.item /\ Reported(pass'.result) = Shown(s)
  <2>1. CASE Complete
    <3>1. pass'.pc = "close" /\ pass'.item = pass.item /\ pass'.result = pass.result
      BY <1>1, <2>1 DEF Complete, Passes
    <3> QED
      BY <1>1, <2>1, <3>1, StatusIsSet DEF Complete, IInv, TypeOK, Files, Reported
  <2>2. CASE Fail
    <3>1. pass' = [pass EXCEPT !.pc = "close", !.result = "failed"] /\ SetStatus(pass.item, "failed")
      BY <2>2 DEF Fail
    <3>2. pass'.pc = "close" /\ pass'.item = pass.item /\ pass'.result = "failed"
      BY <1>1, <3>1 DEF Passes
    <3> QED
      BY <1>1, <3>1, <3>2, StatusIsSet DEF IInv, TypeOK, Files, Reported
  <2>3. CASE Park
    <3>1. pass'.pc = "close" /\ pass'.item = pass.item /\ pass'.result = "limit"
      BY <1>1, <2>3 DEF Park, Passes
    <3>2. /\ brief' \in Files
          /\ \A j \in Items :
                brief'[j].status = IF j = pass.item THEN "pending" ELSE brief[j].status
      BY <1>1, <2>3 DEF Park, IInv, TypeOK, Files, Briefs, Passes
    <3> QED
      BY <3>1, <3>2 DEF Reported, Shown
  <2> QED
    BY <2>1, <2>2, <2>3
<1>4. VaultView' = [VaultView EXCEPT ![pass.item][1] = Shown(s)]
  BY <1>1, <1>3, VaultSeen
<1>5. InHand = [pc |-> "run", item |-> pass.item, n |-> 1, status |-> "running"]
  BY <1>1, HandSeen DEF HandIsSeen, At
<1>6. InHand' = [pc |-> "close", item |-> pass.item, n |-> 1, status |-> Shown(s)]
  BY <1>3, HandSeenNext DEF HandIsSeen, At
<1>7. Shown(s) \in {"pr_open", "failed", "pending"}
  BY <1>3 DEF Shown
<1> QED
  BY <1>2, <1>4, <1>5, <1>6, <1>7, NothingSeen
  DEF Abstract!Finish, Abstract!Holding, Abstract!SetBrief, Abstract!Grab

\* What the pass has in hand before and after it has told the ledger.
LEMMA GoOnIsNextHand ==
    ASSUME IInv, IInv', pass.pc \in {"claim", "close", "reaped"}, GoOn
    PROVE  /\ InHand.pc \in {"claim", "close"} /\ InHand.item = pass.item /\ InHand.n = 1
           /\ InHand.status = Reported(pass.result)
           /\ Abstract!NextHand
<1>1. CASE At("claim")
  <2>1. pass'.pc = "prepare" /\ pass'.item = pass.item /\ pass.result = "running"
    BY <1>1, GoesOn DEF At, IInv, PassOK, Started
  <2>2. InHand = [pc |-> "claim", item |-> pass.item, n |-> 1, status |-> "running"]
    BY <1>1, HandSeen DEF HandIsSeen
  <2>3. InHand' = [pc |-> "run", item |-> pass.item, n |-> 1, status |-> "running"]
    BY <2>1, HandSeenNext DEF HandIsSeen
  <2> QED
    BY <2>1, <2>2, <2>3 DEF Abstract!NextHand, Reported, Shown
<1>2. CASE ~At("claim")
  <2>1. pass'.pc \in {"off", "reap", "scan", "enqueue"}
    BY <1>2, GoesOn DEF At
  <2>2. InHand = [pc |-> "close", item |-> pass.item, n |-> 1, status |-> Reported(pass.result)]
    BY <1>2, HandSeen DEF HandIsSeen, At
  <2>3. InHand' = Abstract!Idle
    BY <2>1, HandSeenNext DEF HandIsSeen
  <2> QED
    BY <2>2, <2>3 DEF Abstract!NextHand
<1> QED
  BY <1>1, <1>2

LEMMA TellIsMirror == ASSUME IInv, IInv', Tell PROVE Abstract!Mirror
<1> USE DispatchAssumption
<1>1. /\ pass.pc \in {"claim", "close", "reaped"} /\ pass.item \in Items /\ GoOn
      /\ pass.result \in Outcomes \cup {"running", "skipped"}
      /\ brief' = brief /\ retrying' = retrying
  BY DEF Tell, IInv, PassOK, Working, Started, At, Outcomes
<1>2. \A j \in Items : row'[j] = IF j = pass.item THEN Told(row[j], pass.result) ELSE row[j]
  BY <1>1 DEF Tell, IInv, TypeOK
<1> DEFINE i == pass.item
           t == Told(row[i], pass.result)
           status == Reported(pass.result)
<1>3. [state |-> Shown(t.state), path |-> IF t.path = None THEN None ELSE <<1, t.path>>]
        = Abstract!Mirrored(i, 1, status)
  <2>1. row[i] \in Rows /\ LedgerView[i].path = IF row[i].path = None THEN None ELSE <<1, row[i].path>>
    BY <1>1, SeenPointwise DEF IInv, TypeOK
  <2> USE DEF Told, Rows, Reported, Shown, Abstract!Mirrored, Abstract!MirrorState, Abstract!Place,
              Abstract!MovedStatus
  <2>2. CASE pass.result = "running"
    BY <2>1, <2>2
  <2>3. CASE pass.result = "limit"
    BY <2>1, <2>3
  <2>4. CASE pass.result = "failed"
    BY <2>1, <2>4
  <2>5. CASE pass.result = "skipped"
    BY <2>1, <2>5
  <2>6. CASE pass.result \in {"pr_open", "done"}
    BY <2>1, <2>6
  <2> QED
    BY <1>1, <2>2, <2>3, <2>4, <2>5, <2>6 DEF Outcomes
<1>4. LedgerView' = [LedgerView EXCEPT ![i] = Abstract!Mirrored(i, 1, status)]
  <2>1. /\ \A j \in Items : j # i => row'[j] = row[j]
        /\ row'[i] = t
    BY <1>1, <1>2
  <2>2. LedgerView' = [j \in Items |->
            [state |-> Shown(row'[j].state),
             path  |-> IF row'[j].path = None THEN None ELSE <<1, row'[j].path>>]]
    BY DEF LedgerView
  <2>3. \A j \in Items : LedgerView'[j] = IF j = i THEN Abstract!Mirrored(i, 1, status)
                                          ELSE LedgerView[j]
    BY <1>3, <2>1, <2>2 DEF LedgerView
  <2> HIDE DEF t, status
  <2> QED
    BY <2>2, <2>3 DEF LedgerView
<1>5. /\ InHand.pc \in {"claim", "close"} /\ InHand.item = i /\ InHand.n = 1
      /\ InHand.status = status /\ Abstract!NextHand
  BY <1>1, GoOnIsNextHand
<1> QED
  BY <1>1, <1>4, <1>5, NothingSeen DEF Abstract!Mirror

LEMMA TellLostIsMirrorLost == ASSUME IInv, IInv', TellLost PROVE Abstract!MirrorLost
<1>1. /\ pass.pc \in {"claim", "close", "reaped"} /\ GoOn
      /\ row' = row /\ brief' = brief /\ retrying' = retrying
  BY DEF TellLost, ledgerVars
<1> QED
  BY <1>1, GoOnIsNextHand, NothingSeen DEF Abstract!MirrorLost

LEMMA PostIsPost ==
    ASSUME IInv, NEW i \in Items, Post(i), InHand' = InHand, retrying' = retrying
    PROVE  Abstract!Post(i, 1)
<1>1. brief[i].status = "absent" /\ row' = [row EXCEPT ![i] =
                                        [state |-> "admitted", path |-> "todo", claimed |-> FALSE]]
  BY DEF Post
<1>2. VaultView' = [VaultView EXCEPT ![i][1] = "pending"]
  <2>1. /\ brief' \in Files
        /\ \A j \in Items : brief'[j].status = IF j = i THEN "pending" ELSE brief[j].status
    BY Posted
  <2> QED
    BY <2>1, VaultSeen DEF Shown
<1>3. LedgerView' = [LedgerView EXCEPT ![i] = [state |-> "admitted", path |-> <<1, "todo">>]]
  <2>1. /\ \A j \in Items : j # i => row'[j] = row[j]
        /\ row'[i].state = "admitted" /\ row'[i].path = "todo"
    BY <1>1 DEF IInv, TypeOK
  <2> HIDE <1>1
  <2> QED
    BY <2>1, DispatchAssumption DEF LedgerView, Shown
<1>4. VaultView[i][1] = "absent"
  BY <1>1, SeenPointwise DEF Shown
<1> QED
  BY <1>2, <1>3, <1>4 DEF Abstract!Post, Abstract!SetBrief

LEMMA RetryBriefIsRetryBrief ==
    ASSUME IInv, NEW i \in Items, RetryBrief(i)
    PROVE  Abstract!RetryBrief(i)
<1> USE DispatchAssumption
<1>1. /\ retrying = None /\ retrying' = i /\ row[i].state = "failed" /\ row[i].path = "todo"
      /\ brief[i].status \in {"pending", "running", "failed"}
      /\ Patient => pass.item # i
      /\ UNCHANGED <<row, pass>>
  BY DEF RetryBrief, BotBusy, passVars
<1>2. VaultView' = [VaultView EXCEPT ![i][1] = "pending"]
  <2>1. /\ brief' \in Files
        /\ \A j \in Items : brief'[j].status = IF j = i THEN "pending" ELSE brief[j].status
    BY DEF RetryBrief, IInv, TypeOK, Files, Briefs, NoBrief
  <2> QED
    BY <2>1, VaultSeen DEF Shown
<1>3. /\ LedgerView[i].state = "failed" /\ LedgerView[i].path = <<1, "todo">>
      /\ VaultView[i][1] = brief[i].status
  BY <1>1, SeenPointwise DEF Shown
<1>4. Patient => InHand.item # i
  <2>1. pass.pc \in {"off", "reap", "scan", "pick", "enqueue"} \cup Working
    BY DEF IInv, PassOK, Passes
  <2>2. InHand.item \in {pass.item, None}
    BY <2>1, HandSeen DEF HandIsSeen, At, Working, Abstract!Idle
  <2> QED
    BY <1>1, <2>2
<1>5. Abstract!OnDisk(VaultView[i], LedgerView[i].path)
  BY <1>1, <1>3 DEF Abstract!OnDisk, Abstract!Place, Abstract!MovedStatus
<1> QED
  BY <1>1, <1>2, <1>3, <1>4, <1>5, NothingSeen
  DEF Abstract!RetryBrief, Abstract!SetBrief, Abstract!RetryableStates

LEMMA RetryRowIsRetryRow == ASSUME IInv, RetryRow PROVE Abstract!RetryRow
<1>1. /\ retrying \in Items /\ retrying # None /\ retrying' = None
      /\ row' = [row EXCEPT ![retrying].state = "admitted", ![retrying].claimed = FALSE]
      /\ UNCHANGED <<brief, pass>>
  BY DEF RetryRow, passVars, IInv, TypeOK
<1>2. LedgerView' = [LedgerView EXCEPT ![retrying].state = "admitted"]
  <2>1. /\ \A j \in Items : j # retrying => row'[j] = row[j]
        /\ row'[retrying].state = "admitted" /\ row'[retrying].path = row[retrying].path
    BY <1>1 DEF IInv, TypeOK, Rows
  <2> HIDE <1>1
  <2> QED
    BY <2>1 DEF LedgerView, Shown
<1> QED
  BY <1>1, <1>2, NothingSeen DEF Abstract!RetryRow

\* Steps Queue does not see.
LEMMA SameHand ==
    ASSUME IInv, IInv',
           \/ {pass.pc, pass'.pc} \subseteq {"off", "reap", "scan", "pick", "check", "enqueue"}
           \/ /\ {pass.pc, pass'.pc} \subseteq {"prepare", "create", "run", "result"}
              /\ pass'.item = pass.item
           \/ pass' = pass
    PROVE  InHand' = InHand
<1>1. CASE {pass.pc, pass'.pc} \subseteq {"off", "reap", "scan", "pick", "check", "enqueue"}
  BY <1>1, HandSeen, HandSeenNext DEF HandIsSeen, Abstract!Idle
<1>2. CASE /\ {pass.pc, pass'.pc} \subseteq {"prepare", "create", "run", "result"}
           /\ pass'.item = pass.item
  BY <1>2, HandSeen, HandSeenNext DEF HandIsSeen
<1> QED
  BY <1>1, <1>2, NothingSeen

LEMMA PassStepUnseen ==
    ASSUME IInv, IInv',
           \/ \E p \in Timers \cup Commands : Begin(p)
           \/ EndReap \/ Scan \/ EndPass \/ Unknown
           \/ \E b \in queue : Defer(b) \/ Choose(b)
           \/ Reopen \/ Create \/ CreateFails \/ RunEscapes \/ UsageLimit
           \/ \E result \in {"pr_open", "done", "failed"} : RunEnds(result)
    PROVE  UNCHANGED Abstract!qvars
<1>1. UNCHANGED <<row, brief, retrying>>
  BY DEF Begin, EndReap, Scan, EndPass, Unknown, Defer, Choose, Reopen, Create, CreateFails, UsageLimit,
         RunEnds, RunEscapes, ledgerVars
<1> DEFINE Idling == {"off", "reap", "scan", "pick", "check", "enqueue"}
           Running == {"prepare", "create", "run", "result"}
<1>2. InHand' = InHand
  <2>1. ASSUME NEW p \in Timers \cup Commands, Begin(p) PROVE {pass.pc, pass'.pc} \subseteq Idling
    BY <2>1, EmptyHanded DEF Begin, IInv, TypeOK, PassOK, At
  <2>2. CASE EndReap \/ Scan \/ Unknown
    BY <2>2, EmptyHanded, SameHand DEF EndReap, Scan, Unknown, At
  <2>3. CASE EndPass
    BY <2>3, SameHand DEF EndPass, NoPass, At
  <2>4. ASSUME NEW b \in queue, Defer(b) PROVE pass' = pass
    BY <2>4 DEF Defer
  <2>5. ASSUME NEW b \in queue, Choose(b) PROVE {pass.pc, pass'.pc} \subseteq Idling
    BY <2>5 DEF Choose, Visit, NoPass, At
  <2>6. CASE Reopen \/ Create
    <3>1. pass.pc \in {"prepare", "create"} /\ pass \in Passes
      BY <2>6 DEF Reopen, Create, At, IInv, PassOK
    <3>2. CASE \E r \in Runs : \E others : Launch(r, others)
      BY <3>1, <3>2, Launched, SameHand
    <3>3. CASE \/ pass' = [pass EXCEPT !.pc = "create"]
               \/ pass' = [pass EXCEPT !.pc = "result", !.result = "failed"]
      <4>1. pass'.pc \in Running /\ pass'.item = pass.item
        BY <3>1, <3>3 DEF Passes
      <4> QED
        BY <3>1, <4>1, SameHand
    <3>4. Reopen => pass.resume \in Runs
      BY DEF Reopen, CanReopen, IInv, PassOK, Passes
    <3> QED
      BY <2>6, <3>2, <3>3, <3>4 DEF Reopen, Create
  <2>7. CASE CreateFails \/ RunEscapes \/ UsageLimit
    <3>1. pass.pc \in Running /\ pass \in Passes
      BY <2>7 DEF CreateFails, RunEscapes, UsageLimit, At, IInv, PassOK
    <3>2. pass'.pc = "result" /\ pass'.item = pass.item
      BY <2>7, <3>1 DEF CreateFails, RunEscapes, UsageLimit, Passes
    <3> QED
      BY <3>1, <3>2, SameHand
  <2>8. ASSUME NEW result \in {"pr_open", "done", "failed"}, RunEnds(result) PROVE InHand' = InHand
    <3>1. pass.pc = "run" /\ pass'.pc = "result" /\ pass'.item = pass.item
      BY <2>8 DEF RunEnds, At, IInv, PassOK, Passes
    <3> QED
      BY <3>1, SameHand
  <2> QED
    BY <2>1, <2>2, <2>3, <2>4, <2>5, <2>6, <2>7, <2>8, SameHand
<1> QED
  BY <1>1, <1>2, NothingSeen DEF Abstract!qvars

LEMMA OutsideUnseen ==
    ASSUME IInv,
           \/ \E i \in Issues : ClosePR(i)
           \/ \E r \in Runs : OpenPR(r) \/ OrphanEnds(r) \/ KeepExpires(r)
           \/ Pause \/ PauseAtLast \/ Resume \/ LimitLifts \/ Window \/ NewDay
           \/ UNCHANGED vars
    PROVE  UNCHANGED Abstract!qvars
<1>1. UNCHANGED <<brief, retrying, pass>>
  BY DEF ClosePR, OpenPR, OrphanEnds, KeepExpires, Pause, PauseAtLast, Resume, LimitLifts, Window,
         NewDay, ledgerVars, passVars, vars
<1>2. LedgerView' = LedgerView
  <2>1. CASE row' = row
    BY <2>1, NothingSeen
  <2>2. CASE NewDay
    <3>1. \A i \in Items : row'[i].state = row[i].state /\ row'[i].path = row[i].path
      BY <2>2 DEF NewDay, IInv, TypeOK, Rows
    <3> QED
      BY <3>1 DEF LedgerView
  <2> QED
    BY <2>1, <2>2 DEF ClosePR, OpenPR, OrphanEnds, KeepExpires, Pause, PauseAtLast, Resume, LimitLifts,
                      Window, ledgerVars, vars
<1> QED
  BY <1>1, <1>2, NothingSeen DEF Abstract!qvars

LEMMA DieIsDie == ASSUME IInv, IInv', Die PROVE Abstract!Die \/ UNCHANGED Abstract!qvars
<1>1. UNCHANGED <<row, brief, retrying>> /\ pass'.pc = "off"
  BY DEF Die, ledgerVars, NoPass
<1>2. InHand' = Abstract!Idle
  BY <1>1, HandSeenNext DEF HandIsSeen
<1> QED
  BY <1>1, <1>2, NothingSeen DEF Abstract!Die, Abstract!qvars

LEMMA StepImplements ==
    ASSUME IInv, IInv', [Next]_vars
    PROVE  [Abstract!QNext]_(Abstract!qvars)
<1> USE DEF Abstract!QNext
<1>1. CASE PassStep
  <2>1. ASSUME NEW i \in Items, ReapBrief(i) \/ ReapRow(i) PROVE Abstract!QNext
    BY <2>1, ReapBriefIsReapBrief, ReapRowIsReapRow
  <2>2. ASSUME NEW status \in {"skipped", "failed"}, Refuse(status) PROVE Abstract!QNext
    <3>1. pass.item \in Items
      BY <2>2 DEF Refuse, IInv, PassOK, At, Working
    <3> QED
      BY <2>2, <3>1, RefuseIsRefuse
  <2>3. CASE MarkRunning \/ Complete \/ Fail \/ Park
    <3>1. pass.item \in Items
      BY <2>3 DEF MarkRunning, Complete, Fail, Park, IInv, PassOK, At, Working
    <3> QED
      BY <2>3, <3>1, MarkRunningIsTake, OutcomeIsFinish
  <2>4. CASE Tell
    BY <2>4, TellIsMirror
  <2>5. CASE Enqueue
    <3>1. InHand' = InHand /\ retrying' = retrying
      BY <2>5, EmptyHanded, SameHand DEF Enqueue, At
    <3>2. ASSUME NEW i \in Rounds, Post(i) PROVE Abstract!QNext
      BY <3>1, <3>2, PostIsPost DEF Items
    <3>3. CASE UNCHANGED <<row, brief>>
      BY <3>1, <3>3, NothingSeen DEF Abstract!qvars
    <3> QED
      BY <2>5, <3>2, <3>3 DEF Enqueue
  <2> QED
    BY <1>1, <2>1, <2>2, <2>3, <2>4, <2>5, PassStepUnseen DEF PassStep
<1>2. CASE Mishap
  <2>1. CASE RetryLost
    <3>1. retrying # None /\ retrying' = None /\ UNCHANGED <<row, brief, pass>>
      BY <2>1 DEF RetryLost, passVars
    <3> QED
      BY <3>1, NothingSeen DEF Abstract!RetryLost
  <2> QED
    BY <1>2, <2>1, PassStepUnseen, TellLostIsMirrorLost, DieIsDie DEF Mishap
<1>3. CASE Outside
  <2>1. ASSUME NEW i \in Items, Arrive(i) PROVE Abstract!QNext
    <3>1. Post(i) /\ InHand' = InHand /\ retrying' = retrying
      BY <2>1, NothingSeen DEF Arrive, passVars
    <3> QED
      BY <3>1, PostIsPost
  <2>2. ASSUME NEW i \in Items, RetryBrief(i) PROVE Abstract!QNext
    BY <2>2, RetryBriefIsRetryBrief
  <2> QED
    BY <1>3, <2>1, <2>2, RetryRowIsRetryRow, OutsideUnseen DEF Outside
<1>4. CASE UNCHANGED vars
  BY <1>4, OutsideUnseen
<1>5. CASE \E p \in Timers \cup Commands : Begin(p)
  BY <1>5, PassStepUnseen
<1> QED
  BY <1>1, <1>2, <1>3, <1>4, <1>5 DEF Next

(* A pass does to briefs and rows what Queue says and nothing else, so     *)
(* what AdmissionProofs shows over Queue holds over the real dispatcher.   *)
THEOREM PassImplementsQueue == ASSUME Patient PROVE Spec => ImplementsQueue
<1>1. Init => Abstract!QInit
  <2> SUFFICES ASSUME Init PROVE Abstract!QInit
    OBVIOUS
  <2>1. LedgerView = [i \in Items |-> Abstract!NoRow]
    BY DEF Init, LedgerView, NoRow, Shown, Abstract!NoRow
  <2>2. VaultView = [i \in Items |-> [n \in {1} |-> Abstract!NoBrief]]
    BY DEF Init, VaultView, NoBrief, Shown, Abstract!NoBrief
  <2>3. InHand = Abstract!Idle
    BY DEF Init, InHand, NoPass, Abstract!Idle, At
  <2> QED
    BY <2>1, <2>2, <2>3 DEF Init, Abstract!QInit
<1>2. IInv /\ IInv' /\ [Next]_vars => [Abstract!QNext]_(Abstract!qvars)
  BY StepImplements
<1> QED
  BY <1>1, <1>2, Invariant, PTL DEF Spec, ImplementsQueue, Abstract!QSpec

=============================================================================
