---------------------------- MODULE DispatchValve ----------------------------
(***************************************************************************)
(* Why a repository does not get more open pull requests than              *)
(* max_open_auto_prs (dispatch.py, run_once).  Only a brief that starts    *)
(* afresh is held against the cap; one that resumes goes ahead, and may    *)
(* open its pull request only then.  So what the cap bounds is not the     *)
(* open pull requests but the seats taken: the issues that have one, are   *)
(* parked or are at work.  A fresh brief starts only when no brief is      *)
(* parked, because parked briefs go first (queue_order), and then the open *)
(* pull requests are all the seats there are.                              *)
(***************************************************************************)
EXTENDS DispatchProofs

Busy == {"check", "claim", "prepare", "create", "run", "result"}

IsParked(i) == brief[i].status = "pending" /\ brief[i].resume # None

\* What may lead to an open pull request of i without another look at the cap.
Seated(i) ==
    \/ pr[i] = "open"
    \/ IsParked(i)
    \/ \E b \in queue : b.item = i /\ Parked(b)
    \/ pass.pc \in Busy /\ pass.item = i
    \/ \E r \in live : tree[r].item = i

Seats == {i \in Issues : Seated(i)}

Roomy == IsFiniteSet(Seats) /\ Cardinality(Seats) <= OpenCap

\* The pass knows of every parked brief when it picks the next one...
Lined ==
    At("pick") =>
        \A i \in Items : IsParked(i) => \E b \in queue : b.item = i /\ Parked(b)

\* ...because it has visited none of them before, but the one it has in hand
\* or has just parked.
Excused(i) ==
    /\ pass.item = i
    /\ \/ At("check") /\ pass.resume # None
       \/ At("close") /\ pass.result = "limit"

Unvisited == \A i \in visited : IsParked(i) => Excused(i)

Orderly == Roomy /\ Lined /\ Unvisited

\* A brief that is yet to be written has nothing to resume.
Blank == \A i \in Items : brief[i].status = "absent" => brief[i].resume = None

\* What the cap does not answer for: a parked brief that was put off, a run
\* that went on after the pass had done with it.
Unruly == putOff \/ Strays # {}

Valved == Blank /\ (Unruly \/ Orderly)

-----------------------------------------------------------------------------
LEMMA RoomKept ==
    ASSUME Roomy, \A i \in Issues : Seated(i)' => Seated(i)
    PROVE  Roomy'
PROOF
  <1>1. Seats' \subseteq Seats
    BY DEF Seats
  <1>2. IsFiniteSet(Seats') /\ Cardinality(Seats') <= Cardinality(Seats)
    BY <1>1, FS_Subset DEF Roomy
  <1>3. Cardinality(Seats) \in Nat /\ Cardinality(Seats') \in Nat
    BY <1>2, FS_CardinalityType DEF Roomy
  <1> QED
    BY <1>2, <1>3, DispatchAssumption DEF Roomy

\* Most steps only give seats up.
LEMMA OrderKept ==
    ASSUME IInv, Orderly,
           \A i \in Issues : pr'[i] = "open" \/ IsParked(i)' => Seated(i),
           \A r \in live' : tree'[r].item \in Issues => Seated(tree'[r].item),
           pass'.pc \in Busy /\ pass'.item \in Issues => Seated(pass'.item),
           queue' \subseteq queue,
           Lined', Unvisited'
    PROVE  Orderly'
PROOF
  <1>1. ASSUME NEW i \in Issues, Seated(i)'
        PROVE  Seated(i)
    <2>1. CASE pr'[i] = "open"
      BY <2>1
    <2>2. CASE IsParked(i)'
      BY <2>2
    <2>3. CASE (\E b \in queue : b.item = i /\ Parked(b))'
      BY <2>3 DEF Seated, Parked
    <2>4. CASE pass'.pc \in Busy /\ pass'.item = i
      BY <2>4
    <2>5. CASE \E r \in live' : tree'[r].item = i
      BY <2>5
    <2> QED
      BY <1>1, <2>1, <2>2, <2>3, <2>4, <2>5 DEF Seated
  <1> QED
    BY <1>1, RoomKept DEF Orderly

\* A fresh brief is the first of the queue only when no brief is parked.
LEMMA NoneParked ==
    ASSUME IInv, Orderly, NEW b \in queue, Visit(b), ~Parked(b)
    PROVE  /\ \A c \in queue : ~Parked(c)
           /\ \A i \in Items : ~IsParked(i)
PROOF
  <1>1. ASSUME NEW c \in queue, Parked(c)
        PROVE  FALSE
    <2>1. c \in InWindow(queue) \ {b}
      BY <1>1 DEF Visit, Halted, InWindow, FinishesOpenWork
    <2>2. Before(b, c)
      BY <2>1 DEF Visit, First
    <2>3. Class(c) = 0 /\ Class(b) \in {1, 2}
      BY <1>1 DEF Class
    <2> QED
      BY <2>2, <2>3 DEF Before
  <1>2. At("pick")
    BY DEF Visit
  <1> QED
    BY <1>1, <1>2 DEF Orderly, Lined

\* A step that leaves the pass where it is.
LEMMA AsideOrders ==
    ASSUME IInv, Orderly, UNCHANGED <<pass, queue, visited>>,
           \A i \in Items : IsParked(i)' => IsParked(i),
           \A i \in Issues : pr'[i] = "open" => Seated(i),
           live' \subseteq live, \A r \in Runs : tree'[r].item = tree[r].item
    PROVE  Orderly'
PROOF
  <1>1. \A i \in Issues : pr'[i] = "open" \/ IsParked(i)' => Seated(i)
    BY DEF Seated, Items
  <1>2. \A r \in live' : tree'[r].item \in Issues => Seated(tree'[r].item)
    BY DEF Seated, IInv, TypeOK
  <1>3. pass'.pc \in Busy /\ pass'.item \in Issues => Seated(pass'.item)
    BY DEF Seated
  <1>4. Lined'
    BY DEF Orderly, Lined, At, Parked
  <1>5. visited' \subseteq Items
    BY DEF IInv, TypeOK
  <1>6. Unvisited'
    BY <1>5 DEF Orderly, Unvisited, Excused, At
  <1> QED
    BY <1>1, <1>2, <1>3, <1>4, <1>6, OrderKept

\* A step of the pass that starts no run, parks nothing and is not about the
\* queue.
LEMMA HandOrders ==
    ASSUME IInv, Orderly, pass.pc # "pick", pass'.pc # "pick",
           UNCHANGED <<queue, pr>>, visited' \subseteq visited,
           \A i \in Items : IsParked(i)' => IsParked(i),
           live' \subseteq live,
           \A r \in live' : tree'[r].item \in {tree[r].item, None},
           pass'.pc \in Busy => pass.pc \in Busy /\ pass'.item = pass.item,
           \A i \in visited' : Excused(i) => ~IsParked(i)'
    PROVE  Orderly'
PROOF
  <1>1. \A i \in Issues : pr'[i] = "open" \/ IsParked(i)' => Seated(i)
    BY DEF Seated, Items
  <1>2. \A r \in live' : tree'[r].item \in Issues => Seated(tree'[r].item)
    BY DispatchAssumption DEF Seated, Items
  <1>3. pass'.pc \in Busy /\ pass'.item \in Issues => Seated(pass'.item)
    BY DEF Seated
  <1>4. Lined'
    BY DEF Lined, At
  <1>5. visited' \subseteq Items
    BY DEF IInv, TypeOK
  <1>6. Unvisited'
    BY <1>5 DEF Orderly, Unvisited
  <1> QED
    BY <1>1, <1>2, <1>3, <1>4, <1>6, OrderKept

\* While docker has stopped every container it was asked to.
LEMMA NoneAstray ==
    ASSUME IInv, Strays' = {}, NEW those \in SUBSET live, Spared(those)
    PROVE  those = {}
PROOF
  <1>1. those \subseteq Runs
    BY DEF IInv, TypeOK
  <1> QED
    BY <1>1, SparedStray

LEMMA BeginOrders ==
    ASSUME IInv, Orderly, Strays' = {}, NEW p \in Timers \cup Commands, Begin(p)
    PROVE  Orderly'
PROOF
  <1>1. pass = NoPass /\ pass'.pc = "reap"
    BY DEF IInv, TypeOK, Begin, GoTo, NoPass
  <1>2. UNCHANGED <<brief, queue, visited, tree, pr>> /\ live' = {}
    BY NoneAstray DEF Begin, KillOrphans, ledgerVars
  <1>3. \A i \in Items : IsParked(i)' => IsParked(i)
    BY <1>2 DEF IsParked
  <1>4. \A i : ~Excused(i)
    BY <1>1 DEF Excused, At, NoPass
  <1>5. pass.pc # "pick" /\ pass'.pc \notin Busy
    BY <1>1 DEF Busy, NoPass
  <1> QED
    BY <1>1, <1>2, <1>3, <1>4, <1>5, HandOrders

\* What reaping, refusing, marking and reporting do to the files.
LEMMA FileOrders ==
    ASSUME IInv, Orderly, Blank, UNCHANGED <<queue, visited, pr, live>>,
           \/ \E i \in Items : ReapBrief(i) \/ ReapRow(i)
           \/ EndReap \/ MarkRunning \/ Complete \/ Fail \/ Enqueue
           \/ \E status \in {"skipped", "failed"} : Refuse(status)
    PROVE  Orderly'
PROOF
  <1>1. /\ pass.pc \in {"reap", "check", "result", "enqueue"}
        /\ pass'.pc \in {"reaped", "reap", "scan", "close", "claim"}
        /\ pass'.pc = "claim" => pass.pc = "check" /\ pass'.item = pass.item
    <2>1. pass \in Passes
      BY DEF IInv, PassOK
    <2>2. CASE EndReap \/ Enqueue \/ \E i \in Items : ReapBrief(i) \/ ReapRow(i)
      BY <2>2 DEF ReapBrief, ReapRow, EndReap, Enqueue, At, GoTo, NoPass, passVars
    <2>3. CASE MarkRunning
      BY <2>1, <2>3 DEF Passes, MarkRunning, At
    <2>4. CASE Complete \/ Fail
      BY <2>1, <2>4 DEF Passes, Complete, Fail, At
    <2>5. CASE \E status \in {"skipped", "failed"} : Refuse(status)
      BY <2>1, <2>5 DEF Passes, Refuse, At
    <2> QED
      BY <2>2, <2>3, <2>4, <2>5
  <1>2. ASSUME NEW j \in Items
        PROVE  /\ IsParked(j)' => IsParked(j)
               /\ At("check") /\ j = pass.item => ~IsParked(j)'
    <2>1. brief \in [Items -> Briefs]
      BY DEF IInv, TypeOK
    <2>2. CASE UNCHANGED brief /\ ~At("check")
      BY <2>2 DEF IsParked
    <2>3. ASSUME NEW i \in Items, NEW status \in {"failed", "skipped", "pr_open", "done"},
                 SetStatus(i, status), At("check") => i = pass.item
          PROVE  /\ IsParked(j)' => IsParked(j)
                 /\ At("check") /\ j = pass.item => ~IsParked(j)'
      BY <2>1, <2>3 DEF SetStatus, IsParked, Briefs
    <2>4. CASE MarkRunning
      BY <2>1, <2>4 DEF MarkRunning, IsParked, Briefs
    <2>5. ASSUME NEW i \in Items, Post(i)
          PROVE  IsParked(j)' => IsParked(j)
      BY <2>1, <2>5 DEF Post, SetStatus, IsParked, Briefs, Blank
    <2>6. CASE Enqueue
      BY <2>2, <2>5, <2>6 DEF Enqueue, At, Items
    <2>7. CASE Complete \/ Fail
      <3>1. pass.item \in Items /\ ~At("check")
        BY <2>7 DEF Complete, Fail, IInv, PassOK, At, Working
      <3>2. \E status \in {"failed", "pr_open", "done"} : SetStatus(pass.item, status)
        BY <2>7 DEF Complete, Fail
      <3> QED
        BY <2>3, <3>1, <3>2
    <2>8. ASSUME NEW status \in {"skipped", "failed"}, Refuse(status)
          PROVE  /\ IsParked(j)' => IsParked(j)
                 /\ At("check") /\ j = pass.item => ~IsParked(j)'
      <3>1. pass.item \in Items
        BY <2>8 DEF Refuse, IInv, PassOK, At, Working
      <3> QED
        BY <2>3, <2>8, <3>1 DEF Refuse
    <2>9. ASSUME NEW i \in Items, ReapBrief(i)
          PROVE  /\ IsParked(j)' => IsParked(j)
                 /\ At("check") /\ j = pass.item => ~IsParked(j)'
      BY <2>3, <2>9 DEF ReapBrief, Reaped, At
    <2>10. CASE EndReap \/ \E i \in Items : ReapRow(i)
      BY <2>2, <2>10 DEF EndReap, ReapRow, ledgerVars, At
    <2> QED
      BY <2>4, <2>6, <2>7, <2>8, <2>9, <2>10
  <1>3. \A r \in live' : tree'[r].item \in {tree[r].item, None}
    <2>1. live' \subseteq Runs
      BY DEF IInv, TypeOK
    <2>2. tree \in Shelf
      BY DEF IInv, TypeOK, Shelf
    <2>3. CASE UNCHANGED tree
      BY <2>3
    <2>4. CASE Fail
      BY <2>1, <2>2, <2>4, ReleaseDropsMarkers DEF Fail, LetGo
    <2>5. CASE \E status \in {"skipped", "failed"} : Refuse(status)
      BY <2>1, <2>2, <2>5, ReleaseDropsMarkers DEF Refuse, LetGo
    <2> QED
      BY <2>3, <2>4, <2>5 DEF ReapBrief, ReapRow, EndReap, MarkRunning, Complete, Enqueue, runVars
  <1>4. \A i \in visited' : Excused(i) => ~IsParked(i)'
    <2>1. visited' \subseteq Items
      BY DEF IInv, TypeOK
    <2> QED
      BY <1>1, <1>2, <2>1 DEF Excused, At
  <1> QED
    BY <1>1, <1>2, <1>3, <1>4, HandOrders DEF Busy

\* A container starts, ends or does not come about: in any case the item in
\* hand has its seat.
LEMMA RunOrders ==
    ASSUME IInv, Orderly, Strays = {}, Strays' = {},
           \/ Reopen \/ Create \/ CreateFails \/ UsageLimit
           \/ \E result \in {"pr_open", "done", "failed"} : RunEnds(result)
    PROVE  Orderly'
PROOF
  <1>1. /\ pass.pc \in {"prepare", "create", "run"}
        /\ pass'.pc \in {"create", "run", "result"} /\ pass'.item = pass.item
    <2>1. pass \in Passes
      BY DEF IInv, PassOK
    <2>2. CASE Reopen
      BY <2>1, <2>2 DEF Passes, Reopen, Launch, At
    <2>3. CASE Create
      BY <2>1, <2>3 DEF Passes, Create, Launch, At
    <2>4. CASE CreateFails
      BY <2>1, <2>4 DEF Passes, CreateFails, At
    <2>5. CASE \E result \in {"pr_open", "done", "failed"} : RunEnds(result)
      BY <2>1, <2>5 DEF Passes, RunEnds, At
    <2>6. CASE UsageLimit
      BY <2>1, <2>6 DEF Passes, UsageLimit, At
    <2> QED
      BY <2>2, <2>3, <2>4, <2>5, <2>6
  <1>2. UNCHANGED <<brief, queue, visited, pr>>
    BY DEF Reopen, Create, CreateFails, RunEnds, UsageLimit, ledgerVars
  <1>3. \A r \in live' : tree'[r].item \in {pass.item, None}
    <2>1. tree \in Shelf /\ pass.item \in Items /\ live' \subseteq Runs
      <3>1. live \subseteq Runs /\ tree \in Shelf
        BY DEF IInv, TypeOK, Shelf
      <3>2. pass.item \in Items
        BY <1>1 DEF IInv, PassOK, Working
      <3>3. ASSUME NEW r \in Runs, NEW others \in SUBSET live, Launch(r, others)
            PROVE  live' \subseteq Runs
        BY <3>1, <3>3 DEF Launch
      <3>4. pass.resume \in Runs \cup {None}
        BY DEF IInv, PassOK, Passes
      <3> QED
        BY <3>1, <3>2, <3>3, <3>4
           DEF Reopen, CanReopen, Create, CreateFails, RunEnds, UsageLimit
    <2>2. CASE At("run")
      <3>1. live \subseteq {pass.run} /\ live' = live \ {pass.run}
        BY <2>2 DEF IInv, Alone, Loose, Reopen, Create, CreateFails, RunEnds, UsageLimit, At
      <3> QED
        BY <3>1
    <2>3. CASE ~At("run") /\ live' # {}
      <3>1. live = {}
        BY <1>1, <2>3, AboutToLaunch DEF Loose, At
      <3>2. CASE Create
        <4>1. PICK r \in Runs :
                 /\ tree' = [Swept EXCEPT ![r] = [kind |-> "plain", item |-> pass.item]]
                 /\ \E those \in SUBSET (live \cap Stale) : Launch(r, (live \ Stale) \cup those)
          BY <3>2 DEF Create
        <4>2. live' \subseteq {r}
          BY <3>1, <4>1 DEF Launch
        <4>3. Swept \in Shelf
          BY <2>1, SweepTakesPlain
        <4> QED
          BY <4>1, <4>2, <4>3 DEF Shelf
      <3>3. CASE Reopen
        <4>1. /\ tree' = [tree EXCEPT ![pass.resume].kind = "plain"]
              /\ pass.resume \in Runs /\ Launch(pass.resume, live)
          BY <2>3, <3>1, <3>3 DEF Reopen, CanReopen, IInv, PassOK, Passes
        <4>2. live' \subseteq {pass.resume}
          BY <3>1, <4>1 DEF Launch
        <4>3. tree[pass.resume].item \in {pass.item, None}
          BY <1>1, <4>1, DispatchAssumption DEF IInv, Resumes, Belongs, Working
        <4>4. tree'[pass.resume].item = tree[pass.resume].item
          BY <2>1, <4>1 DEF Shelf, Trees
        <4> QED
          BY <4>2, <4>3, <4>4
      <3> QED
        BY <2>3, <3>1, <3>2, <3>3 DEF CreateFails, RunEnds, UsageLimit
    <2> QED
      BY <2>2, <2>3
  <1>4. \A i \in Issues : pr'[i] = "open" \/ IsParked(i)' => Seated(i)
    BY <1>2 DEF Seated, IsParked
  <1>5. pass.item \in Issues => Seated(pass.item)
    BY <1>1 DEF Seated, Busy
  <1>6. Lined'
    BY <1>1 DEF Lined, At
  <1>7. Unvisited'
    BY <1>1, <1>2 DEF Orderly, Unvisited, Excused, IsParked, At
  <1>8. \A r \in live' : tree'[r].item \in Issues => Seated(tree'[r].item)
    BY <1>3, <1>5, DispatchAssumption DEF Items
  <1> QED
    BY <1>1, <1>2, <1>4, <1>5, <1>6, <1>7, <1>8, OrderKept

LEMMA TellOrders ==
    ASSUME IInv, Orderly, Tell \/ TellLost
    PROVE  Orderly'
PROOF
  <1>1. /\ pass.pc \in {"claim", "close", "reaped"} /\ GoOn
        /\ UNCHANGED <<brief, queue, tree, live, pr>>
    BY DEF Tell, TellLost, ledgerVars, runVars
  <1>2. /\ pass'.pc \in {"off", "prepare", "reap", "enqueue", "scan"}
        /\ pass'.pc = "prepare" => pass.pc = "claim" /\ pass'.item = pass.item
        /\ visited' \subseteq visited
        /\ At("close") /\ pass.result = "limit" => visited' = {}
    <2>1. pass \in Passes
      BY DEF IInv, PassOK
    <2> QED
      BY <1>1, <2>1 DEF Passes, GoOn, GoTo, NoPass, At
  <1>3. \A i \in Items : IsParked(i)' => IsParked(i)
    BY <1>1 DEF IsParked
  <1>4. \A i \in visited' : ~Excused(i)
    BY <1>1, <1>2 DEF Excused, At
  <1> QED
    BY <1>1, <1>2, <1>3, <1>4, HandOrders DEF Busy

\* The brief that is parked keeps the seat its run had.
LEMMA ParkOrders ==
    ASSUME IInv, Orderly, Park
    PROVE  Orderly'
PROOF
  <1>1. pass \in Passes /\ pass.pc = "result" /\ pass.item \in Items
    BY DEF Park, IInv, PassOK, At, Working
  <1>2. pass'.pc = "close" /\ pass'.item = pass.item /\ pass'.result = "limit"
    BY <1>1 DEF Park, Passes
  <1>3. UNCHANGED <<queue, visited, tree, live, pr>>
    BY DEF Park, runVars
  <1>4. \A i \in Items : i # pass.item => (IsParked(i)' => IsParked(i))
    BY <1>1 DEF Park, IsParked, IInv, TypeOK
  <1>5. \A i \in Issues : pr'[i] = "open" \/ IsParked(i)' => Seated(i)
    BY <1>1, <1>3, <1>4 DEF Seated, Busy, Items
  <1>6. \A r \in live' : tree'[r].item \in Issues => Seated(tree'[r].item)
    BY <1>3 DEF Seated
  <1>7. Lined'
    BY <1>2 DEF Lined, At
  <1>8. Unvisited'
    <2>1. visited \subseteq Items
      BY DEF IInv, TypeOK
    <2> QED
      BY <1>1, <1>2, <1>3, <1>4, <2>1 DEF Orderly, Unvisited, Excused, At
  <1> QED
    BY <1>2, <1>3, <1>5, <1>6, <1>7, <1>8, OrderKept DEF Busy

LEMMA ScanOrders ==
    ASSUME IInv, Orderly, Scan
    PROVE  Orderly'
PROOF
  <1> DEFINE Entry(i) == [item |-> i, resume |-> brief[i].resume]
             Found == {i \in Items : brief[i].status = "pending"} \ visited
  <1>1. /\ queue' = {Entry(i) : i \in Found}
        /\ At("scan") /\ pass'.pc = "pick"
        /\ UNCHANGED <<brief, visited, tree, live, pr>>
    BY DEF Scan, GoTo, NoPass, ledgerVars, runVars
  <1>2. \A i \in Items : IsParked(i)' <=> IsParked(i)
    BY <1>1 DEF IsParked
  <1>3. \A i \in visited : ~IsParked(i)
    BY <1>1 DEF Orderly, Unvisited, Excused, At
  <1>4. ASSUME NEW i \in Issues, Seated(i)'
        PROVE  Seated(i)
    <2>1. CASE (\E b \in queue : b.item = i /\ Parked(b))'
      <3>1. PICK b \in queue' : b.item = i /\ Parked(b)
        BY <2>1 DEF Parked
      <3> QED
        BY <1>1, <3>1 DEF Seated, IsParked, Parked
    <2>2. CASE pr'[i] = "open" \/ IsParked(i)' \/ \E r \in live' : tree'[r].item = i
      BY <1>1, <1>2, <2>2 DEF Seated, Items
    <2> QED
      BY <1>1, <1>4, <2>1, <2>2 DEF Seated, Busy
  <1>5. Roomy'
    BY <1>4, RoomKept DEF Orderly
  <1>6. Lined'
    <2> SUFFICES ASSUME NEW i \in Items, IsParked(i)
                 PROVE  (\E b \in queue : b.item = i /\ Parked(b))'
      BY <1>2 DEF Lined
    <2>1. i \in Found
      BY <1>3 DEF IsParked
    <2>2. Entry(i) \in queue' /\ Entry(i).item = i /\ Entry(i).resume # None
      BY <1>1, <2>1 DEF IsParked
    <2> QED
      BY <2>2 DEF Parked
  <1>7. Unvisited'
    <2>1. visited \subseteq Items
      BY DEF IInv, TypeOK
    <2> QED
      BY <1>1, <1>2, <1>3, <2>1 DEF Unvisited
  <1> QED
    BY <1>5, <1>6, <1>7 DEF Orderly

\* The pass ends, or dies.
LEMMA StopOrders ==
    ASSUME IInv, Orderly, EndPass \/ Die
    PROVE  Orderly'
PROOF
  <1>1. /\ queue' = {} /\ visited' = {} /\ pass'.pc = "off"
        /\ UNCHANGED <<brief, tree, live, pr>>
    BY DEF EndPass, Die, NoPass, ledgerVars, runVars
  <1>2. \A i \in Issues : pr'[i] = "open" \/ IsParked(i)' => Seated(i)
    BY <1>1 DEF Seated, IsParked
  <1>3. \A r \in live' : tree'[r].item \in Issues => Seated(tree'[r].item)
    BY <1>1 DEF Seated
  <1>4. Lined' /\ Unvisited'
    BY <1>1 DEF Lined, Unvisited, At
  <1> QED
    BY <1>1, <1>2, <1>3, <1>4, OrderKept DEF Busy

LEMMA DeferOrders ==
    ASSUME IInv, Orderly, NEW b \in queue, Defer(b)
    PROVE  Orderly'
PROOF
  <1>1. /\ Visit(b) /\ ~Parked(b) /\ queue' \subseteq queue
        /\ UNCHANGED <<brief, pass, tree, live, pr>>
    BY DEF Defer, HeldBack, InWindow, ledgerVars, runVars
  <1>2. visited' \subseteq Items
    BY <1>1 DEF Visit, IInv, TypeOK
  <1>3. \A i \in Items : ~IsParked(i)'
    BY <1>1, NoneParked DEF IsParked
  <1>4. \A i \in Issues : pr'[i] = "open" \/ IsParked(i)' => Seated(i)
    BY <1>1, <1>3 DEF Seated, Items
  <1>5. \A r \in live' : tree'[r].item \in Issues => Seated(tree'[r].item)
    BY <1>1 DEF Seated
  <1>6. pass'.pc \in Busy /\ pass'.item \in Issues => Seated(pass'.item)
    BY <1>1 DEF Seated
  <1>7. Lined' /\ Unvisited'
    BY <1>2, <1>3 DEF Lined, Unvisited
  <1> QED
    BY <1>1, <1>4, <1>5, <1>6, <1>7, OrderKept

\* A brief that resumes goes on to its own seat, a review round needs none,
\* and a fresh one takes a free one.
LEMMA ChooseOrders ==
    ASSUME IInv, Orderly, Strays = {}, NEW b \in queue, Choose(b)
    PROVE  Orderly'
PROOF
  <1>1. /\ Visit(b) /\ At("pick") /\ queue' = {} /\ ~HeldBack(b)
        /\ visited' = visited \cup {b.item}
        /\ pass'.pc = "check" /\ pass'.item = b.item /\ pass'.resume = b.resume
        /\ UNCHANGED <<brief, tree, live, pr>>
    BY DEF Choose, Visit, NoPass, ledgerVars, runVars
  <1>2. b.item \in Items /\ visited \subseteq Items
    BY DEF IInv, TypeOK
  <1>3. live' = {}
    BY <1>1 DEF IInv, Alone, Loose, At
  <1>4. \A i \in Items : IsParked(i)' <=> IsParked(i)
    BY <1>1 DEF IsParked
  <1>5. Lined'
    BY <1>1 DEF Lined, At
  <1>6. Unvisited'
    <2>1. CASE Parked(b)
      BY <1>1, <1>2, <1>4, <2>1 DEF Orderly, Unvisited, Excused, Parked, At
    <2>2. CASE ~Parked(b)
      BY <1>1, <1>2, <1>4, <2>2, NoneParked DEF Unvisited
    <2> QED
      BY <2>1, <2>2
  <1>7. CASE Parked(b) \/ b.item \notin Issues
    <2>1. \A i \in Issues : pr'[i] = "open" \/ IsParked(i)' => Seated(i)
      BY <1>1, <1>4 DEF Seated, Items
    <2>2. pass'.item \in Issues => Seated(pass'.item)
      BY <1>1, <1>7 DEF Seated
    <2> QED
      BY <1>1, <1>3, <1>5, <1>6, <2>1, <2>2, OrderKept
  <1>8. CASE ~Parked(b) /\ b.item \in Issues
    <2>1. \A i \in Items : ~IsParked(i)
      BY <1>1, <1>8, NoneParked
    <2>2. Cardinality(OpenPRs) < OpenCap /\ IsFiniteSet(OpenPRs)
      <3>1. OpenPRs \subseteq Seats
        BY DEF OpenPRs, Seats, Seated
      <3>2. IsFiniteSet(OpenPRs)
        BY <3>1, FS_Subset DEF Orderly, Roomy
      <3>3. ~(Cardinality(OpenPRs) >= OpenCap)
        BY <1>1, <1>8 DEF HeldBack, Capped
      <3> QED
        BY <3>2, <3>3, FS_CardinalityType, DispatchAssumption
    <2>3. Seats' \subseteq OpenPRs \cup {b.item}
      BY <1>1, <1>3, <1>4, <2>1 DEF Seats, Seated, OpenPRs, Parked, Items
    <2>4. /\ IsFiniteSet(OpenPRs \cup {b.item})
          /\ Cardinality(OpenPRs \cup {b.item}) <= Cardinality(OpenPRs) + 1
          /\ Cardinality(OpenPRs) \in Nat
      <3>1. Cardinality(OpenPRs) \in Nat
        BY <2>2, FS_CardinalityType
      <3>2. /\ IsFiniteSet(OpenPRs \cup {b.item})
            /\ \/ Cardinality(OpenPRs \cup {b.item}) = Cardinality(OpenPRs)
               \/ Cardinality(OpenPRs \cup {b.item}) = Cardinality(OpenPRs) + 1
        BY <2>2, FS_AddElement, Zenon
      <3> QED
        BY <3>1, <3>2
    <2>5. /\ IsFiniteSet(Seats')
          /\ Cardinality(Seats') <= Cardinality(OpenPRs \cup {b.item})
          /\ Cardinality(Seats') \in Nat /\ Cardinality(OpenPRs \cup {b.item}) \in Nat
      BY <2>3, <2>4, FS_Subset, FS_CardinalityType
    <2>6. Roomy'
      BY <2>2, <2>4, <2>5, DispatchAssumption DEF Roomy
    <2> QED
      BY <1>5, <1>6, <2>6 DEF Orderly
  <1> QED
    BY <1>7, <1>8

\* GitHub did not answer, about a brief that is not parked.
LEMMA UnknownOrders ==
    ASSUME IInv, Orderly, Unknown, ~putOff'
    PROVE  Orderly'
PROOF
  <1>1. /\ At("check") /\ pass.resume = None /\ pass'.pc = "scan"
        /\ UNCHANGED <<brief, queue, visited, tree, live, pr>>
    BY DEF Unknown, GoTo, NoPass, ledgerVars, runVars
  <1>2. \A i \in Items : IsParked(i)' => IsParked(i)
    BY <1>1 DEF IsParked
  <1>3. \A i : ~Excused(i)
    BY <1>1 DEF Excused, At
  <1> QED
    BY <1>1, <1>2, <1>3, HandOrders DEF Busy, At

LEMMA OutsideOrders ==
    ASSUME IInv, Orderly, Blank, Strays = {},
           \/ Outside \/ RetryLost
    PROVE  Orderly'
PROOF
  <1>1. UNCHANGED <<pass, queue, visited>>
    BY DEF Outside, RetryLost, Arrive, RetryBrief, ClosePR, OpenPR, OrphanEnds, KeepExpires, RetryRow,
           Pause, PauseAtLast, Resume, LimitLifts, Window, NewDay, passVars
  <1>2. brief \in [Items -> Briefs] /\ tree \in Shelf /\ live \subseteq Runs
    BY DEF IInv, TypeOK, Shelf
  <1>3. \A i \in Items : IsParked(i)' => IsParked(i)
    <2>1. CASE UNCHANGED brief
      BY <2>1 DEF IsParked
    <2>2. CASE \E i \in Items : Arrive(i)
      BY <1>2, <2>2 DEF Arrive, Post, SetStatus, IsParked, Briefs, Blank
    <2>3. CASE \E i \in Items : RetryBrief(i)
      BY <1>2, <2>3 DEF RetryBrief, IsParked, NoBrief
    <2> QED
      BY <2>1, <2>2, <2>3 DEF Outside, RetryLost, ClosePR, OpenPR, OrphanEnds, KeepExpires, RetryRow,
           Pause, PauseAtLast, Resume, LimitLifts, Window, NewDay, ledgerVars
  <1>4. \A i \in Issues : pr'[i] = "open" => Seated(i)
    <2>1. CASE UNCHANGED pr
      BY <2>1 DEF Seated
    <2>2. CASE \E r \in Runs : OpenPR(r)
      BY <2>2 DEF OpenPR, Worker, Seated, IInv, TypeOK
    <2>3. CASE \E i \in Issues : ClosePR(i)
      BY <2>3 DEF ClosePR, Seated, IInv, TypeOK
    <2> QED
      BY <2>1, <2>2, <2>3 DEF Outside, RetryLost, Arrive, RetryBrief, OrphanEnds, KeepExpires, RetryRow,
           Pause, PauseAtLast, Resume, LimitLifts, Window, NewDay, runVars
  <1>5. live' \subseteq live
    BY DEF Outside, RetryLost, Arrive, RetryBrief, ClosePR, OpenPR, OrphanEnds, KeepExpires, RetryRow,
           Pause, PauseAtLast, Resume, LimitLifts, Window, NewDay, runVars
  <1>6. \A r \in Runs : tree'[r].item = tree[r].item
    <2>1. CASE \E r \in Runs : KeepExpires(r)
      BY <1>2, <2>1, ReleaseDropsMarkers DEF KeepExpires
    <2> QED
      BY <2>1 DEF Outside, RetryLost, Arrive, RetryBrief, ClosePR, OpenPR, OrphanEnds, RetryRow,
           Pause, PauseAtLast, Resume, LimitLifts, Window, NewDay, runVars
  <1> QED
    BY <1>1, <1>3, <1>4, <1>5, <1>6, AsideOrders

LEMMA BlankKept ==
    ASSUME IInv, Blank, [Next]_vars
    PROVE  Blank'
PROOF
  <1>1. brief \in [Items -> Briefs]
    BY DEF IInv, TypeOK
  <1>2. CASE UNCHANGED brief
    BY <1>2 DEF Blank
  <1>3. ASSUME NEW i \in Items,
               NEW status \in {"pending", "running", "failed", "skipped", "pr_open", "done"},
               SetStatus(i, status)
        PROVE  Blank'
    BY <1>1, <1>3 DEF SetStatus, Blank, Briefs
  <1>4. CASE MarkRunning \/ Park
    BY <1>1, <1>4 DEF MarkRunning, Park, Blank, Briefs
  <1>5. ASSUME NEW i \in Items, RetryBrief(i)
        PROVE  Blank'
    BY <1>1, <1>5 DEF RetryBrief, Blank, NoBrief
  <1>6. ASSUME NEW i \in Items, ReapBrief(i) \/ Arrive(i) \/ Post(i)
        PROVE  Blank'
    BY <1>3, <1>6 DEF ReapBrief, Reaped, Arrive, Post
  <1>7. CASE Complete \/ Fail \/ \E status \in {"skipped", "failed"} : Refuse(status)
    <2>1. pass.item \in Items
      BY <1>7 DEF Complete, Fail, Refuse, IInv, PassOK, At, Working
    <2> QED
      BY <1>3, <1>7, <2>1 DEF Complete, Fail, Refuse
  <1>8. CASE Enqueue
    BY <1>2, <1>6, <1>8 DEF Enqueue, Items
  <1>9. CASE UNCHANGED vars \/ \E p \in Timers \cup Commands : Begin(p)
    BY <1>2, <1>9 DEF vars, Begin, ledgerVars
  <1>10. CASE PassStep
    BY <1>2, <1>4, <1>6, <1>7, <1>8, <1>10
       DEF PassStep, ReapRow, EndReap, Scan, EndPass, Defer, Choose, Reopen, Create, CreateFails,
           RunEnds, Tell, ledgerVars
  <1>11. CASE Mishap
    BY <1>2, <1>11 DEF Mishap, Unknown, RunEscapes, UsageLimit, TellLost, RetryLost, Die, ledgerVars
  <1>12. CASE Outside
    BY <1>2, <1>5, <1>6, <1>12
       DEF Outside, ClosePR, OpenPR, OrphanEnds, KeepExpires, RetryRow, Pause, PauseAtLast, Resume,
           LimitLifts, Window, NewDay, ledgerVars
  <1> QED
    BY <1>9, <1>10, <1>11, <1>12 DEF Next

LEMMA ValvedStep ==
    ASSUME IInv, Valved, [Next]_vars
    PROVE  Valved'
PROOF
  <1>1. Blank'
    BY BlankKept DEF Valved
  <1>2. Unruly => Unruly'
    <2>1. putOff => putOff'
      BY DEF Next, PassStep, Mishap, Outside, vars, history,
         Begin, ReapBrief, ReapRow, EndReap, Scan, EndPass, Defer, Choose, Unknown, Refuse, Launch,
         MarkRunning, Reopen, Create, CreateFails, RunEnds, RunEscapes, UsageLimit, Complete, Fail,
         Park, Tell, TellLost, Enqueue, Die, Arrive, RetryBrief, KeepExpires, RetryRow, RetryLost,
         ClosePR, OpenPR, OrphanEnds, Pause, PauseAtLast, Resume, LimitLifts, Window, NewDay
    <2>2. stray' = stray \/ \E those \in SUBSET live : Spared(those)
      BY DEF Next, PassStep, Mishap, Outside, vars, history,
         Begin, ReapBrief, ReapRow, EndReap, Scan, EndPass, Defer, Choose, Unknown, Refuse, Launch,
         MarkRunning, Reopen, Create, CreateFails, RunEnds, RunEscapes, UsageLimit, Complete, Fail,
         Park, Tell, TellLost, Enqueue, Die, Arrive, RetryBrief, KeepExpires, RetryRow, RetryLost,
         ClosePR, OpenPR, OrphanEnds, Pause, PauseAtLast, Resume, LimitLifts, Window, NewDay
    <2>3. Strays # {} => Strays' # {}
      <3>1. CASE stray' = stray
        BY <3>1 DEF Strays
      <3>2. CASE \E those \in SUBSET live : Spared(those)
        <4>1. Strays \subseteq Runs
          BY DEF Strays
        <4> QED
          BY <3>2, <4>1, SparedStray
      <3> QED
        BY <2>2, <3>1, <3>2
    <2> QED
      BY <2>1, <2>3 DEF Unruly
  <1>3. CASE ~Unruly /\ ~Unruly'
    <2> SUFFICES Orderly'
      BY <1>1 DEF Valved
    <2>0. Orderly /\ Blank /\ ~putOff' /\ Strays = {} /\ Strays' = {}
      BY <1>3 DEF Valved, Unruly
    <2>1. CASE UNCHANGED vars
      BY <2>0, <2>1 DEF vars, passVars, runVars, ledgerVars, Orderly, Roomy, Seats, Seated, IsParked,
         Parked, Lined, Unvisited, Excused, At
    <2>2. CASE \E p \in Timers \cup Commands : Begin(p)
      BY <2>0, <2>2, BeginOrders
    <2>3. CASE PassStep
      <3>1. CASE \/ \E i \in Items : ReapBrief(i) \/ ReapRow(i)
                 \/ EndReap \/ MarkRunning \/ Complete \/ Fail \/ Enqueue
                 \/ \E status \in {"skipped", "failed"} : Refuse(status)
        <4>1. UNCHANGED <<queue, visited, pr, live>>
          BY <3>1 DEF ReapBrief, ReapRow, EndReap, MarkRunning, Complete, Fail, Enqueue, Refuse,
                      passVars, runVars
        <4> QED
          BY <2>0, <3>1, <4>1, FileOrders
      <3>2. CASE \E b \in queue : Defer(b) \/ Choose(b)
        BY <2>0, <3>2, DeferOrders, ChooseOrders
      <3>3. CASE \/ Reopen \/ Create \/ CreateFails
                 \/ \E result \in {"pr_open", "done", "failed"} : RunEnds(result)
        BY <2>0, <3>3, RunOrders
      <3>4. CASE Scan \/ EndPass \/ Park \/ Tell
        BY <2>0, <3>4, ScanOrders, StopOrders, ParkOrders, TellOrders
      <3> QED
        BY <2>3, <3>1, <3>2, <3>3, <3>4 DEF PassStep
    <2>4. CASE Mishap
      <3>1. ~RunEscapes
        BY <2>0, NoneAstray DEF RunEscapes
      <3> QED
        BY <2>0, <2>4, <3>1, UnknownOrders, RunOrders, TellOrders, OutsideOrders, StopOrders DEF Mishap
    <2>5. CASE Outside
      BY <2>0, <2>5, OutsideOrders
    <2> QED
      BY <2>1, <2>2, <2>3, <2>4, <2>5 DEF Next
  <1> QED
    BY <1>1, <1>2, <1>3 DEF Valved, Unruly

\* "A repo never has more than 3 open automatic PRs" (docs/event-harness.md),
\* whatever passes die and whatever the ledger loses, as long as no parked
\* brief is put off because GitHub does not answer (run_once, still_wanted) and
\* docker stops every container it is asked to (kill_container).
THEOREM ValveHolds ==
    ASSUME Patient
    PROVE  Spec => []Valve
PROOF
  <1>1. Init => Valved
    <2> SUFFICES ASSUME Init PROVE Valved
      OBVIOUS
    <2>1. Seats = {}
      BY DEF Init, Seats, Seated, IsParked, NoBrief, NoPass, Busy, Items
    <2>2. Roomy
      BY <2>1, FS_EmptySet, DispatchAssumption DEF Roomy
    <2>3. Blank /\ Lined /\ Unvisited
      BY DEF Init, Blank, Lined, Unvisited, NoBrief, NoPass, At
    <2> QED
      BY <2>2, <2>3 DEF Valved, Orderly
  <1>2. IInv /\ Valved /\ [Next]_vars => Valved'
    BY ValvedStep
  <1>3. Valved => Valve
    <2> SUFFICES ASSUME Orderly PROVE NeverMore
      BY DEF Valved, Valve, Unruly
    <2>1. OpenPRs \subseteq Seats
      BY DEF OpenPRs, Seats, Seated
    <2>2. /\ Cardinality(OpenPRs) <= Cardinality(Seats)
          /\ Cardinality(OpenPRs) \in Nat /\ Cardinality(Seats) \in Nat
      BY <2>1, FS_Subset, FS_CardinalityType DEF Orderly, Roomy
    <2> QED
      BY <2>2, DispatchAssumption DEF Orderly, Roomy, NeverMore
  <1> QED
    BY <1>1, <1>2, <1>3, Invariant, PTL DEF Spec
=============================================================================
