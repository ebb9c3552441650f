------------------------- MODULE ContainerRunProofs -------------------------
(***************************************************************************)
(* The safety properties of ContainerRun, for every length of the wait,    *)
(* the timeout and the silence, and for any number of outside events.      *)
(*                                                                         *)
(* The invariant says where a run can be (Phases), how the looks of the    *)
(* wait follow the log (Looks), and how far the cleaning has come          *)
(* (Cleanup).                                                              *)
(***************************************************************************)
EXTENDS ContainerRun, TLAPS

Watches == [due : Nat, grew : BOOLEAN, growth : Nat, cut : {None, "timeout", "stall"},
            silence : Nat]
Pulls   == [exists : BOOLEAN, review : BOOLEAN, unpushed : BOOLEAN]
Left    == [rc : {0, 1, 124}, stream : Streams, session : BOOLEAN]

Data ==
    /\ clock \in Nat /\ spoke \in Nat
    /\ watch \in Watches /\ pull \in Pulls /\ report \in Left
    /\ parked \in BOOLEAN

Waiting == pc \in {"wait", "poll", "cut"}

Phases ==
    /\ Waiting => proc # "killed" /\ (pc = "wait" <=> watch.cut = None)
    /\ pc \in {"wait", "poll"} => proc # "late"
    /\ pc = "cut" => proc # "exited"
    /\ ~Waiting => \/ watch.cut = None /\ proc = "exited"
                   \/ watch.cut # None /\ proc \in {"late", "killed"}
    /\ proc \in {"exited", "late"} => ~container
    /\ pc = "judge" /\ watch.cut # None => report.rc = 124
    /\ Waiting \/ pc = "judge" => outcome = None /\ ~parked /\ ~resume
    /\ parked \/ resume => watch.cut = None

\* While the run is waited for: the last look was at due - Poll.
Looks ==
    /\ spoke <= clock
    /\ pc = "wait" =>
          /\ clock <= watch.due
          /\ watch.due <= clock + Poll
          /\ watch.due < Timeout + Poll
          /\ watch.growth <= clock
          /\ watch.growth <= spoke + Poll
          /\ ~watch.grew => spoke <= watch.growth
          /\ watch.grew => watch.due <= spoke + Poll
          /\ Stall # 0 => watch.due < watch.growth + Stall + Poll
    /\ pc \in {"poll", "cut"} /\ watch.cut = "timeout" => clock >= Timeout
    /\ watch.cut = "stall" => watch.silence >= Stall

\* What the steps from `step` on have to clean.
ToDo(step) ==
    IF step = "over" THEN {}
    ELSE IF step = "files" THEN {"files"}
    ELSE IF step = "tree" THEN {"tree", "files"}
    ELSE IF step \in {"creds", "keep", "home"} THEN {"home", "tree", "files"}
    ELSE {"remote", "home", "tree", "files"}

Unkilled == Waiting \/ pc \in {"judge", "kill"} \/ "kill" \in failed

Cleanup ==
    /\ mess \subseteq failed \cup ToDo(pc) \cup (IF parked THEN {"tree"} ELSE {})
    /\ ~Hardened => mess \subseteq {"files"} /\ token = "host"
    /\ Hardened /\ "tree" \notin mess => pc \in {"files", "over"} /\ ~parked
    /\ Hardened /\ "home" \notin mess => pc \in {"tree", "files", "over"}
    /\ container => Unkilled
    /\ resume => Hardened /\ (parked \/ "keep" \in failed)
    /\ parked /\ Hardened => resume
    /\ pc \in {"keep", "home", "tree", "files", "over"} /\ failed \cap {"kill", "creds"} = {}
          => token # "copy"

IInv == TypeOK /\ Data /\ Phases /\ Looks /\ Cleanup

-----------------------------------------------------------------------------
LEMMA Nothing == NoReport \in Left /\ NoResult \in Broken /\ Watch.cut = None
<1>1. NoReport \in Left
  BY DEF NoReport, Left, Streams
<1>2. NoResult \in Broken
  BY DEF NoResult, Broken
<1>3. Watch.cut = None
  BY DEF Watch
<1> QED
  BY <1>1, <1>2, <1>3

LEMMA Start == Init => IInv
<1> SUFFICES ASSUME Init PROVE IInv
  OBVIOUS
<1>1. TypeOK
  <2>1. /\ pipeline \in Pipelines /\ proc = "up" /\ container = TRUE /\ result = NoResult
        /\ token \in {"both", "host"} /\ watch = Watch /\ pc = "wait" /\ outcome = None
        /\ resume = FALSE /\ failed = {} /\ left = Budget
    BY DEF Init
  <2>2. left \in 0..Budget
    BY <2>1, RunAssumption
  <2> QED
    BY <2>1, <2>2, Nothing DEF TypeOK
<1> USE RunAssumption DEF Init
<1>5. Data
  <2>1. Watch \in Watches
    BY DEF Watch, Watches
  <2>2. NoReport \in Left
    BY Nothing
  <2>3. pull \in Pulls
    <3>1. PICK old \in BOOLEAN : pull = [exists |-> old, review |-> old, unpushed |-> FALSE]
      OBVIOUS
    <3> HIDE DEF Init
    <3> QED
      BY <3>1 DEF Pulls
  <2> QED
    BY <2>1, <2>2, <2>3 DEF Data
<1>2. Phases
  BY DEF Phases, Waiting, Watch
<1>3. Looks
  BY DEF Looks, Watch
<1>4. Cleanup
  BY DEF Cleanup, ToDo, Unkilled, Waiting, Hardened
<1> QED
  BY <1>1, <1>2, <1>3, <1>4, <1>5 DEF IInv

(* The agent and its container.                                            *)
LEMMA WriteKeeps == IInv /\ Write => IInv'
<1> SUFFICES ASSUME IInv, Write PROVE IInv'
  OBVIOUS
<1>1. /\ watch' \in Watches /\ watch'.due = watch.due /\ watch'.grew = TRUE
      /\ watch'.growth = watch.growth /\ watch'.cut = watch.cut
      /\ watch'.silence = watch.silence
  BY DEF IInv, Data, Watches, Write
<1>2. /\ spoke' = clock /\ pc = "wait" /\ container
      /\ UNCHANGED <<clock, pipeline, proc, container, report, result, pull, token, pc, outcome>>
      /\ UNCHANGED <<mess, parked, resume, failed, left>>
  BY DEF Write, leaves
<1>3. TypeOK'
  BY <1>1, <1>2 DEF IInv, TypeOK
<1>4. Data'
  BY <1>1, <1>2 DEF IInv, Data
<1>5. Phases'
  BY <1>1, <1>2 DEF IInv, Phases, Waiting
<1>6. Looks'
  BY <1>1, <1>2, RunAssumption DEF IInv, Looks, Data, Watches
<1>7. Cleanup'
  BY <1>2 DEF IInv, Cleanup, ToDo, Unkilled, Waiting, Hardened
<1> QED
  BY <1>3, <1>4, <1>5, <1>6, <1>7 DEF IInv

LEMMA WorkKeeps == IInv /\ Work => IInv'
<1> SUFFICES ASSUME IInv, Work PROVE IInv'
  OBVIOUS
<1> USE DEF IInv, Work, time, leaves
<1>1. TypeOK'
  BY DEF TypeOK
<1>5. Data'
  <2>1. pull' \in Pulls
    BY DEF Data, Pulls
  <2> QED
    BY <2>1 DEF Data
<1>2. Phases'
  BY DEF Phases, Waiting
<1>3. Looks'
  BY DEF Looks, Data, Watches
<1>4. Cleanup'
  BY DEF Cleanup, ToDo, Unkilled, Waiting, Hardened
<1> QED
  BY <1>1, <1>2, <1>3, <1>4, <1>5

LEMMA RefreshKeeps == IInv /\ Refresh => IInv'
<1> SUFFICES ASSUME IInv, Refresh PROVE IInv'
  OBVIOUS
<1> USE DEF IInv, Refresh, time, leaves
<1>1. TypeOK'
  BY DEF TypeOK
<1>5. Data'
  BY DEF Data
<1>2. Phases'
  BY DEF Phases, Waiting
<1>3. Looks'
  BY DEF Looks, Data, Watches
<1>4. Cleanup'
  BY DEF Cleanup, ToDo, Unkilled, Waiting, Hardened
<1> QED
  BY <1>1, <1>2, <1>3, <1>4, <1>5

LEMMA ExitKeeps == IInv /\ Exit => IInv'
<1> SUFFICES ASSUME IInv, Exit PROVE IInv'
  OBVIOUS
<1> USE DEF IInv, Exit, time, leaves
<1>1. TypeOK'
  BY DEF TypeOK
<1>5. Data'
  BY DEF Data
<1>2. Phases'
  BY DEF Phases, Waiting
<1>3. Looks'
  BY DEF Looks, Data, Watches
<1>4. Cleanup'
  BY DEF Cleanup, ToDo, Unkilled, Waiting, Hardened
<1> QED
  BY <1>1, <1>2, <1>3, <1>4, <1>5

(* The wait.                                                               *)
LEMMA TickKeeps == IInv /\ Tick => IInv'
<1> SUFFICES ASSUME IInv, Tick PROVE IInv'
  OBVIOUS
<1> USE RunAssumption DEF IInv, Tick, leaves
<1>1. TypeOK'
  BY DEF TypeOK
<1>5. Data'
  BY DEF Data
<1>2. Phases'
  BY DEF Phases, Waiting
<1>3. Looks'
  BY DEF Looks, Data, Watches
<1>4. Cleanup'
  BY DEF Cleanup, ToDo, Unkilled, Waiting, Hardened
<1> QED
  BY <1>1, <1>2, <1>3, <1>4, <1>5

LEMMA OverKeeps ==
    ASSUME IInv, NEW cut \in {None, watch.cut}, Over(cut), Waiting,
           cut = None => proc' = "exited" /\ ~container,
           cut # None => pc = "cut" /\ proc' \in {"late", "killed"} /\ (container => proc' = "killed")
    PROVE  IInv'
<1> USE RunAssumption DEF IInv, Over
<1>1. /\ watch' = [Watch EXCEPT !.cut = cut,
                               !.silence = IF cut = None THEN 0 ELSE watch.silence]
      /\ watch'.cut = cut /\ pc' = "judge" /\ clock' = 0 /\ spoke' = 0
      /\ cut # None => watch'.silence = watch.silence
  BY DEF Watch
<1>2. TypeOK'
  BY <1>1 DEF TypeOK, Watch
<1>6. Data'
  <2>1. watch' = [due |-> Poll, grew |-> FALSE, growth |-> 0, cut |-> cut,
                  silence |-> IF cut = None THEN 0 ELSE watch.silence]
    BY <1>1 DEF Watch
  <2>3. cut \in {None, "timeout", "stall"} /\ watch.silence \in Nat
    BY DEF Data, Watches
  <2>4. watch' \in Watches
    <3> HIDE DEF IInv, Over
    <3> QED
      BY <2>1, <2>3 DEF Watches
  <2>2. report' \in Left
    BY DEF Left
  <2> QED
    BY <1>1, <2>4, <2>2 DEF Data
<1>3. Phases'
  BY <1>1 DEF Phases, Waiting
<1>4. Looks'
  BY <1>1 DEF Looks, Data, Watches, Waiting, Phases
<1>5. Cleanup'
  BY <1>1 DEF Cleanup, ToDo, Unkilled, Waiting, Hardened
<1> QED
  BY <1>2, <1>3, <1>4, <1>5, <1>6

LEMMA ExitedKeeps == IInv /\ Exited => IInv'
BY OverKeeps DEF IInv, Exited, Waiting, Phases

LEMMA SettleKeeps == IInv /\ Settle => IInv'
<1> SUFFICES ASSUME IInv, Settle PROVE IInv'
  OBVIOUS
<1>1. CASE proc = "exited"
  BY <1>1, OverKeeps DEF IInv, Settle, Waiting, Finished, Phases
<1>2. CASE proc # "exited"
  <2>1. /\ pc = "poll" /\ pc' = "cut"
        /\ UNCHANGED <<clock, spoke, pipeline, proc, container, report, result, pull, token>>
        /\ UNCHANGED <<watch, outcome, mess, parked, resume, failed, left>>
    BY <1>2 DEF Settle, Finished, time, leaves
  <2>2. TypeOK' /\ Data'
    BY <2>1 DEF IInv, TypeOK, Data
  <2>3. Phases'
    BY <1>2, <2>1 DEF IInv, Phases, Waiting
  <2>4. Looks'
    BY <2>1 DEF IInv, Looks
  <2>5. Cleanup'
    BY <2>1 DEF IInv, Cleanup, ToDo, Unkilled, Waiting, Hardened
  <2> QED
    BY <2>2, <2>3, <2>4, <2>5 DEF IInv
<1> QED
  BY <1>1, <1>2

LEMMA KillKeeps == IInv /\ Kill => IInv'
<1> SUFFICES ASSUME IInv, Kill PROVE IInv'
  OBVIOUS
<1>1. /\ pc = "cut" /\ Waiting /\ watch.cut # None /\ Over(watch.cut)
      /\ proc' = IF proc = "up" THEN "killed" ELSE proc
      /\ proc \in {"up", "late"} /\ (proc = "late" => ~container)
  BY DEF IInv, TypeOK, Kill, Waiting, Phases
<1>2. proc' \in {"late", "killed"} /\ (container => proc' = "killed")
  BY <1>1
<1> QED
  BY <1>1, <1>2, OverKeeps

LEMMA LookKeeps == IInv /\ Look => IInv'
<1> SUFFICES ASSUME IInv, Look PROVE IInv'
  OBVIOUS
<1> DEFINE growth == Growth(watch.grew, watch.growth)
           cut == Cut(growth)
<1>1. /\ growth \in Nat /\ growth <= clock /\ growth <= spoke + Poll /\ spoke <= growth
      /\ growth = clock \/ growth = watch.growth
      /\ clock \in Nat /\ spoke \in Nat /\ spoke <= clock
  BY RunAssumption DEF IInv, Data, Watches, Looks, Look, Growth
<1>2. /\ cut \in {None, "timeout", "stall"}
      /\ cut = "timeout" => clock >= Timeout
      /\ cut = "stall" => clock - growth >= Stall
      /\ cut = None => clock < Timeout /\ (Stall # 0 => clock - growth < Stall)
  BY <1>1, RunAssumption DEF Cut, Overdue
<1>3. /\ watch' = [due |-> clock + Poll, grew |-> FALSE, growth |-> growth, cut |-> cut,
                   silence |-> clock - spoke]
      /\ pc = "wait" /\ clock = watch.due
      /\ pc' = IF cut = None THEN "wait" ELSE "poll"
      /\ UNCHANGED <<clock, spoke, pipeline, proc, container, report, result, pull, token>>
      /\ UNCHANGED <<outcome, mess, parked, resume, failed, left>>
  BY DEF Look, time, leaves
<1> HIDE DEF growth, cut
<1>4. clock + Poll \in Nat /\ clock - spoke \in Nat
  BY <1>1, RunAssumption
<1>5. /\ watch' \in Watches /\ watch'.due = clock + Poll /\ watch'.grew = FALSE
      /\ watch'.growth = growth /\ watch'.cut = cut /\ watch'.silence = clock - spoke
  BY <1>1, <1>2, <1>3, <1>4 DEF Watches
<1>6. TypeOK'
  BY <1>2, <1>3, <1>5 DEF IInv, TypeOK
<1>7. Data'
  BY <1>3, <1>5 DEF IInv, Data
<1>8. Phases'
  BY <1>3, <1>5 DEF IInv, Phases, Waiting
<1>9. Looks'
  BY <1>1, <1>2, <1>3, <1>5, RunAssumption DEF Looks
<1>10. Cleanup'
  BY <1>3 DEF IInv, Cleanup, ToDo, Unkilled, Waiting, Hardened
<1> QED
  BY <1>6, <1>7, <1>8, <1>9, <1>10 DEF IInv

(* What the run was worth.                                                 *)
LEMMA Order ==
    /\ NextStep("judge") = "kill" /\ NextStep("kill") = "remote"
    /\ NextStep("remote") = "creds" /\ NextStep("creds") = "keep"
    /\ NextStep("keep") = "home" /\ NextStep("home") = "tree"
    /\ NextStep("tree") = "files" /\ NextStep("files") = "over"
BY DEF NextStep

LEMMA EventLeft == left \in 0..Budget /\ Event => left' \in 0..Budget
BY RunAssumption DEF Event

LEMMA JudgeKeeps == IInv /\ Judge => IInv'
<1> SUFFICES ASSUME IInv, Judge PROVE IInv'
  OBVIOUS
<1>1. /\ pc = "judge" /\ pc' = "kill"
      /\ report' = NoReport /\ result' = NoResult
      /\ UNCHANGED <<clock, spoke, pipeline, proc, container, pull, token, watch, mess, failed>>
  BY Order DEF Judge, time
<1>2. /\ outcome' \in {"pr_open", "done", "failed", "aborted", "usage_limit"}
      /\ left' \in 0..Budget
  <2>1. outcome' \in {"pr_open", "done", "failed", "aborted", "usage_limit"}
    BY DEF Judge, Verdict
  <2>2. left' = left \/ Event
    BY DEF Judge
  <2> QED
    BY <2>1, <2>2, EventLeft DEF IInv, TypeOK
<1>3. /\ parked' \in BOOLEAN /\ resume' \in BOOLEAN
      /\ parked' \/ resume' => watch.cut = None
      /\ resume' => parked' /\ Hardened
      /\ parked' /\ Hardened => resume'
  <2>1. CASE AtLimit(EffectiveCode(report.rc, report.stream))
    <3>1. /\ parked' = report.session /\ resume' = (report.session /\ Hardened)
          /\ watch.cut = None
      BY <2>1 DEF Judge, AtLimit
    <3>2. report.session \in BOOLEAN
      BY DEF IInv, Data, Left
    <3> QED
      BY <3>1, <3>2 DEF Hardened
  <2>2. CASE ~AtLimit(EffectiveCode(report.rc, report.stream))
    <3>1. parked' = parked /\ resume' = resume
      BY <2>2 DEF Judge
    <3>2. pc = "judge" /\ ~parked /\ ~resume
      BY DEF Judge, IInv, Phases
    <3> QED
      BY <3>1, <3>2 DEF IInv, Data, TypeOK
  <2> QED
    BY <2>1, <2>2
<1>4. NoReport \in Left /\ NoResult \in Broken
  BY Nothing
<1>5. TypeOK'
  BY <1>1, <1>2, <1>3, <1>4 DEF IInv, TypeOK, Cleaning
<1>6. Data'
  BY <1>1, <1>3, <1>4 DEF IInv, Data
<1>7. Phases'
  BY <1>1, <1>3 DEF IInv, Phases, Waiting
<1>8. Looks'
  BY <1>1 DEF IInv, Looks
<1>9. Cleanup'
  BY <1>1, <1>3 DEF IInv, Phases, Cleanup, ToDo, Unkilled, Waiting, Hardened
<1> QED
  BY <1>5, <1>6, <1>7, <1>8, <1>9 DEF IInv

(* The cleaning: what a step may do, then each of them.                    *)
LEMMA CleanStep ==
    ASSUME IInv, NEW step \in Cleaning, Clean(step)
    PROVE  /\ pc = step /\ pc' = NextStep(step)
           /\ UNCHANGED <<clock, spoke, pipeline, proc, report, result, pull, watch, resume>>
           /\ outcome' \in {outcome, "interrupted"} /\ left' \in 0..Budget
           /\ failed' \in {failed, failed \cup {step}}
           /\ parked' \in {parked, parked /\ step # "keep"} /\ parked' \in BOOLEAN
           /\ container' \in {container, FALSE}
           /\ mess' \in {mess, mess \ {step}}
<1>1. parked \in BOOLEAN /\ left \in 0..Budget /\ container \in BOOLEAN
  BY DEF IInv, Data, TypeOK
<1>2. /\ pc = step /\ pc' = NextStep(step)
      /\ UNCHANGED <<clock, spoke, pipeline, proc, report, result, pull, watch, resume>>
  BY DEF Clean, After, time, leaves
<1>3. /\ outcome' \in {outcome, "interrupted"}
      /\ failed' \in {failed, failed \cup {step}}
      /\ mess' \in {mess, mess \ {step}}
  BY DEF Clean
<1>4. left' \in 0..Budget
  <2>1. left' = left \/ Event
    BY DEF Clean
  <2> QED
    BY <1>1, <2>1, EventLeft
<1>5. parked' \in {parked, parked /\ step # "keep"} /\ parked' \in BOOLEAN
  BY <1>1 DEF Clean
<1>6. container' \in {container, FALSE}
  BY <1>1 DEF Clean
<1> QED
  BY <1>2, <1>3, <1>4, <1>5, <1>6

LEMMA CleanKeepsTypes ==
    ASSUME IInv, NEW step \in Cleaning, Clean(step)
    PROVE  TypeOK' /\ Data' /\ Phases' /\ Looks'
<1>1. pc' \in (Cleaning \cup {"over"}) \ {"kill"} /\ pc \in Cleaning
  BY CleanStep, Order DEF Cleaning
<1>2. token' \in {token, "host"}
  BY DEF Clean, Saved
<1>3. TypeOK'
  BY <1>1, <1>2, CleanStep DEF IInv, TypeOK
<1>4. Data'
  BY CleanStep DEF IInv, Data
<1>5. Phases'
  BY <1>1, CleanStep DEF IInv, Phases, Waiting, Cleaning
<1>6. Looks'
  BY <1>1, CleanStep DEF IInv, Looks, Cleaning
<1> QED
  BY <1>3, <1>4, <1>5, <1>6
LEMMA CleanKeeps == ASSUME IInv, NEW step \in Cleaning, Clean(step) PROVE IInv'
<1>1. TypeOK' /\ Data' /\ Phases' /\ Looks'
  BY CleanKeepsTypes
<1>2. pc = step /\ pc' = NextStep(step) /\ pipeline' = pipeline
  BY CleanStep
<1>3. ToDo(pc) \ {step} \subseteq ToDo(pc')
  BY <1>2, Order DEF ToDo, Cleaning
<1>4. mess' \subseteq failed' \cup ToDo(pc') \cup (IF parked' THEN {"tree"} ELSE {})
  <2>1. mess \subseteq failed \cup ToDo(pc) \cup (IF parked THEN {"tree"} ELSE {})
    BY DEF IInv, Cleanup
  <2>2. CASE step = "keep"
    <3>1. "tree" \in ToDo(pc')
      BY <1>2, <2>2, Order DEF ToDo
    <3>2. mess' \subseteq mess /\ failed \subseteq failed' /\ "keep" \notin ToDo(pc)
      BY <1>2, <2>2, CleanStep DEF ToDo
    <3> QED
      BY <1>3, <2>1, <2>2, <3>1, <3>2
  <2>3. CASE step # "keep"
    <3>1. parked' = parked
      BY <2>3, CleanStep DEF IInv, Data
    <3>2. CASE ~Due(step)
      <4>1. mess' = mess /\ failed' = failed
        BY <3>2 DEF Clean
      <4>2. step \in mess => step \in failed \/ step = "files" \/ step = "tree" \/ ~Hardened \/ step \notin ToDo(pc)
        BY <1>2, <3>2 DEF Due, ToDo, Cleaning
      <4> QED
        BY <1>3, <2>1, <3>1, <3>2, <4>1, <4>2 DEF IInv, Cleanup, Due
    <3>3. CASE Due(step)
      <4>1. step \in failed' \/ step \notin mess' \/ (step = "tree" /\ parked)
        BY <3>3 DEF Clean, Stays
      <4>2. mess' \subseteq mess /\ failed \subseteq failed'
        BY CleanStep
      <4> QED
        BY <1>3, <2>1, <3>1, <4>1, <4>2
    <3> QED
      BY <3>2, <3>3
  <2> QED
    BY <2>2, <2>3
<1>5. (~Hardened => mess \subseteq {"files"} /\ token = "host")'
  BY <1>2, CleanStep DEF IInv, Cleanup, Hardened, Clean, Saved
<1>6. (Hardened /\ "tree" \notin mess => pc \in {"files", "over"} /\ ~parked)'
  BY <1>2, CleanStep, Order DEF IInv, Cleanup, Hardened, Clean, Stays, Cleaning
<1>7. (Hardened /\ "home" \notin mess => pc \in {"tree", "files", "over"})'
  BY <1>2, CleanStep, Order DEF IInv, Cleanup, Hardened, Cleaning
<1>8. (container => Unkilled)'
  BY <1>2, CleanStep, Order DEF IInv, Cleanup, Unkilled, Phases, Waiting, Cleaning, Clean, Due
<1>9. /\ (resume => Hardened /\ (parked \/ "keep" \in failed))'
      /\ (parked /\ Hardened => resume)'
  <2>1. parked' = parked \/ "keep" \in failed'
    <3>1. CASE step = "keep"
      BY <3>1 DEF Clean
    <3>2. CASE step # "keep"
      BY <3>2, CleanStep DEF IInv, Data
    <3> QED
      BY <3>1, <3>2
  <2>2. failed \subseteq failed' /\ resume' = resume /\ (parked' => parked)
    BY CleanStep DEF IInv, Data
  <2> QED
    BY <1>2, <2>1, <2>2 DEF IInv, Cleanup, Hardened
<1>10. (pc \in {"keep", "home", "tree", "files", "over"} /\ failed \cap {"kill", "creds"} = {}
          => token # "copy")'
  BY <1>2, CleanStep, Order DEF IInv, Cleanup, Cleaning, Clean, Due, Saved
<1> QED
  BY <1>1, <1>4, <1>5, <1>6, <1>7, <1>8, <1>9, <1>10 DEF IInv, Cleanup
-----------------------------------------------------------------------------
LEMMA Stutter == IInv /\ UNCHANGED vars => IInv'
BY DEF vars, time, leaves, IInv, TypeOK, Data, Phases, Looks, Cleanup, ToDo, Unkilled, Waiting,
       Hardened

LEMMA Inductive == IInv /\ [Next]_vars => IInv'
BY WriteKeeps, WorkKeeps, RefreshKeeps, ExitKeeps, TickKeeps, ExitedKeeps, LookKeeps, SettleKeeps,
   KillKeeps, JudgeKeeps, CleanKeeps, Stutter DEF Next, HostStep

LEMMA Invariant == Spec => []IInv
BY Start, Inductive, PTL DEF Spec

(* Every variable stays in its range.                                      *)
THEOREM TypesHold == Spec => []TypeOK
<1>1. IInv => TypeOK
  BY DEF IInv
<1> QED
  BY <1>1, Invariant, PTL

(* A run that ended by itself is not cut, one that is cut for silence was  *)
(* silent for as long as that, and one cut for its time had it             *)
(* (dispatch.py:768-799).                                                  *)
THEOREM NoRunIsCutWrongly == Spec => []CutIsRight
<1>1. IInv => CutIsRight
  BY DEF IInv, Phases, Looks, Waiting, CutIsRight
<1> QED
  BY <1>1, Invariant, PTL

(* No client outlives its timeout by more than one look, nor the silence   *)
(* of its log by more than two (dispatch.py:779-799).                      *)
THEOREM RunsEndInTime == Spec => []InTime
<1>1. IInv => InTime
  BY RunAssumption DEF IInv, Data, Watches, Looks, InTime
<1> QED
  BY <1>1, Invariant, PTL

(* A run that a brief names for its resume ended by itself, and its        *)
(* worktree is there unless it could not be kept; a brief that is parked   *)
(* and names none, because only the agent's file speaks of the limit       *)
(* (dispatch.py:2236-2238), leaves no worktree behind but one that could   *)
(* not be removed (dispatch.py:1337-1346).                                 *)
THEOREM ParkedRunsStay == Spec => []ParkedStays
<1>1. IInv => ParkedStays
  <2> SUFFICES ASSUME IInv PROVE ParkedStays
    OBVIOUS
  <2>1. parked \/ resume => proc = "exited" /\ watch.cut = None /\ ~container
    BY DEF IInv, Phases, Waiting
  <2>2. pc = "over" => mess \subseteq failed \cup (IF parked THEN {"tree"} ELSE {})
    BY DEF IInv, Cleanup, ToDo
  <2>3. pc = "over" /\ resume => "tree" \in mess \/ "keep" \in failed
    BY DEF IInv, Cleanup
  <2>4. pc = "over" /\ "tree" \in mess => resume \/ "tree" \in failed
    BY <2>2 DEF IInv, Cleanup
  <2> QED
    BY <2>1, <2>3, <2>4 DEF ParkedStays
<1> QED
  BY <1>1, Invariant, PTL

(* Whatever cleaning steps fail, each of the others has cleaned what it is *)
(* there for (dispatch.py:1319).                                           *)
THEOREM EverythingElseIsClean == Spec => []CleanEnd
<1>1. IInv => CleanEnd
  BY DEF IInv, Cleanup, ToDo, CleanEnd
<1> QED
  BY <1>1, Invariant, PTL

(* No container goes on in a worktree that is gone, unless it could not be *)
(* killed (dispatch.py:1326-1327).                                         *)
THEOREM NoTreeIsPulledAway == Spec => []TreeOutlives
<1>1. IInv => TreeOutlives
  BY DEF IInv, Cleanup, Unkilled, Waiting, TreeOutlives
<1> QED
  BY <1>1, Invariant, PTL

(* A token that the run has rotated is back with the host when the run is  *)
(* over, unless the container could not be killed or the copy failed       *)
(* (dispatch.py:706-708).                                                  *)
THEOREM TokenIsReturned == Spec => []TokenReturns
<1>1. IInv => TokenReturns
  BY DEF IInv, Cleanup, TokenReturns
<1> QED
  BY <1>1, Invariant, PTL

(* What Judge makes a success of: a run that ended well, by its exit code  *)
(* and by the last event of its log.                                       *)
LEMMA SuccessIsSound ==
    ASSUME IInv, pc = "judge", outcome' \in {"pr_open", "done"}, [Next]_vars
    PROVE  /\ Judge /\ proc = "exited" /\ report.rc = 0 /\ report.stream \in {"none", "fine"}
<1>1. outcome = None /\ report \in Left /\ outcome' # outcome
  BY RunAssumption DEF IInv, Phases, Data
<1>2. Judge
  BY <1>1, Order DEF Next, HostStep, Write, Work, Refresh, Exit, Tick, Exited, Look, Settle, Kill,
                     Over, Clean, Cleaning, vars
<1>3. EffectiveCode(report.rc, report.stream) = 0
  BY <1>2 DEF Judge, Verdict
<1>4. report.rc = 0 /\ report.stream \in {"none", "fine"}
  BY <1>1, <1>3 DEF EffectiveCode, Left, Streams
<1> QED
  BY <1>2, <1>4 DEF IInv, Phases, Waiting

(* No failure is reported as a success (dispatch.py:546).                  *)
THEOREM FailuresAreReported == Spec => NoFalseSuccess
<1>1. IInv /\ [Next]_vars =>
          (pc = "judge" /\ outcome' \in {"pr_open", "done"} =>
               proc = "exited" /\ report.rc = 0 /\ report.stream \in {"none", "fine"})
  BY SuccessIsSound
<1> QED
  BY <1>1, Invariant, PTL DEF Spec, NoFalseSuccess
(* A pull request that a person is sent to has its review and nothing of   *)
(* it is left unpushed (dispatch.py:1820-1825), if every call got its      *)
(* answer, the agent wrote "ok" like that, and the number it gave is the   *)
(* one of this pull request.                                               *)
THEOREM PullRequestsAreReviewed == Spec => Reviewed
<1> DEFINE Good == pc = "judge" /\ outcome' = "pr_open" /\ left' = left /\ pull.exists
                   /\ (result \in Broken \/ (result.number = "own" /\ result.status = "ok"))
                       => pull.review /\ ~pull.unpushed
<1>1. IInv /\ [Next]_vars => Good
  <2> SUFFICES ASSUME IInv, [Next]_vars,
                      pc = "judge", outcome' = "pr_open", left' = left, pull.exists,
                      result \in Broken \/ (result.number = "own" /\ result.status = "ok")
               PROVE  pull.review /\ ~pull.unpushed
    OBVIOUS
  <2>1. Judge
    BY SuccessIsSound
  <2>2. left \in Nat /\ ~Event /\ pull \in Pulls /\ result \in Broken \cup Reports
    BY RunAssumption DEF IInv, Data, TypeOK, Event
  <2> DEFINE code == EffectiveCode(report.rc, report.stream)
  <2>3. PICK found \in {pull.exists, FALSE}, answers, good \in BOOLEAN :
           /\ found = pull.exists /\ answers
           /\ outcome' = Verdict(code, Status(Load(code, found), answers, good))
    BY <2>1, <2>2 DEF Judge
  <2> DEFINE data == Load(code, found)
  <2>4. pipeline = "issue-fix" /\ Status(data, answers, good) = "ok"
    BY <2>3 DEF Verdict, Strict
  <2>5. data = LoadStrict(code, found)
    BY <2>4 DEF Load, Strict
  <2>6. data = Violation \/ (data.status = "ok" /\ data.number = "own")
    <3>1. CASE result \in Broken
      <4>1. data = Violation \/ data = [status |-> "ok", number |-> "own"]
        BY <2>5, <3>1 DEF LoadStrict
      <4> HIDE DEF data
      <4> QED
        BY <4>1
    <3>2. CASE result \notin Broken
      BY <2>4, <2>5, <3>2 DEF LoadStrict
    <3> QED
      BY <3>1, <3>2
  <2>7. data.status = "ok" /\ data.number = "own"
    BY <2>4, <2>6 DEF Status, Violation
  <2> HIDE DEF data, code
  <2>8. Verified(data.number, answers, good)
    BY <2>4, <2>7 DEF Status
  <2> QED
    BY <2>3, <2>7, <2>8 DEF Verified
<1> QED
  BY <1>1, Invariant, PTL DEF Spec, Reviewed
=============================================================================
