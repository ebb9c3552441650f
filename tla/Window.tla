------------------------------- MODULE Window -------------------------------
(***************************************************************************)
(* The run window: what parse_run_window makes of the two times of the     *)
(* configuration, and in_run_window of the time of day.  Dispatch has the  *)
(* pass that asks; there the window just opens and closes.                 *)
(*                                                                         *)
(* Times of day are whole minutes: a window begins and ends on one, so the *)
(* seconds of the present time decide nothing.  The time zone, which takes *)
(* an instant to a time of day, is left out.                               *)
(***************************************************************************)
EXTENDS Integers, TLAPS

Day == 1440
Times == 0..(Day - 1)

\* The value refused with a ValueError.
Invalid == -1

\* A value of the YAML file: a number, a text that reads as hours and minutes,
\* or anything else.
Number(v)  == [form |-> "number", v |-> v, h |-> 0, m |-> 0]
Text(h, m) == [form |-> "text", v |-> 0, h |-> h, m |-> m]
Other      == [form |-> "other", v |-> 0, h |-> 0, m |-> 0]

\* A time as somebody writes it: YAML 1.1 takes an unquoted one for a number
\* in base 60, unless the hour begins with a zero.
Written(h, m, plain) == IF plain /\ h >= 1 THEN Number(60 * h + m) ELSE Text(h, m)

InRange(h, m) == h \in 0..23 /\ m \in 0..59

At(h, m) == IF InRange(h, m) THEN 60 * h + m ELSE Invalid

\* _parse_hhmm.
ParseHHMM(raw) ==
    IF raw.form = "number" /\ raw.v >= 60 THEN At(raw.v \div 60, raw.v % 60)
    ELSE IF raw.form = "text" THEN At(raw.h, raw.m)
    ELSE Invalid

\* parse_run_window, as far as the two times go.
Accepted(start, end) ==
    /\ ParseHHMM(start) # Invalid
    /\ ParseHHMM(end) # Invalid
    /\ ParseHHMM(start) # ParseHHMM(end)

\* in_run_window: from `start` on, before `end`, maybe over midnight.
InRunWindow(start, end, t) ==
    IF start < end THEN start <= t /\ t < end ELSE t >= start \/ t < end

\* The minutes from one time of day to the next time it is another.
Ahead(from, to) == IF from <= to THEN to - from ELSE to - from + Day

-----------------------------------------------------------------------------
(* A time means the same with quotes and without: 19:00, which YAML reads  *)
(* as 1140, and "19:00" (util.py:137-139).                                 *)
THEOREM TimeMeansItself ==
    ASSUME NEW h \in 0..23, NEW m \in 0..59, NEW plain \in BOOLEAN
    PROVE  ParseHHMM(Written(h, m, plain)) = 60 * h + m
<1>1. CASE plain /\ h >= 1
  <2> DEFINE v == 60 * h + m
  <2>1. v \in Int /\ v >= 60 /\ v \div 60 = h /\ v % 60 = m
    BY <1>1
  <2>2. Written(h, m, plain) = Number(v)
    BY <1>1 DEF Written
  <2>3. ParseHHMM(Number(v)) = At(v \div 60, v % 60)
    BY <2>1 DEF ParseHHMM, Number
  <2>4. At(h, m) = 60 * h + m
    BY DEF At, InRange
  <2> QED
    BY <2>1, <2>2, <2>3, <2>4
<1>2. CASE ~(plain /\ h >= 1)
  BY <1>2 DEF Written, Text, ParseHHMM, At, InRange
<1> QED
  BY <1>1, <1>2

(* A bare hour (`start: 19`, which would be 00:19) and a time with seconds *)
(* (which YAML reads as a number of seconds) are refused, never taken for  *)
(* another time (util.py:143-147).                                         *)
THEOREM NoOtherTime ==
    ASSUME NEW n \in Nat, n < 60 \/ n >= Day
    PROVE  ParseHHMM(Number(n)) = Invalid
<1>1. CASE n < 60
  BY <1>1 DEF ParseHHMM, Number
<1>2. CASE n >= Day
  <2>1. n \div 60 >= 24
    BY <1>2 DEF Day
  <2>2. ParseHHMM(Number(n)) = At(n \div 60, n % 60)
    BY <1>2 DEF ParseHHMM, Number, Day
  <2>3. ~InRange(n \div 60, n % 60)
    BY <2>1 DEF InRange
  <2> QED
    BY <2>2, <2>3 DEF At
<1> QED
  BY <1>1, <1>2

(* What is accepted is a pair of times of day.                             *)
LEMMA AcceptedTimes ==
    ASSUME NEW start, NEW end, Accepted(start, end),
           start.form \in {"number", "text", "other"},
           end.form \in {"number", "text", "other"}
    PROVE  /\ ParseHHMM(start) \in Times /\ ParseHHMM(end) \in Times
           /\ ParseHHMM(start) # ParseHHMM(end)
<1>1. ASSUME NEW h, NEW m, At(h, m) # Invalid
      PROVE  At(h, m) \in Times
  BY <1>1 DEF At, InRange, Times, Day
<1>2. ASSUME NEW raw, ParseHHMM(raw) # Invalid, raw.form \in {"number", "text", "other"}
      PROVE  ParseHHMM(raw) \in Times
  <2>1. ParseHHMM(raw) = Invalid \/ \E h, m : ParseHHMM(raw) = At(h, m)
    BY <1>2 DEF ParseHHMM
  <2> QED
    BY <2>1, <1>1, <1>2
<1> QED
  BY <1>2 DEF Accepted

(* The window is the stretch of the clock that begins with `start` and     *)
(* ends before `end`, on whichever side of midnight the two are            *)
(* (util.py:126-127): a time is in it if it comes sooner after `start`     *)
(* than `end` does.                                                        *)
THEOREM WindowIsAStretch ==
    ASSUME NEW start \in Times, NEW end \in Times, start # end, NEW t \in Times
    PROVE  InRunWindow(start, end, t) <=> Ahead(start, t) < Ahead(start, end)
BY DEF InRunWindow, Ahead, Times, Day

(* A window and the one from its end to its start share the day between    *)
(* them: no minute is in both, and none in neither.                        *)
THEOREM WindowsPartTheDay ==
    ASSUME NEW start \in Times, NEW end \in Times, start # end, NEW t \in Times
    PROVE  InRunWindow(start, end, t) <=> ~InRunWindow(end, start, t)
BY DEF InRunWindow, Times, Day

(* Every window that is accepted opens and closes each day: a typo neither *)
(* blocks every run nor lets runs through at any hour (util.py:160-162).   *)
THEOREM AcceptedOpensAndCloses ==
    ASSUME NEW start, NEW end, Accepted(start, end),
           start.form \in {"number", "text", "other"},
           end.form \in {"number", "text", "other"}
    PROVE  /\ \E t \in Times : InRunWindow(ParseHHMM(start), ParseHHMM(end), t)
           /\ \E t \in Times : ~InRunWindow(ParseHHMM(start), ParseHHMM(end), t)
<1> DEFINE s == ParseHHMM(start)
           e == ParseHHMM(end)
<1>1. s \in Times /\ e \in Times /\ s # e
  BY AcceptedTimes
<1> HIDE DEF s, e
<1>2. InRunWindow(s, e, s) /\ ~InRunWindow(s, e, e)
  BY <1>1 DEF InRunWindow, Times, Day
<1>3. (\E t \in Times : InRunWindow(s, e, t)) /\ (\E t \in Times : ~InRunWindow(s, e, t))
  BY <1>1, <1>2
<1> QED
  BY <1>3 DEF s, e
=============================================================================
