------------------------------ MODULE Calendar ------------------------------
(* The months of GET /analytics/trends (routes/analytics.ts): Date.setMonth   *)
(* keeps the day of the month, and a month too short for it runs over into    *)
(* the next one.                                                              *)
EXTENDS Integers

CONSTANTS
  FirstYear, LastYear  \* bound: the days the page is opened on

VARIABLE today

Leap(y) == y % 4 = 0 /\ (y % 100 # 0 \/ y % 400 = 0)

\* Months are numbered through: month m is month m % 12 (0 is January) of
\* year m \div 12.
Length(m) ==
  CASE m % 12 = 1 -> IF Leap(m \div 12) THEN 29 ELSE 28
    [] m % 12 \in {3, 5, 8, 10} -> 30
    [] OTHER -> 31

Init == today = [month |-> 12 * FirstYear, day |-> 1]

Tomorrow ==
  today' = IF today.day < Length(today.month)
           THEN [today EXCEPT !.day = @ + 1]
           ELSE [month |-> today.month + 1, day |-> 1]

Next == today.month \div 12 <= LastYear /\ Tomorrow

Spec == Init /\ [][Next]_today

-----------------------------------------------------------------------------
\* The month of date.setMonth(m).
SetMonth(date, m) == IF date.day <= Length(m) THEN m ELSE m + 1

\* The twelve labels, oldest first, and the first month the query counts.
Label(i) == SetMonth(today, today.month - i)
Growth == {Label(i) : i \in 0 .. 11}
CountedFrom == SetMonth(today, today.month - 11)

(* "Device growth: last 12 months" (analytics.ts:10): each of them is counted *)
(* and is a point of the chart, whatever the day the chart is drawn on.       *)
TrendHasEveryMonth ==
  \A m \in today.month - 11 .. today.month : m \in Growth /\ m >= CountedFrom
=============================================================================
