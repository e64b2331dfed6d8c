---------------------------- MODULE ReadinessMC -----------------------------
(***************************************************************************)
(* Instances of Readiness.  A cadence is one day or two where the code has *)
(* 7 to 30, and the days of the policy shrink with it: the floor of 60 is  *)
(* twice the longest cadence.                                              *)
(***************************************************************************)
EXTENDS Readiness

CONSTANTS w1, w2    \* members

MCRule == [rolling |-> 1, compliant |-> 90,
           adherence |-> 90, attendance |-> 80, savings |-> 80, meetings |-> 2,
           fundWeeks |-> 2, cycles |-> 1, weeks |-> 2, par |-> 0,
           delinquent |-> 1, default |-> 1, lendAfter |-> 1,
           multiple |-> 3, floor |-> 4, attendanceFloor |-> 60, parCeiling |-> 20]
MCFundBins == <<0, 2, 4>>
MCSavingBins == <<0, 60, 80, 90>>

\* The place has no rules of its own.
MCGlobal == [rolling |-> 1, delinquent |-> 1, default |-> 1]

\* Who is expected and what is asked, of a meeting of any date, before the
\* first bylaws or under them.
Rosters == [does |-> {"join", "leave", "bylaws", "meet"}, women |-> {w1, w2}, sums |-> {1, 2},
            cadences |-> {1}, global |-> MCGlobal, starts |-> {1}, meetings |-> 1, until |-> 2,
            backdates |-> TRUE, ahead |-> TRUE]
\* Bylaws from the first day on, dated back and ahead.
Asks == [Rosters EXCEPT !.does = {"join", "bylaws", "meet"}, !.starts = {0, 1}]
\* Loans that fall due, are repaid and are written off.
Books == [does |-> {"meet", "lend", "repay"}, women |-> {w1}, sums |-> {1, 2},
          cadences |-> {1}, global |-> MCGlobal, starts |-> {0}, meetings |-> 1, until |-> 3,
          backdates |-> FALSE, ahead |-> TRUE]
\* The same where the place has rules of its own.
Apart == [Books EXCEPT !.global = [rolling |-> 2, delinquent |-> 0, default |-> 3]]
\* A group that stops meeting, night after night.
Nights == [does |-> {"bylaws", "meet", "refresh"}, women |-> {w1}, sums |-> {1},
           cadences |-> {1, 2}, global |-> MCGlobal, starts |-> {0}, meetings |-> 2, until |-> 6,
           backdates |-> FALSE, ahead |-> TRUE]
\* The same, its till short now and then.
Short == [Nights EXCEPT !.does = {"meet", "miscount", "refresh"}, !.cadences = {1}, !.ahead = FALSE]
MCStudies == {Rosters, Asks, Books, Apart, Nights, Short}
=============================================================================
