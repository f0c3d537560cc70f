------------------------------- MODULE MCLedger -------------------------------
(***************************************************************************)
(* Instances of Ledger for TLC: two journals, overlapping fiscal years,    *)
(* one sale and one purchase that can be posted by hand, one invoice that  *)
(* is posted automatically and two possible closing entries.               *)
(***************************************************************************)
EXTENDS Ledger, TLC

MCAccounts == {"cash", "sales", "cost", "retained"}
MCType == [cash |-> "asset", sales |-> "revenue", cost |-> "expense", retained |-> "equity"]

MCJournals == {"VEN", "OD"}
MCRefs == {"S1", "P1", "INV1", "PAY-1", "CLOSE", "CLOSE2"}

\* Records list their fields in the order TLC sorts them: values shared by two
\* workers are then never rearranged while one of them is read.
Leg(cash, sales, cost, retained) ==
  [retained |-> retained, cash |-> cash, sales |-> sales, cost |-> cost]
Sale(ref, date) ==
  [ref |-> ref, date |-> date, journal |-> "VEN", legs |-> Leg(2, -2, 0, 0)]
Purchase(ref, date) ==
  [ref |-> ref, date |-> date, journal |-> "OD", legs |-> Leg(-1, 0, 1, 0)]
Payroll(ref, date) ==
  [ref |-> ref, date |-> date, journal |-> "OD", legs |-> Leg(-2, 0, 2, 0)]
Closing(y, ref, date) == [ref |-> ref, date |-> date, journal |-> "OD", year |-> y]

CONSTANTS y1, y2, d1, p1

\* Overlapping years: day 2 belongs to both.
OverlapSpan == [y \in {y1, y2} |-> IF y = y1 THEN {1, 2} ELSE {2, 3}]
OneSpan == [y \in {y1} |-> {1, 2}]

\* By hand: a sale on a day of both years and a purchase outside the first.
MCPosts == {Sale("S1", 2), Purchase("P1", 3)}
OneSale == {Sale("S1", 2)}
TwoSales == {Sale("S1", 1), Sale("INV1", 2)}

MCClosings == {Closing(y1, "CLOSE", 2), Closing(y1, "CLOSE2", 1)}
OneClosing == {Closing(y1, "CLOSE", 1)}

ReqSymmetry == Permutations(Reqs)

NoClosings == {}
NoPosts == {}
NoDocEntry == << >>
NoRunEntry == << >>
MCRunEntry == [p \in {p1} |-> Payroll("PAY-1", 2)]
MCDocEntry == [d \in {d1} |-> Sale("INV1", 2)]

ASSUME RunsAreApart
=============================================================================
