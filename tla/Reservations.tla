------------------------------ MODULE Reservations ------------------------------
(***************************************************************************)
(* Seats (backend/internal/booking and backend/internal/events): a request *)
(* counts the seats taken and inserts its row in a later statement, with   *)
(* no lock, transaction or constraint that joins the two. Bookings of a    *)
(* resource count those that overlap their window; registrations for an    *)
(* event count all that are not canceled. A behaviour has one of the two   *)
(* desks.                                                                  *)
(***************************************************************************)
EXTENDS Integers, FiniteSets, FiniteSetsExt

CONSTANTS
  Requests,  \* concurrent HTTP requests
  Capacity,  \* seats of the resource, or of the event
  Windows,   \* pairs <<start, end>> that are booked
  Parties,   \* numbers of seats one booking asks for
  RowLimit   \* bound: rows

VARIABLES
  desk,    \* "booking" or "event"
  open,    \* the event is published (a resource stays active)
  rows,    \* bookings, or registrations
  nextId,
  pc, work, \* per request: the statement that comes next, the row it writes
  revived  \* history: registrations that came back from "canceled"

vars == <<desk, open, rows, nextId, pc, work, revived>>

Statuses == {"booked", "checked_in", "completed", "registered", "confirmed", "attended", "canceled"}
Row == [id : Nat, window : Windows, seats : Parties \cup {1}, status : Statuses]
NoRow == [id |-> 0, window |-> CHOOSE w \in Windows : TRUE, seats |-> 1, status |-> "canceled"]

ConstantsOK ==
  /\ IsFiniteSet(Requests) /\ Requests # {} /\ Capacity \in Nat /\ RowLimit \in Nat
  /\ Windows # {} /\ \A w \in Windows : w[1] \in Nat /\ w[2] \in Nat /\ w[1] < w[2]
  /\ IsFiniteSet(Parties) /\ Parties \subseteq Nat \ {0} /\ Parties # {}

TypeOK ==
  /\ desk \in {"booking", "event"} /\ open \in BOOLEAN
  /\ rows \subseteq Row
  /\ nextId \in 1 .. RowLimit + Cardinality(Requests) + 1
  /\ pc \in [Requests -> {"idle", "insert", "set"}]
  /\ work \in [Requests -> Row]
  /\ revived \in Nat

Init ==
  /\ desk \in {"booking", "event"}
  /\ open = TRUE
  /\ rows = {}
  /\ nextId = 1
  /\ pc = [r \in Requests |-> "idle"]
  /\ work = [r \in Requests |-> NoRow]
  /\ revived = 0

Goto(r, label, row) == pc' = [pc EXCEPT ![r] = label] /\ work' = [work EXCEPT ![r] = row]
Finish(r) == Goto(r, "idle", NoRow)

SeatsOf(s) == MapThenSumSet(LAMBDA b : b.seats, s)

-----------------------------------------------------------------------------
(* Bookings *)

Live(b) == b.status \in {"booked", "checked_in"}

\* Mutant: windows that start together, or not at all.
OverlapsSameStart(a, b) == a[1] = b[1]

\* Half-open windows.
Overlaps(a, b) == a[1] < b[2] /\ b[1] < a[2]

FitsCapacity(want) ==
  SeatsOf({b \in rows : Live(b) /\ Overlaps(b.window, want.window)}) + want.seats <= Capacity

\* CreateBooking counts ...
StartBooking(r, w, n) ==
  /\ desk = "booking" /\ pc[r] = "idle" /\ nextId <= RowLimit
  /\ LET want == [id |-> 0, window |-> w, seats |-> n, status |-> "booked"]
     IN FitsCapacity(want) /\ Goto(r, "insert", want)
  /\ UNCHANGED <<desk, open, rows, nextId, revived>>

\* ... and inserts.
InsertRow(r) ==
  /\ pc[r] = "insert"
  /\ rows' = rows \cup {[work[r] EXCEPT !.id = nextId]}
  /\ nextId' = nextId + 1
  /\ Finish(r)
  /\ UNCHANGED <<desk, open, revived>>

BookingMoves == {"booked"} \X {"checked_in", "completed", "canceled"}
           \cup {"checked_in"} \X {"completed", "canceled"}

\* The row version makes the read and the write of SetBookingStatus one step.
SetBookingStatus(b, to) ==
  /\ desk = "booking"
  /\ <<b.status, to>> \in BookingMoves
  /\ rows' = (rows \ {b}) \cup {[b EXCEPT !.status = to]}
  /\ UNCHANGED <<desk, open, nextId, pc, work, revived>>

-----------------------------------------------------------------------------
(* Registrations *)

SeatsTaken == Cardinality({b \in rows : b.status # "canceled"})

\* Register reads the event and its registrations, and inserts (InsertRow).
StartRegistration(r) ==
  /\ desk = "event" /\ pc[r] = "idle" /\ nextId <= RowLimit
  /\ open
  /\ SeatsTaken < Capacity
  /\ Goto(r, "insert", [NoRow EXCEPT !.status = "registered"])
  /\ UNCHANGED <<desk, open, rows, nextId, revived>>

\* SetEventStatus closes or cancels the event.
SetEventStatus ==
  /\ desk = "event" /\ open
  /\ open' = FALSE
  /\ UNCHANGED <<desk, rows, nextId, pc, work, revived>>

RegistrationMoves == {"registered"} \X {"confirmed", "attended", "canceled"}
                \cup {"confirmed"} \X {"attended", "canceled"}

\* SetRegistrationStatus reads the row and asks CanTransition, ...
ReadRegistration(r, b, to) ==
  /\ desk = "event" /\ pc[r] = "idle"
  /\ <<b.status, to>> \in RegistrationMoves
  /\ Goto(r, "set", [b EXCEPT !.status = to])
  /\ UNCHANGED <<desk, open, rows, nextId, revived>>

\* ... and writes without a row version: whatever the row says by now.
WriteRegistration(r) ==
  /\ pc[r] = "set"
  /\ LET b == CHOOSE x \in rows : x.id = work[r].id
     IN /\ rows' = (rows \ {b}) \cup {work[r]}
        /\ revived' = IF b.status = "canceled" /\ work[r].status # "canceled"
                      THEN revived + 1 ELSE revived
  /\ Finish(r)
  /\ UNCHANGED <<desk, open, nextId>>

Next ==
  \/ \E r \in Requests :
       \/ \E w \in Windows, n \in Parties : StartBooking(r, w, n)
       \/ StartRegistration(r) \/ InsertRow(r) \/ WriteRegistration(r)
       \/ \E b \in rows, to \in Statuses : ReadRegistration(r, b, to)
  \/ \E b \in rows, to \in Statuses : SetBookingStatus(b, to)
  \/ SetEventStatus

Spec == Init /\ [][Next]_vars

-----------------------------------------------------------------------------
(* Properties *)

LargestParty == IF desk = "booking" THEN Max(Parties) ELSE 1

\* The seats taken at an instant.
Taken(t) ==
  IF desk = "booking"
  THEN SeatsOf({b \in rows : Live(b) /\ b.window[1] <= t /\ t < b.window[2]})
  ELSE SeatsTaken

\* Racing requests overbook, but no further than one party for each request
\* beside the one that was counted, at every instant; a registration revived by
\* a racing status change comes on top (booking/store.go:109-132,
\* events/store.go:121-143 and 161-180).
OverbookingIsBounded ==
  \A w \in Windows :
    Taken(w[1]) <= Capacity + (Cardinality(Requests) - 1) * LargestParty + revived

-----------------------------------------------------------------------------
(* What the repository says of the code and the code does not do. *)

\* "CreateBooking reserves a window after capacity checks (422 on overlap)"
\* (booking/handler.go:109): seats are never taken twice.
NeverOverbooked == \A w \in Windows : Taken(w[1]) <= Capacity
=============================================================================
