------------------------------- MODULE Bookings -------------------------------
(* What the campus apps keep for one user: seats booked in the library,     *)
(* courts in sports, the agenda of court bookings, rooms in the classroom   *)
(* schedule, each a collection of documents.  A call that adds one checks   *)
(* the current catalogue, reads the user's documents page by page, and      *)
(* writes; a guest serves one call and the documents have no lock, so that  *)
(* calls of one user (the workers of the Echo scheduler, direct             *)
(* invocations) interleave.  The catalogue is not kept here: an import may  *)
(* put anything there between two reads of it.  Slots end at any time, a    *)
(* call may fail at any of its reads and writes.                            *)
EXTENDS Naturals, FiniteSets

CONSTANTS BookingKinds,   \* the collections of this instance
          BookingIds,     \* document identifiers: random, ordered as strings
          Slots,          \* a seat or court at a time, a room in a period; a
                          \* court booking, for the agenda
          NoSlot,
          BookingCalls,   \* calls of the user that may be under way at once
          BookingPage,    \* documents of one page
          MaxActive       \* bound on the user's bookings

ASSUME BookingAssumption ==
    /\ BookingKinds \subseteq {"seats", "courts", "agenda", "rooms"}
    /\ BookingIds \subseteq Nat \ {0} /\ IsFiniteSet(BookingIds)
    /\ NoSlot \notin Slots /\ IsFiniteSet(BookingCalls)
    /\ BookingPage \in Nat \ {0} /\ MaxActive \in Nat \ {0}

VARIABLES
    bookingKind, \* the collection whose documents these are
    booked,      \* [BookingIds -> [slot, status]]
    over,        \* slots whose end has passed
    booking      \* [BookingCalls -> [at, slot, id, now, after, seen]]: where the call is,
                 \* what it wants, the slots over when it read the clock, how far
                 \* its listing is and what that has counted

bookingVars == <<bookingKind, booked, over, booking>>

Absent == [slot |-> NoSlot, status |-> "absent"]
NoCall == [at |-> "none", slot |-> NoSlot, id |-> 0, now |-> {}, after |-> 0,
           seen |-> 0]

BookingInit ==
    /\ bookingKind \in BookingKinds
    /\ booked = [i \in BookingIds |-> Absent]
    /\ over = {}
    /\ booking = [c \in BookingCalls |-> NoCall]

Documents == {i \in BookingIds : booked[i].status # "absent"}
Unused == BookingIds \ Documents

\* Seats and courts have an end, and what is cancelled or over counts no more.
Timed == bookingKind \in {"seats", "courts"}

\* EffectiveStatus at a time of which "now" tells the slots that are over.
Confirmed(i, now) == booked[i].status = "confirmed" /\ booked[i].slot \notin now

\* What the listing of a call looks for: bookings of the same court, entries of
\* the same court booking, all seats to come, all rooms.
Counted(i, slot, now) ==
    /\ i \in Documents
    /\ Timed => Confirmed(i, now)
    /\ bookingKind \in {"courts", "agenda"} => booked[i].slot = slot

\* How many of them there may be.
Limit == IF bookingKind \in {"courts", "agenda"} THEN 1 ELSE MaxActive

\* Mutant of HasRoom: one too many.
HasRoomForMore(n) == n <= Limit
HasRoom(n) == n < Limit

-----------------------------------------------------------------------------
BookingAt(c, place) == booking[c].at = place
BookingGoesOn(c, call) == booking' = [booking EXCEPT ![c] = call]
BookingEnds(c) == BookingGoesOn(c, NoCall)
BookingsStay == UNCHANGED <<bookingKind, booked, over>>

\* The catalogue offers the slot, of courts with quota left, or the court booking
\* is there; the clock is read once, after that.
BeginBooking(c, slot) ==
    /\ BookingAt(c, "none")
    /\ Timed => slot \notin over
    /\ BookingGoesOn(c, [NoCall EXCEPT !.at = "list", !.slot = slot, !.now = over])
    /\ BookingsStay

\* UserCollection and countAll: pages in the order of the identifiers, until one
\* is not full.  Each page is read at a time of its own.
Rest(c) == {i \in Documents : i > booking[c].after}
Page(c) == {i \in Rest(c) : Cardinality({j \in Rest(c) : j < i}) < BookingPage}
BookingsSeen(c) ==
    booking[c].seen
        + Cardinality({i \in Page(c) : Counted(i, booking[c].slot, booking[c].now)})

ListPage(c) ==
    /\ BookingAt(c, "list") /\ Cardinality(Rest(c)) >= BookingPage
    /\ \E last \in Page(c) :
          /\ \A i \in Page(c) : i <= last
          /\ BookingGoesOn(c, [booking[c] EXCEPT !.after = last, !.seen = BookingsSeen(c)])
    /\ BookingsStay

\* The last page; the agenda returns the entry it finds, the others refuse.
EndList(c) ==
    /\ BookingAt(c, "list") /\ Cardinality(Rest(c)) < BookingPage
    /\ IF HasRoom(BookingsSeen(c))
       THEN BookingGoesOn(c, [booking[c] EXCEPT
                            !.at = IF bookingKind = "seats" THEN "seat" ELSE "put",
                            !.after = 0, !.seen = 0])
       ELSE BookingEnds(c)
    /\ BookingsStay

\* seatFree: one page of the user's bookings, and no other.  That the catalogue
\* calls the seat occupied is one of the failures below.
FirstPage ==
    {i \in Documents : Cardinality({j \in Documents : j < i}) < BookingPage}
CheckSeat(c) ==
    /\ BookingAt(c, "seat")
    /\ IF \E i \in FirstPage : /\ Confirmed(i, booking[c].now)
                               /\ booked[i].slot = booking[c].slot
       THEN BookingEnds(c)
       ELSE BookingGoesOn(c, [booking[c] EXCEPT !.at = "put"])
    /\ BookingsStay

\* The write; the caller may not hear of it.
PutBooking(c, id) ==
    /\ BookingAt(c, "put") /\ id \in Unused
    /\ booked' = [booked EXCEPT ![id] =
                    [slot |-> booking[c].slot, status |-> "confirmed"]]
    /\ BookingEnds(c)
    /\ UNCHANGED <<bookingKind, over>>

\* A cancellation reads the document, and writes it back later.
BeginCancel(c, id) ==
    /\ BookingAt(c, "none") /\ bookingKind # "agenda" /\ booked[id].status = "confirmed"
    /\ Timed => booked[id].slot \notin over
    /\ BookingGoesOn(c, [NoCall EXCEPT !.at = "cancel", !.id = id])
    /\ BookingsStay

PutCancelled(c) ==
    /\ BookingAt(c, "cancel")
    /\ booked' = [booked EXCEPT ![booking[c].id].status = "cancelled"]
    /\ BookingEnds(c)
    /\ UNCHANGED <<bookingKind, over>>

\* A statement fails, the data are refused, or the guest is cut off.
BookingFails(c) == ~BookingAt(c, "none") /\ BookingEnds(c) /\ BookingsStay

SlotEnds(slot) ==
    /\ Timed /\ over' = over \union {slot}
    /\ UNCHANGED <<bookingKind, booked, booking>>

BookingNext ==
    \/ \E slot \in Slots : SlotEnds(slot)
    \/ \E c \in BookingCalls :
          \/ \E slot \in Slots : BeginBooking(c, slot)
          \/ ListPage(c) \/ EndList(c) \/ CheckSeat(c)
          \/ PutCancelled(c) \/ BookingFails(c)
          \/ \E id \in BookingIds : PutBooking(c, id) \/ BeginCancel(c, id)

BookingSpec == BookingInit /\ [][BookingNext]_bookingVars

-----------------------------------------------------------------------------
\* Every variable stays in its domain.
BookingTypeOK ==
    /\ bookingKind \in BookingKinds
    /\ booked \in [BookingIds -> [slot : Slots \union {NoSlot},
                                  status : {"absent", "confirmed", "cancelled"}]]
    /\ over \subseteq Slots
    /\ booking \in [BookingCalls ->
                      [at : {"none", "list", "seat", "put", "cancel"},
                       slot : Slots \union {NoSlot}, id : BookingIds \union {0},
                       now : SUBSET Slots, after : BookingIds \union {0},
                       seen : Nat]]

\* What a user has never exceeds the limit by more than the calls that were
\* under way beside each other: one booking of a court and one agenda entry of
\* a booking, MaxActive seats to come, MaxActive rooms, plus one for every
\* further call.  It is decided from pages read before the write
\* (sports/app/app.go:218, library/app/app.go:218, classroom/app/app.go:172),
\* other calls and cancellations come between two pages, and calls fail
\* half-way and are repeated; with one call at a time, which is what the apps
\* rely on (classroom/app/app.go:170), it is the limit itself.
OverbookingIsBounded ==
    \A slot \in Slots :
        Cardinality({i \in BookingIds : Counted(i, slot, over)})
            < Limit + Cardinality(BookingCalls)
=============================================================================
