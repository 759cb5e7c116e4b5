------------------------------ MODULE Inventory ------------------------------
(***************************************************************************)
(* What the booking provider promises (booking_provider/base.py): it is    *)
(* the inventory, it checks and takes a car in one step, and a customer's  *)
(* change touches nobody else's booking.  No transactions, no locks, no    *)
(* quotes: one step replaces what one customer has booked.                 *)
(***************************************************************************)
EXTENDS Naturals

CONSTANTS
    Customers,      \* who may hold a booking
    Refs,           \* reservation references
    Vehicles,
    Times,          \* the points a rental may start or end at, natural numbers
    NoBooking       \* what a reference stands for until it is issued

VARIABLE booked     \* the booking each reference stands for

\* A car for a half-open window, as the engine compares them.
Slots == {slot \in [vehicle: Vehicles, from: Times, to: Times] : slot.from < slot.to}

Overlap(a, b) == /\ a.vehicle = b.vehicle
                 /\ a.from < b.to
                 /\ b.from < a.to

Booking == [owner: Customers, slot: Slots, status: {"confirmed", "cancelled"}]

Holds(b) == b # NoBooking /\ b.status = "confirmed"

\* No two live bookings are of one car at one moment.
NoClash(b) == \A r1, r2 \in Refs :
    (r1 # r2 /\ Holds(b[r1]) /\ Holds(b[r2])) => ~Overlap(b[r1].slot, b[r2].slot)

Init == booked = [r \in Refs |-> NoBooking]

\* One customer's bookings change, at once: references are issued, moved or
\* cancelled, a cancelled one stays as it is, and the result clashes nowhere.
Change(c) ==
    /\ booked' \in [Refs -> Booking \cup {NoBooking}]
    /\ \A r \in Refs : booked'[r] # booked[r] =>
          /\ booked'[r] # NoBooking /\ booked'[r].owner = c
          /\ booked[r] # NoBooking => booked[r].owner = c /\ Holds(booked[r])
    /\ NoClash(booked')

Next == \E c \in Customers : Change(c)

Spec == Init /\ [][Next]_booked
==============================================================================
