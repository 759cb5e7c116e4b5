------------------------------- MODULE MCFleet -------------------------------
(* A small instance of Fleet for TLC. *)
EXTENDS Fleet, TLC

CONSTANTS urus, huracan, cullinan, porsche, web, worker

Catalogue == <<urus, huracan, cullinan, porsche>>

Listings == {SelectSeq(Catalogue, LAMBDA c : c \in listed) : listed \in SUBSET Cars}

\* The cars are listed in one order, as no car differs from another; the site starts
\* with all of them or all but the first.  Quotes are followed while it stays so.
InOrder ==
    /\ site \in Listings
    /\ clock = 1 /\ up = {} /\ changes = 0 => site \in {Catalogue, Tail(Catalogue)}
    /\ quote # None => changes = 0
=============================================================================
