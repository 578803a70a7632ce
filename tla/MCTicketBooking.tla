--------------------------- MODULE MCTicketBooking ---------------------------
(* TicketBooking on one session and predictions of two events.             *)
EXTENDS TicketBooking

Pick(id, event, specifier) ==
    [id |-> id, event |-> event, specifier |-> specifier]

TwoEvents == {Pick("p1", "e1", "none"), Pick("p2", "e2", "none")}

=============================================================================
