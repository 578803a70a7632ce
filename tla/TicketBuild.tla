---------------------------- MODULE TicketBuild ----------------------------
(***************************************************************************)
(* What POST /api/v1/tickets/{session_id}/build promises (routes/tickets.py,*)
(* TicketBuilder, TicketHistoryService) while users change the sessions    *)
(* and the provider its feed: one read of the session, one event lookup    *)
(* each, at most MaxAttempts requests for one booking, one row.            *)
(* TicketBooking implements it with the client that makes the requests.    *)
(***************************************************************************)
EXTENDS SessionTables, Naturals

CONSTANTS
    Builders,     \* the POSTs, each handled once
    Odds,         \* the prices of an active outcome
    Gone,         \* the feed's event, market or outcome is missing or inactive
    MaxAttempts   \* how often one booking may be sent, all providers together

VARIABLES
    feed,     \* what the provider offers for each prediction's outcome
    build,    \* how far each POST has come
    booked,   \* the share tickets the provider has made for each POST
    shown     \* history: the prices the feed has shown since the POST began

vars == <<sessions, items, history, feed, build, booked, shown>>

Quote == [pick : Predictions, odds : Odds]

\* "recording" ends with the commit of the row, "refreshing" with its re-reading.
Stages == {"idle", "validating", "booking", "recording", "refreshing", "done"}

Build == [at       : Stages,
          session  : Sessions,
          picks    : SUBSET Predictions,   \* the selections read at the start
          quotes   : SUBSET Quote,         \* those validated so far, repriced
          attempts : Nat,                  \* requests for the booking that ended
          reply    : {"none", "200", "422", "500", "502", "503", "lost"}]

Ticket == [session : Sessions, by : Builders, quotes : SUBSET Quote]

TypeOK ==
    /\ sessions \in [Sessions -> {"new", "open", "deleted"}]
    /\ items \subseteq Item
    /\ history \subseteq Ticket
    /\ feed \in [Predictions -> Odds \cup {Gone}]
    /\ build \in [Builders -> Build]
    /\ booked \in [Builders -> SUBSET SUBSET Predictions]
    /\ shown \in [Builders -> SUBSET Quote]

Init ==
    /\ TablesInit
    /\ feed \in [Predictions -> Odds]
    /\ \E s \in Sessions :
          build = [b \in Builders |->
                     [at |-> "idle", session |-> s, picks |-> {}, quotes |-> {},
                      attempts |-> 0, reply |-> "none"]]
    /\ booked = [b \in Builders |-> {}]
    /\ shown = [b \in Builders |-> {}]

-----------------------------------------------------------------------------
(* Helpers.                                                                *)

At(b, stage) == build[b].at = stage

\* The locals go with the build; its selections stay as history.
Reply(b, status) ==
    build' = [build EXCEPT ![b] = [@ EXCEPT !.at = "done", !.reply = status,
                                              !.quotes = {}, !.attempts = 0]]

Checked(b) == {q.pick : q \in build[b].quotes}

Row(b) == [session |-> build[b].session, by |-> b, quotes |-> build[b].quotes]

OnSale(f) == {[pick |-> p, odds |-> f[p]] : p \in {p \in Predictions : f[p] # Gone}}

\* The exact ids of the selections are sent, never their prices.
BookTicket(b) == booked' = [booked EXCEPT ![b] = @ \cup {Checked(b)}]

-----------------------------------------------------------------------------
(* TicketBuilder.build                                                     *)

\* get_session; a missing or an empty session is refused.
Begin(b, s) ==
    /\ At(b, "idle")
    /\ build' = [build EXCEPT ![b] = [@ EXCEPT !.session = s, !.picks = PicksOf(s),
                    !.at    = IF PicksOf(s) = {} THEN "done" ELSE "validating",
                    !.reply = IF PicksOf(s) = {} THEN "422"  ELSE "none"]]
    /\ shown' = [shown EXCEPT ![b] = OnSale(feed)]
    /\ UNCHANGED <<tables, feed, booked>>

\* One turn of the loop of _validate_current_selections: the selection keeps
\* its ids and takes the odds of the feed.
Validate(b, p) ==
    /\ At(b, "validating")
    /\ p \in build[b].picks \ Checked(b)
    /\ feed[p] # Gone
    /\ build' = [build EXCEPT ![b] = [@ EXCEPT
                    !.quotes = build[b].quotes \cup {[pick |-> p, odds |-> feed[p]]},
                    !.at = IF build[b].picks = Checked(b) \cup {p}
                           THEN "booking" ELSE "validating"]]
    /\ UNCHANGED <<tables, feed, booked, shown>>

\* The outcome is not on sale, or its lookup failed on every provider; what is
\* neither raises to main.py.
ValidationFails(b) ==
    /\ At(b, "validating")
    /\ Reply(b, "422") \/ Reply(b, "500")
    /\ UNCHANGED <<tables, feed, booked, shown>>

\* The provider makes the ticket and its answer arrives.
BookingAnswered(b) ==
    /\ At(b, "booking")
    /\ build[b].attempts < MaxAttempts
    /\ BookTicket(b)
    /\ build' = [build EXCEPT ![b].attempts = @ + 1, ![b].at = "recording"]
    /\ UNCHANGED <<tables, feed, shown>>

\* The POST fails, and the ticket may have been made nevertheless.
BookingFails(b) ==
    /\ At(b, "booking")
    /\ build[b].attempts < MaxAttempts
    /\ BookTicket(b) \/ UNCHANGED booked
    /\ build' = [build EXCEPT ![b].attempts = @ + 1]
    /\ UNCHANGED <<tables, feed, shown>>

\* Nobody gives up a booking that was never sent.
GiveUp(b) ==
    /\ At(b, "booking")
    /\ build[b].attempts > 0
    /\ Reply(b, "502") \/ Reply(b, "503") \/ Reply(b, "500")
    /\ UNCHANGED <<tables, feed, booked, shown>>

\* The INSERT of TicketHistoryService.record and its commit.
Record(b) ==
    /\ At(b, "recording")
    /\ RecordTicket(Row(b))
    /\ build' = [build EXCEPT ![b].at = "refreshing"]
    /\ UNCHANGED <<feed, booked, shown>>

\* It raises, as it must when the session is gone; the commit whose answer is
\* lost may have been made.
RecordRaises(b) ==
    /\ At(b, "recording")
    /\ RecordTicket(Row(b)) \/ UNCHANGED tables
    /\ Reply(b, "500")
    /\ UNCHANGED <<feed, booked, shown>>

\* db.refresh reads the row again, which a deleted session has taken with it.
Refresh(b) ==
    /\ At(b, "refreshing")
    /\ (Row(b) \in history /\ Reply(b, "200")) \/ Reply(b, "500")
    /\ UNCHANGED <<tables, feed, booked, shown>>

\* The API process dies; what it had sent is done or not.
Dies(b) ==
    /\ build[b].at \notin {"idle", "done"}
    /\ Reply(b, "lost")
    /\ \/ UNCHANGED <<tables, booked>>
       \/ At(b, "booking") /\ BookTicket(b) /\ UNCHANGED tables
       \/ At(b, "recording") /\ RecordTicket(Row(b)) /\ UNCHANGED booked
    /\ UNCHANGED <<feed, shown>>

-----------------------------------------------------------------------------
(* The users of the session, and the provider.                             *)

\* What a commit of SelectionStore does.
SelectionsChange ==
    /\ \E s \in Sessions :
          \/ CreateSession(s)
          \/ DeleteSession(s)
          \/ \E p \in Predictions : AddItem(s, p) \/ RemoveItem(s, p.id)
    /\ UNCHANGED <<feed, build, booked, shown>>

FeedChanges(p, odds) ==
    /\ feed' = [feed EXCEPT ![p] = odds]
    /\ shown' = [b \in Builders |->
                   IF build[b].at \in {"idle", "done"} THEN shown[b]
                   ELSE shown[b] \cup OnSale(feed')]
    /\ UNCHANGED <<tables, build, booked>>

-----------------------------------------------------------------------------

BuildStep(b) ==
    \/ \E s \in Sessions : Begin(b, s)
    \/ \E p \in Predictions : Validate(b, p)
    \/ ValidationFails(b)
    \/ BookingAnswered(b) \/ BookingFails(b) \/ GiveUp(b)
    \/ Record(b) \/ RecordRaises(b) \/ Refresh(b)
    \/ Dies(b)

Next == \/ SelectionsChange
        \/ \E p \in Predictions, odds \in Odds \cup {Gone} : FeedChanges(p, odds)
        \/ \E b \in Builders : BuildStep(b)

Spec == Init /\ [][Next]_vars

-----------------------------------------------------------------------------
(* Properties; see also NoOrphans.                                         *)

\* README "Failed provider validation does not create successful ticket
\* history": a build refused by the validation has booked nothing either, and a
\* build whose booking failed has no row, whatever the provider made of it.
RefusedLeavesNothing ==
    \A b \in Builders :
        /\ build[b].reply = "422" => booked[b] = {}
        /\ build[b].reply \in {"422", "502", "503"} =>
               \A h \in history : h.by # b

\* TicketBuilder "sends those exact IDs": what a row says was bought is a ticket the
\* provider made for that build, whatever was added to or removed from the
\* session between the reading, the validation, the booking and the row.
HistoryIsTicket ==
    \A h \in history :
        /\ {q.pick : q \in h.quotes} \in booked[h.by]
        /\ {q.pick : q \in h.quotes} = build[h.by].picks
        /\ \A q, r \in h.quotes : q.pick = r.pick => q = r

\* README "refreshes provider odds before calculating the final combined odds":
\* every price in a row was on sale while its build was running.
FreshOdds == \A h \in history : h.quotes \subseteq shown[h.by]

=============================================================================
