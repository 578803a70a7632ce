--------------------------- MODULE TicketBooking ---------------------------
(***************************************************************************)
(* The build endpoint together with the SportyBetClient it creates: every  *)
(* lookup and the booking is a call of ProviderClient, with its retries,   *)
(* its fallback to the other provider and the ways it ends.  The sessions  *)
(* and the feed may change between any two HTTP requests, commits and      *)
(* reads.  It implements TicketBuild.                                      *)
(***************************************************************************)
EXTENDS SessionTables, Naturals

CONSTANTS
    Builders,     \* the POSTs, each handled once, each with a client of its own
    Odds,         \* the prices of an active outcome
    Gone,         \* the feed's event, market or outcome is missing or inactive
    MaxRetries    \* SPORTYBET_MAX_RETRIES

ASSUME TicketBookingAssumption == Gone \notin Odds /\ MaxRetries \in Nat

VARIABLES
    feed,      \* what the providers offer for each prediction's outcome
    post,      \* what TicketBuilder.build knows for each POST
    booked,    \* the share tickets the providers have made for each POST
    shown,     \* history: the prices the feed has shown since the POST began
    setting,   \* SPORTYBET_PROVIDER, and is PARSE_API_KEY set?
    call       \* the client method each POST awaits, or awaited last

vars == <<sessions, items, history, feed, post, booked, shown, setting, call>>

\* No build fetches a feed, so none reads or fills the feed cache.
Client == INSTANCE ProviderClient WITH
              Calls <- Builders, Clients <- Builders, Keys <- {"feed"},
              Stale <- 0, cache <- [k \in {"feed"} |-> 1],
              fetched <- [k \in {"feed"} |-> 1]

\* The requests for the booking whose end is known.
Attempts(b) ==
    IF call[b].kind # "book" THEN 0
    ELSE call[b].sent["direct"] + call[b].sent["parse"]
            - (IF call[b].at = "sending" THEN 1 ELSE 0)

Builder == INSTANCE TicketBuild WITH
               MaxAttempts <- 2 * (MaxRetries + 1),
               build <- [b \in Builders |->
                           [at |-> post[b].at, session |-> post[b].session,
                            picks |-> post[b].picks, quotes |-> post[b].quotes,
                            attempts |-> Attempts(b), reply |-> post[b].reply]]

Post == [at      : Builder!Stages,
         session : Sessions,
         picks   : SUBSET Predictions,
         quotes  : SUBSET Builder!Quote,
         reply   : {"none", "200", "422", "500", "502", "503", "lost"}]

TypeOK ==
    /\ Builder!TypeOK
    /\ Client!TypeOK
    /\ post \in [Builders -> Post]
    /\ \A b \in Builders : post[b].at = "done" <=> post[b].reply # "none"

Init ==
    /\ TablesInit
    /\ feed \in [Predictions -> Odds]
    /\ \E s \in Sessions :
          post = [b \in Builders |->
                    [at |-> "idle", session |-> s, picks |-> {}, quotes |-> {},
                     reply |-> "none"]]
    /\ booked = [b \in Builders |-> {}]
    /\ shown = [b \in Builders |-> {}]
    /\ Client!Init

-----------------------------------------------------------------------------
(* Helpers.                                                                *)

At(b, stage) == post[b].at = stage

\* The locals and the client go with the build; its selections stay as history.
Reply(b, status) ==
    /\ post' = [post EXCEPT ![b] = [@ EXCEPT !.at = "done", !.reply = status,
                                             !.quotes = {}]]
    /\ call' = [call EXCEPT ![b] = [Client!Fresh("feed", b, "feed") EXCEPT
                                      !.at = "done", !.reply = "ok"]]
    /\ UNCHANGED setting

Picked(b) == {q.pick : q \in post[b].quotes}

Row(b) == [session |-> post[b].session, by |-> b, quotes |-> post[b].quotes]

\* The exact ids of the selections are sent, never their prices.
BookTicket(b) == booked' = [booked EXCEPT ![b] = @ \cup {Picked(b)}]

\* The provider has the request and may act on it.
Booking(b) == call[b].kind = "book" /\ call[b].at = "sending"

MayBook(b) == (Booking(b) /\ BookTicket(b)) \/ UNCHANGED booked

Awaits(b) == post[b].at \in {"validating", "booking"}

-----------------------------------------------------------------------------
(* TicketBuilder.build                                                     *)

\* get_session; a missing or an empty session is refused.
Begin(b, s) ==
    /\ At(b, "idle")
    /\ post' = [post EXCEPT ![b] = [@ EXCEPT !.session = s, !.picks = PicksOf(s),
                  !.at    = IF PicksOf(s) = {} THEN "done" ELSE "validating",
                  !.reply = IF PicksOf(s) = {} THEN "422"  ELSE "none"]]
    /\ shown' = [shown EXCEPT ![b] = Builder!OnSale(feed)]
    /\ UNCHANGED <<tables, feed, booked, setting, call>>

\* Mutant: the booking is sent when the first selection is validated.
CallsEarly(b) ==
    /\ Awaits(b)
    /\ call[b].reply = "ok"
    /\ Client!Begin(b, IF post[b].quotes = {} THEN "lookup" ELSE "book", b, "feed")
    /\ post' = [post EXCEPT ![b].at = IF post[b].quotes = {} THEN @ ELSE "booking"]
    /\ UNCHANGED <<tables, feed, booked, shown>>

\* It calls get_event_markets for the next selection, or create_booking when
\* every selection is validated.
CallsClient(b) ==
    /\ Awaits(b)
    /\ call[b].reply = "ok"
    /\ Client!Begin(b, IF At(b, "validating") THEN "lookup" ELSE "book", b, "feed")
    /\ UNCHANGED <<tables, feed, post, booked, shown>>

\* The client works: the next provider, a request.
ClientSends(b) ==
    /\ Awaits(b)
    /\ Client!KeyMissing(b) \/ Client!Send(b)
    /\ UNCHANGED <<tables, feed, post, booked, shown>>

\* A request fails, or its answer cannot be read; a booking may have been made.
RequestFails(b) ==
    /\ Awaits(b)
    /\ MayBook(b)
    /\ Client!Retry(b) \/ Client!GiveUp(b) \/ Client!Malformed(b)
    /\ UNCHANGED <<tables, feed, post, shown>>

\* Mutant: the selection keeps the odds it was stored with.
ValidateKeepsOdds(b, p) ==
    /\ At(b, "validating")
    /\ p \in post[b].picks \ Picked(b)
    /\ feed[p] # Gone
    /\ Client!Answer(b)
    /\ \E odds \in Odds :
          post' = [post EXCEPT ![b].quotes = @ \cup {[pick |-> p, odds |-> odds]},
                     ![b].at = IF post[b].picks = Picked(b) \cup {p}
                               THEN "booking" ELSE @]
    /\ UNCHANGED <<tables, feed, booked, shown>>

\* A lookup is answered: the selection keeps its ids and takes the odds of the
\* feed.
Validate(b, p) ==
    /\ At(b, "validating")
    /\ p \in post[b].picks \ Picked(b)
    /\ feed[p] # Gone
    /\ Client!Answer(b)
    /\ post' = [post EXCEPT ![b] = [@ EXCEPT
                  !.quotes = post[b].quotes \cup {[pick |-> p, odds |-> feed[p]]},
                  !.at = IF post[b].picks = Picked(b) \cup {p}
                         THEN "booking" ELSE "validating"]]
    /\ UNCHANGED <<tables, feed, booked, shown>>

\* It is answered, and the event is over or its market or outcome inactive.
NotOnSale(b, p) ==
    /\ At(b, "validating")
    /\ p \in post[b].picks \ Picked(b)
    /\ feed[p] = Gone
    /\ call[b].at = "sending"
    /\ Reply(b, "422")
    /\ UNCHANGED <<tables, feed, booked, shown>>

\* Mutant: the row is written whether or not the booking succeeded.
CallFailsRecorded(b) ==
    /\ Awaits(b)
    /\ call[b].at = "done"
    /\ call[b].reply # "ok"
    /\ IF Open(post[b].session) THEN RecordTicket(Row(b)) ELSE UNCHANGED tables
    /\ Reply(b, call[b].reply)
    /\ UNCHANGED <<feed, booked, shown>>

\* The call has raised; ProviderClient knows what build_ticket makes of it.
CallFails(b) ==
    /\ Awaits(b)
    /\ call[b].at = "done"
    /\ call[b].reply # "ok"
    /\ Reply(b, call[b].reply)
    /\ UNCHANGED <<tables, feed, booked, shown>>

BookingAnswered(b) ==
    /\ Booking(b) /\ At(b, "booking")
    /\ Client!Answer(b)
    /\ BookTicket(b)
    /\ post' = [post EXCEPT ![b].at = "recording"]
    /\ UNCHANGED <<tables, feed, shown>>

-----------------------------------------------------------------------------
(* TicketHistoryService.record                                             *)

\* Mutant: the selections of the row are read again from the session.
RecordRereads(b) ==
    /\ At(b, "recording")
    /\ RecordTicket([Row(b) EXCEPT !.quotes =
                        {q \in @ : q.pick \in PicksOf(post[b].session)}])
    /\ post' = [post EXCEPT ![b].at = "refreshing"]
    /\ UNCHANGED <<feed, booked, shown, setting, call>>

Record(b) ==
    /\ At(b, "recording")
    /\ RecordTicket(Row(b))
    /\ post' = [post EXCEPT ![b].at = "refreshing"]
    /\ UNCHANGED <<feed, booked, shown, setting, call>>

\* The INSERT or the commit raises, as it must when the session is gone; a
\* commit whose answer is lost may have been made.
RecordRaises(b) ==
    /\ At(b, "recording")
    /\ RecordTicket(Row(b)) \/ UNCHANGED tables
    /\ Reply(b, "500")
    /\ UNCHANGED <<feed, booked, shown>>

\* Mutant: the build ends without an answer.
RefreshSilently(b) ==
    /\ At(b, "refreshing")
    /\ post' = [post EXCEPT ![b].at = "done"]
    /\ UNCHANGED <<tables, feed, booked, shown, setting, call>>

\* db.refresh reads the row again, which a deleted session has taken with it.
Refresh(b) ==
    /\ At(b, "refreshing")
    /\ (Row(b) \in history /\ Reply(b, "200")) \/ Reply(b, "500")
    /\ UNCHANGED <<tables, feed, booked, shown>>

\* The API process dies, and the call it awaits with it; what it had sent is
\* done or not.
Dies(b) ==
    /\ post[b].at \notin {"idle", "done"}
    /\ Reply(b, "lost")
    /\ MayBook(b)
    /\ (At(b, "recording") /\ RecordTicket(Row(b))) \/ UNCHANGED tables
    /\ UNCHANGED <<feed, shown>>

-----------------------------------------------------------------------------
(* The users of the session, and the provider.                             *)

\* What a commit of SelectionStore does.
SelectionsChange ==
    /\ \E s \in Sessions :
          \/ CreateSession(s)
          \/ DeleteSession(s)
          \/ \E p \in Predictions : AddItem(s, p) \/ RemoveItem(s, p.id)
    /\ UNCHANGED <<feed, post, booked, shown, setting, call>>

\* Nobody reads the feed once every build has ended.
FeedChanges(p, odds) ==
    /\ odds # feed[p]
    /\ \E b \in Builders : ~At(b, "done")
    /\ feed' = [feed EXCEPT ![p] = odds]
    /\ shown' = [b \in Builders |->
                   IF post[b].at \in {"idle", "done"} THEN shown[b]
                   ELSE shown[b] \cup Builder!OnSale(feed')]
    /\ UNCHANGED <<tables, post, booked, setting, call>>

-----------------------------------------------------------------------------

Work(b) ==
    \/ CallsClient(b) \/ ClientSends(b) \/ RequestFails(b)
    \/ \E p \in Predictions : Validate(b, p) \/ NotOnSale(b, p)
    \/ CallFails(b) \/ BookingAnswered(b)
    \/ Record(b) \/ RecordRaises(b) \/ Refresh(b)

Next == \/ \E b \in Builders : Work(b) \/ Dies(b) \/ \E s \in Sessions : Begin(b, s)
        \/ SelectionsChange
        \/ \E p \in Predictions, odds \in Odds \cup {Gone} : FeedChanges(p, odds)

Spec == Init /\ [][Next]_vars

\* The HTTP timeout ends every request and nobody else uses the client's lock,
\* so a running process goes on with every build.
FairSpec == Spec /\ \A b \in Builders : WF_vars(Work(b))

-----------------------------------------------------------------------------
(* Properties; see also NoOrphans.                                         *)

\* The endpoint with its client does what TicketBuild allows: no request for a
\* booking before every selection is validated, at most two times
\* SPORTYBET_MAX_RETRIES + 1 of them, none given up that was not sent.
BuildSpec == Builder!Spec

RefusedLeavesNothing == Builder!RefusedLeavesNothing

HistoryIsTicket == Builder!HistoryIsTicket

FreshOdds == Builder!FreshOdds

\* Every build is answered, or its process has died, whatever the providers, the
\* users and the feed do.
BuildsEnd == \A b \in Builders : ~At(b, "idle") ~> At(b, "done")

=============================================================================
