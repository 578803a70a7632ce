--------------------------- MODULE SessionTables ---------------------------
(***************************************************************************)
(* The tables selection_sessions, selections and ticket_history            *)
(* (models.py), changed by one committed transaction at a time, and what   *)
(* their constraints promise.  SelectionStore and TicketBuild run on them. *)
(***************************************************************************)
CONSTANTS Sessions,      \* the ids handed out by POST /selections/sessions
          Predictions    \* records with the fields id, event and specifier

VARIABLES sessions,      \* table selection_sessions; an id is never used again
          items,         \* table selections
          history        \* table ticket_history

tables == <<sessions, items, history>>

Item == [session : Sessions, pick : Predictions]

TablesInit == /\ sessions = [s \in Sessions |-> "new"]
              /\ items = {}
              /\ history = {}

Open(s) == sessions[s] = "open"

PicksOf(s) == {i.pick : i \in {i \in items : i.session = s}}

\* Mutant: the table has no unique constraint on the event.
FitsById(s, p) == \A q \in PicksOf(s) : q.id # p.id

\* Primary key (session_id, id) and unique (session_id, event_id).
Fits(s, p) == \A q \in PicksOf(s) : q.id # p.id /\ q.event # p.event

CreateSession(s) ==
    /\ sessions[s] = "new"
    /\ sessions' = [sessions EXCEPT ![s] = "open"]
    /\ UNCHANGED <<items, history>>

\* Mutant: the table has no foreign key.
AddItemUnchecked(s, p) ==
    /\ Fits(s, p)
    /\ items' = items \cup {[session |-> s, pick |-> p]}
    /\ UNCHANGED <<sessions, history>>

AddItem(s, p) ==
    /\ Open(s)
    /\ Fits(s, p)
    /\ items' = items \cup {[session |-> s, pick |-> p]}
    /\ UNCHANGED <<sessions, history>>

RemoveItem(s, id) ==
    /\ Open(s)
    /\ items' = {i \in items : ~(i.session = s /\ i.pick.id = id)}
    /\ UNCHANGED <<sessions, history>>

\* Mutant: the history does not cascade.
DeleteKeepsHistory(s) ==
    /\ sessions' = [sessions EXCEPT ![s] = "deleted"]
    /\ items' = {i \in items : i.session # s}
    /\ UNCHANGED history

\* The cascades of the ORM and of the foreign keys.
DeleteSession(s) ==
    /\ sessions' = [sessions EXCEPT ![s] = "deleted"]
    /\ items' = {i \in items : i.session # s}
    /\ history' = {h \in history : h.session # s}

RecordTicket(h) ==
    /\ Open(h.session)
    /\ history' = history \cup {h}
    /\ UNCHANGED <<sessions, items>>

-----------------------------------------------------------------------------

\* What the constraints of models.py and the checks of SelectionService.add are
\* for: a session holds at most one selection of an event, and one row per id.
OneSelectionPerEvent ==
    \A i, k \in items :
        /\ i.session = k.session
        /\ i.pick.event = k.pick.event \/ i.pick.id = k.pick.id
        => i = k

\* Nothing outlives its session, whatever was still on its way to the tables
\* when the session was deleted.
NoOrphans == /\ \A i \in items : Open(i.session)
             /\ \A h \in history : Open(h.session)

=============================================================================
