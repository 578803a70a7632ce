--------------------------- MODULE SelectionStore ---------------------------
(***************************************************************************)
(* The /api/v1/selections endpoints (routes/selections.py) and             *)
(* SelectionService, for requests that run at the same time on different   *)
(* API replicas.  Within one replica a request runs without an await, so   *)
(* it is not interleaved with another; between replicas the service's      *)
(* threading.Lock has no effect.  A step is one SQL statement that reads,  *)
(* or one commit (READ COMMITTED).                                         *)
(***************************************************************************)
EXTENDS SessionTables

CONSTANT Requests    \* what handles one request at a time, one per replica

\* The id is a hash of event, market and outcome, so it determines the event
\* but not the specifier.
ASSUME PredictionsAssumption ==
    \A p, q \in Predictions : p.id = q.id => p.event = q.event

VARIABLE req            \* the request each handler is working on

vars == <<sessions, items, history, req>>

Ops == {"create", "get", "add", "remove", "delete"}

\* "session", "conflict" and "lookup" read, "insert", "touch", "unlink" and
\* "erase" commit, "reread" is get_session at the end of a service call and
\* "respond" the one in _response.
Stages == {"session", "conflict", "lookup", "insert", "touch", "unlink",
           "erase", "reread", "respond", "done"}

Replies == {"none", "200", "204", "404", "409", "422", "500"}

Request == [op : Ops, session : Sessions, pick : Predictions, at : Stages,
            committed : BOOLEAN,     \* history: did it commit a change?
            reply : Replies]

TypeOK ==
    /\ sessions \in [Sessions -> {"new", "open", "deleted"}]
    /\ items \subseteq Item
    /\ history = {}
    /\ req \in [Requests -> Request]
    /\ \A r \in Requests : req[r].at = "done" <=> req[r].reply # "none"

Start(op, s, p, stage) ==
    [op |-> op, session |-> s, pick |-> p, at |-> stage,
     committed |-> FALSE, reply |-> "none"]

\* No request has been received yet.
Idle(s, p) == [Start("get", s, p, "done") EXCEPT !.reply = "404"]

Init == /\ TablesInit
        /\ \E s \in Sessions, p \in Predictions :
              req = [r \in Requests |-> Idle(s, p)]

-----------------------------------------------------------------------------
(* Helpers.                                                                *)

At(r, stage) == req[r].at = stage

Goto(r, stage) == req' = [req EXCEPT ![r].at = stage]

Reply(r, status) == req' = [req EXCEPT ![r].at = "done", ![r].reply = status]

Commit(r, stage) == req' = [req EXCEPT ![r].at = stage, ![r].committed = TRUE]

Alive(r) == Open(req[r].session)

-----------------------------------------------------------------------------
(* Requests arrive.                                                        *)

\* create_session commits a new row; nothing can fail but the database.
ReceiveCreate(r, s) ==
    /\ At(r, "done")
    /\ CreateSession(s)
    /\ req' = [req EXCEPT ![r] =
                 [Start("create", s, @.pick, "respond") EXCEPT !.committed = TRUE]]

\* Nobody knows the id of a session before create_session has answered.
Known(s) == \A q \in Requests :
                ~(req[q].op = "create" /\ req[q].session = s /\ ~At(q, "done"))

\* _to_prediction has accepted the id of an addition.
Receive(r, op, s, p) ==
    /\ At(r, "done")
    /\ Known(s)
    /\ op # "create"
    /\ op \in {"get", "delete"} => p = req[r].pick   \* they name no prediction
    /\ req' = [req EXCEPT ![r] =
                 Start(op, s, p, IF op = "get" THEN "respond" ELSE "session")]
    /\ UNCHANGED tables

-----------------------------------------------------------------------------
(* SelectionService.add, remove and delete_session                         *)

FindSession(r) ==
    /\ At(r, "session")
    /\ IF ~Alive(r) THEN Reply(r, "404")
       ELSE Goto(r, CASE req[r].op = "add"    -> "conflict"
                      [] req[r].op = "remove" -> "lookup"
                      [] req[r].op = "delete" -> "erase")
    /\ UNCHANGED tables

\* Another selection of the event refuses the addition.
FindConflict(r) ==
    /\ At(r, "conflict")
    /\ IF \E q \in PicksOf(req[r].session) :
             q.event = req[r].pick.event /\ q.id # req[r].pick.id
       THEN Reply(r, "409")
       ELSE Goto(r, "lookup")
    /\ UNCHANGED tables

\* An addition whose id is there only touches updated_at; a removal needs it.
FindItem(r) ==
    LET found == \E q \in PicksOf(req[r].session) : q.id = req[r].pick.id
    IN  /\ At(r, "lookup")
        /\ \/ req[r].op = "add" /\ Goto(r, IF found THEN "touch" ELSE "insert")
           \/ req[r].op = "remove" /\ found /\ Goto(r, "unlink")
           \/ req[r].op = "remove" /\ ~found /\ Reply(r, "404")
        /\ UNCHANGED tables

\* The flush updates the session row and inserts the selection, which has to fit.
CommitInsert(r) ==
    /\ At(r, "insert")
    /\ AddItem(req[r].session, req[r].pick)
    /\ Commit(r, "reread")

\* Mutant: an UPDATE that matches no row is not noticed.
CommitTouchAnyway(r) ==
    /\ At(r, "touch")
    /\ Commit(r, "reread")
    /\ UNCHANGED tables

\* updated_at is no part of the model, but both rows must still be there.  The
\* selection keeps its columns: the other line of its market stays there.
CommitTouch(r) ==
    /\ At(r, "touch")
    /\ \E q \in PicksOf(req[r].session) : q.id = req[r].pick.id
    /\ Commit(r, "reread")
    /\ UNCHANGED tables

\* A DELETE of a selection that is already gone only warns.
CommitRemove(r) ==
    /\ At(r, "unlink")
    /\ RemoveItem(req[r].session, req[r].pick.id)
    /\ Commit(r, "reread")

\* The flush or the commit raises and nothing is committed: an UPDATE that
\* matches no row, a violated constraint, a deadlock, a lost connection.
CommitRaises(r) ==
    /\ req[r].at \in {"insert", "touch", "unlink", "erase"}
    /\ Reply(r, "500")
    /\ UNCHANGED tables

\* Mutant: the deletion is not answered.
CommitDeleteSilently(r) ==
    /\ At(r, "erase")
    /\ DeleteSession(req[r].session)
    /\ Commit(r, "done")

CommitDelete(r) ==
    /\ At(r, "erase")
    /\ DeleteSession(req[r].session)
    /\ req' = [req EXCEPT ![r].at = "done", ![r].committed = TRUE,
                          ![r].reply = "204"]

-----------------------------------------------------------------------------
(* The answer.                                                             *)

Reread(r) ==
    /\ At(r, "reread")
    /\ IF Alive(r) THEN Goto(r, "respond") ELSE Reply(r, "404")
    /\ UNCHANGED tables

\* _response builds a SelectionResponse for every selection without the
\* required start_time: pydantic's ValidationError is a ValueError, which
\* add_selection answers with 422 and the middleware, for the others, with 500.
Respond(r) ==
    /\ At(r, "respond")
    /\ \/ ~Alive(r) /\ Reply(r, "404")
       \/ Alive(r) /\ PicksOf(req[r].session) = {} /\ Reply(r, "200")
       \/ /\ Alive(r)
          /\ PicksOf(req[r].session) # {}
          /\ Reply(r, IF req[r].op = "add" THEN "422" ELSE "500")
    /\ UNCHANGED tables

-----------------------------------------------------------------------------

Step(r) == \/ FindSession(r) \/ FindConflict(r) \/ FindItem(r)
           \/ CommitInsert(r) \/ CommitTouch(r) \/ CommitRemove(r)
           \/ CommitDelete(r) \/ CommitRaises(r)
           \/ Reread(r) \/ Respond(r)

Next == \E r \in Requests :
            \/ Step(r)
            \/ \E s \in Sessions :
                  \/ ReceiveCreate(r, s)
                  \/ \E p \in Predictions, op \in Ops : Receive(r, op, s, p)

Spec == Init /\ [][Next]_vars

-----------------------------------------------------------------------------
(* Properties; see also OneSelectionPerEvent and NoOrphans.                *)

\* SelectionService.add: when an addition commits, the session holds a selection
\* with the id that was sent, which is the prediction that was sent or the one the
\* session held before, and it has lost none, whatever the other replicas removed
\* or added between the checks and the commit.
AdditionStored ==
    [][\A r \in Requests :
          /\ req[r].op = "add"
          /\ req[r].at \in {"insert", "touch"}
          /\ req'[r].committed
          => LET pick == req[r].pick
                 held == PicksOf(req[r].session)
             IN  /\ held \subseteq PicksOf(req[r].session)'
                 /\ \E q \in PicksOf(req[r].session)' :
                       q.id = pick.id /\ q \in held \cup {pick}]_vars

\* README "Add the exact prediction object" and "never substitutes another
\* prediction": when an addition commits, the session holds the prediction sent.
ExactStored ==
    [][\A r \in Requests :
          /\ req[r].op = "add"
          /\ req[r].at \in {"insert", "touch"}
          /\ req'[r].committed
          => req[r].pick \in PicksOf(req[r].session)']_vars

=============================================================================
