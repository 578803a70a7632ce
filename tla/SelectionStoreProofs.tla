----------------------- MODULE SelectionStoreProofs -----------------------
(***************************************************************************)
(* Theorems about SelectionStore, for any sessions, any predictions whose  *)
(* id determines their event, and any number of concurrent requests.       *)
(***************************************************************************)
EXTENDS SelectionStore, TLAPS

-----------------------------------------------------------------------------
(* What the transactions of SessionTables do.                              *)

(* A step of the specification commits one of four changes, or none. *)
TablesStep ==
    \/ UNCHANGED tables
    \/ \E s \in Sessions :
          \/ CreateSession(s)
          \/ DeleteSession(s)
          \/ \E p \in Predictions : AddItem(s, p) \/ RemoveItem(s, p.id)

LEMMA CommitType ==
    ASSUME sessions \in [Sessions -> {"new", "open", "deleted"}],
           items \subseteq Item, history = {}, TablesStep
    PROVE  /\ sessions' \in [Sessions -> {"new", "open", "deleted"}]
           /\ items' \subseteq Item
           /\ history' = {}
BY DEF TablesStep, tables, Item, CreateSession, DeleteSession, AddItem, RemoveItem

LEMMA CommitKeepsUnique ==
    ASSUME OneSelectionPerEvent, TablesStep PROVE OneSelectionPerEvent'
<1>1. ASSUME NEW s \in Sessions, NEW p \in Predictions, AddItem(s, p)
      PROVE  OneSelectionPerEvent'
  <2>1. \A k \in items : k.session = s => k.pick.id # p.id /\ k.pick.event # p.event
    BY <1>1 DEF AddItem, Fits, PicksOf
  <2> QED BY <1>1, <2>1 DEF AddItem, OneSelectionPerEvent
<1>2. CASE items' \subseteq items
  BY <1>2 DEF OneSelectionPerEvent
<1> QED BY <1>1, <1>2 DEF TablesStep, tables, CreateSession, DeleteSession, RemoveItem

LEMMA CommitKeepsParents ==
    ASSUME sessions \in [Sessions -> {"new", "open", "deleted"}],
           items \subseteq Item, history = {}, NoOrphans, TablesStep
    PROVE  NoOrphans'
BY DEF TablesStep, tables, Item, NoOrphans, Open,
       CreateSession, DeleteSession, AddItem, RemoveItem

-----------------------------------------------------------------------------
(* What a step of a request does.                                          *)

(* The stages before the commit; "get" and "create" have none to make there. *)
Before == {"session", "conflict", "lookup", "insert", "touch", "unlink", "erase"}

Uncommitted(r) == /\ r.at \in Before => ~r.committed /\ r.op \in {"add", "remove", "delete"}
                  /\ r.at = "done" <=> r.reply # "none"

CommitsOnce == \A r \in Requests : Uncommitted(req[r])

Invariant == TypeOK /\ CommitsOnce /\ OneSelectionPerEvent /\ NoOrphans

LEMMA RequestType ==
    ASSUME TypeOK, NEW r \in Requests
    PROVE  req[r] \in Request /\ req \in [Requests -> Request]
BY DEF TypeOK

LEMMA StepTables ==
    ASSUME TypeOK, NEW r \in Requests, Step(r)
    PROVE  TablesStep
<1>1. req[r].session \in Sessions /\ req[r].pick \in Predictions
  BY RequestType DEF Request
<1> QED
  BY <1>1 DEF Step, TablesStep, FindSession, FindConflict, FindItem, CommitInsert,
              CommitTouch, CommitRemove, CommitDelete, CommitRaises, Reread, Respond

(* The three ways to change a request. *)
Moves(r) ==
    \/ \E stage \in Stages \ {"done"} :
          /\ req[r].at # "done"
          /\ stage \in Before => req[r].at \in Before
          /\ Goto(r, stage)
    \/ \E status \in Replies \ {"none"} : Reply(r, status)
    \/ req[r].at # "done" /\ Commit(r, "reread")
    \/ req' = [req EXCEPT ![r].at = "done", ![r].committed = TRUE, ![r].reply = "204"]

LEMMA MoveEffect ==
    ASSUME TypeOK, CommitsOnce, NEW r \in Requests, Moves(r)
    PROVE  /\ req' \in [Requests -> Request]
           /\ \A q \in Requests \ {r} : req'[q] = req[q]
           /\ Uncommitted(req'[r])
<1>1. req[r] \in Request /\ req \in [Requests -> Request]
  BY RequestType
<1>2. Uncommitted(req[r])
  BY DEF CommitsOnce
<1>3. ASSUME NEW stage \in Stages \ {"done"}, Goto(r, stage), req[r].at # "done",
             stage \in Before => req[r].at \in Before
      PROVE  /\ req' \in [Requests -> Request]
             /\ \A q \in Requests \ {r} : req'[q] = req[q]
             /\ Uncommitted(req'[r])
  BY <1>1, <1>2, <1>3 DEF Goto, Request, Stages, Uncommitted
<1>4. ASSUME NEW status \in Replies \ {"none"}, Reply(r, status)
      PROVE  /\ req' \in [Requests -> Request]
             /\ \A q \in Requests \ {r} : req'[q] = req[q]
             /\ Uncommitted(req'[r])
  BY <1>1, <1>4 DEF Reply, Request, Stages, Before, Uncommitted
<1>5. ASSUME Commit(r, "reread"), req[r].at # "done"
      PROVE  /\ req' \in [Requests -> Request]
             /\ \A q \in Requests \ {r} : req'[q] = req[q]
             /\ Uncommitted(req'[r])
  BY <1>1, <1>2, <1>5 DEF Commit, Request, Stages, Before, Uncommitted
<1>6. ASSUME req' = [req EXCEPT ![r].at = "done", ![r].committed = TRUE, ![r].reply = "204"]
      PROVE  /\ req' \in [Requests -> Request]
             /\ \A q \in Requests \ {r} : req'[q] = req[q]
             /\ Uncommitted(req'[r])
  BY <1>1, <1>6 DEF Request, Stages, Before, Replies, Uncommitted
<1> QED BY <1>3, <1>4, <1>5, <1>6 DEF Moves

LEMMA StepMoves ==
    ASSUME TypeOK, CommitsOnce, NEW r \in Requests, Step(r)
    PROVE  Moves(r)
<1> USE DEF Moves, Stages, Replies, Before
<1>1. req[r].at \in Before => req[r].op \in {"add", "remove", "delete"}
  BY DEF CommitsOnce, Uncommitted
<1>2. CASE FindSession(r)
  BY <1>1, <1>2 DEF FindSession, At
<1>3. CASE FindConflict(r)
  BY <1>3 DEF FindConflict, At
<1>4. CASE FindItem(r)
  BY <1>4 DEF FindItem, At
<1>5. CASE CommitInsert(r) \/ CommitTouch(r) \/ CommitRemove(r)
  BY <1>5 DEF CommitInsert, CommitTouch, CommitRemove, At
<1>6. CASE CommitRaises(r) \/ CommitDelete(r)
  BY <1>6 DEF CommitRaises, CommitDelete
<1>7. CASE Reread(r) \/ Respond(r)
  BY <1>7 DEF Reread, Respond, At
<1> QED BY <1>2, <1>3, <1>4, <1>5, <1>6, <1>7 DEF Step

LEMMA ReceiveEffect ==
    ASSUME TypeOK, NEW r \in Requests, NEW s \in Sessions,
           ReceiveCreate(r, s)
              \/ \E p \in Predictions, op \in Ops : Receive(r, op, s, p)
    PROVE  /\ TablesStep
           /\ req' \in [Requests -> Request]
           /\ \A q \in Requests \ {r} : req'[q] = req[q]
           /\ Uncommitted(req'[r])
<1>1. req[r] \in Request /\ req \in [Requests -> Request]
  BY RequestType
<1>2. CASE ReceiveCreate(r, s)
  <2>1. [Start("create", s, req[r].pick, "respond") EXCEPT !.committed = TRUE] \in Request
    BY <1>1 DEF Start, Request, Ops, Stages, Replies
  <2>2. Uncommitted([Start("create", s, req[r].pick, "respond") EXCEPT !.committed = TRUE])
    BY DEF Start, Uncommitted, Before
  <2>3. req' = [req EXCEPT ![r] =
                  [Start("create", s, req[r].pick, "respond") EXCEPT !.committed = TRUE]]
    BY <1>2 DEF ReceiveCreate
  <2> QED BY <1>1, <1>2, <2>1, <2>2, <2>3 DEF ReceiveCreate, TablesStep
<1>3. ASSUME NEW p \in Predictions, NEW op \in Ops, Receive(r, op, s, p)
      PROVE  /\ TablesStep
             /\ req' \in [Requests -> Request]
             /\ \A q \in Requests \ {r} : req'[q] = req[q]
             /\ Uncommitted(req'[r])
  <2> DEFINE next == Start(op, s, p, IF op = "get" THEN "respond" ELSE "session")
  <2>1. next \in Request
    BY DEF Start, Request, Ops, Stages, Replies
  <2>2. Uncommitted(next)
    BY <1>3 DEF Receive, Start, Uncommitted, Before, Ops
  <2>3. req' = [req EXCEPT ![r] = next] /\ UNCHANGED tables
    BY <1>3 DEF Receive
  <2> HIDE DEF next
  <2> QED BY <1>1, <2>1, <2>2, <2>3 DEF TablesStep
<1> QED BY <1>2, <1>3

-----------------------------------------------------------------------------
(* The invariant.                                                          *)

LEMMA InvariantInit == Init => Invariant
<1> SUFFICES ASSUME Init PROVE Invariant
  OBVIOUS
<1>1. PICK s \in Sessions, p \in Predictions : req = [r \in Requests |-> Idle(s, p)]
  BY DEF Init
<1>2. Idle(s, p) \in Request /\ Uncommitted(Idle(s, p))
  BY DEF Idle, Start, Request, Ops, Stages, Replies, Uncommitted, Before
<1>3. TypeOK /\ CommitsOnce
  BY <1>1, <1>2 DEF Init, TablesInit, TypeOK, CommitsOnce, Uncommitted
<1>4. OneSelectionPerEvent /\ NoOrphans
  BY DEF Init, TablesInit, OneSelectionPerEvent, NoOrphans
<1> QED BY <1>3, <1>4 DEF Invariant

LEMMA InvariantStep == Invariant /\ [Next]_vars => Invariant'
<1> SUFFICES ASSUME Invariant, [Next]_vars PROVE Invariant'
  OBVIOUS
<1>0. TypeOK /\ CommitsOnce /\ OneSelectionPerEvent /\ NoOrphans
  BY DEF Invariant
<1>1. ASSUME NEW r \in Requests, TablesStep, req' \in [Requests -> Request],
             \A q \in Requests \ {r} : req'[q] = req[q],
             Uncommitted(req'[r])
      PROVE  Invariant'
  <2>1. CommitsOnce'
    BY <1>0, <1>1 DEF CommitsOnce
  <2>2. TypeOK'
    BY <1>0, <1>1, <2>1, CommitType DEF TypeOK, CommitsOnce, Uncommitted
  <2>3. OneSelectionPerEvent' /\ NoOrphans'
    BY <1>0, <1>1, CommitKeepsUnique, CommitKeepsParents DEF TypeOK
  <2> QED BY <2>1, <2>2, <2>3 DEF Invariant
<1>2. ASSUME NEW r \in Requests, Step(r) PROVE Invariant'
  BY <1>0, <1>1, <1>2, StepTables, StepMoves, MoveEffect
<1>3. ASSUME NEW r \in Requests, NEW s \in Sessions,
             ReceiveCreate(r, s)
                \/ \E p \in Predictions, op \in Ops : Receive(r, op, s, p)
      PROVE  Invariant'
  BY <1>0, <1>1, <1>3, ReceiveEffect
<1>4. CASE UNCHANGED vars
  BY <1>0, <1>4 DEF vars, Invariant, TypeOK, CommitsOnce, OneSelectionPerEvent,
                    NoOrphans, Open
<1> QED BY <1>2, <1>3, <1>4 DEF Next

-----------------------------------------------------------------------------

(* What the theorems below rest on. *)
THEOREM StoreInvariant == Spec => []Invariant
  BY InvariantInit, InvariantStep, PTL DEF Spec

(* models.py, routes/selections.py: tables and requests keep their types, and a *)
(* request is answered exactly when it is done.                                  *)
THEOREM StoreTypeCorrect == Spec => []TypeOK
<1>1. Invariant => TypeOK
  BY DEF Invariant
<1> QED BY <1>1, StoreInvariant, PTL

(* SelectionService.add and the constraints of models.py: however many additions *)
(* of rivals pass the conflict check together, a session holds one selection of  *)
(* an event and one row per id.                                                  *)
THEOREM OneSelectionPerEventAlways == Spec => []OneSelectionPerEvent
<1>1. Invariant => OneSelectionPerEvent
  BY DEF Invariant
<1> QED BY <1>1, StoreInvariant, PTL

(* The cascades of models.py: nothing that was on its way when a session was *)
(* deleted outlives it.                                                      *)
THEOREM NoOrphansAlways == Spec => []NoOrphans
<1>1. Invariant => NoOrphans
  BY DEF Invariant
<1> QED BY <1>1, StoreInvariant, PTL

(* SelectionService.add: whatever the other requests do between its checks and   *)
(* its commit, an addition leaves a selection with its id in the session, the    *)
(* one sent or the one held, and loses none.                                     *)
THEOREM AdditionsAreStored == Spec => AdditionStored
<1> DEFINE Stored(r) ==
      /\ req[r].op = "add"
      /\ req[r].at \in {"insert", "touch"}
      /\ req'[r].committed
      => LET pick == req[r].pick
             held == PicksOf(req[r].session)
         IN  /\ held \subseteq PicksOf(req[r].session)'
             /\ \E q \in PicksOf(req[r].session)' :
                   q.id = pick.id /\ q \in held \cup {pick}
<1>1. ASSUME Invariant, [Next]_vars, NEW r \in Requests PROVE Stored(r)
  <2> SUFFICES ASSUME req[r].at \in {"insert", "touch"}, req'[r].committed
               PROVE  /\ PicksOf(req[r].session) \subseteq PicksOf(req[r].session)'
                      /\ \E q \in PicksOf(req[r].session)' :
                            /\ q.id = req[r].pick.id
                            /\ q \in PicksOf(req[r].session) \cup {req[r].pick}
    OBVIOUS
  <2>1. TypeOK /\ CommitsOnce /\ ~req[r].committed
    BY <1>1 DEF Invariant, CommitsOnce, Uncommitted, Before
  <2>2. req'[r] # req[r]
    BY <2>1
  <2>3. Step(r)
    <3>1. ASSUME NEW q \in Requests, q # r, Step(q) PROVE FALSE
      BY <2>1, <2>2, <3>1, StepMoves, MoveEffect
    <3>2. ASSUME NEW q \in Requests, NEW s \in Sessions, q # r,
                 ReceiveCreate(q, s)
                    \/ \E p \in Predictions, op \in Ops : Receive(q, op, s, p)
          PROVE  FALSE
      BY <2>1, <2>2, <3>2, ReceiveEffect
    <3>3. \A s \in Sessions :
             /\ ~ReceiveCreate(r, s)
             /\ \A p \in Predictions, op \in Ops : ~Receive(r, op, s, p)
      BY DEF ReceiveCreate, Receive, At
    <3>4. CASE UNCHANGED vars
      BY <2>2, <3>4 DEF vars
    <3> QED BY <1>1, <3>1, <3>2, <3>3, <3>4 DEF Next
  <2>4. CommitInsert(r) \/ CommitTouch(r)
    <3>1. ASSUME CommitRaises(r) PROVE FALSE
      BY <2>1, <3>1, RequestType DEF CommitRaises, Reply, Request
    <3> QED BY <2>3, <3>1 DEF Step, FindSession, FindConflict, FindItem, CommitRemove,
                              CommitDelete, Reread, Respond, At
  <2>5. req'[r].session = req[r].session
    BY <2>1, <2>4, RequestType DEF CommitInsert, CommitTouch, Commit, Request
  <2>6. CASE CommitInsert(r)
    <3> DEFINE added == [session |-> req[r].session, pick |-> req[r].pick]
    <3>1. added \in items'
      BY <2>6 DEF CommitInsert, AddItem
    <3>2. added.session = req'[r].session /\ added.pick = req[r].pick
      BY <2>5
    <3>3. items \subseteq items'
      BY <2>6 DEF CommitInsert, AddItem
    <3> HIDE DEF added
    <3>4. req[r].pick \in PicksOf(req[r].session)'
      BY <3>1, <3>2 DEF PicksOf
    <3>5. PicksOf(req[r].session) \subseteq PicksOf(req[r].session)'
      BY <2>5, <3>3 DEF PicksOf
    <3> QED BY <3>4, <3>5
  <2>7. CASE CommitTouch(r)
    <3>1. PicksOf(req[r].session)' = PicksOf(req[r].session)
      BY <2>5, <2>7 DEF CommitTouch, tables, PicksOf
    <3>2. \E q \in PicksOf(req[r].session) : q.id = req[r].pick.id
      BY <2>7 DEF CommitTouch
    <3> QED BY <3>1, <3>2
  <2> QED BY <2>4, <2>6, <2>7
<1>2. Invariant /\ [Next]_vars => \A r \in Requests : Stored(r)
  BY <1>1
<1>3. (\A r \in Requests : Stored(r)) => [\A r \in Requests : Stored(r)]_vars
  OBVIOUS
<1> QED BY <1>2, <1>3, StoreInvariant, PTL DEF Spec, AdditionStored

=============================================================================
