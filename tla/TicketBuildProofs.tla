------------------------- MODULE TicketBuildProofs -------------------------
(***************************************************************************)
(* Theorems about TicketBuild, for any sessions, predictions, prices,      *)
(* builds running at the same time and any number of booking attempts.     *)
(***************************************************************************)
EXTENDS TicketBuild, TLAPS

Active == {"validating", "booking", "recording", "refreshing"}

Rowless(b) == \A h \in history : h.by # b

(* What a build knows: prices it was shown, one for each selection it read. *)
Knows(b) ==
    /\ Checked(b) \subseteq build[b].picks
    /\ \A q, r \in build[b].quotes : q.pick = r.pick => q = r
    /\ build[b].quotes \subseteq shown[b]
    /\ build[b].at \in Active => OnSale(feed) \subseteq shown[b]

(* What it has done outside at each of its stages. *)
HasDone(b) ==
    /\ build[b].at # "done" => build[b].reply = "none"
    /\ build[b].at = "idle" => build[b].quotes = {}
    /\ build[b].at \in {"idle", "validating"} => booked[b] = {}
    /\ build[b].at \in {"booking", "recording", "refreshing"} =>
          Checked(b) = build[b].picks
    /\ build[b].at \in {"recording", "refreshing"} => Checked(b) \in booked[b]
    /\ build[b].at \in {"idle", "validating", "booking", "recording"} => Rowless(b)

(* What is left of it when it has answered. *)
HasLeft(b) ==
    /\ build[b].reply = "422" => booked[b] = {}
    /\ build[b].reply \in {"422", "502", "503"} => Rowless(b)

BuildInv == \A b \in Builders : Knows(b) /\ HasDone(b) /\ HasLeft(b)

Invariant == TypeOK /\ BuildInv /\ HistoryIsTicket /\ FreshOdds

-----------------------------------------------------------------------------
(* Types.                                                                  *)

LEMMA TablesType ==
    ASSUME TypeOK, NEW s \in Sessions,
           \/ CreateSession(s)
           \/ DeleteSession(s)
           \/ \E p \in Predictions : AddItem(s, p) \/ RemoveItem(s, p.id)
    PROVE  /\ sessions' \in [Sessions -> {"new", "open", "deleted"}]
           /\ items' \subseteq Item
           /\ history' \subseteq history
BY DEF TypeOK, CreateSession, DeleteSession, AddItem, RemoveItem, Item

LEMMA PicksType == ASSUME TypeOK, NEW s \in Sessions PROVE PicksOf(s) \subseteq Predictions
BY DEF TypeOK, PicksOf, Item

LEMMA OnSaleType ==
    ASSUME NEW f \in [Predictions -> Odds \cup {Gone}] PROVE OnSale(f) \subseteq Quote
BY DEF OnSale, Quote

LEMMA CheckedType ==
    ASSUME TypeOK, NEW b \in Builders PROVE Checked(b) \subseteq Predictions
BY DEF TypeOK, Checked, Build, Quote

(* What Reply leaves of the build. *)
LEMMA ReplyEffect ==
    ASSUME TypeOK, NEW b \in Builders,
           NEW status \in {"200", "422", "500", "502", "503", "lost"}, Reply(b, status)
    PROVE  /\ build' \in [Builders -> Build]
           /\ build'[b].at = "done" /\ build'[b].reply = status
           /\ build'[b].quotes = {} /\ build'[b].picks = build[b].picks
           /\ \A c \in Builders \ {b} : build'[c] = build[c]
<1>1. build \in [Builders -> Build]
  BY DEF TypeOK
<1>2. /\ build' \in [Builders -> Build]
      /\ build'[b] = [build[b] EXCEPT !.at = "done", !.reply = status,
                                     !.quotes = {}, !.attempts = 0]
      /\ \A c \in Builders \ {b} : build'[c] = build[c]
  BY <1>1 DEF Reply, Build, Stages
<1> QED
  BY <1>1, <1>2 DEF Build

LEMMA BookEffect ==
    ASSUME TypeOK, NEW b \in Builders, BookTicket(b) \/ UNCHANGED booked
    PROVE  /\ booked' \in [Builders -> SUBSET SUBSET Predictions]
           /\ \A c \in Builders : booked[c] \subseteq booked'[c]
           /\ \A c \in Builders \ {b} : booked'[c] = booked[c]
           /\ BookTicket(b) => Checked(b) \in booked'[b]
BY CheckedType DEF TypeOK, BookTicket

LEMMA RecordEffect ==
    ASSUME TypeOK, NEW b \in Builders, RecordTicket(Row(b)) \/ UNCHANGED tables
    PROVE  /\ sessions' = sessions /\ items' = items
           /\ history' \subseteq Ticket
           /\ history \subseteq history'
           /\ \A h \in history' : h \in history \/ (h = Row(b) /\ RecordTicket(Row(b)))
<1>1. Row(b) \in Ticket
  BY DEF TypeOK, Row, Ticket, Build
<1> QED
  BY <1>1 DEF TypeOK, RecordTicket, tables

-----------------------------------------------------------------------------
(* What a step leaves alone.                                               *)

(* A build is not disturbed by what others do. *)
LEMMA OthersKept ==
    ASSUME NEW c \in Builders, Knows(c), HasDone(c), HasLeft(c),
           build'[c] = build[c], booked'[c] = booked[c], shown'[c] = shown[c],
           UNCHANGED feed,
           \A h \in history' : h \in history \/ h.by # c
    PROVE  (Knows(c) /\ HasDone(c) /\ HasLeft(c))'
BY DEF Knows, HasDone, HasLeft, Rowless, Checked, OnSale

(* Rows stay true when no ticket is lost and a build that has rows keeps what *)
(* it read and what it was shown.                                             *)
LEMMA RowsKept ==
    ASSUME TypeOK, HistoryIsTicket, FreshOdds,
           \A c \in Builders : booked[c] \subseteq booked'[c],
           \A c \in Builders :
              Rowless(c) \/ (/\ build'[c].picks = build[c].picks
                             /\ shown[c] \subseteq shown'[c]),
           \A h \in history' : h \in history
                 \/ /\ h.by \in Builders
                    /\ {q.pick : q \in h.quotes} \in booked'[h.by]
                    /\ {q.pick : q \in h.quotes} = build'[h.by].picks
                    /\ \A q, r \in h.quotes : q.pick = r.pick => q = r
                    /\ h.quotes \subseteq shown'[h.by]
    PROVE  HistoryIsTicket' /\ FreshOdds'
<1>1. \A h \in history : h.by \in Builders
  BY DEF TypeOK, Ticket
<1>2. ASSUME NEW h \in history'
      PROVE  /\ {q.pick : q \in h.quotes} \in booked'[h.by]
             /\ {q.pick : q \in h.quotes} = build'[h.by].picks
             /\ \A q, r \in h.quotes : q.pick = r.pick => q = r
             /\ h.quotes \subseteq shown'[h.by]
  <2>1. CASE h \in history
    BY <1>1, <2>1 DEF HistoryIsTicket, FreshOdds, Rowless
  <2> QED BY <2>1
<1> QED BY <1>2 DEF HistoryIsTicket, FreshOdds

(* A build that answers: what it has booked and written decides what it may say. *)
LEMMA ReplyKept ==
    ASSUME Invariant, NEW b \in Builders,
           NEW status \in {"200", "422", "500", "502", "503", "lost"},
           Reply(b, status), UNCHANGED <<feed, shown>>,
           BookTicket(b) \/ UNCHANGED booked,
           (RecordTicket(Row(b)) /\ At(b, "recording")) \/ UNCHANGED tables,
           status \in {"422", "502", "503"} => UNCHANGED <<booked, tables>>,
           status = "422" => booked[b] = {},
           status \in {"422", "502", "503"} => Rowless(b)
    PROVE  Invariant'
<1>0. TypeOK /\ BuildInv /\ HistoryIsTicket /\ FreshOdds
  BY DEF Invariant
<1>1. /\ build' \in [Builders -> Build]
      /\ build'[b].at = "done" /\ build'[b].reply = status
      /\ build'[b].quotes = {} /\ build'[b].picks = build[b].picks
      /\ \A c \in Builders \ {b} : build'[c] = build[c]
  BY <1>0, ReplyEffect
<1>2. /\ booked' \in [Builders -> SUBSET SUBSET Predictions]
      /\ \A c \in Builders : booked[c] \subseteq booked'[c]
      /\ \A c \in Builders \ {b} : booked'[c] = booked[c]
  BY <1>0, BookEffect
<1>3. /\ sessions' = sessions /\ items' = items
      /\ history' \subseteq Ticket
      /\ \A h \in history' : h \in history \/ (h = Row(b) /\ At(b, "recording"))
  BY <1>0, RecordEffect DEF tables
<1>4. TypeOK'
  BY <1>0, <1>1, <1>2, <1>3 DEF TypeOK
<1>5. (Knows(b) /\ HasDone(b) /\ HasLeft(b))'
  BY <1>1 DEF Knows, HasDone, HasLeft, Checked, Active, Rowless, tables
<1>6. ASSUME NEW c \in Builders \ {b}
      PROVE  (Knows(c) /\ HasDone(c) /\ HasLeft(c))'
  <2>1. Row(b).by # c
    BY DEF Row
  <2> QED BY <1>0, <1>1, <1>2, <1>3, <2>1, OthersKept DEF BuildInv
<1>7. At(b, "recording") =>
         /\ Checked(b) \in booked[b] /\ Checked(b) = build[b].picks
         /\ \A q, r \in build[b].quotes : q.pick = r.pick => q = r
         /\ build[b].quotes \subseteq shown[b]
  BY <1>0 DEF BuildInv, Knows, HasDone, At
<1>8. HistoryIsTicket' /\ FreshOdds'
  <2>1. /\ Row(b).by = b /\ Row(b).quotes = build[b].quotes
        /\ {q.pick : q \in Row(b).quotes} = Checked(b)
    BY DEF Row, Checked
  <2>2. \A h \in history' : h \in history
           \/ /\ h.by \in Builders
              /\ {q.pick : q \in h.quotes} \in booked'[h.by]
              /\ {q.pick : q \in h.quotes} = build'[h.by].picks
              /\ \A q, r \in h.quotes : q.pick = r.pick => q = r
              /\ h.quotes \subseteq shown'[h.by]
    BY <1>1, <1>2, <1>3, <1>7, <2>1
  <2>3. \A c \in Builders : build'[c].picks = build[c].picks
    BY <1>1
  <2> QED BY <1>0, <1>2, <2>2, <2>3, RowsKept
<1> QED BY <1>4, <1>5, <1>6, <1>8 DEF Invariant, BuildInv

-----------------------------------------------------------------------------
(* The invariant.                                                          *)

LEMMA InvariantInit == Init => Invariant
<1> SUFFICES ASSUME Init PROVE Invariant
  OBVIOUS
<1>1. TypeOK
  BY DEF Init, TablesInit, TypeOK, Build, Stages
<1>2. history = {}
  BY DEF Init, TablesInit
<1>3. ASSUME NEW b \in Builders
      PROVE  /\ build[b].at = "idle" /\ build[b].reply = "none"
             /\ build[b].quotes = {} /\ booked[b] = {}
  BY DEF Init
<1>4. BuildInv
  BY <1>2, <1>3
     DEF BuildInv, Knows, HasDone, HasLeft, Checked, Rowless, Active
<1> QED BY <1>1, <1>2, <1>4 DEF Invariant, HistoryIsTicket, FreshOdds

LEMMA BeginKept ==
    ASSUME Invariant, NEW b \in Builders, NEW s \in Sessions, Begin(b, s)
    PROVE  Invariant'
<1>0. TypeOK /\ BuildInv /\ HistoryIsTicket /\ FreshOdds
  BY DEF Invariant
<1>1. PicksOf(s) \subseteq Predictions /\ OnSale(feed) \subseteq Quote
  BY <1>0, PicksType, OnSaleType DEF TypeOK
<1>2. /\ build' \in [Builders -> Build]
      /\ build'[b].picks = PicksOf(s) /\ build'[b].quotes = build[b].quotes
      /\ build'[b].at = IF PicksOf(s) = {} THEN "done" ELSE "validating"
      /\ build'[b].reply = IF PicksOf(s) = {} THEN "422" ELSE "none"
      /\ \A c \in Builders \ {b} : build'[c] = build[c]
  <2>1. build \in [Builders -> Build] /\ build[b] \in Build
    BY <1>0 DEF TypeOK
  <2>2. [build[b] EXCEPT !.session = s, !.picks = PicksOf(s),
            !.at    = IF PicksOf(s) = {} THEN "done" ELSE "validating",
            !.reply = IF PicksOf(s) = {} THEN "422"  ELSE "none"] \in Build
    BY <1>1, <2>1 DEF Build, Stages
  <2> QED BY <2>1, <2>2 DEF Begin, Build
<1>3. /\ shown' \in [Builders -> SUBSET Quote] /\ shown'[b] = OnSale(feed)
      /\ \A c \in Builders \ {b} : shown'[c] = shown[c]
      /\ UNCHANGED <<tables, feed, booked>>
  BY <1>0, <1>1 DEF Begin, TypeOK
<1>4. build[b].quotes = {} /\ booked[b] = {} /\ Rowless(b)
  BY <1>0 DEF Begin, At, BuildInv, HasDone
<1>5. TypeOK'
  BY <1>0, <1>2, <1>3 DEF TypeOK, tables
<1>6. (Knows(b) /\ HasDone(b) /\ HasLeft(b))'
  BY <1>2, <1>3, <1>4
     DEF Knows, HasDone, HasLeft, Checked, Rowless, OnSale, tables
<1>7. ASSUME NEW c \in Builders \ {b}
      PROVE  (Knows(c) /\ HasDone(c) /\ HasLeft(c))'
  BY <1>0, <1>2, <1>3, OthersKept DEF BuildInv, tables
<1>8. HistoryIsTicket' /\ FreshOdds'
  BY <1>0, <1>2, <1>3, <1>4, RowsKept DEF tables
<1> QED BY <1>5, <1>6, <1>7, <1>8 DEF Invariant, BuildInv

LEMMA ValidateKept ==
    ASSUME Invariant, NEW b \in Builders, NEW p \in Predictions, Validate(b, p)
    PROVE  Invariant'
<1> DEFINE q == [pick |-> p, odds |-> feed[p]]
<1>0. TypeOK /\ BuildInv /\ HistoryIsTicket /\ FreshOdds
  BY DEF Invariant
<1>1. q \in Quote /\ q \in OnSale(feed) /\ q.pick = p
  BY <1>0 DEF Validate, TypeOK, Quote, OnSale
<1>2. /\ build' \in [Builders -> Build]
      /\ build'[b].picks = build[b].picks
      /\ build'[b].quotes = build[b].quotes \cup {q}
      /\ build'[b].at = IF build[b].picks = Checked(b) \cup {p}
                        THEN "booking" ELSE "validating"
      /\ build'[b].reply = build[b].reply
      /\ \A c \in Builders \ {b} : build'[c] = build[c]
  <2> DEFINE next == [build[b] EXCEPT
                 !.quotes = build[b].quotes \cup {q},
                 !.at = IF build[b].picks = Checked(b) \cup {p}
                        THEN "booking" ELSE "validating"]
  <2>1. build \in [Builders -> Build] /\ build[b] \in Build
    BY <1>0 DEF TypeOK
  <2>2. next \in Build
    BY <1>1, <2>1 DEF Build, Stages
  <2>3. build[b].at = "validating" /\ build' = [build EXCEPT ![b] = next]
    BY DEF Validate, At
  <2>4. /\ next.picks = build[b].picks /\ next.reply = build[b].reply
        /\ next.quotes = build[b].quotes \cup {q}
        /\ next.at = IF build[b].picks = Checked(b) \cup {p}
                     THEN "booking" ELSE "validating"
    <3> HIDE DEF q
    <3> QED BY <2>1, <2>3 DEF Build
  <2> HIDE DEF next, q
  <2> QED BY <2>1, <2>2, <2>3, <2>4
<1> HIDE DEF q
<1>3. UNCHANGED <<tables, feed, booked, shown>>
  BY DEF Validate
<1>4. /\ build[b].at = "validating" /\ p \in build[b].picks \ Checked(b)
      /\ Knows(b) /\ HasDone(b)
  BY <1>0 DEF Validate, At, BuildInv
<1>5. TypeOK'
  BY <1>0, <1>2, <1>3 DEF TypeOK, tables
<1>6. Checked(b)' = Checked(b) \cup {p}
  BY <1>1, <1>2 DEF Checked
<1>7. \A r \in build[b].quotes : r.pick # p
  BY <1>4 DEF Checked
<1>8. Knows(b)'
  BY <1>1, <1>2, <1>3, <1>4, <1>6, <1>7 DEF Knows, Active, OnSale
<1>9. (HasDone(b) /\ HasLeft(b))'
  BY <1>2, <1>3, <1>4, <1>6 DEF HasDone, HasLeft, Rowless, tables
<1>10. ASSUME NEW c \in Builders \ {b}
       PROVE  (Knows(c) /\ HasDone(c) /\ HasLeft(c))'
  BY <1>0, <1>2, <1>3, OthersKept DEF BuildInv, tables
<1>11. HistoryIsTicket' /\ FreshOdds'
  BY <1>0, <1>2, <1>3, RowsKept DEF tables
<1> QED BY <1>5, <1>8, <1>9, <1>10, <1>11 DEF Invariant, BuildInv

LEMMA BookKept ==
    ASSUME Invariant, NEW b \in Builders, BookingAnswered(b) \/ BookingFails(b)
    PROVE  Invariant'
<1>0. TypeOK /\ BuildInv /\ HistoryIsTicket /\ FreshOdds
  BY DEF Invariant
<1>1. /\ build' \in [Builders -> Build]
      /\ build'[b].picks = build[b].picks /\ build'[b].quotes = build[b].quotes
      /\ build'[b].reply = build[b].reply
      /\ build'[b].at = IF BookingAnswered(b) THEN "recording" ELSE "booking"
      /\ \A c \in Builders \ {b} : build'[c] = build[c]
  <2>1. CASE BookingAnswered(b)
    BY <1>0, <2>1 DEF BookingAnswered, At, TypeOK, Build, Stages
  <2>2. CASE BookingFails(b) /\ ~BookingAnswered(b)
    BY <1>0, <2>2 DEF BookingFails, At, TypeOK, Build, Stages
  <2> QED BY <2>1, <2>2
<1>2. /\ booked' \in [Builders -> SUBSET SUBSET Predictions]
      /\ \A c \in Builders : booked[c] \subseteq booked'[c]
      /\ \A c \in Builders \ {b} : booked'[c] = booked[c]
      /\ BookingAnswered(b) => Checked(b) \in booked'[b]
  BY <1>0, BookEffect DEF BookingAnswered, BookingFails
<1>3. UNCHANGED <<tables, feed, shown>>
  BY DEF BookingAnswered, BookingFails
<1>4. build[b].at = "booking" /\ Knows(b) /\ HasDone(b)
  BY <1>0 DEF BookingAnswered, BookingFails, At, BuildInv
<1>5. TypeOK'
  BY <1>0, <1>1, <1>2, <1>3 DEF TypeOK, tables
<1>6. (Knows(b) /\ HasDone(b) /\ HasLeft(b))'
  BY <1>1, <1>2, <1>3, <1>4
     DEF Knows, HasDone, HasLeft, Checked, Rowless, Active, OnSale, tables
<1>7. ASSUME NEW c \in Builders \ {b}
      PROVE  (Knows(c) /\ HasDone(c) /\ HasLeft(c))'
  BY <1>0, <1>1, <1>2, <1>3, OthersKept DEF BuildInv, tables
<1>8. HistoryIsTicket' /\ FreshOdds'
  BY <1>0, <1>1, <1>2, <1>3, RowsKept DEF tables
<1> QED BY <1>5, <1>6, <1>7, <1>8 DEF Invariant, BuildInv

LEMMA RecordKept ==
    ASSUME Invariant, NEW b \in Builders, Record(b)
    PROVE  Invariant'
<1>0. TypeOK /\ BuildInv /\ HistoryIsTicket /\ FreshOdds
  BY DEF Invariant
<1>1. /\ build' \in [Builders -> Build]
      /\ build'[b].picks = build[b].picks /\ build'[b].quotes = build[b].quotes
      /\ build'[b].reply = build[b].reply /\ build'[b].at = "refreshing"
      /\ \A c \in Builders \ {b} : build'[c] = build[c]
  BY <1>0 DEF Record, TypeOK, Build, Stages
<1>2. /\ sessions' = sessions /\ items' = items /\ history' \subseteq Ticket
      /\ \A h \in history' : h \in history \/ h = Row(b)
  BY <1>0, RecordEffect DEF Record
<1>3. UNCHANGED <<feed, booked, shown>>
  BY DEF Record
<1>4. build[b].at = "recording" /\ Knows(b) /\ HasDone(b)
  BY <1>0 DEF Record, At, BuildInv
<1>5. TypeOK'
  BY <1>0, <1>1, <1>2, <1>3 DEF TypeOK
<1>6. (Knows(b) /\ HasDone(b) /\ HasLeft(b))'
  BY <1>1, <1>3, <1>4
     DEF Knows, HasDone, HasLeft, Checked, Rowless, Active, OnSale
<1>7. /\ Row(b).by = b /\ Row(b).quotes = build[b].quotes
      /\ {q.pick : q \in Row(b).quotes} = Checked(b)
  BY DEF Row, Checked
<1>8. ASSUME NEW c \in Builders \ {b}
      PROVE  (Knows(c) /\ HasDone(c) /\ HasLeft(c))'
  BY <1>0, <1>1, <1>2, <1>3, <1>7, OthersKept DEF BuildInv
<1>9. HistoryIsTicket' /\ FreshOdds'
  <2>1. /\ Checked(b) \in booked[b] /\ Checked(b) = build[b].picks
        /\ \A q, r \in build[b].quotes : q.pick = r.pick => q = r
        /\ build[b].quotes \subseteq shown[b]
    BY <1>4 DEF Knows, HasDone
  <2>2. \A h \in history' : h \in history
           \/ /\ h.by \in Builders
              /\ {q.pick : q \in h.quotes} \in booked'[h.by]
              /\ {q.pick : q \in h.quotes} = build'[h.by].picks
              /\ \A q, r \in h.quotes : q.pick = r.pick => q = r
              /\ h.quotes \subseteq shown'[h.by]
    BY <1>1, <1>2, <1>3, <1>7, <2>1
  <2> QED BY <1>0, <1>1, <1>3, <2>2, RowsKept
<1> QED BY <1>5, <1>6, <1>8, <1>9 DEF Invariant, BuildInv

(* The users of the session change its rows, never those of another. *)
LEMMA SelectionsKept ==
    ASSUME Invariant, SelectionsChange PROVE Invariant'
<1>0. TypeOK /\ BuildInv /\ HistoryIsTicket /\ FreshOdds
  BY DEF Invariant
<1>1. UNCHANGED <<feed, build, booked, shown>>
  BY DEF SelectionsChange
<1>2. /\ sessions' \in [Sessions -> {"new", "open", "deleted"}]
      /\ items' \subseteq Item /\ history' \subseteq history
  BY <1>0, TablesType DEF SelectionsChange
<1>3. TypeOK'
  BY <1>0, <1>1, <1>2 DEF TypeOK
<1>4. BuildInv'
  BY <1>0, <1>1, <1>2, OthersKept DEF BuildInv
<1>5. HistoryIsTicket' /\ FreshOdds'
  BY <1>0, <1>1, <1>2, RowsKept
<1> QED BY <1>3, <1>4, <1>5 DEF Invariant

LEMMA FeedKept ==
    ASSUME Invariant,
           NEW p \in Predictions, NEW odds \in Odds \cup {Gone}, FeedChanges(p, odds)
    PROVE  Invariant'
<1>0. TypeOK /\ BuildInv /\ HistoryIsTicket /\ FreshOdds
  BY DEF Invariant
<1>1. feed' \in [Predictions -> Odds \cup {Gone}]
  BY <1>0 DEF FeedChanges, TypeOK
<1>2. OnSale(feed') \subseteq Quote
  BY <1>1, OnSaleType
<1>3. /\ UNCHANGED <<tables, build, booked>>
      /\ shown' \in [Builders -> SUBSET Quote]
      /\ \A c \in Builders : shown[c] \subseteq shown'[c]
      /\ \A c \in Builders :
            build[c].at \in Active => OnSale(feed') \subseteq shown'[c]
  BY <1>0, <1>2 DEF FeedChanges, TypeOK, Active
<1>4. TypeOK'
  BY <1>0, <1>1, <1>3 DEF TypeOK, tables
<1>5. ASSUME NEW c \in Builders
      PROVE  (Knows(c) /\ HasDone(c) /\ HasLeft(c))'
  <2>1. Knows(c) /\ HasDone(c) /\ HasLeft(c)
    BY <1>0 DEF BuildInv
  <2>2. OnSale(feed)' = OnSale(feed')
    BY DEF OnSale
  <2>3. Knows(c)'
    BY <1>3, <2>1, <2>2 DEF Knows, Checked
  <2>4. (HasDone(c) /\ HasLeft(c))'
    BY <1>3, <2>1 DEF HasDone, HasLeft, Checked, Rowless, tables
  <2> QED BY <2>3, <2>4
<1>6. HistoryIsTicket' /\ FreshOdds'
  BY <1>0, <1>3, RowsKept DEF tables
<1> QED BY <1>4, <1>5, <1>6 DEF Invariant, BuildInv

(* Every way a build can answer: refused while nothing is booked, failed while *)
(* nothing is written, answered or lost at any stage.                          *)
LEMMA AnswerKept ==
    ASSUME Invariant, NEW b \in Builders,
           ValidationFails(b) \/ GiveUp(b) \/ RecordRaises(b) \/ Refresh(b) \/ Dies(b)
    PROVE  Invariant'
<1>0. HasDone(b)
  BY DEF Invariant, BuildInv
<1>1. CASE ValidationFails(b)
  BY <1>0, <1>1, ReplyKept
     DEF ValidationFails, At, HasDone, tables, RecordTicket, Row
<1>2. CASE GiveUp(b)
  BY <1>0, <1>2, ReplyKept DEF GiveUp, At, HasDone
<1>3. CASE RecordRaises(b)
  BY <1>3, ReplyKept DEF RecordRaises
<1>4. CASE Refresh(b)
  BY <1>4, ReplyKept DEF Refresh
<1>5. CASE Dies(b)
  BY <1>5, ReplyKept DEF Dies
<1> QED BY <1>1, <1>2, <1>3, <1>4, <1>5

LEMMA InvariantStep == Invariant /\ [Next]_vars => Invariant'
<1> SUFFICES ASSUME Invariant, [Next]_vars PROVE Invariant'
  OBVIOUS
<1>1. CASE SelectionsChange
  BY <1>1, SelectionsKept
<1>2. ASSUME NEW p \in Predictions, NEW odds \in Odds \cup {Gone}, FeedChanges(p, odds)
      PROVE  Invariant'
  BY <1>2, FeedKept
<1>3. ASSUME NEW b \in Builders, NEW s \in Sessions, Begin(b, s)
      PROVE  Invariant'
  BY <1>3, BeginKept
<1>4. ASSUME NEW b \in Builders, NEW p \in Predictions, Validate(b, p)
      PROVE  Invariant'
  BY <1>4, ValidateKept
<1>5. ASSUME NEW b \in Builders, BookingAnswered(b) \/ BookingFails(b)
      PROVE  Invariant'
  BY <1>5, BookKept
<1>6. ASSUME NEW b \in Builders, Record(b)
      PROVE  Invariant'
  BY <1>6, RecordKept
<1>7. ASSUME NEW b \in Builders,
             ValidationFails(b) \/ GiveUp(b) \/ RecordRaises(b)
                \/ Refresh(b) \/ Dies(b)
      PROVE  Invariant'
  BY <1>7, AnswerKept
<1>8. CASE UNCHANGED vars
  <2>1. TypeOK' /\ HistoryIsTicket' /\ FreshOdds'
    BY <1>8 DEF Invariant, vars, tables, TypeOK, HistoryIsTicket, FreshOdds
  <2>2. BuildInv'
    BY <1>8 DEF Invariant, vars, tables, BuildInv, Knows, HasDone, HasLeft,
                Checked, OnSale, Rowless
  <2> QED BY <2>1, <2>2 DEF Invariant
<1> QED
  BY <1>1, <1>2, <1>3, <1>4, <1>5, <1>6, <1>7, <1>8 DEF Next, BuildStep

(* Rows and selections of sessions that are open: what one transaction needs. *)
LEMMA OrphansStep == Invariant /\ NoOrphans /\ [Next]_vars => NoOrphans'
<1> SUFFICES ASSUME Invariant, NoOrphans, [Next]_vars PROVE NoOrphans'
  OBVIOUS
<1>0. /\ sessions \in [Sessions -> {"new", "open", "deleted"}]
      /\ \A i \in items : i.session \in Sessions
      /\ \A h \in history : h.session \in Sessions
  BY DEF Invariant, TypeOK, Item, Ticket
<1>1. ASSUME NEW s \in Sessions,
             CreateSession(s) \/ \E p \in Predictions : RemoveItem(s, p.id)
      PROVE  NoOrphans'
  BY <1>0, <1>1 DEF NoOrphans, Open, CreateSession, RemoveItem
<1>2. ASSUME NEW s \in Sessions, NEW p \in Predictions, AddItem(s, p)
      PROVE  NoOrphans'
  BY <1>0, <1>2 DEF NoOrphans, Open, AddItem
<1>3. ASSUME NEW s \in Sessions, DeleteSession(s)
      PROVE  NoOrphans'
  BY <1>0, <1>3 DEF NoOrphans, Open, DeleteSession
<1>4. ASSUME NEW b \in Builders, RecordTicket(Row(b))
      PROVE  NoOrphans'
  BY <1>4 DEF NoOrphans, Open, RecordTicket
<1>5. ASSUME UNCHANGED tables
      PROVE  NoOrphans'
  BY <1>5 DEF NoOrphans, Open, tables
<1>6. CASE SelectionsChange
  BY <1>1, <1>2, <1>3, <1>6 DEF SelectionsChange
<1>7. ASSUME NEW b \in Builders, BuildStep(b)
      PROVE  (\E d \in Builders : RecordTicket(Row(d))) \/ UNCHANGED tables
  BY <1>7 DEF BuildStep, Begin, Validate, ValidationFails, BookingAnswered,
              BookingFails, GiveUp, Record, RecordRaises, Refresh, Dies
<1>8. CASE \E p \in Predictions, odds \in Odds \cup {Gone} : FeedChanges(p, odds)
  BY <1>5, <1>8 DEF FeedChanges
<1>9. CASE UNCHANGED vars
  BY <1>5, <1>9 DEF vars, tables
<1> QED BY <1>4, <1>5, <1>6, <1>7, <1>8, <1>9 DEF Next

-----------------------------------------------------------------------------

(* What all the theorems below rest on. *)
THEOREM BuildInvariant == Spec => []Invariant
  BY InvariantInit, InvariantStep, PTL DEF Spec

(* models.py, routes/tickets.py: the tables and the builds keep their types. *)
THEOREM BuildTypeCorrect == Spec => []TypeOK
<1>1. Invariant => TypeOK
  BY DEF Invariant
<1> QED BY <1>1, BuildInvariant, PTL

(* TicketBuilder "sends those exact IDs": every row is a ticket the provider   *)
(* made for its build, with one price for each selection the build read.       *)
THEOREM EveryRowIsATicket == Spec => []HistoryIsTicket
<1>1. Invariant => HistoryIsTicket
  BY DEF Invariant
<1> QED BY <1>1, BuildInvariant, PTL

(* README "refreshes provider odds before calculating the final combined odds": *)
(* however the feed moves, a row holds prices its build was shown.              *)
THEOREM EveryPriceIsFresh == Spec => []FreshOdds
<1>1. Invariant => FreshOdds
  BY DEF Invariant
<1> QED BY <1>1, BuildInvariant, PTL

(* README "Failed provider validation does not create successful ticket         *)
(* history": whatever the number of builds and of attempts, a 422 has booked    *)
(* nothing, and neither it nor a 502 or 503 has written a row.                  *)
THEOREM FailuresWriteNothing == Spec => []RefusedLeavesNothing
<1>1. Invariant => RefusedLeavesNothing
  BY DEF Invariant, BuildInv, HasLeft, Rowless, RefusedLeavesNothing
<1> QED BY <1>1, BuildInvariant, PTL

(* The constraints of models.py under the builds and the users of the sessions: *)
(* no selection and no ticket outlives its session.                             *)
THEOREM NothingOutlivesItsSession == Spec => []NoOrphans
<1>1. Init => NoOrphans
  BY DEF Init, TablesInit, NoOrphans
<1>2. Invariant /\ NoOrphans /\ [Next]_vars => NoOrphans'
  BY OrphansStep
<1> QED BY <1>1, <1>2, BuildInvariant, PTL DEF Spec

=============================================================================
