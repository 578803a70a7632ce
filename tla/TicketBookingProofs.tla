----------------------- MODULE TicketBookingProofs ------------------------
(***************************************************************************)
(* Theorems about TicketBooking, for any sessions, predictions, prices,    *)
(* builds at the same time and any SPORTYBET_MAX_RETRIES: its safety, and  *)
(* that it implements TicketBuild.                                         *)
(***************************************************************************)
EXTENDS TicketBooking, TLAPS

LEMMA Constants == Gone \notin Odds /\ MaxRetries \in Nat
BY TicketBookingAssumption DEF TicketBookingAssumption

-----------------------------------------------------------------------------
(* The call each build awaits.                                             *)

LEMMA OtherProvider ==
    ASSUME NEW p \in Client!Providers
    PROVE  /\ Client!Other(p) \in Client!Providers /\ Client!Other(p) # p
           /\ \A q \in Client!Providers : q # p => q = Client!Other(p)
<1>1. \E q \in Client!Providers : q # p
  BY DEF Client!Providers
<1>2. Client!Other(p) \in Client!Providers /\ Client!Other(p) # p
  BY <1>1 DEF Client!Other
<1> QED BY <1>2 DEF Client!Providers

Sent(r) == r.sent["direct"] + r.sent["parse"]

(* The ways a method can end, as the endpoint reports them. *)
Ends(kind) == CASE kind = "feed"   -> {"ok"}
                [] kind = "lookup" -> {"ok", "422", "500"}
                [] kind = "book"   -> {"ok", "500", "502", "503"}

(* How far a call has come: the provider it is with, the one it has left, and  *)
(* what it may report.  A booking that raises was sent at least once.          *)
CallInv(r) ==
    /\ r.at # "done" => r.reply = "none" /\ r.kind # "feed"
    /\ r.at = "waiting" => r.sent[r.provider] = 0
    /\ r.at = "sending" => r.sent[r.provider] > 0
    /\ r.at # "done" /\ r.provider = setting.first =>
          r.sent[Client!Other(setting.first)] = 0
    /\ r.at # "done" /\ r.provider # setting.first =>
          r.sent[setting.first] > 0 \/ (setting.first = "parse" /\ ~setting.key)
    /\ r.at = "done" => r.reply \in Ends(r.kind)
    /\ r.at = "done" /\ r.reply # "ok" => Sent(r) > 0

LEMMA CallType ==
    ASSUME Client!TypeOK, NEW b \in Builders
    PROVE  /\ call \in [Builders -> Client!Call] /\ call[b] \in Client!Call
           /\ call[b].at \in {"waiting", "sending", "done"}
           /\ call[b].kind \in Client!Kinds /\ call[b].provider \in Client!Providers
           /\ call[b].sent \in [Client!Providers -> 0..(MaxRetries + 1)]
           /\ setting.first \in Client!Providers /\ setting.key \in BOOLEAN
BY DEF Client!TypeOK, Client!Call

(* What is seen of the requests of a booking. *)
LEMMA AttemptsRange ==
    ASSUME Client!TypeOK, NEW b \in Builders, CallInv(call[b])
    PROVE  /\ Attempts(b) \in Nat
           /\ call[b].at = "sending" => Attempts(b) < 2 * (MaxRetries + 1)
           /\ call[b].at = "done" /\ call[b].kind = "book" /\ call[b].reply # "ok" =>
                 Attempts(b) > 0
<1>1. /\ call[b].sent["direct"] \in 0..(MaxRetries + 1)
      /\ call[b].sent["parse"] \in 0..(MaxRetries + 1)
      /\ call[b].provider \in {"direct", "parse"}
  BY CallType DEF Client!Providers
<1>2. call[b].at = "sending" => call[b].sent["direct"] > 0 \/ call[b].sent["parse"] > 0
  BY <1>1 DEF CallInv
<1>3. call[b].at = "done" /\ call[b].reply # "ok" =>
         call[b].sent["direct"] + call[b].sent["parse"] > 0
  BY DEF CallInv, Sent
<1>4. CASE call[b].kind # "book"
  BY <1>4, Constants DEF Attempts
<1>5. CASE call[b].kind = "book" /\ call[b].at = "sending"
  BY <1>1, <1>2, <1>5, Constants DEF Attempts
<1>6. CASE call[b].kind = "book" /\ call[b].at # "sending"
  BY <1>1, <1>3, <1>6, Constants DEF Attempts
<1> QED BY <1>4, <1>5, <1>6

(* A step of one call changes no other. *)
Only(b) == /\ call' \in [Builders -> Client!Call]
           /\ \A c \in Builders \ {b} : call'[c] = call[c]
           /\ UNCHANGED setting

LEMMA CallBegins ==
    ASSUME Client!TypeOK, NEW b \in Builders, NEW kind \in {"lookup", "book"},
           Client!Begin(b, kind, b, "feed")
    PROVE  /\ Only(b) /\ CallInv(call[b])' /\ Attempts(b)' = 0
           /\ call'[b].kind = kind /\ call'[b].at = "waiting"
<1> DEFINE new == Client!Fresh(kind, b, "feed")
<1>1. setting.first \in Client!Providers /\ call \in [Builders -> Client!Call]
  BY CallType
<1>2. new \in Client!Call
  BY <1>1, Constants DEF Client!Fresh, Client!Call, Client!Kinds
<1>3. /\ new.at = "waiting" /\ new.kind = kind /\ new.reply = "none"
      /\ new.provider = setting.first
      /\ \A p \in Client!Providers : new.sent[p] = 0
  BY DEF Client!Fresh
<1> HIDE DEF new
<1>4. call' = [call EXCEPT ![b] = new] /\ UNCHANGED setting
  BY DEF Client!Begin, new
<1>5. call'[b] = new
  BY <1>1, <1>4
<1>6. CallInv(call[b])'
  BY <1>1, <1>3, <1>4, <1>5, OtherProvider DEF CallInv
<1>7. Attempts(b)' = 0
  BY <1>3, <1>5 DEF Attempts, Client!Providers
<1> QED BY <1>1, <1>2, <1>3, <1>4, <1>5, <1>6, <1>7 DEF Only

(* On to the other provider, or the end of the call. *)
LEMMA ProviderFails ==
    ASSUME Client!TypeOK, NEW b \in Builders, CallInv(call[b]),
           NEW error \in {"upstream", "config"}, Client!ProviderFails(b, error),
           UNCHANGED setting, call[b].at # "done",
           call[b].sent[call[b].provider] > 0
              \/ (call[b].provider = "parse" /\ ~setting.key)
    PROVE  /\ Only(b) /\ CallInv(call[b])'
           /\ call'[b].kind = call[b].kind /\ call'[b].sent = call[b].sent
           /\ call'[b].at \in {"waiting", "done"} /\ call'[b].reply # "ok"
<1>1. /\ call \in [Builders -> Client!Call] /\ call[b] \in Client!Call
      /\ call[b].kind \in {"lookup", "book"} /\ call[b].reply = "none"
      /\ setting.first \in Client!Providers /\ call[b].provider \in Client!Providers
      /\ call[b].sent \in [Client!Providers -> 0..(MaxRetries + 1)]
  BY CallType DEF CallInv, Client!Kinds
<1> DEFINE errors == call[b].errors \cup {error}
<1> DEFINE reply == Client!Failure(call[b].kind, call[b].key, errors)
<1>2. CASE call[b].provider # setting.first
  <2> DEFINE new == [call[b] EXCEPT !.errors = errors, !.at = "done", !.reply = reply]
  <2>1. /\ reply \in {"422", "502", "503"} /\ reply \in Ends(call[b].kind)
    BY <1>1 DEF Client!Failure, Client!HttpStatus, Ends
  <2>2. call' = [call EXCEPT ![b] = new]
    BY <1>1, <1>2 DEF Client!ProviderFails, reply, Client!Call
  <2> HIDE DEF reply
  <2>3. new \in Client!Call
    BY <1>1, <2>1 DEF Client!Call
  <2>4. /\ call'[b].kind = call[b].kind /\ call'[b].sent = call[b].sent
        /\ call'[b].at = "done" /\ call'[b].reply = reply
    BY <1>1, <2>2 DEF Client!Call
  <2>5. Sent(call[b]) > 0
    <3>1. call[b].sent["direct"] \in Nat /\ call[b].sent["parse"] \in Nat
      BY <1>1, Constants DEF Client!Providers
    <3>2. call[b].sent["direct"] > 0 \/ call[b].sent["parse"] > 0
      BY <1>1, <1>2 DEF CallInv, Client!Providers
    <3> QED BY <3>1, <3>2 DEF Sent
  <2>6. CallInv(call[b])'
    BY <2>1, <2>4, <2>5 DEF CallInv, Sent
  <2> QED BY <1>1, <2>1, <2>2, <2>3, <2>4, <2>6 DEF Only
<1>3. CASE call[b].provider = setting.first
  <2> DEFINE new == [call[b] EXCEPT !.errors = errors, !.at = "waiting",
                                    !.provider = Client!Other(call[b].provider)]
  <2>1. Client!Other(call[b].provider) \in Client!Providers
    BY <1>1, OtherProvider
  <2>2. call' = [call EXCEPT ![b] = new]
    BY <1>1, <1>3 DEF Client!ProviderFails, Client!Call
  <2>3. new \in Client!Call
    BY <1>1, <2>1 DEF Client!Call
  <2>4. /\ call'[b].kind = call[b].kind /\ call'[b].sent = call[b].sent
        /\ call'[b].at = "waiting" /\ call'[b].reply = "none"
        /\ call'[b].provider = Client!Other(setting.first)
    BY <1>1, <1>3, <2>2 DEF Client!Call
  <2>5. CallInv(call[b])'
    BY <1>1, <1>3, <2>4, OtherProvider DEF CallInv
  <2> QED BY <1>1, <2>2, <2>3, <2>4, <2>5 DEF Only
<1> QED BY <1>2, <1>3

(* The client goes on: nothing is seen of it. *)
LEMMA CallGoesOn ==
    ASSUME Client!TypeOK, NEW b \in Builders, CallInv(call[b]),
           Client!KeyMissing(b) \/ Client!Send(b)
    PROVE  /\ Only(b) /\ CallInv(call[b])' /\ Attempts(b)' = Attempts(b)
           /\ call[b].at = "waiting" /\ call'[b].kind = call[b].kind
           /\ call'[b].at = "done" => call'[b].reply # "ok"
<1>1. /\ call \in [Builders -> Client!Call] /\ call[b] \in Client!Call
      /\ call[b].provider \in Client!Providers /\ setting.first \in Client!Providers
      /\ call[b].sent \in [Client!Providers -> 0..(MaxRetries + 1)]
  BY CallType
<1>2. CASE Client!KeyMissing(b)
  <2>1. call[b].at = "waiting"
    BY <1>2 DEF Client!KeyMissing
  <2>2. /\ Only(b) /\ CallInv(call[b])'
        /\ call'[b].kind = call[b].kind /\ call'[b].sent = call[b].sent
        /\ call'[b].at \in {"waiting", "done"} /\ call'[b].reply # "ok"
    BY <1>2, ProviderFails DEF Client!KeyMissing, Client!NeedsKey
  <2>3. Attempts(b)' = Attempts(b)
    BY <2>1, <2>2 DEF Attempts
  <2> QED BY <2>1, <2>2, <2>3
<1>3. CASE Client!Send(b)
  <2> DEFINE sent == [call[b].sent EXCEPT ![call[b].provider] = 1]
  <2> DEFINE new == [call[b] EXCEPT !.at = "sending", !.sent = sent]
  <2>1. sent \in [Client!Providers -> 0..(MaxRetries + 1)]
    BY <1>1, Constants
  <2>2. call[b].at = "waiting" /\ call' = [call EXCEPT ![b] = new] /\ UNCHANGED setting
    BY <1>1, <1>3 DEF Client!Send, Client!Call
  <2>3. /\ \A p \in Client!Providers : p # call[b].provider => sent[p] = call[b].sent[p]
        /\ sent[call[b].provider] = 1
    BY <1>1
  <2> HIDE DEF sent
  <2>4. new \in Client!Call
    BY <1>1, <2>1 DEF Client!Call
  <2>5. /\ call'[b].kind = call[b].kind /\ call'[b].sent = sent
        /\ call'[b].at = "sending" /\ call'[b].provider = call[b].provider
        /\ call'[b].reply = call[b].reply
    BY <1>1, <2>2 DEF Client!Call
  <2>6. CallInv(call[b])'
    BY <1>1, <2>2, <2>3, <2>5, OtherProvider DEF CallInv
  <2>7. Attempts(b)' = Attempts(b)
    <3>1. call[b].sent[call[b].provider] = 0
      BY <2>2 DEF CallInv
    <3>2. /\ sent["direct"] \in Nat /\ sent["parse"] \in Nat
          /\ call[b].sent["direct"] \in Nat /\ call[b].sent["parse"] \in Nat
      BY <1>1, <2>1, Constants DEF Client!Providers
    <3>3. sent["direct"] + sent["parse"] = call[b].sent["direct"] + call[b].sent["parse"] + 1
      BY <1>1, <2>3, <3>1, <3>2 DEF Client!Providers
    <3> QED BY <2>2, <2>5, <3>2, <3>3 DEF Attempts
  <2> QED BY <1>1, <2>2, <2>4, <2>5, <2>6, <2>7 DEF Only
<1> QED BY <1>2, <1>3

(* The end of a request is known: an attempt, if it is one of a booking. *)
Ended(b) ==
    /\ Only(b) /\ CallInv(call[b])' /\ call'[b].kind = call[b].kind
    /\ Attempts(b)' = IF call[b].kind = "book" THEN Attempts(b) + 1 ELSE 0

LEMMA RequestEnds ==
    ASSUME Client!TypeOK, NEW b \in Builders, CallInv(call[b]),
           Client!Retry(b) \/ Client!GiveUp(b) \/ Client!Malformed(b)
    PROVE  /\ Ended(b) /\ call[b].at = "sending"
           /\ call'[b].at = "done" => call'[b].reply # "ok"
<1>1. /\ call \in [Builders -> Client!Call] /\ call[b] \in Client!Call
      /\ call[b].provider \in Client!Providers /\ setting.first \in Client!Providers
      /\ call[b].sent \in [Client!Providers -> 0..(MaxRetries + 1)]
      /\ call[b].kind \in Client!Kinds
  BY CallType
<1>2. call[b].at = "sending" /\ call[b].sent[call[b].provider] > 0
      /\ UNCHANGED setting
  BY DEF Client!Retry, Client!GiveUp, Client!Malformed, CallInv
<1>3. call[b].sent["direct"] \in Nat /\ call[b].sent["parse"] \in Nat
  BY <1>1, Constants DEF Client!Providers
<1>4. CASE Client!GiveUp(b)
  <2>1. /\ Only(b) /\ CallInv(call[b])'
        /\ call'[b].kind = call[b].kind /\ call'[b].sent = call[b].sent
        /\ call'[b].at \in {"waiting", "done"} /\ call'[b].reply # "ok"
    BY <1>2, <1>4, ProviderFails DEF Client!GiveUp
  <2> QED BY <1>2, <1>3, <2>1 DEF Ended, Attempts
<1>5. CASE Client!Malformed(b)
  <2> DEFINE new == [call[b] EXCEPT !.at = "done", !.reply = "500"]
  <2>1. call' = [call EXCEPT ![b] = new]
    BY <1>1, <1>5 DEF Client!Malformed, Client!Call
  <2>2. new \in Client!Call
    BY <1>1 DEF Client!Call
  <2>3. /\ call'[b].kind = call[b].kind /\ call'[b].sent = call[b].sent
        /\ call'[b].at = "done" /\ call'[b].reply = "500"
    BY <1>1, <2>1 DEF Client!Call
  <2>4. call[b].sent["direct"] > 0 \/ call[b].sent["parse"] > 0
    BY <1>1, <1>2 DEF Client!Providers
  <2>5. CallInv(call[b])'
    BY <1>1, <1>2, <1>3, <2>3, <2>4 DEF CallInv, Sent, Ends, Client!Kinds
  <2> QED BY <1>1, <1>2, <1>3, <2>1, <2>2, <2>3, <2>5 DEF Ended, Only, Attempts
<1>6. CASE Client!Retry(b)
  <2> DEFINE sent == [call[b].sent EXCEPT ![call[b].provider] =
                         call[b].sent[call[b].provider] + 1]
  <2> DEFINE new == [call[b] EXCEPT !.sent = sent]
  <2>1. sent \in [Client!Providers -> 0..(MaxRetries + 1)]
    BY <1>1, <1>6, Constants DEF Client!Retry
  <2>2. call' = [call EXCEPT ![b] = new]
    BY <1>1, <1>6 DEF Client!Retry, Client!Call
  <2>3. /\ \A p \in Client!Providers : p # call[b].provider => sent[p] = call[b].sent[p]
        /\ sent[call[b].provider] = call[b].sent[call[b].provider] + 1
    BY <1>1
  <2> HIDE DEF sent
  <2>4. new \in Client!Call
    BY <1>1, <2>1 DEF Client!Call
  <2>5. /\ call'[b].kind = call[b].kind /\ call'[b].sent = sent
        /\ call'[b].at = "sending" /\ call'[b].provider = call[b].provider
        /\ call'[b].reply = call[b].reply
    BY <1>1, <1>2, <2>2 DEF Client!Call
  <2>6. sent[call[b].provider] > 0
    BY <1>1, <1>2, <2>3, Constants
  <2>7. CallInv(call[b])'
    BY <1>1, <1>2, <2>3, <2>5, <2>6, OtherProvider DEF CallInv
  <2>8. Attempts(b)' = IF call[b].kind = "book" THEN Attempts(b) + 1 ELSE 0
    <3>1. sent["direct"] + sent["parse"] = call[b].sent["direct"] + call[b].sent["parse"] + 1
      BY <1>1, <1>3, <2>3 DEF Client!Providers
    <3>2. sent["direct"] \in Nat /\ sent["parse"] \in Nat
      BY <2>1, Constants DEF Client!Providers
    <3>3. CASE call[b].kind = "book"
      <4>1. Attempts(b) = call[b].sent["direct"] + call[b].sent["parse"] - 1
        BY <1>2, <3>3 DEF Attempts
      <4>2. Attempts(b)' = sent["direct"] + sent["parse"] - 1
        BY <2>5, <3>3 DEF Attempts
      <4> QED BY <1>3, <3>1, <3>2, <3>3, <4>1, <4>2
    <3>4. CASE call[b].kind # "book"
      BY <2>5, <3>4 DEF Attempts
    <3> QED BY <3>3, <3>4
  <2> QED BY <1>1, <1>2, <2>2, <2>4, <2>5, <2>7, <2>8 DEF Ended, Only
<1> QED BY <1>4, <1>5, <1>6

LEMMA RequestAnswered ==
    ASSUME Client!TypeOK, NEW b \in Builders, CallInv(call[b]), Client!Answer(b)
    PROVE  /\ Ended(b) /\ call[b].at = "sending"
           /\ call'[b].at = "done" /\ call'[b].reply = "ok"
<1> DEFINE new == [call[b] EXCEPT !.at = "done", !.reply = "ok"]
<1>1. /\ call \in [Builders -> Client!Call] /\ call[b] \in Client!Call
      /\ call[b].sent \in [Client!Providers -> 0..(MaxRetries + 1)]
      /\ call[b].kind \in Client!Kinds
  BY CallType
<1>2. call[b].at = "sending" /\ call' = [call EXCEPT ![b] = new] /\ UNCHANGED setting
  BY <1>1 DEF Client!Answer, Client!Call
<1>3. new \in Client!Call
  BY <1>1 DEF Client!Call
<1>4. /\ call'[b].kind = call[b].kind /\ call'[b].sent = call[b].sent
      /\ call'[b].at = "done" /\ call'[b].reply = "ok"
  BY <1>1, <1>2 DEF Client!Call
<1>5. CallInv(call[b])'
  BY <1>1, <1>4 DEF CallInv, Ends, Client!Kinds
<1>6. call[b].sent["direct"] \in Nat /\ call[b].sent["parse"] \in Nat
  BY <1>1, Constants DEF Client!Providers
<1> QED BY <1>1, <1>2, <1>3, <1>4, <1>5, <1>6 DEF Ended, Only, Attempts

(* The client goes with its build. *)
LEMMA CallDropped ==
    ASSUME Client!TypeOK, NEW b \in Builders, NEW status, Reply(b, status)
    PROVE  /\ Only(b) /\ CallInv(call[b])' /\ Attempts(b)' = 0
           /\ call'[b].kind = "feed" /\ call'[b].at = "done" /\ call'[b].reply = "ok"
<1> DEFINE new == [Client!Fresh("feed", b, "feed") EXCEPT !.at = "done", !.reply = "ok"]
<1>1. setting.first \in Client!Providers /\ call \in [Builders -> Client!Call]
  BY CallType
<1>2. Client!Fresh("feed", b, "feed") \in Client!Call
  BY <1>1, Constants DEF Client!Fresh, Client!Call, Client!Kinds
<1>3. new \in Client!Call
  BY <1>2 DEF Client!Call
<1>4. new.kind = "feed" /\ new.at = "done" /\ new.reply = "ok"
  BY DEF Client!Fresh
<1> HIDE DEF new
<1>5. call' = [call EXCEPT ![b] = new] /\ UNCHANGED setting
  BY DEF Reply, new
<1>6. call'[b] = new
  BY <1>1, <1>5
<1> QED BY <1>1, <1>3, <1>4, <1>5, <1>6 DEF Only, CallInv, Ends, Attempts

-----------------------------------------------------------------------------
(* The build.                                                              *)

Active == {"validating", "booking", "recording", "refreshing"}

Rowless(b) == \A h \in history : h.by # b

(* Which method the build awaits at each stage, or awaited last. *)
Awaited(b) ==
    /\ post[b].at \in {"idle", "done"} => call[b].kind = "feed"
    /\ post[b].at = "validating" => call[b].kind \in {"feed", "lookup"}
    /\ post[b].at = "booking" =>
          \/ call[b].kind = "lookup" /\ call[b].at = "done" /\ call[b].reply = "ok"
          \/ call[b].kind = "book" /\ ~(call[b].at = "done" /\ call[b].reply = "ok")
    /\ post[b].at \in {"recording", "refreshing"} =>
          call[b].kind = "book" /\ call[b].at = "done" /\ call[b].reply = "ok"

(* What it knows: prices it was shown, one for each selection it read. *)
Knows(b) ==
    /\ Picked(b) \subseteq post[b].picks
    /\ \A q, r \in post[b].quotes : q.pick = r.pick => q = r
    /\ post[b].quotes \subseteq shown[b]
    /\ post[b].at \in Active => Builder!OnSale(feed) \subseteq shown[b]

(* What it has done outside. *)
HasDone(b) ==
    /\ post[b].at = "done" <=> post[b].reply # "none"
    /\ post[b].at = "idle" => post[b].quotes = {}
    /\ post[b].at \in {"idle", "validating"} => booked[b] = {}
    /\ post[b].at \in {"booking", "recording", "refreshing"} => Picked(b) = post[b].picks
    /\ post[b].at \in {"recording", "refreshing"} => Picked(b) \in booked[b]
    /\ post[b].at \in {"idle", "validating", "booking", "recording"} => Rowless(b)

(* What is left of it when it has answered. *)
HasLeft(b) ==
    /\ post[b].reply = "422" => booked[b] = {}
    /\ post[b].reply \in {"422", "502", "503"} => Rowless(b)

BuildInv(b) == CallInv(call[b]) /\ Awaited(b) /\ Knows(b) /\ HasDone(b) /\ HasLeft(b)

(* TypeOK without what the mapping adds, which follows from CallInv. *)
Types ==
    /\ sessions \in [Sessions -> {"new", "open", "deleted"}]
    /\ items \subseteq Item
    /\ history \subseteq Builder!Ticket
    /\ feed \in [Predictions -> Odds \cup {Gone}]
    /\ post \in [Builders -> Post]
    /\ booked \in [Builders -> SUBSET SUBSET Predictions]
    /\ shown \in [Builders -> SUBSET Builder!Quote]
    /\ Client!TypeOK

(* Every row is a ticket, with prices its build was shown. *)
RowInv(h) ==
    /\ {q.pick : q \in h.quotes} \in booked[h.by]
    /\ {q.pick : q \in h.quotes} = post[h.by].picks
    /\ \A q, r \in h.quotes : q.pick = r.pick => q = r
    /\ h.quotes \subseteq shown[h.by]

Invariant == /\ Types
             /\ \A b \in Builders : BuildInv(b)
             /\ \A h \in history : RowInv(h)
             /\ NoOrphans

(* What TicketBuild sees of a build. *)
Seen(b) == [at |-> post[b].at, session |-> post[b].session,
            picks |-> post[b].picks, quotes |-> post[b].quotes,
            attempts |-> Attempts(b), reply |-> post[b].reply]

LEMMA SeenType ==
    ASSUME Types, NEW b \in Builders, BuildInv(b) PROVE Seen(b) \in Builder!Build
<1>1. Attempts(b) \in Nat
  BY AttemptsRange DEF Types, BuildInv
<1> QED BY <1>1 DEF Seen, Types, Post, Builder!Build

LEMMA InvariantImplies ==
    ASSUME Invariant
    PROVE  /\ TypeOK /\ RefusedLeavesNothing /\ HistoryIsTicket /\ FreshOdds /\ NoOrphans
<1> DEFINE build == [b \in Builders |-> Seen(b)]
<1>1. build \in [Builders -> Builder!Build]
  BY SeenType DEF Invariant
<1>2. TypeOK
  <2>1. Builder!TypeOK
    BY <1>1 DEF Invariant, Types, Builder!TypeOK, Seen, Item, Builder!Item
  <2>2. Client!TypeOK /\ post \in [Builders -> Post]
    BY DEF Invariant, Types
  <2>3. \A b \in Builders : post[b].at = "done" <=> post[b].reply # "none"
    BY DEF Invariant, BuildInv, HasDone
  <2> QED BY <2>1, <2>2, <2>3 DEF TypeOK
<1>3. HistoryIsTicket
  <2>1. \A h \in history : h.by \in Builders
    BY DEF Invariant, Types, Builder!Ticket
  <2> QED BY <2>1 DEF Invariant, RowInv, HistoryIsTicket, Builder!HistoryIsTicket
<1>4. FreshOdds
  BY DEF Invariant, RowInv, FreshOdds, Builder!FreshOdds
<1>5. RefusedLeavesNothing
  BY DEF Invariant, BuildInv, HasLeft, Rowless, RefusedLeavesNothing,
         Builder!RefusedLeavesNothing
<1> QED BY <1>2, <1>3, <1>4, <1>5 DEF Invariant

-----------------------------------------------------------------------------
(* What a step leaves alone.                                               *)

LEMMA PicksType == ASSUME Types, NEW s \in Sessions PROVE PicksOf(s) \subseteq Predictions
BY DEF Types, PicksOf, Item

LEMMA OnSaleType ==
    ASSUME NEW f \in [Predictions -> Odds \cup {Gone}]
    PROVE  Builder!OnSale(f) \subseteq Builder!Quote
BY DEF Builder!OnSale, Builder!Quote

LEMMA PostType ==
    ASSUME Types, NEW b \in Builders
    PROVE  post \in [Builders -> Post] /\ post[b] \in Post
BY DEF Types

LEMMA PickedType ==
    ASSUME Types, NEW b \in Builders PROVE Picked(b) \subseteq Predictions
BY PostType DEF Picked, Post, Builder!Quote

LEMMA TablesType ==
    ASSUME Types, NEW s \in Sessions,
           \/ CreateSession(s)
           \/ DeleteSession(s)
           \/ \E p \in Predictions : AddItem(s, p) \/ RemoveItem(s, p.id)
    PROVE  /\ sessions' \in [Sessions -> {"new", "open", "deleted"}]
           /\ items' \subseteq Item
           /\ history' \subseteq history
BY DEF Types, CreateSession, DeleteSession, AddItem, RemoveItem, Item

LEMMA BookEffect ==
    ASSUME Types, NEW b \in Builders, BookTicket(b) \/ UNCHANGED booked
    PROVE  /\ booked' \in [Builders -> SUBSET SUBSET Predictions]
           /\ \A c \in Builders : booked[c] \subseteq booked'[c]
           /\ \A c \in Builders \ {b} : booked'[c] = booked[c]
           /\ BookTicket(b) => Picked(b) \in booked'[b]
BY PickedType DEF Types, BookTicket

LEMMA RecordEffect ==
    ASSUME Types, NEW b \in Builders, RecordTicket(Row(b)) \/ UNCHANGED tables
    PROVE  /\ sessions' = sessions /\ items' = items
           /\ history' \subseteq Builder!Ticket
           /\ history \subseteq history'
           /\ \A h \in history' : h \in history \/ (h = Row(b) /\ RecordTicket(Row(b)))
<1>1. Row(b) \in Builder!Ticket
  BY PostType DEF Row, Builder!Ticket, Post
<1> QED
  BY <1>1 DEF Types, RecordTicket, tables

(* A build is not disturbed by what others do. *)
LEMMA OthersKept ==
    ASSUME NEW c \in Builders, BuildInv(c), UNCHANGED <<feed, setting>>,
           post'[c] = post[c], booked'[c] = booked[c], shown'[c] = shown[c],
           call'[c] = call[c],
           \A h \in history' : h \in history \/ h.by # c
    PROVE  BuildInv(c)'
<1>1. CallInv(call[c])'
  BY DEF BuildInv, CallInv
<1>2. Awaited(c)'
  BY DEF BuildInv, Awaited
<1>3. (Knows(c) /\ HasDone(c) /\ HasLeft(c))'
  BY DEF BuildInv, Knows, HasDone, HasLeft, Rowless, Picked, Builder!OnSale
<1> QED BY <1>1, <1>2, <1>3 DEF BuildInv

(* Rows stay true when no ticket is lost and a build that has rows keeps what *)
(* it read and what it was shown.                                             *)
LEMMA RowsKept ==
    ASSUME Types, \A h \in history : RowInv(h),
           \A c \in Builders : booked[c] \subseteq booked'[c],
           \A c \in Builders :
              Rowless(c) \/ (/\ post'[c].picks = post[c].picks
                             /\ shown[c] \subseteq shown'[c]),
           \A h \in history' : h \in history \/ RowInv(h)'
    PROVE  \A h \in history' : RowInv(h)'
<1>1. \A h \in history : h.by \in Builders
  BY DEF Types, Builder!Ticket
<1>2. ASSUME NEW h \in history' PROVE RowInv(h)'
  <2>1. CASE h \in history
    BY <1>1, <2>1 DEF RowInv, Rowless
  <2> QED BY <2>1
<1> QED BY <1>2

LEMMA OrphansKept ==
    ASSUME NoOrphans, NEW b \in Builders, RecordTicket(Row(b)) \/ UNCHANGED tables
    PROVE  NoOrphans'
BY DEF NoOrphans, Open, RecordTicket, tables

(* A step of one build needs to keep what is said of that build. *)
LEMMA OneBuildSteps ==
    ASSUME Invariant, NEW b \in Builders, Only(b), UNCHANGED feed,
           post' \in [Builders -> Post], \A c \in Builders \ {b} : post'[c] = post[c],
           shown' \in [Builders -> SUBSET Builder!Quote],
           \A c \in Builders \ {b} : shown'[c] = shown[c],
           Rowless(b) \/ (post'[b].picks = post[b].picks /\ shown'[b] = shown[b]),
           BookTicket(b) \/ UNCHANGED booked,
           (At(b, "recording") /\ RecordTicket(Row(b)) /\ post'[b].picks = post[b].picks
                /\ shown'[b] = shown[b])
              \/ UNCHANGED tables,
           BuildInv(b)'
    PROVE  Invariant'
<1>0. Types /\ (\A c \in Builders : BuildInv(c)) /\ (\A h \in history : RowInv(h))
      /\ NoOrphans
  BY DEF Invariant
<1>1. /\ booked' \in [Builders -> SUBSET SUBSET Predictions]
      /\ \A c \in Builders : booked[c] \subseteq booked'[c]
      /\ \A c \in Builders \ {b} : booked'[c] = booked[c]
  BY <1>0, BookEffect
<1>2. /\ sessions' = sessions /\ items' = items
      /\ history' \subseteq Builder!Ticket
      /\ \A h \in history' : h \in history \/ (h = Row(b) /\ RecordTicket(Row(b)))
  BY <1>0, RecordEffect
<1>3. /\ call' \in [Builders -> Client!Call] /\ UNCHANGED setting
      /\ \A c \in Builders \ {b} : call'[c] = call[c]
  BY DEF Only
<1>4. Types'
  BY <1>0, <1>1, <1>2, <1>3 DEF Types, Client!TypeOK
<1>5. Row(b).by = b /\ Row(b).quotes = post[b].quotes
      /\ {q.pick : q \in Row(b).quotes} = Picked(b)
  BY DEF Row, Picked
<1>6. ASSUME NEW c \in Builders \ {b} PROVE BuildInv(c)'
  BY <1>0, <1>1, <1>2, <1>3, <1>5, OthersKept
<1>7. ASSUME NEW h \in history', h \notin history PROVE RowInv(h)'
  <2>1. h = Row(b) /\ At(b, "recording") /\ post'[b].picks = post[b].picks
        /\ shown'[b] = shown[b]
    BY <1>2, <1>7 DEF tables
  <2>2. Knows(b) /\ HasDone(b) /\ post[b].at = "recording"
    BY <1>0, <2>1 DEF BuildInv, At
  <2>3. Picked(b) \in booked[b] /\ Picked(b) = post[b].picks
    BY <2>2 DEF HasDone
  <2> QED BY <1>1, <1>5, <2>1, <2>2, <2>3 DEF RowInv, Knows
<1>8. \A h \in history' : RowInv(h)'
  <2>1. \A c \in Builders : Rowless(c) \/ (/\ post'[c].picks = post[c].picks
                                           /\ shown[c] \subseteq shown'[c])
    OBVIOUS
  <2> QED BY <1>0, <1>1, <1>7, <2>1, RowsKept
<1>9. NoOrphans'
  BY <1>0, OrphansKept
<1> QED BY <1>4, <1>6, <1>8, <1>9 DEF Invariant

-----------------------------------------------------------------------------
(* What TicketBuild sees of a step.                                        *)

LEMMA SeenIs ==
    ASSUME NEW b \in Builders
    PROVE  /\ \A stage : Builder!At(b, stage) <=> At(b, stage)
           /\ Builder!Checked(b) = Picked(b) /\ Builder!Row(b) = Row(b)
           /\ Builder!BookTicket(b) <=> BookTicket(b)
           /\ Builder!RecordTicket(Row(b)) <=> RecordTicket(Row(b))
           /\ UNCHANGED Builder!tables <=> UNCHANGED tables
           /\ \A s : Builder!PicksOf(s) = PicksOf(s)
<1>1. Builder!Checked(b) = Picked(b)
  BY DEF Builder!Checked, Picked
<1>2. Builder!Row(b) = Row(b)
  BY DEF Builder!Row, Row
<1>3. \A stage : Builder!At(b, stage) <=> At(b, stage)
  BY DEF Builder!At, At
<1>4. Builder!BookTicket(b) <=> BookTicket(b)
  BY <1>1 DEF Builder!BookTicket, BookTicket
<1>5. Builder!RecordTicket(Row(b)) <=> RecordTicket(Row(b))
  BY DEF Builder!RecordTicket, RecordTicket, Builder!Open, Open
<1>6. /\ UNCHANGED Builder!tables <=> UNCHANGED tables
      /\ \A s : Builder!PicksOf(s) = PicksOf(s)
  BY DEF Builder!tables, tables, Builder!PicksOf, PicksOf
<1> QED BY <1>1, <1>2, <1>3, <1>4, <1>5, <1>6

(* A build changes, and no other. *)
LEMMA SeenChanges ==
    ASSUME NEW b \in Builders, NEW new \in Builder!Build,
           post'[b].at = new.at, post'[b].session = new.session,
           post'[b].picks = new.picks, post'[b].quotes = new.quotes,
           post'[b].reply = new.reply, Attempts(b)' = new.attempts,
           \A c \in Builders \ {b} : post'[c] = post[c] /\ call'[c] = call[c]
    PROVE  [c \in Builders |-> Seen(c)]' = [[c \in Builders |-> Seen(c)] EXCEPT ![b] = new]
<1>1. \A c \in Builders \ {b} : Seen(c)' = Seen(c)
  BY DEF Seen, Attempts
<1>2. Seen(b)' = new
  BY DEF Seen, Builder!Build
<1> HIDE DEF Seen
<1> QED BY <1>1, <1>2

(* Nothing of it is seen. *)
LEMMA NothingSeen ==
    ASSUME Types, NEW b \in Builders, Only(b), UNCHANGED post, Attempts(b)' = Attempts(b),
           UNCHANGED <<tables, feed, booked, shown>>
    PROVE  UNCHANGED Builder!vars
<1>1. \A c \in Builders : Seen(c)' = Seen(c)
  BY DEF Seen, Attempts, Only
<1>2. [c \in Builders |-> Seen(c)]' = [c \in Builders |-> Seen(c)]
  BY <1>1
<1> QED BY <1>2 DEF Seen, Builder!vars, tables

-----------------------------------------------------------------------------
(* The invariant at the start, and the steps of a build: each keeps it and is *)
(* a step of TicketBuild or nothing to it.                                    *)

LEMMA InvariantInit == Init => Invariant
<1> SUFFICES ASSUME Init PROVE Invariant
  OBVIOUS
<1>1. setting \in [first : Client!Providers, key : BOOLEAN]
  BY DEF Init, Client!Init
<1> PICK client \in Builders :
       call = [c \in Builders |-> [Client!Fresh("feed", client, "feed") EXCEPT
                                     !.at = "done", !.reply = "ok"]]
  BY DEF Init, Client!Init
<1> DEFINE fresh == Client!Fresh("feed", client, "feed")
<1> DEFINE first == [fresh EXCEPT !.at = "done", !.reply = "ok"]
<1>2. /\ first \in Client!Call
      /\ first.at = "done" /\ first.kind = "feed" /\ first.reply = "ok"
  <2>1. fresh \in Client!Call /\ fresh.kind = "feed"
    BY <1>1, Constants DEF Client!Fresh, Client!Call, Client!Kinds
  <2> HIDE DEF fresh
  <2> QED BY <2>1 DEF Client!Call
<1> HIDE DEF first
<1>3. call = [c \in Builders |-> first]
  BY DEF first
<1>4. Client!TypeOK
  BY <1>1, <1>2, <1>3, Constants DEF Client!TypeOK, Client!Ages, Client!NoEntry
<1>5. Types
  BY <1>4 DEF Init, TablesInit, Types, Post, Builder!Stages
<1>6. history = {} /\ items = {}
  BY DEF Init, TablesInit
<1>7. ASSUME NEW b \in Builders
      PROVE  /\ post[b].at = "idle" /\ post[b].reply = "none"
             /\ post[b].quotes = {} /\ booked[b] = {}
  BY DEF Init
<1>8. ASSUME NEW b \in Builders PROVE BuildInv(b)
  <2>1. CallInv(call[b])
    BY <1>2, <1>3 DEF CallInv, Ends
  <2>2. Awaited(b)
    BY <1>2, <1>3, <1>7 DEF Awaited
  <2>3. Knows(b) /\ HasDone(b) /\ HasLeft(b)
    BY <1>6, <1>7 DEF Knows, HasDone, HasLeft, Picked, Rowless, Active
  <2> QED BY <2>1, <2>2, <2>3 DEF BuildInv
<1> QED BY <1>5, <1>6, <1>8 DEF Invariant, NoOrphans

LEMMA BeginStep ==
    ASSUME Invariant, NEW b \in Builders, NEW s \in Sessions, Begin(b, s)
    PROVE  Invariant' /\ Builder!Begin(b, s)
<1>0. Types /\ BuildInv(b) /\ (\A h \in history : RowInv(h)) /\ NoOrphans
  BY DEF Invariant
<1> DEFINE at == IF PicksOf(s) = {} THEN "done" ELSE "validating"
<1> DEFINE reply == IF PicksOf(s) = {} THEN "422" ELSE "none"
<1> DEFINE new == [post[b] EXCEPT !.session = s, !.picks = PicksOf(s),
                                  !.at = at, !.reply = reply]
<1>1. PicksOf(s) \subseteq Predictions /\ Builder!OnSale(feed) \subseteq Builder!Quote
  BY <1>0, PicksType, OnSaleType DEF Types
<1>2. post' = [post EXCEPT ![b] = new] /\ post[b].at = "idle"
  BY DEF Begin, At
<1>3. /\ new \in Post /\ new.picks = PicksOf(s) /\ new.quotes = post[b].quotes
      /\ new.session = s /\ new.at = at /\ new.reply = reply
  BY <1>0, <1>1, PostType DEF Post, Builder!Stages
<1> HIDE DEF new
<1>4. /\ post' \in [Builders -> Post] /\ post'[b] = new
      /\ \A c \in Builders \ {b} : post'[c] = post[c]
  BY <1>0, <1>2, <1>3, PostType
<1>5. /\ shown' \in [Builders -> SUBSET Builder!Quote] /\ shown'[b] = Builder!OnSale(feed)
      /\ \A c \in Builders \ {b} : shown'[c] = shown[c]
      /\ UNCHANGED <<tables, feed, booked, setting, call>>
  BY <1>0, <1>1 DEF Begin, Types
<1>6. post[b].quotes = {} /\ booked[b] = {} /\ Rowless(b) /\ call[b].kind = "feed"
  BY <1>0, <1>2 DEF BuildInv, HasDone, Awaited
<1>7. BuildInv(b)'
  <2>1. CallInv(call[b])' /\ Awaited(b)'
    BY <1>0, <1>3, <1>4, <1>5, <1>6 DEF BuildInv, CallInv, Awaited
  <2>2. (Knows(b) /\ HasDone(b) /\ HasLeft(b))'
    BY <1>3, <1>4, <1>5, <1>6
       DEF Knows, HasDone, HasLeft, Picked, Rowless, Builder!OnSale, tables
  <2> QED BY <2>1, <2>2 DEF BuildInv
<1>8. Only(b)
  BY <1>0, <1>5, CallType DEF Only, Types
<1>9. Invariant'
  BY <1>4, <1>5, <1>6, <1>7, <1>8, OneBuildSteps
<1>10. Builder!Begin(b, s)
  <2> DEFINE build == [c \in Builders |-> Seen(c)]
  <2> DEFINE next == [build[b] EXCEPT !.session = s, !.picks = PicksOf(s),
                                      !.at = at, !.reply = reply]
  <2>1. build[b] \in Builder!Build /\ build[b] = Seen(b)
    BY <1>0, SeenType
  <2>2. next \in Builder!Build
    BY <1>1, <2>1 DEF Builder!Build, Builder!Stages
  <2>3. /\ next.at = at /\ next.session = s /\ next.picks = PicksOf(s)
        /\ next.quotes = post[b].quotes /\ next.attempts = Attempts(b)
        /\ next.reply = reply
    BY <2>1 DEF Seen, Builder!Build
  <2>4. build' = [build EXCEPT ![b] = next]
    <3> HIDE DEF next
    <3> QED BY <1>3, <1>4, <1>5, <2>2, <2>3, SeenChanges DEF Attempts
  <2>5. build[b].at = "idle" /\ UNCHANGED <<tables, feed, booked>>
        /\ shown' = [shown EXCEPT ![b] = Builder!OnSale(feed)]
    BY <1>2, <1>5 DEF Seen, Begin
  <2> QED BY <2>4, <2>5 DEF Seen, Builder!Begin, Builder!At, Builder!tables, tables,
                            Builder!PicksOf, PicksOf
<1> QED BY <1>9, <1>10

LEMMA CallsClientStep ==
    ASSUME Invariant, NEW b \in Builders, CallsClient(b) \/ ClientSends(b)
    PROVE  Invariant' /\ UNCHANGED Builder!vars
<1>0. Types /\ BuildInv(b) /\ Client!TypeOK /\ CallInv(call[b])
  BY DEF Invariant, Types, BuildInv
<1>1. UNCHANGED <<tables, feed, post, booked, shown>> /\ Awaits(b)
  BY DEF CallsClient, ClientSends
<1>2. /\ Only(b) /\ CallInv(call[b])' /\ Attempts(b)' = Attempts(b) /\ Awaited(b)'
  <2>1. CASE CallsClient(b)
    <3>1. PICK kind \in {"lookup", "book"} :
             /\ Client!Begin(b, kind, b, "feed")
             /\ kind = IF At(b, "validating") THEN "lookup" ELSE "book"
      BY <2>1 DEF CallsClient
    <3>2. /\ Only(b) /\ CallInv(call[b])' /\ Attempts(b)' = 0
          /\ call'[b].kind = kind /\ call'[b].at = "waiting"
      BY <1>0, <3>1, CallBegins
    <3>3. Attempts(b) = 0
      BY <1>0, <1>1, <2>1 DEF CallsClient, Client!Begin, BuildInv, Awaited, Awaits, Attempts
    <3>4. Awaited(b)'
      BY <1>1, <3>1, <3>2 DEF Awaited, Awaits, At
    <3> QED BY <3>2, <3>3, <3>4
  <2>2. CASE ClientSends(b)
    <3>1. /\ Only(b) /\ CallInv(call[b])' /\ Attempts(b)' = Attempts(b)
          /\ call[b].at = "waiting" /\ call'[b].kind = call[b].kind
          /\ call'[b].at = "done" => call'[b].reply # "ok"
      BY <1>0, <2>2, CallGoesOn DEF ClientSends
    <3>2. Awaited(b)'
      BY <1>0, <1>1, <3>1 DEF BuildInv, Awaited, Awaits
    <3> QED BY <3>1, <3>2
  <2> QED BY <2>1, <2>2
<1>3. BuildInv(b)'
  BY <1>0, <1>1, <1>2 DEF BuildInv, Knows, HasDone, HasLeft, Picked, Rowless,
                          Builder!OnSale, tables
<1>4. Invariant'
  BY <1>0, <1>1, <1>2, <1>3, PostType, OneBuildSteps DEF Types
<1>5. UNCHANGED Builder!vars
  BY <1>0, <1>1, <1>2, NothingSeen
<1> QED BY <1>4, <1>5

(* A lookup that fails is not seen; a request for the booking that ends is an  *)
(* attempt, and the ticket may be made.                                        *)
LEMMA RequestFailsStep ==
    ASSUME Invariant, NEW b \in Builders, RequestFails(b)
    PROVE  Invariant' /\ (Builder!BookingFails(b) \/ UNCHANGED Builder!vars)
<1>0. Types /\ BuildInv(b) /\ Client!TypeOK /\ CallInv(call[b]) /\ Awaited(b)
  BY DEF Invariant, Types, BuildInv
<1>1. UNCHANGED <<tables, feed, post, shown>> /\ Awaits(b)
  BY DEF RequestFails
<1>2. /\ Ended(b) /\ call[b].at = "sending"
      /\ call'[b].at = "done" => call'[b].reply # "ok"
  BY <1>0, RequestEnds DEF RequestFails
<1>3. Only(b) /\ CallInv(call[b])' /\ Awaited(b)'
  BY <1>0, <1>1, <1>2 DEF Ended, Awaited, Awaits
<1>4. /\ post[b].at = "validating" => call[b].kind = "lookup"
      /\ post[b].at = "booking" => call[b].kind = "book"
  BY <1>0, <1>2 DEF Awaited, CallInv
<1>5. /\ BookTicket(b) \/ UNCHANGED booked
      /\ post[b].at = "validating" => UNCHANGED booked
  BY <1>4 DEF RequestFails, MayBook, Booking
<1>6. BuildInv(b)'
  BY <1>0, <1>1, <1>3, <1>5 DEF BuildInv, Knows, HasDone, HasLeft, Picked, Rowless,
                                Builder!OnSale, Awaits, tables
<1>7. Invariant'
  BY <1>0, <1>1, <1>3, <1>5, <1>6, PostType, OneBuildSteps DEF Types
<1>8. CASE post[b].at = "validating"
  <2>1. Attempts(b)' = Attempts(b)
    BY <1>2, <1>4, <1>8 DEF Ended, Attempts
  <2> QED BY <1>0, <1>1, <1>3, <1>5, <1>7, <1>8, <2>1, NothingSeen
<1>9. CASE post[b].at = "booking"
  <2> DEFINE build == [c \in Builders |-> Seen(c)]
  <2> DEFINE next == [build[b] EXCEPT !.attempts = build[b].attempts + 1]
  <2>1. build[b] \in Builder!Build /\ build[b] = Seen(b)
    BY <1>0, SeenType
  <2>2. next \in Builder!Build
    BY <2>1 DEF Builder!Build
  <2>3. /\ next.at = post[b].at /\ next.session = post[b].session
        /\ next.picks = post[b].picks /\ next.quotes = post[b].quotes
        /\ next.attempts = Attempts(b) + 1 /\ next.reply = post[b].reply
    BY <2>1 DEF Seen, Builder!Build
  <2>4. Attempts(b)' = Attempts(b) + 1
    BY <1>2, <1>4, <1>9 DEF Ended
  <2>5. build' = [build EXCEPT ![b] = next]
    <3> HIDE DEF next
    <3> QED BY <1>1, <1>3, <2>2, <2>3, <2>4, SeenChanges DEF Only
  <2>6. build[b].at = "booking" /\ build[b].attempts < 2 * (MaxRetries + 1)
    BY <1>0, <1>2, <1>9, <2>1, AttemptsRange DEF Seen
  <2>7. Builder!BookTicket(b) \/ UNCHANGED booked
    BY <1>5, SeenIs
  <2>8. Builder!BookingFails(b)
    BY <1>1, <2>5, <2>6, <2>7 DEF Seen, Builder!BookingFails, Builder!At, Builder!tables, tables
  <2> QED BY <1>7, <2>8
<1> QED BY <1>1, <1>8, <1>9 DEF Awaits

LEMMA ValidateStep ==
    ASSUME Invariant, NEW b \in Builders, NEW p \in Predictions, Validate(b, p)
    PROVE  Invariant' /\ Builder!Validate(b, p)
<1> DEFINE q == [pick |-> p, odds |-> feed[p]]
<1> DEFINE quotes == post[b].quotes \cup {q}
<1> DEFINE at == IF post[b].picks = Picked(b) \cup {p} THEN "booking" ELSE "validating"
<1> DEFINE new == [post[b] EXCEPT !.quotes = quotes, !.at = at]
<1>0. Types /\ BuildInv(b) /\ Client!TypeOK /\ CallInv(call[b]) /\ Awaited(b)
      /\ Knows(b) /\ HasDone(b) /\ HasLeft(b)
  BY DEF Invariant, Types, BuildInv
<1>1. /\ post[b].at = "validating" /\ p \in post[b].picks \ Picked(b) /\ feed[p] # Gone
      /\ post' = [post EXCEPT ![b] = new]
      /\ UNCHANGED <<tables, feed, booked, shown>>
  BY DEF Validate, At
<1>2. q \in Builder!Quote /\ q \in Builder!OnSale(feed) /\ q.pick = p
  BY <1>0, <1>1 DEF Types, Builder!Quote, Builder!OnSale
<1>3. new \in Post /\ new.quotes = quotes /\ new.at = at /\ new.picks = post[b].picks
      /\ new.session = post[b].session /\ new.reply = post[b].reply
  <2> HIDE DEF q
  <2> QED BY <1>0, <1>2, PostType DEF Post, Builder!Stages
<1> HIDE DEF new, q
<1>4. /\ post' \in [Builders -> Post] /\ post'[b] = new
      /\ \A c \in Builders \ {b} : post'[c] = post[c]
  BY <1>0, <1>1, <1>3, PostType
<1>5. /\ Ended(b) /\ call[b].at = "sending" /\ Only(b)
      /\ call'[b].at = "done" /\ call'[b].reply = "ok"
  BY <1>0, RequestAnswered DEF Validate, Ended
<1>6. call[b].kind = "lookup" /\ call'[b].kind = "lookup" /\ CallInv(call[b])'
  BY <1>0, <1>1, <1>5 DEF Awaited, CallInv, Ended
<1>7. Attempts(b)' = Attempts(b)
  BY <1>5, <1>6 DEF Ended, Attempts
<1>8. Picked(b)' = Picked(b) \cup {p}
  BY <1>2, <1>3, <1>4 DEF Picked
<1>9. BuildInv(b)'
  <2>1. Awaited(b)'
    BY <1>3, <1>4, <1>5, <1>6 DEF Awaited
  <2>2. \A r \in post[b].quotes : r.pick # p
    BY <1>1 DEF Picked
  <2>3. Knows(b)'
    BY <1>0, <1>1, <1>2, <1>3, <1>4, <1>8, <2>2 DEF Knows, Active, Builder!OnSale
  <2>4. (HasDone(b) /\ HasLeft(b))'
    BY <1>0, <1>1, <1>3, <1>4, <1>8 DEF HasDone, HasLeft, Rowless, tables
  <2> QED BY <1>6, <2>1, <2>3, <2>4 DEF BuildInv
<1>10. Invariant'
  BY <1>0, <1>1, <1>3, <1>4, <1>5, <1>9, OneBuildSteps DEF Types
<1>11. Builder!Validate(b, p)
  <2> DEFINE build == [c \in Builders |-> Seen(c)]
  <2> DEFINE next == [build[b] EXCEPT !.quotes = build[b].quotes \cup {q}, !.at = at]
  <2>1. build[b] \in Builder!Build /\ build[b] = Seen(b) /\ build[b].quotes = post[b].quotes
        /\ build[b].at = "validating" /\ build[b].picks = post[b].picks
    BY <1>0, <1>1, SeenType DEF Seen
  <2>2. next \in Builder!Build
    BY <1>2, <2>1 DEF Builder!Build, Builder!Stages
  <2>3. /\ next.at = at /\ next.session = post[b].session
        /\ next.picks = post[b].picks /\ next.quotes = quotes
        /\ next.attempts = Attempts(b) /\ next.reply = post[b].reply
    BY <2>1 DEF Seen, Builder!Build
  <2>4. build' = [build EXCEPT ![b] = next]
    <3>1. /\ post'[b].at = next.at /\ post'[b].session = next.session
          /\ post'[b].picks = next.picks /\ post'[b].quotes = next.quotes
          /\ post'[b].reply = next.reply /\ Attempts(b)' = next.attempts
      BY <1>3, <1>4, <1>7, <2>3
    <3> HIDE DEF next
    <3> QED BY <1>4, <1>5, <2>2, <3>1, SeenChanges DEF Only
  <2>5. Builder!Checked(b) = Picked(b)
    BY SeenIs
  <2>6. build' = [build EXCEPT ![b] = [build[b] EXCEPT
              !.quotes = build[b].quotes \cup {q},
              !.at = IF build[b].picks = Builder!Checked(b) \cup {p}
                     THEN "booking" ELSE "validating"]]
    <3> HIDE DEF build
    <3> QED BY <2>1, <2>4, <2>5
  <2>7. build[b].at = "validating" /\ p \in build[b].picks \ Builder!Checked(b)
    <3> HIDE DEF build
    <3> QED BY <1>1, <2>1, <2>5
  <2> QED BY <1>1, <2>6, <2>7 DEF Seen, Builder!Validate, Builder!At, Builder!tables,
                                  tables, q
<1> QED BY <1>10, <1>11

Statuses == {"200", "422", "500", "502", "503", "lost"}

(* A build that answers: what it has booked and written decides what it may say. *)
LEMMA ReplyStep ==
    ASSUME Invariant, NEW b \in Builders, NEW status \in Statuses, Reply(b, status),
           UNCHANGED <<feed, shown>>, BookTicket(b) \/ UNCHANGED booked,
           (At(b, "recording") /\ RecordTicket(Row(b))) \/ UNCHANGED tables,
           status \in {"422", "502", "503"} => UNCHANGED <<booked, tables>> /\ Rowless(b),
           status = "422" => booked[b] = {}
    PROVE  Invariant' /\ Builder!Reply(b, status)
<1> DEFINE new == [post[b] EXCEPT !.at = "done", !.reply = status, !.quotes = {}]
<1>0. Types /\ BuildInv(b) /\ Client!TypeOK /\ CallInv(call[b])
  BY DEF Invariant, Types, BuildInv
<1>1. post' = [post EXCEPT ![b] = new]
  BY DEF Reply
<1>2. new \in Post /\ new.quotes = {} /\ new.at = "done" /\ new.picks = post[b].picks
      /\ new.session = post[b].session /\ new.reply = status
  BY <1>0, PostType DEF Post, Builder!Stages, Statuses
<1> HIDE DEF new
<1>3. /\ post' \in [Builders -> Post] /\ post'[b] = new
      /\ \A c \in Builders \ {b} : post'[c] = post[c]
  BY <1>0, <1>1, <1>2, PostType
<1>4. /\ Only(b) /\ CallInv(call[b])' /\ Attempts(b)' = 0
      /\ call'[b].kind = "feed" /\ call'[b].at = "done" /\ call'[b].reply = "ok"
  BY <1>0, CallDropped
<1>5. BuildInv(b)'
  <2>1. Awaited(b)'
    BY <1>2, <1>3, <1>4 DEF Awaited
  <2>2. Knows(b)' /\ HasDone(b)'
    BY <1>2, <1>3 DEF Knows, HasDone, Picked, Active, Statuses
  <2>3. HasLeft(b)'
    BY <1>2, <1>3 DEF HasLeft, Rowless, tables
  <2> QED BY <1>4, <2>1, <2>2, <2>3 DEF BuildInv
<1>6. Invariant'
  BY <1>0, <1>2, <1>3, <1>4, <1>5, OneBuildSteps DEF Types
<1>7. Builder!Reply(b, status)
  <2> DEFINE build == [c \in Builders |-> Seen(c)]
  <2> DEFINE next == [build[b] EXCEPT !.at = "done", !.reply = status,
                                      !.quotes = {}, !.attempts = 0]
  <2>1. build[b] \in Builder!Build /\ build[b] = Seen(b)
    BY <1>0, SeenType
  <2>2. next \in Builder!Build
    BY <2>1 DEF Builder!Build, Builder!Stages, Statuses
  <2>3. /\ next.at = "done" /\ next.session = post[b].session
        /\ next.picks = post[b].picks /\ next.quotes = {}
        /\ next.attempts = 0 /\ next.reply = status
    BY <2>1 DEF Seen, Builder!Build
  <2>4. build' = [build EXCEPT ![b] = next]
    <3>1. /\ post'[b].at = next.at /\ post'[b].session = next.session
          /\ post'[b].picks = next.picks /\ post'[b].quotes = next.quotes
          /\ post'[b].reply = next.reply /\ Attempts(b)' = next.attempts
      BY <1>2, <1>3, <1>4, <2>3
    <3> HIDE DEF next
    <3> QED BY <1>3, <1>4, <2>2, <3>1, SeenChanges DEF Only
  <2> QED BY <2>4 DEF Seen, Builder!Reply
<1> QED BY <1>6, <1>7

LEMMA NotOnSaleStep ==
    ASSUME Invariant, NEW b \in Builders, NEW p \in Predictions, NotOnSale(b, p)
    PROVE  Invariant' /\ Builder!ValidationFails(b)
<1>1. /\ Reply(b, "422") /\ UNCHANGED <<tables, feed, booked, shown>>
      /\ At(b, "validating")
  BY DEF NotOnSale
<1>2. booked[b] = {} /\ Rowless(b)
  BY <1>1 DEF Invariant, BuildInv, HasDone, At
<1>3. Invariant' /\ Builder!Reply(b, "422")
  BY <1>1, <1>2, ReplyStep DEF Statuses
<1> QED BY <1>1, <1>3, SeenIs DEF Builder!ValidationFails

(* The endpoint answers what the client's method may report at that stage. *)
LEMMA CallFailsStep ==
    ASSUME Invariant, NEW b \in Builders, CallFails(b)
    PROVE  Invariant' /\ (Builder!ValidationFails(b) \/ Builder!GiveUp(b))
<1>0. Types /\ Client!TypeOK /\ CallInv(call[b]) /\ Awaited(b) /\ HasDone(b)
  BY DEF Invariant, BuildInv, Types
<1> PICK status \in Statuses \cup {"none", "ok", "stale"} : status = call[b].reply
  BY <1>0, CallType DEF Client!Call, Statuses
<1>1. /\ Reply(b, status) /\ UNCHANGED <<tables, feed, booked, shown>> /\ Awaits(b)
      /\ call[b].at = "done" /\ status # "ok"
  BY DEF CallFails, Reply
<1>2. CASE At(b, "validating")
  <2>1. booked[b] = {} /\ Rowless(b)
    BY <1>0, <1>2 DEF HasDone, At
  <2>2. status \in {"422", "500"}
    BY <1>0, <1>1, <1>2 DEF Awaited, CallInv, Ends, At
  <2>3. Invariant' /\ Builder!Reply(b, status)
    BY <1>1, <2>1, <2>2, ReplyStep DEF Statuses
  <2> QED BY <1>1, <1>2, <2>2, <2>3, SeenIs DEF Builder!ValidationFails
<1>3. CASE At(b, "booking")
  <2>1. Rowless(b)
    BY <1>0, <1>3 DEF HasDone, At
  <2>2. call[b].kind = "book" /\ status \in {"500", "502", "503"}
    BY <1>0, <1>1, <1>3 DEF Awaited, CallInv, Ends, At
  <2>3. Invariant' /\ Builder!Reply(b, status)
    BY <1>1, <2>1, <2>2, ReplyStep DEF Statuses
  <2>4. [c \in Builders |-> Seen(c)][b].attempts > 0
    BY <1>0, <1>1, <2>2, AttemptsRange DEF Seen
  <2> QED BY <1>1, <1>3, <2>2, <2>3, <2>4, SeenIs DEF Builder!GiveUp, Seen
<1> QED BY <1>1, <1>2, <1>3 DEF Awaits, At

LEMMA RecordRaisesStep ==
    ASSUME Invariant, NEW b \in Builders, RecordRaises(b)
    PROVE  Invariant' /\ Builder!RecordRaises(b)
<1>1. Invariant' /\ Builder!Reply(b, "500")
  BY ReplyStep DEF RecordRaises, Statuses
<1>2. /\ Builder!At(b, "recording")
      /\ Builder!RecordTicket(Builder!Row(b)) \/ UNCHANGED Builder!tables
      /\ UNCHANGED <<feed, booked, shown>>
  BY SeenIs DEF RecordRaises
<1> QED BY <1>1, <1>2, SeenIs DEF Builder!RecordRaises

LEMMA RefreshStep ==
    ASSUME Invariant, NEW b \in Builders, Refresh(b)
    PROVE  Invariant' /\ Builder!Refresh(b)
<1>1. /\ At(b, "refreshing") /\ UNCHANGED <<tables, feed, booked, shown>>
      /\ (Row(b) \in history /\ Reply(b, "200")) \/ Reply(b, "500")
  BY DEF Refresh
<1>2. ASSUME NEW status \in {"200", "500"}, Reply(b, status)
      PROVE  Invariant' /\ Builder!Reply(b, status)
  BY <1>1, <1>2, ReplyStep DEF Statuses, At
<1>3. Invariant'
  BY <1>1, <1>2
<1>4. (Row(b) \in history /\ Builder!Reply(b, "200")) \/ Builder!Reply(b, "500")
  BY <1>1, <1>2
<1>5. Builder!At(b, "refreshing") /\ Builder!Row(b) = Row(b) /\ UNCHANGED Builder!tables
  BY <1>1, SeenIs
<1> QED BY <1>1, <1>3, <1>4, <1>5 DEF Builder!Refresh

(* A death in the middle of a request leaves the ticket made or not. *)
LEMMA DiesStep ==
    ASSUME Invariant, NEW b \in Builders, Dies(b)
    PROVE  Invariant' /\ Builder!Dies(b)
<1>0. Types /\ CallInv(call[b]) /\ Awaited(b)
  BY DEF Invariant, BuildInv
<1>1. /\ post[b].at \notin {"idle", "done"} /\ Reply(b, "lost") /\ UNCHANGED <<feed, shown>>
      /\ (At(b, "recording") /\ RecordTicket(Row(b))) \/ UNCHANGED tables
  BY DEF Dies
<1>2. (At(b, "booking") /\ BookTicket(b)) \/ UNCHANGED booked
  BY <1>0, <1>1, PostType DEF Dies, MayBook, Booking, At, Awaited, CallInv, Post, Builder!Stages
<1>3. Invariant' /\ Builder!Reply(b, "lost")
  BY <1>1, <1>2, ReplyStep DEF Statuses
<1>4. \/ UNCHANGED <<tables, booked>>
      \/ At(b, "booking") /\ BookTicket(b) /\ UNCHANGED tables
      \/ At(b, "recording") /\ RecordTicket(Row(b)) /\ UNCHANGED booked
  BY <1>1, <1>2 DEF At
<1>5. [c \in Builders |-> Seen(c)][b].at \notin {"idle", "done"}
  BY <1>1 DEF Seen
<1> QED BY <1>1, <1>3, <1>4, <1>5, SeenIs DEF Builder!Dies, Seen

LEMMA BookingAnsweredStep ==
    ASSUME Invariant, NEW b \in Builders, BookingAnswered(b)
    PROVE  Invariant' /\ Builder!BookingAnswered(b)
<1> DEFINE new == [post[b] EXCEPT !.at = "recording"]
<1>0. Types /\ BuildInv(b) /\ Client!TypeOK /\ CallInv(call[b])
      /\ Knows(b) /\ HasDone(b) /\ HasLeft(b)
  BY DEF Invariant, Types, BuildInv
<1>1. /\ post[b].at = "booking" /\ call[b].kind = "book" /\ BookTicket(b)
      /\ UNCHANGED <<tables, feed, shown>> /\ Client!Answer(b)
  BY DEF BookingAnswered, Booking, At
<1>2. new \in Post /\ new.quotes = post[b].quotes /\ new.at = "recording"
      /\ new.picks = post[b].picks /\ new.session = post[b].session
      /\ new.reply = post[b].reply
  BY <1>0, PostType DEF Post, Builder!Stages
<1>3. post' = [post EXCEPT ![b] = new]
  BY <1>0, PostType DEF BookingAnswered, Post
<1> HIDE DEF new
<1>4. /\ post' \in [Builders -> Post] /\ post'[b] = new
      /\ \A c \in Builders \ {b} : post'[c] = post[c]
  BY <1>0, <1>2, <1>3, PostType
<1>5. /\ Ended(b) /\ Only(b) /\ call[b].at = "sending" /\ call'[b].kind = "book"
      /\ call'[b].at = "done" /\ call'[b].reply = "ok" /\ CallInv(call[b])'
      /\ Attempts(b)' = Attempts(b) + 1
  BY <1>0, <1>1, RequestAnswered DEF Ended
<1>6. Picked(b) \in booked'[b]
  BY <1>0, <1>1, BookEffect
<1>7. BuildInv(b)'
  <2>1. Awaited(b)'
    BY <1>2, <1>4, <1>5 DEF Awaited
  <2>2. Knows(b)' /\ HasDone(b)'
    BY <1>0, <1>1, <1>2, <1>4, <1>6
       DEF Knows, HasDone, Picked, Active, Rowless, Builder!OnSale, tables
  <2>3. HasLeft(b)'
    BY <1>0, <1>1, <1>2, <1>4 DEF HasDone, HasLeft
  <2> QED BY <1>5, <2>1, <2>2, <2>3 DEF BuildInv
<1>8. Invariant'
  BY <1>0, <1>1, <1>2, <1>4, <1>5, <1>7, OneBuildSteps DEF Types
<1>9. Builder!BookingAnswered(b)
  <2> DEFINE build == [c \in Builders |-> Seen(c)]
  <2> DEFINE next == [build[b] EXCEPT !.attempts = build[b].attempts + 1,
                                      !.at = "recording"]
  <2>1. build[b] \in Builder!Build /\ build[b] = Seen(b) /\ build \in [Builders -> Builder!Build]
    BY <1>0, SeenType DEF Invariant
  <2>2. next \in Builder!Build
    <3> DEFINE attempts == build[b].attempts + 1
    <3>1. attempts \in Nat
      BY <2>1 DEF Builder!Build
    <3> HIDE DEF build, attempts
    <3>2. [build[b] EXCEPT !.attempts = attempts, !.at = "recording"] \in Builder!Build
      BY <2>1, <3>1 DEF Builder!Build, Builder!Stages
    <3> QED BY <3>2 DEF attempts
  <2>3. /\ next.at = "recording" /\ next.session = post[b].session
        /\ next.picks = post[b].picks /\ next.quotes = post[b].quotes
        /\ next.attempts = Attempts(b) + 1 /\ next.reply = post[b].reply
    BY <2>1 DEF Seen, Builder!Build
  <2>4. build' = [build EXCEPT ![b] = next]
    <3>1. /\ post'[b].at = next.at /\ post'[b].session = next.session
          /\ post'[b].picks = next.picks /\ post'[b].quotes = next.quotes
          /\ post'[b].reply = next.reply /\ Attempts(b)' = next.attempts
      BY <1>2, <1>4, <1>5, <2>3
    <3> HIDE DEF next
    <3> QED BY <1>4, <1>5, <2>2, <3>1, SeenChanges DEF Only
  <2>5. build' = [build EXCEPT ![b].attempts = @ + 1, ![b].at = "recording"]
    <3> HIDE DEF build
    <3> QED BY <2>1, <2>4
  <2>6. build[b].at = "booking" /\ build[b].attempts < 2 * (MaxRetries + 1)
    BY <1>0, <1>1, <1>5, <2>1, AttemptsRange DEF Seen
  <2> QED BY <1>1, <2>5, <2>6, SeenIs DEF Seen, Builder!BookingAnswered, Builder!At
<1> QED BY <1>8, <1>9

LEMMA RecordStep ==
    ASSUME Invariant, NEW b \in Builders, Record(b)
    PROVE  Invariant' /\ Builder!Record(b)
<1> DEFINE new == [post[b] EXCEPT !.at = "refreshing"]
<1>0. Types /\ BuildInv(b) /\ Client!TypeOK /\ CallInv(call[b]) /\ Awaited(b)
      /\ Knows(b) /\ HasDone(b) /\ HasLeft(b)
  BY DEF Invariant, Types, BuildInv
<1>1. /\ At(b, "recording") /\ post[b].at = "recording" /\ RecordTicket(Row(b))
      /\ UNCHANGED <<feed, booked, shown, setting, call>>
  BY DEF Record, At
<1>2. new \in Post /\ new.quotes = post[b].quotes /\ new.at = "refreshing"
      /\ new.picks = post[b].picks /\ new.session = post[b].session
      /\ new.reply = post[b].reply
  BY <1>0, PostType DEF Post, Builder!Stages
<1>3. post' = [post EXCEPT ![b] = new]
  BY <1>0, PostType DEF Record, Post
<1> HIDE DEF new
<1>4. /\ post' \in [Builders -> Post] /\ post'[b] = new
      /\ \A c \in Builders \ {b} : post'[c] = post[c]
  BY <1>0, <1>2, <1>3, PostType
<1>5. Only(b) /\ CallInv(call[b])' /\ Attempts(b)' = Attempts(b) /\ call'[b] = call[b]
  BY <1>0, <1>1, CallType DEF Only, CallInv, Attempts
<1>6. BuildInv(b)'
  <2>1. Awaited(b)'
    BY <1>0, <1>1, <1>2, <1>4, <1>5 DEF Awaited
  <2>2. Knows(b)' /\ HasDone(b)'
    BY <1>0, <1>1, <1>2, <1>4 DEF Knows, HasDone, Picked, Active, Builder!OnSale
  <2>3. HasLeft(b)'
    BY <1>0, <1>1, <1>2, <1>4 DEF HasDone, HasLeft
  <2> QED BY <1>5, <2>1, <2>2, <2>3 DEF BuildInv
<1>7. Invariant'
  BY <1>0, <1>1, <1>2, <1>4, <1>5, <1>6, OneBuildSteps DEF Types
<1>8. Builder!Record(b)
  <2> DEFINE build == [c \in Builders |-> Seen(c)]
  <2> DEFINE next == [build[b] EXCEPT !.at = "refreshing"]
  <2>1. build[b] \in Builder!Build /\ build[b] = Seen(b) /\ build \in [Builders -> Builder!Build]
    BY <1>0, SeenType DEF Invariant
  <2>2. next \in Builder!Build
    BY <2>1 DEF Builder!Build, Builder!Stages
  <2>3. /\ next.at = "refreshing" /\ next.session = post[b].session
        /\ next.picks = post[b].picks /\ next.quotes = post[b].quotes
        /\ next.attempts = Attempts(b) /\ next.reply = post[b].reply
    BY <2>1 DEF Seen, Builder!Build
  <2>4. build' = [build EXCEPT ![b] = next]
    <3>1. /\ post'[b].at = next.at /\ post'[b].session = next.session
          /\ post'[b].picks = next.picks /\ post'[b].quotes = next.quotes
          /\ post'[b].reply = next.reply /\ Attempts(b)' = next.attempts
      BY <1>2, <1>4, <1>5, <2>3
    <3> HIDE DEF next
    <3> QED BY <1>4, <1>5, <2>2, <3>1, SeenChanges DEF Only
  <2>5. build[b].at = "recording" /\ Builder!RecordTicket(Builder!Row(b))
    BY <1>1, SeenIs DEF Seen
  <2> QED BY <1>1, <2>4, <2>5 DEF Seen, Builder!Record, Builder!At
<1> QED BY <1>7, <1>8

-----------------------------------------------------------------------------
(* The users of the session, and the provider.                             *)

(* They change its rows, never those of another session. *)
LEMMA SelectionsStep ==
    ASSUME Invariant, SelectionsChange PROVE Invariant' /\ Builder!SelectionsChange
<1>0. Types /\ (\A c \in Builders : BuildInv(c)) /\ (\A h \in history : RowInv(h))
      /\ NoOrphans
  BY DEF Invariant
<1>1. UNCHANGED <<feed, post, booked, shown, setting, call>>
  BY DEF SelectionsChange
<1>2. /\ sessions' \in [Sessions -> {"new", "open", "deleted"}]
      /\ items' \subseteq Item /\ history' \subseteq history
  BY <1>0, TablesType DEF SelectionsChange
<1>3. Types'
  BY <1>0, <1>1, <1>2 DEF Types, Client!TypeOK
<1>4. \A c \in Builders : BuildInv(c)'
  BY <1>0, <1>1, <1>2, OthersKept
<1>5. \A h \in history' : RowInv(h)'
  BY <1>0, <1>1, <1>2, RowsKept
<1>6. NoOrphans'
  <2>0. /\ \A i \in items : i.session \in Sessions
        /\ \A h \in history : h.session \in Sessions
        /\ sessions \in [Sessions -> {"new", "open", "deleted"}]
    BY <1>0 DEF Types, Item, Builder!Ticket
  <2>1. ASSUME NEW s \in Sessions, CreateSession(s) PROVE NoOrphans'
    BY <1>0, <2>0, <2>1 DEF NoOrphans, Open, CreateSession
  <2>2. ASSUME NEW s \in Sessions, DeleteSession(s) PROVE NoOrphans'
    BY <1>0, <2>0, <2>2 DEF NoOrphans, Open, DeleteSession
  <2>3. ASSUME NEW s \in Sessions, NEW p \in Predictions,
               AddItem(s, p) \/ RemoveItem(s, p.id)
        PROVE  NoOrphans'
    BY <1>0, <2>0, <2>3 DEF NoOrphans, Open, AddItem, RemoveItem
  <2> QED BY <2>1, <2>2, <2>3 DEF SelectionsChange
<1>7. Invariant'
  BY <1>3, <1>4, <1>5, <1>6 DEF Invariant
<1>8. Builder!SelectionsChange
  <2>1. \A s \in Sessions :
           /\ CreateSession(s) => Builder!CreateSession(s)
           /\ DeleteSession(s) => Builder!DeleteSession(s)
           /\ \A p \in Predictions : /\ AddItem(s, p) => Builder!AddItem(s, p)
                                     /\ RemoveItem(s, p.id) => Builder!RemoveItem(s, p.id)
    BY DEF CreateSession, Builder!CreateSession, DeleteSession, Builder!DeleteSession,
           AddItem, Builder!AddItem, RemoveItem, Builder!RemoveItem, Open, Builder!Open,
           Fits, Builder!Fits, PicksOf, Builder!PicksOf
  <2>2. [c \in Builders |-> Seen(c)]' = [c \in Builders |-> Seen(c)]
    BY <1>1 DEF Seen, Attempts
  <2>3. \E s \in Sessions :
           \/ Builder!CreateSession(s)
           \/ Builder!DeleteSession(s)
           \/ \E p \in Predictions : Builder!AddItem(s, p) \/ Builder!RemoveItem(s, p.id)
    BY <2>1 DEF SelectionsChange
  <2> QED BY <1>1, <2>2, <2>3 DEF Builder!SelectionsChange, Seen
<1> QED BY <1>7, <1>8

LEMMA FeedStep ==
    ASSUME Invariant,
           NEW p \in Predictions, NEW odds \in Odds \cup {Gone}, FeedChanges(p, odds)
    PROVE  Invariant' /\ Builder!FeedChanges(p, odds)
<1>0. Types /\ (\A c \in Builders : BuildInv(c)) /\ (\A h \in history : RowInv(h))
      /\ NoOrphans
  BY DEF Invariant
<1>1. feed' \in [Predictions -> Odds \cup {Gone}]
  BY <1>0 DEF FeedChanges, Types
<1>2. Builder!OnSale(feed') \subseteq Builder!Quote /\ Builder!OnSale(feed)' = Builder!OnSale(feed')
  BY <1>1, OnSaleType DEF Builder!OnSale
<1>3. /\ UNCHANGED <<tables, post, booked, setting, call>>
      /\ shown' \in [Builders -> SUBSET Builder!Quote]
      /\ \A c \in Builders : shown[c] \subseteq shown'[c]
      /\ \A c \in Builders :
            post[c].at \in Active => Builder!OnSale(feed') \subseteq shown'[c]
  BY <1>0, <1>2 DEF FeedChanges, Types, Active
<1>4. Types'
  BY <1>0, <1>1, <1>3 DEF Types, Client!TypeOK, tables
<1>5. ASSUME NEW c \in Builders PROVE BuildInv(c)'
  <2>1. CallInv(call[c]) /\ Awaited(c) /\ Knows(c) /\ HasDone(c) /\ HasLeft(c)
    BY <1>0 DEF BuildInv
  <2>2. CallInv(call[c])' /\ Awaited(c)'
    BY <1>3, <2>1 DEF CallInv, Awaited
  <2>3. Knows(c)'
    BY <1>2, <1>3, <2>1 DEF Knows, Picked
  <2>4. (HasDone(c) /\ HasLeft(c))'
    BY <1>3, <2>1 DEF HasDone, HasLeft, Picked, Rowless, tables
  <2> QED BY <2>2, <2>3, <2>4 DEF BuildInv
<1>6. \A h \in history' : RowInv(h)'
  BY <1>0, <1>3, RowsKept DEF tables
<1>7. NoOrphans'
  BY <1>0, <1>3 DEF NoOrphans, Open, tables
<1>8. Invariant'
  BY <1>4, <1>5, <1>6, <1>7 DEF Invariant
<1>9. Builder!FeedChanges(p, odds)
  <2> DEFINE build == [c \in Builders |-> Seen(c)]
  <2>1. build' = build
    BY <1>3 DEF Seen, Attempts
  <2>2. \A c \in Builders : build[c].at = post[c].at
    BY DEF Seen
  <2>3. shown' = [c \in Builders |->
                    IF build[c].at \in {"idle", "done"} THEN shown[c]
                    ELSE shown[c] \cup Builder!OnSale(feed')]
    <3> HIDE DEF build
    <3> QED BY <2>2 DEF FeedChanges
  <2>4. feed' = [feed EXCEPT ![p] = odds] /\ UNCHANGED booked /\ UNCHANGED Builder!tables
    BY <1>3 DEF FeedChanges, tables, Builder!tables
  <2> QED BY <2>1, <2>3, <2>4 DEF Builder!FeedChanges, Seen
<1> QED BY <1>8, <1>9

-----------------------------------------------------------------------------

(* Every step keeps the invariant and is a step of TicketBuild or none to it. *)
LEMMA InvariantStep ==
    Invariant /\ [Next]_vars => Invariant' /\ [Builder!Next]_(Builder!vars)
<1> SUFFICES ASSUME Invariant, [Next]_vars
             PROVE  Invariant' /\ (Builder!Next \/ UNCHANGED Builder!vars)
  OBVIOUS
<1>1. CASE SelectionsChange
  BY <1>1, SelectionsStep DEF Builder!Next
<1>2. ASSUME NEW p \in Predictions, NEW odds \in Odds \cup {Gone}, FeedChanges(p, odds)
      PROVE  Invariant' /\ Builder!Next
  BY <1>2, FeedStep DEF Builder!Next
<1>3. ASSUME NEW b \in Builders, NEW s \in Sessions, Begin(b, s)
      PROVE  Invariant' /\ Builder!Next
  BY <1>3, BeginStep DEF Builder!Next, Builder!BuildStep
<1>4. ASSUME NEW b \in Builders, Work(b)
      PROVE  Invariant' /\ (Builder!Next \/ UNCHANGED Builder!vars)
  <2>1. CASE CallsClient(b) \/ ClientSends(b)
    BY <2>1, CallsClientStep
  <2>2. CASE RequestFails(b)
    BY <2>2, RequestFailsStep DEF Builder!Next, Builder!BuildStep
  <2>3. ASSUME NEW p \in Predictions, Validate(b, p)
        PROVE  Invariant' /\ Builder!Next
    BY <2>3, ValidateStep DEF Builder!Next, Builder!BuildStep
  <2>4. ASSUME NEW p \in Predictions, NotOnSale(b, p)
        PROVE  Invariant' /\ Builder!Next
    BY <2>4, NotOnSaleStep DEF Builder!Next, Builder!BuildStep
  <2>5. CASE CallFails(b)
    BY <2>5, CallFailsStep DEF Builder!Next, Builder!BuildStep
  <2>6. CASE BookingAnswered(b)
    BY <2>6, BookingAnsweredStep DEF Builder!Next, Builder!BuildStep
  <2>7. CASE Record(b)
    BY <2>7, RecordStep DEF Builder!Next, Builder!BuildStep
  <2>8. CASE RecordRaises(b)
    BY <2>8, RecordRaisesStep DEF Builder!Next, Builder!BuildStep
  <2>9. CASE Refresh(b)
    BY <2>9, RefreshStep DEF Builder!Next, Builder!BuildStep
  <2> QED
    BY <1>4, <2>1, <2>2, <2>3, <2>4, <2>5, <2>6, <2>7, <2>8, <2>9 DEF Work
<1>5. ASSUME NEW b \in Builders, Dies(b)
      PROVE  Invariant' /\ Builder!Next
  BY <1>5, DiesStep DEF Builder!Next, Builder!BuildStep
<1>6. CASE UNCHANGED vars
  <2>1. Types'
    BY <1>6 DEF Invariant, vars, tables, Types, Client!TypeOK
  <2>2. \A c \in Builders : BuildInv(c)'
    BY <1>6, OthersKept DEF Invariant, vars, tables
  <2>3. NoOrphans'
    BY <1>6 DEF Invariant, vars, tables, NoOrphans, Open
  <2>4. \A h \in history' : RowInv(h)'
    BY <1>6, RowsKept DEF Invariant, vars, tables
  <2>5. [c \in Builders |-> Seen(c)]' = [c \in Builders |-> Seen(c)]
    BY <1>6 DEF vars, Seen, Attempts
  <2>6. UNCHANGED Builder!vars
    BY <1>6, <2>5 DEF vars, tables, Seen, Builder!vars
  <2> QED BY <2>1, <2>2, <2>3, <2>4, <2>6 DEF Invariant
<1> QED BY <1>1, <1>2, <1>3, <1>4, <1>5, <1>6 DEF Next

LEMMA BuildInit == Init => Builder!Init
<1> SUFFICES ASSUME Init PROVE Builder!Init
  OBVIOUS
<1>1. Builder!TablesInit /\ feed \in [Predictions -> Odds]
      /\ booked = [b \in Builders |-> {}] /\ shown = [b \in Builders |-> {}]
  BY DEF Init, TablesInit, Builder!TablesInit
<1>2. ASSUME NEW b \in Builders PROVE Attempts(b) = 0
  <2>1. Invariant
    BY InvariantInit
  <2> QED BY <2>1 DEF Init, Invariant, BuildInv, Awaited, Attempts
<1>3. PICK s \in Sessions :
         post = [b \in Builders |->
                   [at |-> "idle", session |-> s, picks |-> {}, quotes |-> {},
                    reply |-> "none"]]
  BY DEF Init
<1>4. [b \in Builders |-> Seen(b)] =
         [b \in Builders |-> [at |-> "idle", session |-> s, picks |-> {}, quotes |-> {},
                              attempts |-> 0, reply |-> "none"]]
  BY <1>2, <1>3 DEF Seen
<1> QED BY <1>1, <1>4 DEF Seen, Builder!Init

-----------------------------------------------------------------------------

(* What all the theorems below rest on. *)
THEOREM BookingInvariant == Spec => []Invariant
<1>1. Invariant /\ [Next]_vars => Invariant'
  BY InvariantStep
<1> QED BY InvariantInit, <1>1, PTL DEF Spec

(* models.py, routes/tickets.py, client.py: the tables, the builds and their    *)
(* calls keep their types, and a build has ended when it has an answer.         *)
THEOREM BookingTypeCorrect == Spec => []TypeOK
<1>1. Invariant => TypeOK
  BY InvariantImplies
<1> QED BY <1>1, BookingInvariant, PTL

(* README "Failed provider validation does not create successful ticket         *)
(* history": with any number of retries on both providers, a 422 has booked     *)
(* nothing, and neither it nor a 502 or 503 has written a row.                  *)
THEOREM RefusalsLeaveNothing == Spec => []RefusedLeavesNothing
<1>1. Invariant => RefusedLeavesNothing
  BY InvariantImplies
<1> QED BY <1>1, BookingInvariant, PTL

(* TicketBuilder "sends those exact IDs": every row is a ticket the provider    *)
(* made for its build, with one price for each selection the build read.        *)
THEOREM RowsAreTickets == Spec => []HistoryIsTicket
<1>1. Invariant => HistoryIsTicket
  BY InvariantImplies
<1> QED BY <1>1, BookingInvariant, PTL

(* README "refreshes provider odds before calculating the final combined odds": *)
(* however the feed moves, a row holds prices its build was shown.              *)
THEOREM PricesAreFresh == Spec => []FreshOdds
<1>1. Invariant => FreshOdds
  BY InvariantImplies
<1> QED BY <1>1, BookingInvariant, PTL

(* The constraints of models.py under the builds and the users of the sessions: *)
(* no selection and no ticket outlives its session.                             *)
THEOREM RowsHaveSessions == Spec => []NoOrphans
<1>1. Invariant => NoOrphans
  BY InvariantImplies
<1> QED BY <1>1, BookingInvariant, PTL

(* The endpoint with its client implements TicketBuild: a booking is sent only  *)
(* when every selection is validated, at most 2 * (SPORTYBET_MAX_RETRIES + 1)   *)
(* times, and given up only after it was sent.                                  *)
THEOREM BookingImplementsBuild == Spec => BuildSpec
<1>1. Init => Builder!Init
  BY BuildInit
<1>2. Invariant /\ [Next]_vars => [Builder!Next]_(Builder!vars)
  BY InvariantStep
<1> QED BY <1>1, <1>2, BookingInvariant, PTL DEF Spec, BuildSpec, Builder!Spec

=============================================================================
