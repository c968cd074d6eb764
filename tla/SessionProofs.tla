--------------------------- MODULE SessionProofs ----------------------------
(***************************************************************************)
(* Proofs about one client and its server (Session): types, what the       *)
(* player is told, that the view never goes back, and that Session         *)
(* implements Once.                                                        *)
(*                                                                         *)
(* That an action is never applied twice rests on revisions: a send whose  *)
(* revision the room has left is dead, and a client sends an action again  *)
(* only when its earlier sends are dead (Attempts).  That the view never   *)
(* goes back, although mutate lowers the client's revision below its view, *)
(* rests on when it does so: every projection still under way then is at   *)
(* least as new as the view (Views).                                       *)
(***************************************************************************)
EXTENDS Session, TLAPS

-----------------------------------------------------------------------------
(* The inductive invariant.                                                *)

Waiting == {"sending", "confirming", "refreshing"}
Active == Waiting \cup {"resending"}

Shape ==
  /\ main.req # None <=> main.pc \in Waiting
  /\ main.reply # None => main.req # None
  /\ main.pc = "sending" =>
       /\ main.req = [kind |-> main.kind, id |-> <<main.intent, main.attempt>>, rev |-> main.req.rev]
       /\ main.reply # None => main.reply.status \in {"ok", "stale", "refused", "gone"}
  /\ main.pc \in {"confirming", "refreshing"} =>
       /\ main.req = SyncRequest
       /\ main.reply # None => main.reply.status \in {"state", "gone"}
  /\ main.pc \in Active => main.intent \in Intent
  /\ main.pc = "confirming" => main.kind # "end"
  /\ main.pc = "resending" => main.attempt < Sends
  /\ main.reply # None /\ main.reply.status = "state" => main.reply.view # None
  /\ \A req \in late : req.kind \in Kind

ToldSoFar ==
  /\ \A i \in Intent : told[i] = "none" <=> i > main.intent
  /\ \A i \in Intent : told[i] = "pending" <=> i = main.intent /\ main.pc \in Active

\* Sends that may still be handled.
InFlight == late \cup (IF main.pc = "sending" THEN {main.req} ELSE {})

Known(rev) == server.live => rev <= server.rev

Revisions ==
  /\ Known(client.rev) /\ Known(client.view.rev)
  /\ \A req \in InFlight : Known(req.rev)
  /\ \A id \in Id : Known(server.done[id])
  /\ feed.item # None => Known(feed.item.rev)
  /\ main.reply # None /\ main.reply.status = "state" => Known(main.reply.view.rev)
  /\ main.reply # None /\ main.reply.status = "gone" => ~server.live

Done(i) == \E a \in Attempt : server.done[<<i, a>>] # 0

Dead(req) == server.live => server.rev > req.rev

Sent(id) ==
  \/ id[1] < main.intent
  \/ id[1] = main.intent /\ (main.pc \in Active => id[2] <= main.attempt)

Attempts ==
  /\ \A x \in InFlight : Sent(x.id)
  /\ \A id \in Id : server.done[id] # 0 => Sent(id)
  /\ \A x, y \in InFlight : x.id = y.id => x = y
  /\ \A x, y \in InFlight : x.id[1] = y.id[1] /\ x.id[2] < y.id[2] => Dead(x)
  /\ \A x \in InFlight : server.done[x.id] = 0 => Dead(x) \/ ~Done(x.id[1])
  /\ \A x \in InFlight : server.done[x.id] # 0 => server.done[x.id] > x.rev
  /\ \A x \in InFlight : server.done[x.id] # 0 /\ x.kind = "end" => ~server.live

Verdicts ==
  /\ main.pc \in Active => \A a \in Attempt : a < main.attempt => server.done[<<main.intent, a>>] = 0
  /\ main.pc \in {"refreshing", "resending"} =>
       ~Done(main.intent) /\ \A x \in InFlight : x.id[1] = main.intent => Dead(x)
  /\ main.pc = "confirming" => server.done[<<main.intent, main.attempt>>] # 0
  /\ main.pc = "sending" /\ main.reply # None =>
       /\ main.reply.status = "ok" =>
            main.reply.rev # 0 /\ main.reply.rev = server.done[main.req.id]
       /\ main.reply.status = "stale" => server.done[main.req.id] = 0 /\ Dead(main.req)
  /\ \A i \in Intent : told[i] = "stale" =>
       ~Done(i) /\ \A x \in InFlight : x.id[1] = i => Dead(x)
  /\ \A i \in Intent : told[i] = "ok" => Done(i)
  /\ EndedRoomIsGone

\* A projection on its way must not be older than the view if it may replace it.
Newer(rev) == rev >= client.view.rev

Views ==
  /\ client.rev < client.view.rev =>
       /\ feed.item # None => Newer(feed.item.rev)
       /\ main.reply # None /\ main.reply.status = "state" => Newer(main.reply.view.rev)
  /\ main.pc = "sending" /\ main.req.rev < client.view.rev =>
       (feed.item # None => Newer(feed.item.rev))
  /\ main.pc = "confirming" =>
       LET done == server.done[<<main.intent, main.attempt>>]
       IN  /\ client.rev = done \/ client.view.rev >= done
           /\ main.reply # None /\ main.reply.status = "state" => main.reply.view.rev >= done
  /\ ConfirmedIsShown

SessionInv == TypeOK /\ Shape /\ ToldSoFar /\ Revisions /\ Attempts /\ Verdicts /\ Views

-----------------------------------------------------------------------------
(* The server.                                                             *)

\* A room's revision only grows, and a room that is gone stays so.
Moves(s, t) == t \in Server /\ (t.live => s.live /\ t.rev >= s.rev)

\* The operation of req took effect between s and t.
Takes(s, t, req) ==
  /\ s.live /\ s.rev = req.rev /\ s.done[req.id] = 0
  /\ \E n \in Nat : /\ n > s.rev /\ t.done = [s.done EXCEPT ![req.id] = n]
                    /\ t.live => n <= t.rev
  /\ req.kind = "end" => ~t.live

LEMMA TouchesAre ==
  ASSUME NEW s \in Server, NEW t \in Touches(s)
  PROVE  t \in Server /\ t.live = s.live /\ t.done = s.done /\ t.rev >= s.rev
<1>1. PICK bump \in {0, 1} : t = [s EXCEPT !.here = TRUE, !.rev = @ + bump]
  BY BoundsAssumption DEF Touches
<1>2. s.rev \in Nat /\ s.rev + bump \in Nat /\ s.rev + bump >= s.rev
  BY DEF Server
<1> QED BY <1>1, <1>2 DEF Server

LEMMA GoneIs ==
  ASSUME NEW s \in Server
  PROVE  Gone(s) \in Server /\ ~Gone(s).live /\ Gone(s).done = s.done
BY DEF Gone, Server

LEMMA RecordedIs ==
  ASSUME NEW s \in Server, NEW req, req.id \in Id, s.rev + 1 \in Nat,
         NEW on, s.round + on.moves \in Nat, on.needed \in BOOLEAN
  PROVE  /\ Recorded(s, req, on) \in Server /\ Recorded(s, req, on).live = s.live
         /\ Recorded(s, req, on).rev = s.rev + 1
         /\ Recorded(s, req, on).done = [s.done EXCEPT ![req.id] = s.rev + 1]
<1>1. [s.done EXCEPT ![req.id] = s.rev + 1] \in [Id -> Nat]
  BY DEF Server
<1>2. (req.kind # "leave") \in BOOLEAN
  OBVIOUS
<1> QED BY <1>1, <1>2 DEF Server, Recorded

LEMMA AcceptedAre ==
  ASSUME NEW s \in Server, s.live, NEW req \in Request, s.rev = req.rev, s.done[req.id] = 0,
         NEW t \in Accepted(s, req)
  PROVE  Moves(s, t) /\ Takes(s, t, req) /\ t.done[req.id] \in Nat \ {0}
<1>1. PICK u \in Touches(s), on \in Onward(req.kind) :
        t = IF req.kind = "end" THEN Gone(Recorded(u, req, on)) ELSE Recorded(u, req, on)
  BY DEF Accepted
<1>2. u \in Server /\ u.live /\ u.done = s.done /\ u.rev >= s.rev
  BY TouchesAre
<1>3. on.moves \in Nat /\ on.needed \in BOOLEAN
  BY DEF Onward
<1>4. /\ u.rev \in Nat /\ u.rev + 1 \in Nat /\ u.rev + 1 > s.rev /\ u.rev + 1 # 0
      /\ u.round \in Nat /\ u.round + on.moves \in Nat /\ s.rev \in Nat
  <2>1. u.rev \in Nat /\ u.round \in Nat /\ s.rev \in Nat
    BY <1>2 DEF Server
  <2>2. u.rev + 1 > s.rev /\ u.rev + 1 # 0 /\ u.rev + 1 \in Nat
    BY <1>2, <2>1
  <2>3. u.round + on.moves \in Nat
    BY <1>3, <2>1
  <2> QED BY <2>1, <2>2, <2>3
<1>5. req.id \in Id /\ (req.kind # "leave") \in BOOLEAN
  BY DEF Request
<1>6. /\ Recorded(u, req, on) \in Server /\ Recorded(u, req, on).live = u.live
      /\ Recorded(u, req, on).rev = u.rev + 1
      /\ Recorded(u, req, on).done = [s.done EXCEPT ![req.id] = u.rev + 1]
  <2>1. u \in Server /\ req.id \in Id /\ u.rev + 1 \in Nat /\ u.round + on.moves \in Nat
        /\ on.needed \in BOOLEAN
    BY <1>2, <1>3, <1>4, <1>5
  <2>2. /\ Recorded(u, req, on) \in Server /\ Recorded(u, req, on).live = u.live
        /\ Recorded(u, req, on).rev = u.rev + 1
        /\ Recorded(u, req, on).done = [u.done EXCEPT ![req.id] = u.rev + 1]
    BY <2>1, RecordedIs
  <2> QED BY <1>2, <2>2
<1>7. s.done \in [Id -> Nat]
  BY DEF Server
<1>8. CASE req.kind = "end"
  <2>1. t \in Server /\ ~t.live /\ t.done = [s.done EXCEPT ![req.id] = u.rev + 1]
    BY <1>1, <1>6, <1>8, GoneIs
  <2> QED BY <1>4, <1>5, <1>7, <2>1 DEF Moves, Takes
<1>9. CASE req.kind # "end"
  <2>1. /\ t \in Server /\ t.live /\ t.rev = u.rev + 1
        /\ t.done = [s.done EXCEPT ![req.id] = u.rev + 1]
    BY <1>1, <1>2, <1>6, <1>9
  <2> QED BY <1>4, <1>5, <1>7, <1>9, <2>1 DEF Moves, Takes
<1> QED BY <1>8, <1>9

\* What an answer says of the room it comes from.
True(req, s, t, reply) ==
  /\ reply.status \in {"ok", "stale", "refused"} => req.kind # "sync"
  /\ reply.status = "ok" => reply.rev # 0 /\ reply.rev = t.done[req.id]
  /\ reply.status = "state" =>
       /\ req.kind = "sync" /\ s.live /\ reply.view \in View
       /\ reply.view.rev >= s.rev /\ reply.view.rev = t.rev
  /\ reply.status = "stale" => s.rev # req.rev /\ t.done[req.id] = 0 /\ t = s
  /\ reply.status = "gone" => ~t.live

LEMMA OutcomesAre ==
  ASSUME NEW s \in Server, NEW req \in Request, NEW out \in Outcomes(s, req)
  PROVE  /\ Moves(s, out[1]) /\ out[2] \in Reply /\ True(req, s, out[1], out[2])
         /\ out[1].done = s.done \/ Takes(s, out[1], req)
<1>0. s.rev \in Nat /\ s.done \in [Id -> Nat] /\ req.id \in Id /\ s.done[req.id] \in Nat
  BY DEF Server, Request
<1>1. Moves(s, s)
  BY <1>0 DEF Moves
<1>2. \A status \in {"ok", "stale", "refused", "gone"}, rev \in Nat :
        /\ Answer(status, rev) \in Reply
        /\ Answer(status, rev).status = status /\ Answer(status, rev).rev = rev
  BY DEF Answer, Reply
<1>3. CASE ~s.live
  <2>1. out = <<s, Answer("gone", 0)>>
    BY <1>3 DEF Outcomes
  <2> QED BY <1>1, <1>2, <1>3, <2>1 DEF True
<1>4. CASE s.live /\ req.kind = "sync"
  <2>1. PICK t \in Touches(s) : out = <<t, Projection(t)>>
    BY <1>4 DEF Outcomes
  <2>2. t \in Server /\ t.live /\ t.done = s.done /\ t.rev >= s.rev
    BY <1>4, TouchesAre
  <2>3. /\ Snapshot(t) \in View /\ Snapshot(t).rev = t.rev
        /\ Projection(t) \in Reply /\ Projection(t).status = "state"
        /\ Projection(t).view = Snapshot(t)
    BY <2>2 DEF Snapshot, Projection, View, Reply, Server
  <2> QED BY <1>4, <2>1, <2>2, <2>3 DEF Moves, True
<1>5. CASE s.live /\ req.kind # "sync"
  <2>1. out \in Mutation(s, req)
    BY <1>5 DEF Outcomes
  <2>2. CASE s.done[req.id] # 0
    <3>1. out = <<s, Answer("ok", s.done[req.id])>>
      BY <2>1, <2>2 DEF Mutation
    <3> QED BY <1>0, <1>1, <1>2, <1>5, <2>2, <3>1 DEF True
  <2>3. CASE s.done[req.id] = 0 /\ s.rev # req.rev
    <3>1. out = <<s, Answer("stale", 0)>>
      BY <2>1, <2>3 DEF Mutation, Fresh
    <3> QED BY <1>0, <1>1, <1>2, <1>5, <2>3, <3>1 DEF True
  <2>4. CASE s.done[req.id] = 0 /\ s.rev = req.rev /\ out = <<s, Answer("refused", 0)>>
    BY <1>0, <1>1, <1>2, <1>5, <2>4 DEF True
  <2>5. CASE /\ s.done[req.id] = 0 /\ s.rev = req.rev
             /\ \E t \in Accepted(s, req) : out = <<t, Answer("ok", t.done[req.id])>>
    <3>1. PICK t \in Accepted(s, req) : out = <<t, Answer("ok", t.done[req.id])>>
      BY <2>5
    <3>2. Moves(s, t) /\ Takes(s, t, req) /\ t.done[req.id] \in Nat \ {0}
      BY <1>5, <2>5, AcceptedAre
    <3> QED BY <1>2, <1>5, <3>1, <3>2 DEF True
  <2> QED BY <2>1, <2>2, <2>3, <2>4, <2>5 DEF Mutation, Fresh
<1> QED BY <1>3, <1>4, <1>5

-----------------------------------------------------------------------------
(* The client's thread: what its steps make of main.                       *)

Typed == TypeOK /\ Shape /\ ToldSoFar

LEMMA CallIs ==
  ASSUME NEW m \in Main, NEW pc \in Waiting, NEW req \in Request
  PROVE  /\ Call(m, pc, req) \in Main
         /\ Call(m, pc, req).pc = pc /\ Call(m, pc, req).req = req
         /\ Call(m, pc, req).reply = None /\ Call(m, pc, req).intent = m.intent
         /\ Call(m, pc, req).kind = m.kind /\ Call(m, pc, req).attempt = m.attempt
BY DEF Call, Main, Waiting

LEMMA SyncIs ==
  /\ SyncRequest \in Request /\ SyncRequest # None /\ SyncRequest.kind = "sync"
<1>1. <<1, 1>> \in Id
  BY BoundsAssumption DEF Id, Intent, Attempt
<1>2. SyncRequest \in Request
  BY <1>1 DEF SyncRequest, Request
<1> QED BY <1>2, NoneAssumption DEF SyncRequest

LEMMA QuietIs ==
  ASSUME NEW m \in Main, NEW pc \in {"idle", "left", "resending"}
  PROVE  /\ Quiet(m, pc) \in Main /\ Quiet(m, pc).pc = pc /\ Quiet(m, pc).req = None
         /\ Quiet(m, pc).reply = None /\ Quiet(m, pc).intent = m.intent
         /\ Quiet(m, pc).kind = m.kind /\ Quiet(m, pc).attempt = m.attempt
BY DEF Quiet, Main

LEMMA IdleIs ==
  ASSUME NEW m \in Main
  PROVE  /\ Idle(m) \in Main /\ Idle(m).pc = "idle" /\ Idle(m).req = None
         /\ Idle(m).reply = None /\ Idle(m).intent = m.intent
<1>1. /\ Quiet(m, "idle") \in Main /\ Quiet(m, "idle").pc = "idle"
      /\ Quiet(m, "idle").req = None /\ Quiet(m, "idle").reply = None
      /\ Quiet(m, "idle").intent = m.intent
  BY QuietIs
<1>2. 1 \in Attempt /\ "play" \in Kind /\ 0 \in Nat
  BY BoundsAssumption DEF Attempt, Kind
<1> QED BY <1>1, <1>2 DEF Idle, Main

LEMMA LeftIs ==
  ASSUME NEW m \in Main
  PROVE  /\ Left(m) \in Main /\ Left(m).pc = "left" /\ Left(m).req = None
         /\ Left(m).reply = None /\ Left(m).intent = m.intent /\ Left(m).kind = m.kind
<1>1. /\ Quiet(m, "left") \in Main /\ Quiet(m, "left").pc = "left"
      /\ Quiet(m, "left").req = None /\ Quiet(m, "left").reply = None
      /\ Quiet(m, "left").intent = m.intent /\ Quiet(m, "left").kind = m.kind
  BY QuietIs
<1>2. 1 \in Attempt /\ 0 \in Nat
  BY BoundsAssumption DEF Attempt
<1> QED BY <1>1, <1>2 DEF Left, Main

\* A send of an intent: what is asked for, under an id of its own.
SendOf(m, attempt) ==
  [kind |-> m.kind, id |-> <<m.intent, attempt>>, rev |-> client.rev]

LEMMA SendIs ==
  ASSUME TypeOK, NEW m \in Main, NEW attempt \in Attempt, m.intent \in Intent
  PROVE  /\ Send(m, attempt) \in Main /\ Send(m, attempt).pc = "sending"
         /\ Send(m, attempt).req = SendOf(m, attempt) /\ SendOf(m, attempt) \in Request
         /\ SendOf(m, attempt) # None
         /\ Send(m, attempt).reply = None /\ Send(m, attempt).intent = m.intent
         /\ Send(m, attempt).kind = m.kind /\ Send(m, attempt).attempt = attempt
<1> DEFINE n == [m EXCEPT !.attempt = attempt]
<1>1. n \in Main /\ n.attempt = attempt /\ n.intent = m.intent /\ n.kind = m.kind
  BY DEF Main
<1>2. SendOf(m, attempt) \in Request
  <2>1. <<m.intent, attempt>> \in Id /\ client.rev \in Nat /\ m.kind \in Kind
    BY DEF Id, TypeOK, Main
  <2> QED BY <2>1 DEF SendOf, Request
<1>3. Send(m, attempt) = Call(n, "sending", SendOf(m, attempt))
  BY DEF Send, SendOf
<1> HIDE DEF n
<1>4. "sending" \in Waiting
  BY DEF Waiting
<1> QED BY <1>1, <1>2, <1>3, <1>4, CallIs, NoneAssumption

\* What follows from a main that waits for nothing.
LEMMA RestingShape ==
  ASSUME Shape,
         \/ main'.pc \in {"idle", "left"}
         \/ main'.pc = "resending" /\ main'.intent \in Intent /\ main'.attempt < Sends,
         main'.req = None, main'.reply = None,
         \A req \in late' : req.kind \in Kind
  PROVE  Shape'
BY DEF Shape, Waiting, Active

LEMMA CallingShape ==
  ASSUME Shape, main'.pc \in {"confirming", "refreshing"}, main'.intent \in Intent,
         main'.pc = "confirming" => main'.kind # "end",
         main'.req = SyncRequest, main'.reply = None, late' = late
  PROVE  Shape'
BY SyncIs DEF Shape, Waiting, Active

LEMMA InitTyped == Init => Typed
<1> SUFFICES ASSUME Init PROVE Typed
  OBVIOUS
<1> USE DEF Init
<1>1. TypeOK
  <2>1. server \in Server
    BY DEF Server
  <2>2. client \in [rev : Nat, view : View]
    BY DEF View
  <2>3. main \in Main
    BY BoundsAssumption DEF Main, Kind, Attempt
  <2>4. feed \in Feed
    BY DEF NoStream, Feed
  <2> QED BY <2>1, <2>2, <2>3, <2>4 DEF TypeOK
<1>2. Shape
  BY DEF Shape, Waiting, Active
<1>3. ToldSoFar
  BY DEF ToldSoFar, Active, Intent
<1> QED BY <1>1, <1>2, <1>3 DEF Typed

-----------------------------------------------------------------------------
(* A step of the server: others act, or a send takes effect.               *)

LEMMA Facts ==
  ASSUME TypeOK
  PROVE  /\ server \in Server /\ server.rev \in Nat /\ server.live \in BOOLEAN
         /\ server.done \in [Id -> Nat]
         /\ client.rev \in Nat /\ client.view \in View /\ client.view.rev \in Nat
         /\ main \in Main /\ main.intent \in 0..MaxIntents /\ main.attempt \in Attempt
         /\ main.kind \in Kind /\ main.pc \in Active \cup {"idle", "left"}
         /\ main.req \in Request \cup {None} /\ main.reply \in Reply \cup {None}
         /\ late \in SUBSET Request /\ feed.item \in View \cup {None}
BY DEF TypeOK, Server, Main, View, Feed, Active, Waiting

LEMMA InFlightTyped ==
  ASSUME Typed, NEW x \in InFlight
  PROVE  /\ x \in Request /\ x.id \in Id /\ x.rev \in Nat /\ x.kind \in Kind
         /\ x.id[1] \in Intent /\ x.id[2] \in Attempt /\ x.id = <<x.id[1], x.id[2]>>
<1>1. x \in Request /\ x.kind \in Kind
  <2>1. CASE x \in late
    BY <2>1 DEF Typed, TypeOK, Shape
  <2>2. CASE main.pc = "sending" /\ x = main.req
    <3>1. main.req \in Request
      BY <2>2, Facts DEF Typed, Shape, Waiting
    <3>2. main.req.kind = main.kind
      BY <2>2 DEF Typed, Shape
    <3> QED BY <2>2, <3>1, <3>2, Facts DEF Typed
  <2> QED BY <2>1, <2>2 DEF InFlight
<1>2. x.id \in Id /\ x.rev \in Nat
  BY <1>1 DEF Request
<1> QED BY <1>1, <1>2 DEF Id

\* What the server does between two states: nothing to the recorded requests, or the
\* operation of one that is under way.
ServerMoves ==
  /\ Moves(server, server')
  /\ server'.done = server.done \/ \E x \in InFlight : Takes(server, server', x)
  /\ InFlight' \subseteq InFlight /\ late' \subseteq late
  /\ UNCHANGED <<client, feed, told>>

\* ...and the answer that main gets, if it does.
ReplyIs(reply) ==
  /\ main.req # None /\ main.reply = None
  /\ reply \in Reply /\ True(main.req, server, server', reply)
  /\ main' = [main EXCEPT !.reply = reply]

LEMMA ReplyFacts ==
  ASSUME Typed, NEW reply, ReplyIs(reply)
  PROVE  /\ main' \in Main /\ main'.reply = reply /\ reply # None
         /\ main'.pc = main.pc /\ main'.req = main.req /\ main'.intent = main.intent
         /\ main'.attempt = main.attempt /\ main'.kind = main.kind
         /\ main.pc \in Waiting
         /\ main.pc = "sending" => reply.status \in {"ok", "stale", "refused", "gone"}
         /\ main.pc \in {"confirming", "refreshing"} => reply.status \in {"state", "gone"}
         /\ reply.status = "state" => reply.view \in View /\ reply.view # None
<1>1. /\ main \in Main /\ main.pc \in Waiting /\ reply \in Reply /\ reply # None
      /\ main' = [main EXCEPT !.reply = reply] /\ True(main.req, server, server', reply)
  BY Facts, NoneAssumption DEF Typed, Shape, ReplyIs
<1>2. /\ main' \in Main /\ main'.reply = reply /\ main'.pc = main.pc
      /\ main'.req = main.req /\ main'.intent = main.intent
      /\ main'.attempt = main.attempt /\ main'.kind = main.kind
  BY <1>1 DEF Main
<1>3. reply.status \in {"ok", "state", "stale", "refused", "gone"}
  BY <1>1 DEF Reply
<1>4. main.pc = "sending" => main.req.kind # "sync"
  BY Facts DEF Typed, Shape, Kind
<1>5. main.pc \in {"confirming", "refreshing"} => main.req.kind = "sync"
  BY SyncIs DEF Typed, Shape
<1>6. reply.status = "state" => reply.view \in View /\ reply.view # None
  BY <1>1, NoneAssumption DEF True
<1> QED BY <1>1, <1>2, <1>3, <1>4, <1>5, <1>6 DEF True

\* Main is as it was but for an answer.
MainStays == main' = main \/ \E reply \in Reply : ReplyIs(reply)

LEMMA StayingMain ==
  ASSUME Typed, MainStays
  PROVE  /\ main' \in Main /\ main'.pc = main.pc /\ main'.req = main.req
         /\ main'.intent = main.intent /\ main'.attempt = main.attempt
         /\ main'.kind = main.kind
BY ReplyFacts, Facts DEF MainStays, Typed

LEMMA ServerMovesTyped ==
  ASSUME Typed, ServerMoves, MainStays PROVE Typed'
<1>1. TypeOK'
  BY StayingMain DEF Typed, TypeOK, ServerMoves, Moves
<1>2. Shape'
  <2>1. CASE main' = main
    BY <2>1 DEF Typed, Shape, ServerMoves
  <2>2. ASSUME NEW reply \in Reply, ReplyIs(reply) PROVE Shape'
    BY <2>2, ReplyFacts DEF Typed, Shape, ServerMoves
  <2> QED BY <2>1, <2>2 DEF MainStays
<1>3. ToldSoFar'
  BY StayingMain DEF Typed, ToldSoFar, ServerMoves
<1> QED BY <1>1, <1>2, <1>3 DEF Typed

LEMMA ServerMovesRevisions ==
  ASSUME Typed, Revisions, ServerMoves, MainStays PROVE Revisions'
<1>0. /\ server \in Server /\ server.rev \in Nat /\ server' \in Server /\ server'.rev \in Nat
      /\ server'.live => server.live /\ server'.rev >= server.rev
  BY Facts DEF Typed, ServerMoves, Moves, Server
<1>1. ASSUME NEW rev \in Nat, Known(rev) PROVE Known(rev)'
  BY <1>0, <1>1 DEF Known
<1>2. Known(client.rev)' /\ Known(client.view.rev)'
  <2>1. client' = client
    BY DEF ServerMoves
  <2> QED BY <1>1, <2>1, Facts DEF Revisions, Known, Typed
<1>3. \A req \in InFlight' : Known(req.rev)'
  BY <1>1, InFlightTyped DEF ServerMoves, Revisions
<1>4. ASSUME NEW id \in Id PROVE Known(server.done[id])'
  <2>0. server.done[id] \in Nat /\ Known(server.done[id])
    BY Facts DEF Typed, Revisions
  <2>1. CASE server'.done = server.done
    BY <1>0, <2>0, <2>1 DEF Known
  <2>2. ASSUME NEW x \in InFlight, Takes(server, server', x) PROVE Known(server.done[id])'
    <3>1. PICK n \in Nat : server'.done = [server.done EXCEPT ![x.id] = n]
                           /\ (server'.live => n <= server'.rev)
      BY <2>2 DEF Takes
    <3>2. server.done \in [Id -> Nat] /\ x.id \in Id
      BY Facts, InFlightTyped DEF Typed
    <3>3. CASE id = x.id
      BY <3>1, <3>2, <3>3 DEF Known
    <3>4. CASE id # x.id
      BY <1>0, <2>0, <3>1, <3>2, <3>4 DEF Known
    <3> QED BY <3>3, <3>4
  <2> QED BY <2>1, <2>2 DEF ServerMoves
<1>5. feed'.item # None => Known(feed.item.rev)'
  <2>1. feed' = feed /\ (feed.item # None => feed.item.rev \in Nat)
    BY Facts DEF ServerMoves, Typed, View
  <2> QED BY <1>1, <2>1 DEF Revisions, Known
<1>6. /\ main'.reply # None /\ main'.reply.status = "state" => Known(main.reply.view.rev)'
      /\ main'.reply # None /\ main'.reply.status = "gone" => ~server'.live
  <2>1. CASE main' = main
    <3>1. main.reply # None /\ main.reply.status = "state" => main.reply.view.rev \in Nat
      BY Facts DEF Typed, Shape, Reply, View
    <3> QED BY <1>0, <1>1, <2>1, <3>1 DEF Revisions, Known
  <2>2. ASSUME NEW reply \in Reply, ReplyIs(reply)
        PROVE  /\ reply.status = "state" => Known(reply.view.rev)'
               /\ reply.status = "gone" => ~server'.live
    BY <1>0, <2>2 DEF ReplyIs, True, Known
  <2>3. ASSUME NEW reply \in Reply, ReplyIs(reply) PROVE main'.reply = reply
    BY <2>3, ReplyFacts
  <2> QED BY <2>1, <2>2, <2>3 DEF MainStays, Known
<1> QED BY <1>2, <1>3, <1>4, <1>5, <1>6 DEF Revisions

\* A send that is dead stays dead, and has no effect any more.
LEMMA DeadStays ==
  ASSUME Typed, Moves(server, server'), NEW x, x.rev \in Nat, Dead(x) PROVE Dead(x)'
<1>1. /\ server.rev \in Nat /\ server'.rev \in Nat
      /\ server'.live => server.live /\ server'.rev >= server.rev
  BY Facts DEF Typed, Moves, Server
<1> QED BY <1>1 DEF Dead

LEMMA DeadDoNothing ==
  ASSUME Typed, NEW x \in InFlight, Dead(x) PROVE ~Takes(server, server', x)
BY InFlightTyped, Facts DEF Dead, Takes, Typed

\* What a request that takes effect does to the records.
LEMMA TakesWhat ==
  ASSUME Typed, NEW x \in InFlight, Takes(server, server', x)
  PROVE  /\ server'.done[x.id] > x.rev /\ server'.done[x.id] # 0 /\ server.done[x.id] = 0
         /\ \A id \in Id : id # x.id => server'.done[id] = server.done[id]
<1>1. x.id \in Id /\ x.rev \in Nat /\ server.done \in [Id -> Nat]
  BY InFlightTyped, Facts DEF Typed
<1>2. PICK n \in Nat : n > server.rev /\ server'.done = [server.done EXCEPT ![x.id] = n]
  BY DEF Takes
<1>3. server.rev = x.rev /\ server.done[x.id] = 0
  BY DEF Takes
<1> QED BY <1>1, <1>2, <1>3

\* An action that took effect, or whose refusal the client believed, does not take
\* effect through another of its sends.
LEMMA NeverAgain ==
  ASSUME Typed, Attempts, NEW x \in InFlight, Takes(server, server', x)
  PROVE  ~Done(x.id[1]) /\ ~Dead(x)
BY DeadDoNothing DEF Attempts, Takes

LEMMA SameId ==
  ASSUME Typed, NEW x \in InFlight, NEW y \in InFlight,
         x.id[1] = y.id[1], x.id[2] = y.id[2]
  PROVE  x.id = y.id
BY InFlightTyped

LEMMA AttemptsKept ==
  ASSUME Typed, Attempts, Moves(server, server'),
         server'.done = server.done \/ \E x \in InFlight : Takes(server, server', x),
         InFlight' \subseteq InFlight, \A id \in Id : Sent(id) => Sent(id)'
  PROVE  Attempts'
<1>1. \A x \in InFlight : x \in Request /\ x.id \in Id /\ x.rev \in Nat
  BY InFlightTyped
<1>2. \A x \in InFlight' : Sent(x.id)'
  BY <1>1 DEF Attempts
<1>3. \A x, y \in InFlight' : x.id = y.id => x = y
  BY DEF Attempts
<1>4. \A x, y \in InFlight' : x.id[1] = y.id[1] /\ x.id[2] < y.id[2] => Dead(x)'
  BY <1>1, DeadStays DEF Attempts
<1>5. CASE server'.done = server.done
  <2>1. \A id \in Id : server'.done[id] # 0 => Sent(id)'
    BY <1>5 DEF Attempts
  <2>2. \A i : Done(i)' = Done(i)
    BY <1>5 DEF Done
  <2>3. \A x \in InFlight' : server'.done[x.id] = 0 => Dead(x)' \/ ~Done(x.id[1])'
    BY <1>1, <1>5, <2>2, DeadStays DEF Attempts
  <2>4. \A x \in InFlight' : server'.done[x.id] # 0 => server'.done[x.id] > x.rev
    BY <1>5 DEF Attempts
  <2>5. \A x \in InFlight' : server'.done[x.id] # 0 /\ x.kind = "end" => ~server'.live
    BY <1>5 DEF Attempts, Moves
  <2> QED BY <1>2, <1>3, <1>4, <2>1, <2>3, <2>4, <2>5 DEF Attempts
<1>6. ASSUME NEW x \in InFlight, Takes(server, server', x) PROVE Attempts'
  <2>1. /\ server'.done[x.id] > x.rev /\ server'.done[x.id] # 0 /\ server.done[x.id] = 0
        /\ \A id \in Id : id # x.id => server'.done[id] = server.done[id]
    BY <1>6, TakesWhat
  <2>2. \A id \in Id : server'.done[id] # 0 => Sent(id)'
    BY <1>1, <2>1 DEF Attempts
  <2>3. ASSUME NEW y \in InFlight', server'.done[y.id] = 0 PROVE Dead(y)' \/ ~Done(y.id[1])'
    <3>1. y \in InFlight /\ y.id \in Id /\ y.id # x.id /\ server.done[y.id] = 0
      BY <1>1, <2>1, <2>3
    <3>2. CASE y.id[1] = x.id[1]
      <4>1. y.id[2] # x.id[2] /\ y.id[2] \in Int /\ x.id[2] \in Int
        BY <3>1, <3>2, SameId, InFlightTyped DEF Attempt
      <4>2. CASE y.id[2] < x.id[2]
        BY <1>1, <3>1, <3>2, <4>2, DeadStays DEF Attempts
      <4>3. CASE x.id[2] < y.id[2]
        BY <1>6, <3>1, <3>2, <4>3, DeadDoNothing DEF Attempts
      <4> QED BY <4>1, <4>2, <4>3
    <3>3. CASE y.id[1] # x.id[1]
      <4>1. \A a \in Attempt : <<y.id[1], a>> \in Id /\ <<y.id[1], a>> # x.id
        <5>1. y.id[1] \in Intent /\ x.id = <<x.id[1], x.id[2]>>
          BY <3>1, InFlightTyped
        <5> QED BY <3>3, <5>1 DEF Id
      <4>2. Done(y.id[1])' = Done(y.id[1])
        BY <2>1, <4>1 DEF Done
      <4> QED BY <1>1, <3>1, <4>2, DeadStays DEF Attempts
    <3> QED BY <3>2, <3>3
  <2>4. \A y \in InFlight' : server'.done[y.id] # 0 => server'.done[y.id] > y.rev
    BY <1>1, <2>1 DEF Attempts
  <2>5. \A y \in InFlight' : server'.done[y.id] # 0 /\ y.kind = "end" => ~server'.live
    <3>1. ASSUME NEW y \in InFlight', server'.done[y.id] # 0, y.kind = "end" PROVE ~server'.live
      <4>1. CASE y.id = x.id
        BY <1>6, <3>1, <4>1 DEF Attempts, Takes
      <4>2. CASE y.id # x.id
        BY <1>1, <2>1, <3>1, <4>2 DEF Attempts, Moves
      <4> QED BY <4>1, <4>2
    <3> QED BY <3>1
  <2> QED BY <1>2, <1>3, <1>4, <2>2, <2>3, <2>4, <2>5 DEF Attempts
<1> QED BY <1>5, <1>6

\* Intents that are done with, or whose sends so far are dead, are left alone.
LEMMA OthersUntouched ==
  ASSUME Typed, Attempts, ServerMoves, NEW i \in Intent,
         Done(i) \/ \A x \in InFlight : x.id[1] = i => Dead(x)
  PROVE  /\ \A a \in Attempt : server'.done[<<i, a>>] = server.done[<<i, a>>]
         /\ Done(i)' = Done(i)
<1>1. ASSUME NEW a \in Attempt PROVE server'.done[<<i, a>>] = server.done[<<i, a>>]
  <2>1. <<i, a>> \in Id
    BY DEF Id
  <2>2. ASSUME NEW x \in InFlight, Takes(server, server', x)
        PROVE  server'.done[<<i, a>>] = server.done[<<i, a>>]
    <3>1. x.id[1] # i
      BY <2>2, NeverAgain
    <3>2. x.id # <<i, a>>
      BY <3>1
    <3> QED BY <2>1, <2>2, <3>2, TakesWhat
  <2> QED BY <2>2 DEF ServerMoves
<1> QED BY <1>1 DEF Done

\* A send with a verdict keeps it: its record does not change any more.
LEMMA JudgedUntouched ==
  ASSUME Typed, Attempts, ServerMoves, NEW x \in InFlight,
         server.done[x.id] # 0 \/ Dead(x)
  PROVE  server'.done[x.id] = server.done[x.id]
<1>1. x.id \in Id
  BY InFlightTyped
<1>2. ASSUME NEW y \in InFlight, Takes(server, server', y)
      PROVE  server'.done[x.id] = server.done[x.id]
  <2>1. y.id # x.id
    BY <1>2, NeverAgain, TakesWhat DEF Attempts
  <2> QED BY <1>1, <1>2, <2>1, TakesWhat
<1> QED BY <1>2 DEF ServerMoves

LEMMA ServerMovesVerdicts ==
  ASSUME Typed, Revisions, Attempts, Verdicts, ServerMoves, MainStays PROVE Verdicts'
<1>0. /\ main'.pc = main.pc /\ main'.req = main.req /\ main'.intent = main.intent
      /\ main'.attempt = main.attempt /\ main'.kind = main.kind /\ told' = told
      /\ Moves(server, server') /\ InFlight' \subseteq InFlight
  BY StayingMain DEF ServerMoves
<1>1. main.pc \in Active => main.intent \in Intent
  BY DEF Typed, Shape
<1>2. ASSUME main.pc \in Active, NEW a \in Attempt, a < main.attempt
      PROVE  server'.done[<<main.intent, a>>] = 0
  <2>0. server.done[<<main.intent, a>>] = 0 /\ <<main.intent, a>> \in Id
    BY <1>1, <1>2 DEF Verdicts, Id
  <2>1. ASSUME NEW x \in InFlight, Takes(server, server', x) PROVE x.id # <<main.intent, a>>
    <3>0. ~Dead(x) /\ ~Done(x.id[1])
      BY <2>1, NeverAgain
    <3>1. CASE main.pc = "sending"
      <4>1. main.req \in InFlight /\ main.req.id = <<main.intent, main.attempt>>
        BY <3>1 DEF InFlight, Typed, Shape
      <4> QED BY <1>2, <2>1, <3>0, <4>1 DEF Attempts
    <3>2. CASE main.pc = "confirming"
      <4>1. Done(main.intent)
        BY <3>2, Facts DEF Verdicts, Done, Typed
      <4> QED BY <3>0, <4>1
    <3>3. CASE main.pc \in {"refreshing", "resending"}
      BY <2>1, <3>0, <3>3 DEF Verdicts
    <3> QED BY <1>2, <3>1, <3>2, <3>3 DEF Active, Waiting
  <2> QED BY <2>0, <2>1, TakesWhat DEF ServerMoves
<1>3. ASSUME main.pc \in {"refreshing", "resending"}
      PROVE  ~Done(main.intent)' /\ \A x \in InFlight' : x.id[1] = main.intent => Dead(x)'
  <2>1. main.intent \in Intent /\ ~Done(main.intent)
        /\ \A x \in InFlight : x.id[1] = main.intent => Dead(x)
    BY <1>1, <1>3 DEF Verdicts, Active, Waiting
  <2>2. Done(main.intent)' = FALSE
    <3>1. \A a \in Attempt : server'.done[<<main.intent, a>>] = server.done[<<main.intent, a>>]
      BY <2>1, OthersUntouched
    <3> QED BY <1>0, <2>1, <3>1 DEF Done
  <2>3. \A x \in InFlight' : x.id[1] = main.intent => Dead(x)'
    BY <1>0, <2>1, DeadStays, InFlightTyped
  <2> QED BY <2>2, <2>3
<1>4. ASSUME main.pc = "confirming" PROVE server'.done[<<main.intent, main.attempt>>] # 0
  <2>1. server.done[<<main.intent, main.attempt>>] # 0 /\ main.attempt \in Attempt
    BY <1>4, Facts DEF Verdicts, Typed
  <2>2. main.intent \in Intent /\ Done(main.intent)
    BY <1>1, <1>4, <2>1 DEF Done, Active, Waiting
  <2> QED BY <2>1, <2>2, OthersUntouched
<1>5. ASSUME main.pc = "sending", main'.reply # None
      PROVE  /\ main'.reply.status = "ok" =>
                  main'.reply.rev # 0 /\ main'.reply.rev = server'.done[main.req.id]
             /\ main'.reply.status = "stale" => server'.done[main.req.id] = 0 /\ Dead(main.req)'
  <2>0. main.req \in InFlight /\ main.req.rev \in Nat
    BY <1>5, InFlightTyped DEF InFlight
  <2>1. CASE main' = main
    <3>1. main.reply.status = "ok" => server.done[main.req.id] # 0
      BY <1>5, <2>1 DEF Verdicts
    <3>2. main.reply.status = "stale" => Dead(main.req)
      BY <1>5, <2>1 DEF Verdicts
    <3>3. main.reply.status \in {"ok", "stale"} => server'.done[main.req.id] = server.done[main.req.id]
      BY <2>0, <3>1, <3>2, JudgedUntouched
    <3>4. Dead(main.req) => Dead(main.req)'
      <4>1. ASSUME NEW q, q = main.req, Dead(q) PROVE Dead(q)'
        BY <1>0, <2>0, <4>1, DeadStays
      <4> QED BY <1>0, <4>1 DEF Dead
    <3> QED BY <1>5, <2>1, <3>3, <3>4 DEF Verdicts
  <2>2. ASSUME NEW reply \in Reply, ReplyIs(reply)
        PROVE  /\ main'.reply.status = "ok" =>
                    main'.reply.rev # 0 /\ main'.reply.rev = server'.done[main.req.id]
               /\ main'.reply.status = "stale" => server'.done[main.req.id] = 0 /\ Dead(main.req)'
    <3>1. main'.reply = reply /\ True(main.req, server, server', reply)
      BY <2>2, ReplyFacts DEF ReplyIs
    <3>2. ASSUME reply.status = "stale" PROVE Dead(main.req)'
      <4>1. server' = server /\ server.rev # main.req.rev
        BY <3>1, <3>2 DEF True
      <4>2. Known(main.req.rev) /\ server.rev \in Nat
        BY <2>0, Facts DEF Revisions, Typed
      <4> QED BY <1>0, <2>0, <4>1, <4>2 DEF Known, Dead
    <3> QED BY <3>1, <3>2 DEF True
  <2> QED BY <2>1, <2>2 DEF MainStays
<1>6. ASSUME NEW i \in Intent, told[i] = "stale"
      PROVE  ~Done(i)' /\ \A x \in InFlight' : x.id[1] = i => Dead(x)'
  <2>1. ~Done(i) /\ \A x \in InFlight : x.id[1] = i => Dead(x)
    BY <1>6 DEF Verdicts
  <2>2. Done(i)' = FALSE
    BY <2>1, OthersUntouched
  <2>3. \A x \in InFlight' : x.id[1] = i => Dead(x)'
    BY <1>0, <2>1, DeadStays, InFlightTyped
  <2> QED BY <2>2, <2>3
<1>7. ASSUME NEW i \in Intent, told[i] = "ok" PROVE Done(i)'
  BY <1>7, OthersUntouched DEF Verdicts
<1>8. EndedRoomIsGone'
  BY <1>0 DEF Verdicts, EndedRoomIsGone, Moves
<1> QED BY <1>0, <1>2, <1>3, <1>4, <1>5, <1>6, <1>7, <1>8 DEF Verdicts, Done

LEMMA ServerMovesViews ==
  ASSUME Typed, Revisions, Attempts, Verdicts, Views, ServerMoves, MainStays PROVE Views'
<1>0. /\ main'.pc = main.pc /\ main'.req = main.req /\ main'.intent = main.intent
      /\ main'.attempt = main.attempt /\ main'.kind = main.kind
      /\ told' = told /\ client' = client /\ feed' = feed
  BY StayingMain DEF ServerMoves
<1>1. /\ server.rev \in Nat /\ client.view.rev \in Nat /\ client.rev \in Nat
      /\ server.done \in [Id -> Nat] /\ main.attempt \in Attempt
  BY Facts DEF Typed
<1>2. ASSUME client.rev < client.view.rev, main'.reply # None, main'.reply.status = "state"
      PROVE  Newer(main.reply.view.rev)'
  <2>1. CASE main' = main
    BY <1>0, <1>2, <2>1 DEF Views, Newer
  <2>2. ASSUME NEW reply \in Reply, ReplyIs(reply) PROVE Newer(main.reply.view.rev)'
    <3>1. main'.reply = reply /\ True(main.req, server, server', reply)
      BY <2>2, ReplyFacts DEF ReplyIs
    <3>2. server.live /\ reply.view.rev >= server.rev /\ reply.view.rev = server'.rev
      BY <1>2, <3>1 DEF True
    <3>3. client.view.rev <= server.rev /\ server'.rev \in Nat
      BY <3>2 DEF Revisions, Known, ServerMoves, Moves, Server
    <3> QED BY <1>0, <1>1, <3>1, <3>2, <3>3 DEF Newer
  <2> QED BY <2>1, <2>2 DEF MainStays
<1>3. client'.rev < client'.view.rev =>
        /\ feed'.item # None => Newer(feed.item.rev)'
        /\ main'.reply # None /\ main'.reply.status = "state" => Newer(main.reply.view.rev)'
  BY <1>0, <1>2 DEF Views, Newer
<1>4. main'.pc = "sending" /\ main'.req.rev < client'.view.rev =>
        (feed'.item # None => Newer(feed.item.rev)')
  BY <1>0 DEF Views, Newer
<1>5. ASSUME main.pc = "confirming"
      PROVE  LET done == server'.done[<<main.intent, main.attempt>>]
             IN  /\ client.rev = done \/ client.view.rev >= done
                 /\ main'.reply # None /\ main'.reply.status = "state" => main'.reply.view.rev >= done
  <2> DEFINE id == <<main.intent, main.attempt>>
  <2>1. main.intent \in Intent /\ server.done[id] # 0 /\ id \in Id
    BY <1>1, <1>5 DEF Typed, Shape, Active, Waiting, Verdicts, Id
  <2>2. server'.done[id] = server.done[id]
    BY <1>1, <2>1, OthersUntouched DEF Done
  <2>3. client.rev = server.done[id] \/ client.view.rev >= server.done[id]
    BY <1>5 DEF Views
  <2>4. main'.reply # None /\ main'.reply.status = "state" => main'.reply.view.rev >= server.done[id]
    <3>1. CASE main' = main
      BY <1>5, <3>1 DEF Views
    <3>2. ASSUME NEW reply \in Reply, ReplyIs(reply), reply.status = "state"
          PROVE  reply.view.rev >= server.done[id]
      <4>1. server.live /\ reply.view.rev >= server.rev /\ reply.view \in View
        BY <3>2 DEF ReplyIs, True
      <4>2. server.done[id] <= server.rev /\ server.done[id] \in Nat
        BY <1>1, <2>1, <4>1 DEF Revisions, Known
      <4> QED BY <1>1, <4>1, <4>2 DEF View
    <3>3. ASSUME NEW reply \in Reply, ReplyIs(reply) PROVE main'.reply = reply
      BY <3>3, ReplyFacts
    <3> QED BY <3>1, <3>2, <3>3 DEF MainStays
  <2> QED BY <2>2, <2>3, <2>4
<1>6. ConfirmedIsShown'
  <2>1. SUFFICES ASSUME NEW id \in Id, told[id[1]] = "ok", ~(main.pc = "left" /\ main.kind = "end")
                 PROVE  server'.done[id] <= client.view.rev
    BY <1>0 DEF ConfirmedIsShown
  <2>2. id[1] \in Intent /\ id[2] \in Attempt /\ id = <<id[1], id[2]>>
    BY DEF Id
  <2>3. Done(id[1])
    BY <2>1, <2>2 DEF Verdicts
  <2>4. server'.done[<<id[1], id[2]>>] = server.done[<<id[1], id[2]>>]
    BY <2>2, <2>3, OthersUntouched
  <2>5. server.done[id] <= client.view.rev
    BY <2>1 DEF Views, ConfirmedIsShown
  <2> QED BY <2>2, <2>4, <2>5
<1> QED BY <1>0, <1>3, <1>4, <1>5, <1>6 DEF Views

LEMMA ServerMovesKeep ==
  ASSUME SessionInv, ServerMoves, MainStays PROVE SessionInv'
<1>1. Typed /\ Typed'
  BY ServerMovesTyped DEF SessionInv, Typed
<1>2. Attempts'
  <2>1. \A id \in Id : Sent(id) => Sent(id)'
    BY <1>1, StayingMain DEF Sent
  <2> QED BY <1>1, <2>1, AttemptsKept DEF SessionInv, ServerMoves
<1> QED BY <1>1, <1>2, ServerMovesRevisions, ServerMovesVerdicts, ServerMovesViews
        DEF SessionInv, Typed

LEMMA ServeMoves ==
  ASSUME SessionInv, Serve PROVE ServerMoves /\ MainStays
<1>1. Typed
  BY DEF SessionInv, Typed
<1>2. PICK out \in Outcomes(server, main.req) :
        server' = out[1] /\ main' = [main EXCEPT !.reply = out[2]]
  BY DEF Serve
<1>3. main.req # None /\ main.reply = None /\ main.req \in Request /\ server \in Server
      /\ UNCHANGED <<client, late, feed, told>>
  BY <1>1, Facts DEF Serve, Typed
<1>4. /\ Moves(server, out[1]) /\ out[2] \in Reply /\ True(main.req, server, out[1], out[2])
      /\ out[1].done = server.done \/ Takes(server, out[1], main.req)
  BY <1>3, OutcomesAre
<1>5. ReplyIs(out[2])
  BY <1>2, <1>3, <1>4 DEF ReplyIs
<1>6. main'.pc = main.pc /\ main'.req = main.req
  BY <1>1, <1>5, ReplyFacts
<1>7. InFlight' \subseteq InFlight
  BY <1>3, <1>6 DEF InFlight
<1>8. Takes(server, out[1], main.req) => main.req \in InFlight \/ server'.done = server.done
  <2>1. CASE main.pc = "sending"
    BY <2>1 DEF InFlight
  <2>2. CASE main.pc # "sending"
    <3>1. main.req.kind = "sync"
      BY <1>1, <1>3, <2>2, SyncIs DEF Typed, Shape, Waiting
    <3>2. CASE server.live
      <4>1. PICK t \in Touches(server) : out = <<t, Projection(t)>>
        BY <3>1, <3>2 DEF Outcomes
      <4> QED BY <1>2, <1>3, <4>1, TouchesAre
    <3>3. CASE ~server.live
      BY <3>3 DEF Takes
    <3> QED BY <3>2, <3>3
  <2> QED BY <2>1, <2>2
<1>9. server'.done = server.done \/ \E x \in InFlight : Takes(server, server', x)
  BY <1>2, <1>4, <1>8
<1> QED BY <1>2, <1>3, <1>4, <1>5, <1>7, <1>9 DEF ServerMoves, MainStays

LEMMA ServeLateMoves ==
  ASSUME SessionInv, ServeLate PROVE ServerMoves /\ MainStays
<1>1. PICK req \in late :
        /\ \E out \in Outcomes(server, req) : server' = out[1]
        /\ late' = late \ {req} /\ UNCHANGED <<client, main, feed, told>>
  BY DEF ServeLate
<1>2. PICK out \in Outcomes(server, req) : server' = out[1]
  BY <1>1
<1>3. req \in Request /\ server \in Server
  BY <1>1 DEF SessionInv, TypeOK
<1>4. /\ Moves(server, server')
      /\ server'.done = server.done \/ Takes(server, server', req)
  BY <1>2, <1>3, OutcomesAre
<1>5. req \in InFlight /\ InFlight' \subseteq InFlight
  BY <1>1 DEF InFlight
<1> QED BY <1>1, <1>4, <1>5 DEF ServerMoves, MainStays

\* The rest of the table, and time.
LEMMA OthersMove ==
  ASSUME SessionInv, Others \/ MarkedAway \/ RoomGoes \/ Heartbeat
  PROVE  ServerMoves /\ MainStays
<1>1. server \in Server /\ server.rev \in Nat /\ server.rev + 1 \in Nat /\ server.rev + 1 >= server.rev
  BY DEF SessionInv, TypeOK, Server
<1>2. /\ UNCHANGED <<client, main, late, feed, told>>
  BY DEF Others, MarkedAway, RoomGoes, Heartbeat
<1>3. Moves(server, server') /\ server'.done = server.done
  <2>1. CASE Others
    <3>1. PICK moves \in {0, 1}, needed \in BOOLEAN :
            server' = [server EXCEPT !.rev = @ + 1, !.round = @ + moves, !.needed = needed]
      BY <2>1 DEF Others
    <3>2. server.round + moves \in Nat
      BY <1>1 DEF Server
    <3>3. server.live
      BY <2>1 DEF Others
    <3> QED BY <1>1, <3>1, <3>2, <3>3 DEF Moves, Server
  <2>2. CASE MarkedAway
    <3>1. PICK needed \in BOOLEAN :
            server' = [server EXCEPT !.rev = @ + 1, !.here = FALSE, !.needed = needed]
      BY <2>2 DEF MarkedAway
    <3>2. server.live
      BY <2>2 DEF MarkedAway
    <3> QED BY <1>1, <3>1, <3>2 DEF Moves, Server
  <2>3. CASE RoomGoes
    BY <1>1, <2>3, GoneIs DEF RoomGoes, Moves
  <2>4. CASE Heartbeat
    BY <1>1, <2>4, TouchesAre DEF Heartbeat, Moves
  <2> QED BY <2>1, <2>2, <2>3, <2>4
<1> QED BY <1>2, <1>3 DEF ServerMoves, MainStays, InFlight

-----------------------------------------------------------------------------
(* A step of the client.                                                   *)

LEMMA LateInFlight ==
  ASSUME Typed, late' \subseteq InFlight, main'.pc # "sending"
  PROVE  InFlight' \subseteq InFlight /\ late' \in SUBSET Request
         /\ \A req \in late' : req.kind \in Kind
BY InFlightTyped DEF InFlight

\* The revisions of a client's step are all known to the server already.
LEMMA RevisionsKept ==
  ASSUME Revisions, server' = server, Known(client.rev)', Known(client.view.rev)',
         \A req \in InFlight' : Known(req.rev),
         feed'.item # None => Known(feed.item.rev)',
         main'.reply = None \/ main'.reply = main.reply
  PROVE  Revisions'
BY DEF Revisions, Known

LEMMA SentStays ==
  ASSUME main'.intent = main.intent, main'.pc \in Active => main.pc \in Active,
         main'.attempt = main.attempt \/ main'.pc \notin Active, NEW id, Sent(id)
  PROVE  Sent(id)'
BY DEF Sent

\* No attempts are made.
LEMMA AttemptsStay ==
  ASSUME Typed, Attempts, server' = server, InFlight' \subseteq InFlight,
         main'.intent = main.intent, main'.pc \in Active => main.pc \in Active,
         main'.attempt = main.attempt \/ main'.pc \notin Active
  PROVE  Attempts'
<1>1. Moves(server, server') /\ server'.done = server.done
  BY Facts DEF Moves, Typed
<1> QED BY <1>1, SentStays, AttemptsKept

\* A send is made, of an intent that has had no effect so far and never will through
\* its earlier sends.
LEMMA NewAttempt ==
  ASSUME Typed, Attempts, server' = server, NEW n, n.id \in Id, InFlight' \subseteq InFlight \cup {n},
         ~Sent(n.id), Sent(n.id)', \A id \in Id : Sent(id) => Sent(id)',
         ~Done(n.id[1]),
         \A x \in InFlight : x.id[1] = n.id[1] => Dead(x) /\ x.id[2] < n.id[2]
  PROVE  Attempts'
<1>1. \A x \in InFlight : x.id \in Id /\ Sent(x.id) /\ x.id # n.id
  BY InFlightTyped DEF Attempts
<1>2. server.done[n.id] = 0
  BY Facts DEF Typed, Attempts
<1>3. /\ \A i : Done(i)' = Done(i)
      /\ \A x : Dead(x)' = Dead(x)
  BY DEF Done, Dead
<1>4. \A x \in InFlight' : Sent(x.id)'
  BY <1>1
<1>5. \A id \in Id : server'.done[id] # 0 => Sent(id)'
  BY DEF Attempts
<1>6. \A x, y \in InFlight' : x.id = y.id => x = y
  BY <1>1 DEF Attempts
<1>7. ASSUME NEW x \in InFlight', NEW y \in InFlight', x.id[1] = y.id[1], x.id[2] < y.id[2]
      PROVE  Dead(x)'
  <2>1. n.id[2] \in Int /\ \A z \in InFlight : z.id[2] \in Int
    BY InFlightTyped DEF Id, Attempt
  <2>2. CASE x \in InFlight /\ y \in InFlight
    BY <1>3, <1>7, <2>2 DEF Attempts
  <2>3. CASE x \in InFlight /\ y = n
    BY <1>3, <1>7, <2>3
  <2>4. CASE x = n /\ y \in InFlight
    BY <1>7, <2>1, <2>4
  <2>5. CASE x = n /\ y = n
    BY <1>7, <2>1, <2>5
  <2> QED BY <2>2, <2>3, <2>4, <2>5
<1>8. \A x \in InFlight' : server'.done[x.id] = 0 => Dead(x)' \/ ~Done(x.id[1])'
  BY <1>3 DEF Attempts
<1>9. \A x \in InFlight' : server'.done[x.id] # 0 => server'.done[x.id] > x.rev
  BY <1>2 DEF Attempts
<1>10. \A x \in InFlight' : server'.done[x.id] # 0 /\ x.kind = "end" => ~server'.live
  BY <1>2 DEF Attempts
<1> QED BY <1>4, <1>5, <1>6, <1>7, <1>8, <1>9, <1>10 DEF Attempts

\* What is believed of intents, apart from those that the step speaks of.
LEMMA BeliefsStay ==
  ASSUME Verdicts, server' = server, NEW i \in Intent, told'[i] = told[i],
         \A x \in InFlight' : x.id[1] = i => x \in InFlight
  PROVE  /\ told'[i] = "stale" => ~Done(i)' /\ \A x \in InFlight' : x.id[1] = i => Dead(x)'
         /\ told'[i] = "ok" => Done(i)'
BY DEF Verdicts, Done, Dead

\* A projection that is adopted is not older than the view, nor than any revision
\* the client is waiting for.
LEMMA ApplyIs ==
  ASSUME Typed, NEW view \in View,
         client.rev < client.view.rev => Newer(view.rev)
  PROVE  LET c == Apply(client, view)
         IN  /\ c \in [rev : Nat, view : View]
             /\ c.view.rev >= client.view.rev
             /\ c = client \/ (c.rev = view.rev /\ c.view = view /\ view.rev >= client.rev)
             /\ c = client => view.rev < client.rev \/ client.rev = client.view.rev
<1>1. client \in [rev : Nat, view : View] /\ client.rev \in Nat /\ client.view.rev \in Nat
      /\ view.rev \in Nat
  BY DEF Typed, TypeOK, View
<1>2. CASE view.rev < client.rev
  BY <1>1, <1>2 DEF Apply
<1>3. CASE view.rev >= client.rev
  <2>1. Apply(client, view) = [rev |-> view.rev, view |-> view]
    BY <1>1, <1>3 DEF Apply
  <2>2. view.rev >= client.view.rev
    BY <1>1, <1>3 DEF Newer
  <2>3. [rev |-> view.rev, view |-> view] \in [rev : Nat, view : View]
    BY <1>1
  <2> QED BY <1>1, <1>3, <2>1, <2>2, <2>3
<1> QED BY <1>1, <1>2, <1>3

-----------------------------------------------------------------------------
(* The event stream, and steps of main that only look or repeat.           *)

\* What stays as it is when main does not move and nothing is told.
LEMMA StreamKeeps ==
  ASSUME SessionInv, UNCHANGED <<server, main, late, told>>,
         feed' \in Feed, feed'.item # None => Known(feed'.item.rev) /\ feed'.item.rev >= client'.view.rev,
         client' \in [rev : Nat, view : View], Known(client.rev)', Known(client.view.rev)',
         client'.view.rev >= client.view.rev,
         \/ client' = client
         \/ client'.rev = client'.view.rev /\ client'.view.rev >= client.rev
  PROVE  SessionInv'
<1>0. Typed /\ Revisions /\ Attempts /\ Verdicts /\ Views
  BY DEF SessionInv, Typed
<1>1. /\ client.rev \in Nat /\ client.view.rev \in Nat /\ client'.rev \in Nat
      /\ client'.view.rev \in Nat /\ server.done \in [Id -> Nat] /\ main.attempt \in Attempt
  BY <1>0, Facts DEF Typed, View
<1>2. TypeOK' /\ Shape' /\ ToldSoFar'
  BY <1>0 DEF Typed, TypeOK, Shape, ToldSoFar
<1>3. InFlight' = InFlight /\ main' = main /\ server' = server
  BY DEF InFlight
<1>4. Revisions'
  <2>1. \A req \in InFlight' : Known(req.rev)
    BY <1>0, <1>3 DEF Revisions
  <2>2. feed'.item # None => Known(feed.item.rev)'
    BY <1>3 DEF Known
  <2> QED BY <1>0, <1>3, <2>1, <2>2, RevisionsKept
<1>5. Attempts'
  BY <1>0, <1>3, AttemptsStay
<1>6. Verdicts'
  BY <1>0, <1>3 DEF Verdicts, Done, Dead, EndedRoomIsGone
<1>7. client'.rev < client'.view.rev =>
        /\ feed'.item # None => Newer(feed.item.rev)'
        /\ main'.reply # None /\ main'.reply.status = "state" => Newer(main.reply.view.rev)'
  BY <1>0, <1>1, <1>3 DEF Views, Newer
<1>8. main'.pc = "sending" /\ main'.req.rev < client'.view.rev =>
        (feed'.item # None => Newer(feed.item.rev)')
  BY DEF Newer
<1>9. ASSUME main.pc = "confirming", NEW done, done = server.done[<<main.intent, main.attempt>>]
      PROVE  /\ client'.rev = done \/ client'.view.rev >= done
             /\ main.reply # None /\ main.reply.status = "state" => main.reply.view.rev >= done
  <2>1. done \in Nat
    <3>1. main.intent \in Intent
      BY <1>0, <1>9 DEF Typed, Shape, Active, Waiting
    <3> QED BY <1>1, <1>9, <3>1 DEF Id
  <2> QED BY <1>0, <1>1, <1>9, <2>1 DEF Views
<1>10. ConfirmedIsShown'
  <2>1. \A id \in Id : server.done[id] \in Nat
    BY <1>1
  <2> QED BY <1>0, <1>1, <1>3, <2>1 DEF Views, ConfirmedIsShown
<1>11. Views'
  BY <1>3, <1>7, <1>8, <1>9, <1>10 DEF Views
<1> QED BY <1>2, <1>4, <1>5, <1>6, <1>11 DEF SessionInv

LEMMA PushKeeps == ASSUME SessionInv, Push PROVE SessionInv'
<1>1. server \in Server /\ client \in [rev : Nat, view : View] /\ server.live
      /\ feed' = [sent |-> server.rev, item |-> Snapshot(server)]
      /\ UNCHANGED <<server, client, main, late, told>>
  BY DEF SessionInv, TypeOK, Push
<1>2. Snapshot(server) \in View /\ Snapshot(server).rev = server.rev /\ server.rev \in Nat
  BY <1>1 DEF Snapshot, View, Server
<1>3. client.view.rev \in Nat /\ client.view.rev <= server.rev
  BY <1>1 DEF SessionInv, Revisions, Known, View
<1>4. feed' \in Feed /\ feed'.item.rev = server.rev
  BY <1>1, <1>2 DEF Feed
<1>5. Known(server.rev) /\ Known(client.rev)' /\ Known(client.view.rev)'
  BY <1>1, <1>2 DEF Known, SessionInv, Revisions
<1> QED BY <1>1, <1>2, <1>3, <1>4, <1>5, StreamKeeps

LEMMA BreakKeeps == ASSUME SessionInv, Break PROVE SessionInv'
<1>1. client \in [rev : Nat, view : View] /\ client.view.rev \in Nat
      /\ feed' = NoStream /\ UNCHANGED <<server, client, main, late, told>>
  BY DEF SessionInv, TypeOK, Break, View
<1>2. feed' \in Feed /\ feed'.item = None
  BY <1>1 DEF NoStream, Feed
<1>3. Known(client.rev)' /\ Known(client.view.rev)'
  BY <1>1 DEF Known, SessionInv, Revisions
<1> QED BY <1>1, <1>2, <1>3, StreamKeeps

LEMMA DeliverKeeps == ASSUME SessionInv, Deliver PROVE SessionInv'
<1>0. Typed
  BY DEF SessionInv, Typed
<1>1. feed \in Feed /\ feed.item \in View
      /\ client' = Apply(client, feed.item)
      /\ feed' = [feed EXCEPT !.item = None] /\ UNCHANGED <<server, main, late, told>>
  BY DEF SessionInv, TypeOK, Deliver, Feed
<1>2. feed.item # None /\ (client.rev < client.view.rev => Newer(feed.item.rev))
  BY DEF SessionInv, Views, Deliver
<1>3. /\ client' \in [rev : Nat, view : View] /\ client'.view.rev >= client.view.rev
      /\ \/ client' = client
         \/ client'.rev = feed.item.rev /\ client'.view = feed.item /\ feed.item.rev >= client.rev
  BY <1>0, <1>1, <1>2, ApplyIs
<1>4. feed' \in Feed /\ feed'.item = None
  BY <1>1 DEF Feed
<1>5. Known(client.rev)' /\ Known(client.view.rev)'
  BY <1>1, <1>2, <1>3 DEF Known, SessionInv, Revisions
<1>6. UNCHANGED <<server, main, late, told>>
  BY <1>1
<1>7. \/ client' = client
      \/ client'.rev = client'.view.rev /\ client'.view.rev >= client.rev
  BY <1>3
<1> QED BY <1>3, <1>4, <1>5, <1>6, <1>7, StreamKeeps

\* Main looks, or sends the same again: nothing that the invariant speaks of moves.
LEMMA LookingKeeps ==
  ASSUME SessionInv, UNCHANGED <<server, client, feed, told>>, late' = late, main' \in Main,
         main'.pc = main.pc, main'.req = main.req, main'.intent = main.intent,
         main'.kind = main.kind, main'.attempt = main.attempt,
         main'.reply = main.reply \/ main'.reply = None
  PROVE  SessionInv'
<1>0. Typed /\ Revisions /\ Attempts /\ Verdicts /\ Views
  BY DEF SessionInv, Typed
<1>1. TypeOK' /\ Shape' /\ ToldSoFar'
  BY <1>0 DEF Typed, TypeOK, Shape, ToldSoFar
<1>2. InFlight' = InFlight
  BY DEF InFlight
<1>3. Revisions'
  BY <1>0, <1>2 DEF Revisions, Known
<1>4. Attempts'
  BY <1>0, <1>2, AttemptsStay
<1>5. Verdicts'
  BY <1>0, <1>2 DEF Verdicts, Done, Dead, EndedRoomIsGone
<1>6. Views'
  BY <1>0 DEF Views, Newer, ConfirmedIsShown
<1> QED BY <1>1, <1>3, <1>4, <1>5, <1>6 DEF SessionInv

LEMMA LookKeeps == ASSUME SessionInv, Look PROVE SessionInv'
<1>1. main \in Main /\ client.view.round \in Nat
  BY DEF SessionInv, TypeOK, View
<1>2. PICK shown \in Nat \cup {-1} : main' = [main EXCEPT !.shown = shown]
  BY <1>1 DEF Look
<1>3. /\ main' \in Main /\ main'.pc = main.pc /\ main'.req = main.req /\ main'.intent = main.intent
      /\ main'.kind = main.kind /\ main'.attempt = main.attempt /\ main'.reply = main.reply
  BY <1>1, <1>2 DEF Main
<1>4. UNCHANGED <<server, client, feed, told>> /\ late' = late
  BY DEF Look
<1> QED BY <1>3, <1>4, LookingKeeps

-----------------------------------------------------------------------------
(* Main stops waiting: the player is told.                                 *)

Said == {"none", "pending", "ok", "ended", "stale", "refused", "gone", "unreachable"}

Tells(outcome) ==
  /\ server' = server /\ main.pc \in Active
  /\ main' \in {Idle(main), Left(main)}
  /\ told' = [told EXCEPT ![main.intent] = outcome]
  /\ outcome \in Said \ {"none", "pending"}
  /\ late' \subseteq InFlight

LEMMA TellingIs ==
  ASSUME Typed, NEW outcome, Tells(outcome)
  PROVE  /\ main' \in Main /\ main'.pc \in {"idle", "left"} /\ main'.pc \notin Active
         /\ main'.req = None /\ main'.reply = None /\ main'.intent = main.intent
         /\ main'.pc = "left" => main'.kind = main.kind
         /\ InFlight' \subseteq InFlight
<1>1. main \in Main
  BY Facts DEF Typed
<1>2. CASE main' = Idle(main)
  BY <1>1, <1>2, IdleIs, LateInFlight DEF Active, Waiting, Tells
<1>3. CASE main' = Left(main)
  BY <1>1, <1>3, LeftIs, LateInFlight DEF Active, Waiting, Tells
<1> QED BY <1>2, <1>3 DEF Tells

LEMMA TellingTyped ==
  ASSUME Typed, NEW outcome, Tells(outcome), client' \in [rev : Nat, view : View],
         feed' \in {feed, NoStream}
  PROVE  Typed'
<1>1. /\ main' \in Main /\ main'.pc \in {"idle", "left"} /\ main'.req = None
      /\ main'.pc \notin Active /\ main'.reply = None /\ main'.intent = main.intent
  BY TellingIs
<1>2. late' \in SUBSET Request /\ \A req \in late' : req.kind \in Kind
  BY <1>1, LateInFlight DEF Tells
<1>3. main.intent \in Intent /\ told \in [Intent -> Said] /\ server \in Server /\ feed \in Feed
  BY DEF Typed, TypeOK, Shape, Tells, Said
<1>4. told' \in [Intent -> Said] /\ NoStream \in Feed
  BY <1>3 DEF Tells, NoStream, Feed
<1>5. TypeOK'
  BY <1>1, <1>2, <1>3, <1>4 DEF TypeOK, Tells, Said
<1>6. Shape'
  BY <1>1, <1>2, RestingShape DEF Typed
<1>7. ToldSoFar'
  <2>1. \A i \in Intent : told'[i] = IF i = main.intent THEN outcome ELSE told[i]
    BY <1>3 DEF Tells
  <2>2. ASSUME NEW i \in Intent
        PROVE  /\ told'[i] = "none" <=> i > main'.intent
               /\ ~(told'[i] = "pending")
    BY <1>1, <1>3, <2>1 DEF Typed, ToldSoFar, Tells, Intent
  <2> QED BY <1>1, <2>2 DEF ToldSoFar
<1> QED BY <1>5, <1>6, <1>7 DEF Typed

LEMMA TellingVerdicts ==
  ASSUME SessionInv, NEW outcome, Tells(outcome),
         \/ outcome # "stale"
         \/ ~Done(main.intent) /\ \A x \in InFlight : x.id[1] = main.intent => Dead(x),
         outcome # "ok" \/ Done(main.intent),
         main'.pc = "left" /\ main.kind = "end" => ~server.live
  PROVE  Verdicts'
<1>1. /\ main'.pc \in {"idle", "left"} /\ main'.pc \notin Active /\ main'.req = None
      /\ main'.pc = "left" => main'.kind = main.kind
      /\ InFlight' \subseteq InFlight /\ server' = server
  BY TellingIs DEF SessionInv, Typed, Tells
<1>2. main.intent \in Intent /\ told \in [Intent -> Said]
  BY DEF SessionInv, TypeOK, Shape, Tells, Said
<1>3. ASSUME NEW i \in Intent
      PROVE  /\ told'[i] = "stale" => ~Done(i)' /\ \A x \in InFlight' : x.id[1] = i => Dead(x)'
             /\ told'[i] = "ok" => Done(i)'
  <2>1. CASE i = main.intent
    <3>1. told'[i] = outcome
      BY <1>2, <2>1 DEF Tells
    <3> QED BY <1>1, <2>1, <3>1 DEF Done, Dead
  <2>2. CASE i # main.intent
    <3>1. told'[i] = told[i]
      BY <1>2, <2>2 DEF Tells
    <3> QED BY <1>1, <3>1, BeliefsStay DEF SessionInv
  <2> QED BY <2>1, <2>2
<1>4. EndedRoomIsGone'
  BY <1>1 DEF EndedRoomIsGone
<1> QED BY <1>1, <1>3, <1>4 DEF Verdicts, Active, Waiting

LEMMA TellingKeeps ==
  ASSUME SessionInv, NEW outcome, Tells(outcome),
         \/ outcome # "stale"
         \/ ~Done(main.intent) /\ \A x \in InFlight : x.id[1] = main.intent => Dead(x),
         outcome # "ok" \/ Done(main.intent),
         main'.pc = "left" /\ main.kind = "end" => ~server.live,
         client' \in [rev : Nat, view : View], feed' \in {feed, NoStream},
         Known(client.rev)', Known(client.view.rev)', client'.view.rev >= client.view.rev,
         client'.rev < client'.view.rev /\ feed'.item # None => Newer(feed.item.rev)',
         \/ outcome # "ok"
         \/ main'.pc = "left" /\ main.kind = "end"
         \/ \A id \in Id : id[1] = main.intent => server.done[id] <= client'.view.rev
  PROVE  SessionInv'
<1>0. Typed /\ Revisions /\ Attempts /\ Views
  BY DEF SessionInv, Typed
<1>1. /\ main'.pc \in {"idle", "left"} /\ main'.pc \notin Active /\ main'.req = None
      /\ main'.reply = None /\ main'.intent = main.intent
      /\ main'.pc = "left" => main'.kind = main.kind
      /\ InFlight' \subseteq InFlight /\ server' = server
  BY <1>0, TellingIs DEF Tells
<1>2. Typed'
  BY <1>0, TellingTyped
<1>3. Revisions'
  <2>1. \A req \in InFlight' : Known(req.rev)
    BY <1>0, <1>1 DEF Revisions
  <2>2. feed'.item # None => Known(feed.item.rev)'
    BY <1>0, <1>1 DEF Known, Revisions, NoStream
  <2> QED BY <1>0, <1>1, <2>1, <2>2, RevisionsKept
<1>4. Attempts'
  BY <1>0, <1>1, AttemptsStay
<1>5. Verdicts'
  BY TellingVerdicts
<1>6. ConfirmedIsShown'
  <2>1. SUFFICES ASSUME NEW id \in Id, told'[id[1]] = "ok", ~(main'.pc = "left" /\ main'.kind = "end")
                 PROVE  server.done[id] <= client'.view.rev
    BY <1>1 DEF ConfirmedIsShown
  <2>2. id[1] \in Intent /\ main.intent \in Intent /\ told \in [Intent -> Said]
        /\ server.done[id] \in Nat /\ client.view.rev \in Nat /\ client'.view.rev \in Nat
    BY <1>0, Facts DEF Typed, TypeOK, Shape, Tells, Said, Id, View
  <2>3. CASE id[1] = main.intent
    <3>1. outcome = "ok"
      BY <2>1, <2>2, <2>3 DEF Tells
    <3> QED BY <1>1, <2>1, <2>3, <3>1
  <2>4. CASE id[1] # main.intent
    <3>1. told[id[1]] = "ok"
      BY <2>1, <2>2, <2>4 DEF Tells
    <3>2. main.pc # "left"
      BY DEF Tells, Active, Waiting
    <3>3. server.done[id] <= client.view.rev
      BY <1>0, <3>1, <3>2 DEF Views, ConfirmedIsShown
    <3> QED BY <2>2, <3>3
  <2> QED BY <2>3, <2>4
<1>7. Views'
  BY <1>1, <1>6 DEF Views
<1> QED BY <1>2, <1>3, <1>4, <1>5, <1>7 DEF SessionInv, Typed

-----------------------------------------------------------------------------
(* Main's answers.                                                         *)

\* The action of a refused send has had no effect, and no send of it will have one.
LEMMA RefusedForGood ==
  ASSUME SessionInv, main.pc = "sending",
         server.done[main.req.id] = 0, Dead(main.req)
  PROVE  ~Done(main.intent) /\ \A x \in InFlight : x.id[1] = main.intent => Dead(x)
<1>0. Typed /\ Attempts /\ Verdicts
  BY DEF SessionInv, Typed
<1>1. /\ main.req.id = <<main.intent, main.attempt>> /\ main.req \in InFlight
      /\ main.attempt \in Attempt /\ main.intent \in Intent
      /\ main.pc \in Active
  BY <1>0, Facts DEF Typed, Shape, InFlight, Active, Waiting
<1>2. ASSUME NEW a \in Attempt PROVE server.done[<<main.intent, a>>] = 0
  <2>1. <<main.intent, a>> \in Id /\ a \in Int /\ main.attempt \in Int
    BY <1>1 DEF Id, Attempt
  <2>2. CASE a < main.attempt
    BY <1>0, <1>1, <2>2 DEF Verdicts
  <2>3. CASE a = main.attempt
    BY <1>1, <2>3
  <2>4. CASE a > main.attempt
    <3>1. ~Sent(<<main.intent, a>>)
      <4>1. main.intent \in Int
        BY <1>1 DEF Intent
      <4> QED BY <1>1, <2>1, <2>4, <4>1 DEF Sent
    <3> QED BY <1>0, <2>1, <3>1 DEF Attempts
  <2> QED BY <2>1, <2>2, <2>3, <2>4
<1>3. ASSUME NEW x \in InFlight, x.id[1] = main.intent PROVE Dead(x)
  <2>1. x.id[2] \in Int /\ main.attempt \in Int /\ main.intent \in Int
    BY <1>0, <1>1, InFlightTyped DEF Attempt, Intent
  <2>2. x.id[2] <= main.attempt
    BY <1>0, <1>1, <1>3, <2>1 DEF Attempts, Sent
  <2>3. CASE x.id[2] = main.attempt
    <3>1. x.id = main.req.id
      BY <1>0, <1>1, <1>3, <2>3, SameId
    <3> QED BY <1>0, <1>1, <3>1 DEF Attempts
  <2>4. CASE x.id[2] < main.attempt
    BY <1>0, <1>1, <1>3, <2>4 DEF Attempts
  <2> QED BY <2>1, <2>2, <2>3, <2>4
<1> QED BY <1>2, <1>3 DEF Done

LEMMA TimeoutKeeps == ASSUME SessionInv, Timeout PROVE SessionInv'
<1>0. Typed /\ Views /\ Revisions /\ main \in Main
  BY Facts DEF SessionInv, Typed
<1>1. main.pc \in Waiting /\ main.pc \in Active /\ UNCHANGED <<server, client, feed>>
  BY <1>0 DEF Timeout, Typed, Shape, Active
<1>2. late' \subseteq InFlight
  BY DEF Timeout, Abandon, InFlight
<1>3. CASE main.pc = "sending" /\ main.copy = 1
  <2>1. main' = [main EXCEPT !.copy = 2, !.reply = None] /\ told' = told
    BY <1>3 DEF Timeout
  <2>2. /\ main' \in Main /\ main'.pc = main.pc /\ main'.req = main.req
        /\ main'.intent = main.intent /\ main'.kind = main.kind
        /\ main'.attempt = main.attempt /\ main'.reply = None
    BY <1>0, <2>1 DEF Main
  <2>3. InFlight' \subseteq InFlight
    BY <1>2, <1>3, <2>2 DEF InFlight
  <2>4. late' \in SUBSET Request /\ \A req \in late' : req.kind \in Kind
    BY <1>0, <1>2, InFlightTyped
  <2>5. TypeOK' /\ Shape' /\ ToldSoFar'
    BY <1>0, <1>1, <2>1, <2>2, <2>4 DEF Typed, TypeOK, Shape, ToldSoFar
  <2>6. Revisions'
    BY <1>0, <1>1, <2>2, <2>3 DEF Revisions, Known
  <2>7. Attempts'
    BY <1>0, <1>1, <2>2, <2>3, AttemptsStay DEF SessionInv
  <2>8. Verdicts'
    BY <1>1, <1>3, <2>1, <2>2, <2>3 DEF SessionInv, Verdicts, Done, Dead, EndedRoomIsGone
  <2>9. Views'
    BY <1>0, <1>1, <2>1, <2>2 DEF Views, Newer, ConfirmedIsShown
  <2> QED BY <2>5, <2>6, <2>7, <2>8, <2>9 DEF SessionInv
<1>4. CASE ~(main.pc = "sending" /\ main.copy = 1)
  <2>1. main' = Idle(main) /\ Tell("unreachable")
    BY <1>4 DEF Timeout
  <2>2. Tells("unreachable")
    BY <1>1, <1>2, <2>1 DEF Tells, Tell, Said
  <2>3. main'.pc # "left"
    BY <1>0, <2>1, IdleIs
  <2>4. /\ client' \in [rev : Nat, view : View] /\ feed' \in {feed, NoStream}
        /\ client.view.rev \in Nat
    BY <1>0, <1>1, Facts DEF Typed, TypeOK
  <2>5. /\ Known(client.rev)' /\ Known(client.view.rev)' /\ client'.view.rev >= client.view.rev
        /\ client'.rev < client'.view.rev /\ feed'.item # None => Newer(feed.item.rev)'
    BY <1>0, <1>1, <2>4 DEF Known, Revisions, Views, Newer
  <2> QED BY <2>2, <2>3, <2>4, <2>5, TellingKeeps
<1> QED BY <1>3, <1>4

LEMMA RefusedKeeps == ASSUME SessionInv, Refused PROVE SessionInv'
<1>0. Typed /\ Views /\ Revisions /\ main \in Main
  BY Facts DEF SessionInv, Typed
<1>1. /\ main.pc \in Active /\ UNCHANGED <<server, late>> /\ late' \subseteq InFlight
      /\ main.reply # None /\ main.reply.status \in {"refused", "gone"}
  BY <1>0 DEF Refused, Typed, Shape, Active, InFlight
<1>2. client \in [rev : Nat, view : View] /\ client.view.rev \in Nat
  BY <1>0, Facts DEF Typed, TypeOK
<1>3. CASE EndConfirmed(main)
  <2>1. /\ client' = [client EXCEPT !.rev = main.req.rev] /\ main' = Left(main)
        /\ Tell("ended") /\ main.pc = "sending" /\ main.reply.status = "gone"
    BY <1>3 DEF Refused, EndConfirmed
  <2>2. main'.pc = "left"
    BY <1>0, <2>1, LeftIs
  <2>3. feed' = NoStream /\ NoStream.item = None
    BY <2>2 DEF Refused, FeedGoesOn, NoStream
  <2>4. Tells("ended")
    BY <1>1, <2>1 DEF Tells, Tell, Said
  <2>5. ~server.live /\ server' = server
    BY <1>0, <1>1, <2>1 DEF Revisions
  <2>6. main.req \in Request /\ main.req.rev \in Nat
    BY <1>0, <2>1, Facts DEF Typed, Shape, Waiting, Request
  <2>7. /\ client' \in [rev : Nat, view : View] /\ client'.view = client.view
    BY <1>2, <2>1, <2>6
  <2>8. Known(client.rev)' /\ Known(client.view.rev)' /\ client'.view.rev >= client.view.rev
    BY <1>2, <2>5, <2>7 DEF Known
  <2> QED BY <2>3, <2>4, <2>5, <2>7, <2>8, TellingKeeps
<1>4. CASE ~EndConfirmed(main)
  <2>1. main' = Idle(main) /\ Tell(main.reply.status) /\ client' = client
    BY <1>4 DEF Refused
  <2>2. main'.pc = "idle"
    BY <1>0, <2>1, IdleIs
  <2>3. feed' = feed
    BY <2>2 DEF Refused, FeedGoesOn
  <2>4. PICK outcome \in {"refused", "gone"} : outcome = main.reply.status
    BY <1>1
  <2>5. Tells(outcome)
    BY <1>1, <2>1, <2>4 DEF Tells, Tell, Said
  <2>6. /\ Known(client.rev)' /\ Known(client.view.rev)' /\ client'.view.rev >= client.view.rev
        /\ client'.rev < client'.view.rev /\ feed'.item # None => Newer(feed.item.rev)'
    BY <1>0, <1>1, <1>2, <2>1, <2>3 DEF Known, Revisions, Views, Newer
  <2>7. client' \in [rev : Nat, view : View]
    BY <1>2, <2>1
  <2> QED BY <2>2, <2>3, <2>4, <2>5, <2>6, <2>7, TellingKeeps
<1> QED BY <1>3, <1>4

\* Main goes on with the same attempt: to a sync, or towards the next send.
GoesOn(pc) ==
  /\ main.pc \in Active /\ UNCHANGED <<server, late, feed, told>>
  /\ main' = IF pc = "resending" THEN Quiet(main, pc) ELSE CallSync(main, pc)

LEMMA GoingOnKeeps ==
  ASSUME SessionInv, NEW pc \in {"confirming", "refreshing", "resending"}, GoesOn(pc),
         pc # "confirming" \/ main.kind # "end",
         pc # "resending" \/ main.attempt < Sends,
         \/ pc = "confirming"
         \/ ~Done(main.intent) /\ \A x \in InFlight : x.id[1] = main.intent => Dead(x),
         \/ pc # "confirming"
         \/ LET done == server.done[<<main.intent, main.attempt>>]
            IN  done # 0 /\ client'.rev = done,
         client' \in [rev : Nat, view : View],
         Known(client.rev)', Known(client.view.rev)', client'.view.rev >= client.view.rev,
         client'.rev < client'.view.rev /\ feed'.item # None => Newer(feed.item.rev)'
  PROVE  SessionInv'
<1>0. Typed /\ Revisions /\ Attempts /\ Verdicts /\ Views /\ main \in Main
  BY Facts DEF SessionInv, Typed
<1>1. main.intent \in Intent /\ main' \in Main /\ main'.pc = pc /\ main'.reply = None
      /\ main'.intent = main.intent /\ main'.attempt = main.attempt /\ main'.kind = main.kind
      /\ main'.req = IF pc = "resending" THEN None ELSE SyncRequest
  <2>1. CASE pc = "resending"
    BY <1>0, <2>1, QuietIs DEF GoesOn, Typed, Shape
  <2>2. CASE pc # "resending"
    BY <1>0, <2>2, CallIs, SyncIs DEF GoesOn, CallSync, Typed, Shape, Waiting
  <2> QED BY <2>1, <2>2
<1>2. pc \in Active /\ pc # "sending" /\ main.pc \in Active /\ pc # "left" /\ main.pc # "left"
      /\ UNCHANGED <<server, late, feed, told>>
  BY DEF GoesOn, Active, Waiting
<1>3. InFlight' \subseteq InFlight
  BY <1>1, <1>2 DEF InFlight
<1>4. TypeOK'
  BY <1>0, <1>1, <1>2 DEF Typed, TypeOK
<1>5. Shape'
  <2>1. CASE pc = "resending"
    <3>1. \A req \in late' : req.kind \in Kind
      BY <1>0, <1>2 DEF Typed, Shape
    <3> QED BY <1>0, <1>1, <2>1, <3>1, RestingShape DEF Typed
  <2>2. CASE pc # "resending"
    BY <1>0, <1>1, <1>2, <2>2, CallingShape DEF Typed
  <2> QED BY <2>1, <2>2
<1>6. ToldSoFar'
  BY <1>0, <1>1, <1>2 DEF Typed, ToldSoFar
<1>7. Revisions'
  <2>1. \A req \in InFlight' : Known(req.rev)
    BY <1>0, <1>3 DEF Revisions
  <2>2. feed'.item # None => Known(feed.item.rev)'
    BY <1>0, <1>2 DEF Known, Revisions
  <2> QED BY <1>0, <1>1, <1>2, <2>1, <2>2, RevisionsKept
<1>8. Attempts'
  BY <1>0, <1>1, <1>2, <1>3, AttemptsStay
<1>9. Verdicts'
  <2>1. \A i \in Intent :
          /\ told'[i] = "stale" => ~Done(i)' /\ \A x \in InFlight' : x.id[1] = i => Dead(x)'
          /\ told'[i] = "ok" => Done(i)'
    BY <1>0, <1>2, <1>3, BeliefsStay
  <2>2. pc # "confirming" =>
          ~Done(main.intent)' /\ \A x \in InFlight' : x.id[1] = main.intent => Dead(x)'
    BY <1>1, <1>2, <1>3 DEF Done, Dead
  <2>3. pc = "confirming" => server'.done[<<main.intent, main.attempt>>] # 0
    BY <1>2
  <2>4. \A a \in Attempt : a < main.attempt => server'.done[<<main.intent, a>>] = 0
    BY <1>0, <1>2 DEF Verdicts
  <2>5. EndedRoomIsGone'
    BY <1>1, <1>2 DEF EndedRoomIsGone
  <2> QED BY <1>1, <1>2, <2>1, <2>2, <2>3, <2>4, <2>5 DEF Verdicts, Done
<1>10. ConfirmedIsShown'
  <2>1. SUFFICES ASSUME NEW id \in Id, told[id[1]] = "ok"
                 PROVE  server.done[id] <= client'.view.rev
    BY <1>2 DEF ConfirmedIsShown
  <2>2. server.done[id] <= client.view.rev
    BY <1>0, <1>2, <2>1 DEF Views, ConfirmedIsShown
  <2>3. server.done[id] \in Nat /\ client.view.rev \in Nat /\ client'.view.rev \in Nat
    BY <1>0, Facts DEF Typed, View
  <2> QED BY <2>2, <2>3
<1>11. Views'
  <2>1. pc = "confirming" =>
          LET done == server'.done[<<main'.intent, main'.attempt>>]
          IN  /\ client'.rev = done \/ client'.view.rev >= done
              /\ main'.reply # None /\ main'.reply.status = "state" => main'.reply.view.rev >= done
    BY <1>1, <1>2
  <2> QED BY <1>1, <1>2, <1>10, <2>1 DEF Views
<1> QED BY <1>4, <1>5, <1>6, <1>7, <1>8, <1>9, <1>11 DEF SessionInv

LEMMA StaleKeeps == ASSUME SessionInv, Stale PROVE SessionInv'
<1>0. Typed /\ Views /\ Revisions /\ main \in Main
  BY Facts DEF SessionInv, Typed
<1>1. /\ main.pc = "sending" /\ main.pc \in Active /\ main.reply # None /\ main.reply.status = "stale"
      /\ main' = CallSync(main, "refreshing") /\ UNCHANGED <<server, client, late, feed, told>>
  BY DEF Stale, Active, Waiting
<1>2. GoesOn("refreshing")
  BY <1>1 DEF GoesOn
<1>3. ~Done(main.intent) /\ \A x \in InFlight : x.id[1] = main.intent => Dead(x)
  BY <1>1, RefusedForGood DEF SessionInv, Verdicts
<1>4. client' \in [rev : Nat, view : View] /\ client.view.rev \in Nat
  BY <1>0, <1>1, Facts DEF Typed, TypeOK
<1>5. /\ Known(client.rev)' /\ Known(client.view.rev)' /\ client'.view.rev >= client.view.rev
      /\ client'.rev < client'.view.rev /\ feed'.item # None => Newer(feed.item.rev)'
  BY <1>0, <1>1, <1>4 DEF Known, Revisions, Views, Newer
<1>6. PICK pc \in {"confirming", "refreshing", "resending"} : pc = "refreshing"
  OBVIOUS
<1> QED BY <1>2, <1>3, <1>4, <1>5, <1>6, GoingOnKeeps

LEMMA AcknowledgedKeeps == ASSUME SessionInv, Acknowledged PROVE SessionInv'
<1>0. Typed /\ Views /\ Revisions /\ Attempts /\ Verdicts /\ main \in Main
  BY Facts DEF SessionInv, Typed
<1>1. /\ main.pc = "sending" /\ main.pc \in Active /\ main.reply # None /\ main.reply.status = "ok"
      /\ client' = [client EXCEPT !.rev = main.reply.rev] /\ UNCHANGED <<server, late>>
  BY DEF Acknowledged, Active, Waiting
<1>2. /\ main.req \in InFlight /\ main.req.id = <<main.intent, main.attempt>>
      /\ main.req.kind = main.kind /\ main.attempt \in Attempt /\ main.intent \in Intent
  BY <1>0, <1>1, Facts DEF Typed, Shape, InFlight
<1>3. <<main.intent, main.attempt>> \in Id /\ main.req.rev \in Nat
  BY <1>0, <1>2, InFlightTyped DEF Id
<1> DEFINE done == server.done[<<main.intent, main.attempt>>]
<1>4. done \in Nat /\ done # 0 /\ main.reply.rev = done /\ done > main.req.rev
  BY <1>0, <1>1, <1>2, <1>3, Facts DEF Typed, Verdicts, Attempts
<1>5. /\ client \in [rev : Nat, view : View] /\ client.view.rev \in Nat
      /\ client' \in [rev : Nat, view : View] /\ client'.rev = done /\ client'.view = client.view
  BY <1>0, <1>1, <1>4, Facts DEF Typed, TypeOK
<1>6. Known(client.rev)' /\ Known(client.view.rev)' /\ client'.view.rev >= client.view.rev
  BY <1>0, <1>1, <1>3, <1>5 DEF Known, Revisions
<1>7. Done(main.intent)
  BY <1>2, <1>4 DEF Done
<1> HIDE DEF done
<1>8. CASE main.kind = "end"
  <2>1. main' = Left(main) /\ Tell("ok")
    BY <1>8 DEF Acknowledged
  <2>2. main'.pc = "left" /\ main'.kind = "end"
    BY <1>0, <1>8, <2>1, LeftIs
  <2>3. feed' = NoStream /\ NoStream.item = None
    BY <2>2 DEF Acknowledged, FeedGoesOn, NoStream
  <2>4. Tells("ok")
    BY <1>1, <2>1 DEF Tells, Tell, Said, InFlight
  <2>5. ~server.live
    BY <1>0, <1>2, <1>4, <1>8 DEF Attempts, done
  <2> QED BY <1>5, <1>6, <1>7, <1>8, <2>2, <2>3, <2>4, <2>5, TellingKeeps
<1>9. CASE main.kind # "end"
  <2>1. main' = CallSync(main, "confirming") /\ told' = told
    BY <1>9 DEF Acknowledged
  <2>2. main'.pc = "confirming"
    BY <1>0, <2>1, CallIs, SyncIs DEF CallSync, Waiting
  <2>3. feed' = feed
    BY <2>2 DEF Acknowledged, FeedGoesOn
  <2>4. GoesOn("confirming")
    BY <1>1, <2>1, <2>3 DEF GoesOn
  <2>5. client'.rev < client'.view.rev /\ feed'.item # None => Newer(feed.item.rev)'
    BY <1>0, <1>1, <1>3, <1>4, <1>5, <2>3 DEF Views, Newer
  <2>6. PICK pc \in {"confirming", "refreshing", "resending"} : pc = "confirming"
    OBVIOUS
  <2>7. LET d == server.done[<<main.intent, main.attempt>>] IN d # 0 /\ client'.rev = d
    BY <1>4, <1>5 DEF done
  <2> QED BY <1>5, <1>6, <1>9, <2>4, <2>5, <2>6, <2>7, GoingOnKeeps
<1> QED BY <1>8, <1>9

LEMMA SyncedKeeps == ASSUME SessionInv, Synced PROVE SessionInv'
<1>0. Typed /\ Views /\ Revisions /\ Attempts /\ Verdicts /\ main \in Main
  BY Facts DEF SessionInv, Typed
<1>1. /\ main.pc \in {"confirming", "refreshing"} /\ main.pc \in Active
      /\ main.reply # None /\ main.reply.status = "state" /\ main.reply.view \in View
      /\ client' = Apply(client, main.reply.view) /\ UNCHANGED <<server, late>>
  <2>1. main.reply # None /\ main.reply.status = "state" /\ main.reply \in Reply
    BY <1>0, Facts DEF Synced, Typed
  <2>2. main.reply.view \in View
    BY <1>0, <2>1 DEF Typed, Shape, Reply
  <2> QED BY <2>1, <2>2 DEF Synced, Active, Waiting
<1>2. client.rev < client.view.rev => Newer(main.reply.view.rev)
  BY <1>0, <1>1 DEF Views
<1> DEFINE view == main.reply.view
<1>3. /\ client' \in [rev : Nat, view : View] /\ client'.view.rev >= client.view.rev
      /\ \/ client' = client
         \/ client'.rev = view.rev /\ client'.view = view /\ view.rev >= client.rev
      /\ client' = client => view.rev < client.rev \/ client.rev = client.view.rev
  BY <1>0, <1>1, <1>2, ApplyIs
<1>4. client.rev \in Nat /\ client.view.rev \in Nat /\ view.rev \in Nat /\ client'.view.rev \in Nat
  BY <1>0, <1>1, <1>3, Facts DEF Typed, View
<1>5. Known(client.rev)' /\ Known(client.view.rev)'
  BY <1>0, <1>1, <1>3 DEF Known, Revisions
<1>6. feed' \in {feed, NoStream}
  BY DEF Synced, FeedGoesOn
<1>7. client'.rev < client'.view.rev /\ feed'.item # None => Newer(feed.item.rev)'
  <2>1. CASE client' = client
    BY <1>0, <1>6, <2>1 DEF Views, Newer, NoStream
  <2>2. CASE client'.rev = view.rev /\ client'.view = view
    BY <1>4, <2>2
  <2> QED BY <1>3, <2>1, <2>2
<1> HIDE DEF view
<1>8. CASE main.pc = "confirming"
  <2> DEFINE done == server.done[<<main.intent, main.attempt>>]
  <2>1. main' \in {Idle(main), Left(main)} /\ Tell("ok") /\ main.kind # "end"
    BY <1>0, <1>8 DEF Synced, Typed, Shape
  <2>2. Tells("ok")
    BY <1>1, <2>1 DEF Tells, Tell, Said, InFlight
  <2>3. main.intent \in Intent /\ main.attempt \in Attempt
    BY <1>0, <1>1, Facts DEF Typed, Shape
  <2>4. done \in Nat /\ done # 0
    BY <1>0, <1>8, <2>3, Facts DEF Typed, Verdicts, Id
  <2>5. Done(main.intent)
    BY <2>3, <2>4 DEF Done
  <2>6. (client.rev = done \/ client.view.rev >= done) /\ view.rev >= done
    BY <1>0, <1>1, <1>8 DEF Views, view
  <2>7. client'.view.rev >= done
    BY <1>3, <1>4, <2>4, <2>6
  <2>8. ASSUME NEW id \in Id, id[1] = main.intent PROVE server.done[id] <= client'.view.rev
    <3>1. id = <<main.intent, id[2]>> /\ id[2] \in Attempt /\ id[2] \in Int /\ main.attempt \in Int
          /\ main.intent \in Int /\ server.done[id] \in Nat
      BY <1>0, <2>3, <2>8, Facts DEF Typed, Id, Attempt, Intent
    <3>2. CASE id[2] < main.attempt
      <4>1. server.done[id] = 0
        BY <1>0, <1>1, <3>1, <3>2 DEF Verdicts
      <4> QED BY <1>4, <4>1
    <3>3. CASE id[2] = main.attempt
      BY <2>7, <3>1, <3>3
    <3>4. CASE id[2] > main.attempt
      <4>1. ~Sent(id)
        BY <1>1, <2>8, <3>1, <3>4 DEF Sent
      <4>2. server.done[id] = 0
        BY <1>0, <4>1 DEF Attempts
      <4> QED BY <1>4, <4>2
    <3> QED BY <3>1, <3>2, <3>3, <3>4
  <2> QED BY <1>3, <1>5, <1>6, <1>7, <2>1, <2>2, <2>5, <2>8, TellingKeeps
<1>9. CASE main.pc = "refreshing"
  <2>1. ~Done(main.intent) /\ \A x \in InFlight : x.id[1] = main.intent => Dead(x)
    BY <1>0, <1>9 DEF Verdicts
  <2>2. CASE MayResend(main, client'.view)
    <3>1. main' = Quiet(main, "resending") /\ told' = told /\ main.attempt < Sends
      BY <1>9, <2>2 DEF Synced, MayResend
    <3>2. main'.pc # "left"
      BY <1>0, <3>1, QuietIs
    <3>3. GoesOn("resending")
      BY <1>1, <3>1, <3>2 DEF GoesOn, Synced, FeedGoesOn
    <3>4. PICK pc \in {"confirming", "refreshing", "resending"} : pc = "resending"
      OBVIOUS
    <3> QED BY <1>3, <1>5, <1>7, <2>1, <3>1, <3>3, <3>4, GoingOnKeeps
  <2>3. CASE ~MayResend(main, client'.view)
    <3>1. main' = Idle(main) /\ Tell("stale")
      BY <1>9, <2>3 DEF Synced
    <3>2. Tells("stale")
      BY <1>1, <3>1 DEF Tells, Tell, Said, InFlight
    <3>3. main'.pc # "left"
      BY <1>0, <3>1, IdleIs
    <3> QED BY <1>3, <1>5, <1>6, <1>7, <2>1, <3>2, <3>3, TellingKeeps
  <2> QED BY <2>2, <2>3
<1> QED BY <1>1, <1>8, <1>9

-----------------------------------------------------------------------------
(* A send.                                                                 *)

\* What all sends have in common: a new attempt at an intent that has had no effect
\* and, so far, cannot have any more.
LEMMA SendKeeps ==
  ASSUME SessionInv, NEW m \in Main, NEW attempt \in Attempt, m.intent \in Intent,
         main' = Send(m, attempt), UNCHANGED <<server, client, late, feed>>,
         main.pc # "sending", main.pc # "left",
         main.intent <= m.intent,
         \A id \in Id : Sent(id) => Sent(id)', ~Sent(<<m.intent, attempt>>),
         ~Done(m.intent),
         \A x \in InFlight : x.id[1] = m.intent => Dead(x) /\ x.id[2] < attempt,
         ToldSoFar', told' \in [Intent -> Said],
         \A i \in Intent : told'[i] = told[i] \/ told'[i] = "pending"
  PROVE  SessionInv'
<1>0. Typed /\ Revisions /\ Attempts /\ Verdicts /\ Views
  BY DEF SessionInv, Typed
<1>n. PICK n : n = SendOf(m, attempt)
  OBVIOUS
<1>1. /\ main' \in Main /\ main'.pc = "sending" /\ main'.req = n /\ n \in Request /\ n # None
      /\ main'.reply = None /\ main'.intent = m.intent /\ main'.kind = m.kind
      /\ main'.attempt = attempt
  BY <1>0, <1>n, SendIs DEF Typed
<1>2. /\ n.kind = m.kind /\ n.id = <<m.intent, attempt>> /\ n.rev = client.rev
      /\ n = [kind |-> m.kind, id |-> <<m.intent, attempt>>, rev |-> client.rev]
  BY <1>n DEF SendOf
<1>3. n.id \in Id /\ n.id[1] = m.intent /\ n.id[2] = attempt
  BY <1>2 DEF Id
<1>4. InFlight' = InFlight \cup {n} /\ n \notin InFlight
  <2>1. InFlight' = late \cup {n} /\ InFlight = late
    BY <1>1 DEF InFlight
  <2>2. n \notin InFlight
    BY <1>2, <1>0 DEF Attempts
  <2> QED BY <2>1, <2>2
<1>5. TypeOK'
  BY <1>0, <1>1 DEF Typed, TypeOK, Said
<1>6. Shape'
  BY <1>0, <1>1, <1>2 DEF Typed, Shape, Waiting, Active
<1>7. Revisions'
  <2>1. \A req \in InFlight' : Known(req.rev)
    BY <1>0, <1>2, <1>4 DEF Revisions
  <2>2. Known(client.rev)' /\ Known(client.view.rev)'
    BY <1>0 DEF Revisions, Known
  <2>3. feed'.item # None => Known(feed.item.rev)'
    BY <1>0 DEF Revisions, Known
  <2> QED BY <1>0, <1>1, <2>1, <2>2, <2>3, RevisionsKept
<1>8. Attempts'
  <2>1. Sent(n.id)'
    <3>1. attempt \in Int /\ m.intent \in Int
      BY DEF Attempt, Intent
    <3> QED BY <1>1, <1>2, <3>1 DEF Sent, Active, Waiting
  <2>2. /\ InFlight' \subseteq InFlight \cup {n} /\ ~Sent(n.id) /\ ~Done(n.id[1])
        /\ \A x \in InFlight : x.id[1] = n.id[1] => Dead(x) /\ x.id[2] < n.id[2]
    BY <1>2, <1>3, <1>4
  <2> QED BY <1>0, <1>3, <2>1, <2>2, NewAttempt
<1>9. Verdicts'
  <2>1. \A a \in Attempt : server'.done[<<m.intent, a>>] = 0
    BY DEF Done
  <2>2. ASSUME NEW i \in Intent
        PROVE  /\ told'[i] = "stale" => ~Done(i)' /\ \A x \in InFlight' : x.id[1] = i => Dead(x)'
               /\ told'[i] = "ok" => Done(i)'
    <3>1. CASE i = m.intent
      <4>1. told'[i] = "pending"
        BY <1>1, <3>1 DEF ToldSoFar, Active, Waiting
      <4> QED BY <4>1
    <3>2. CASE i # m.intent /\ told'[i] = told[i]
      <4>1. \A x \in InFlight' : x.id[1] = i => x \in InFlight
        BY <1>3, <1>4, <3>2
      <4> QED BY <1>0, <3>2, <4>1, BeliefsStay
    <3>3. CASE told'[i] = "pending"
      BY <3>3
    <3> QED BY <3>1, <3>2, <3>3
  <2>3. EndedRoomIsGone'
    BY <1>1 DEF EndedRoomIsGone
  <2> QED BY <1>1, <2>1, <2>2, <2>3 DEF Verdicts, Done
<1>10. ConfirmedIsShown'
  <2>1. \A i \in Intent : told'[i] = "ok" => told[i] = "ok"
    OBVIOUS
  <2>2. \A id \in Id : id[1] \in Intent
    BY DEF Id
  <2> QED BY <1>0, <2>1, <2>2 DEF Views, ConfirmedIsShown
<1>11. Views'
  BY <1>0, <1>1, <1>2, <1>10 DEF Views, Newer
<1> QED BY <1>5, <1>6, <1>7, <1>8, <1>9, <1>11 DEF SessionInv

LEMMA ResendKeeps == ASSUME SessionInv, Resend PROVE SessionInv'
<1>0. Typed /\ Attempts /\ Verdicts /\ main \in Main
  BY Facts DEF SessionInv, Typed
<1>1. /\ main.pc = "resending" /\ main.pc \in Active /\ main' = Send(main, main.attempt + 1)
      /\ UNCHANGED <<server, client, late, feed, told>>
  BY DEF Resend, Active
<1>2. /\ main.intent \in Intent /\ main.intent \in Int /\ main.attempt \in Int
      /\ main.attempt + 1 \in Attempt /\ main.attempt < main.attempt + 1
  <2>1. main.intent \in Intent /\ main.attempt \in Attempt /\ main.attempt < Sends
    BY <1>0, <1>1, Facts DEF Typed, Shape
  <2> QED BY <2>1, BoundsAssumption DEF Intent, Attempt
<1>3. /\ main'.pc = "sending" /\ main'.pc \in Active /\ main'.intent = main.intent
      /\ main'.attempt = main.attempt + 1
  BY <1>0, <1>1, <1>2, SendIs DEF Typed, Active, Waiting
<1>4. ASSUME NEW id \in Id, Sent(id) PROVE Sent(id)'
  <2>1. id[2] \in Int
    BY DEF Id, Attempt
  <2> QED BY <1>1, <1>2, <1>3, <1>4, <2>1 DEF Sent
<1>5. ~Sent(<<main.intent, main.attempt + 1>>)
  BY <1>1, <1>2 DEF Sent
<1>6. ~Done(main.intent) /\ \A x \in InFlight : x.id[1] = main.intent => Dead(x)
  BY <1>0, <1>1 DEF Verdicts
<1>7. ASSUME NEW x \in InFlight, x.id[1] = main.intent PROVE x.id[2] < main.attempt + 1
  <2>1. x.id[2] \in Int
    BY <1>0, InFlightTyped DEF Attempt
  <2> QED BY <1>0, <1>1, <1>2, <1>7, <2>1 DEF Attempts, Sent
<1>8. ToldSoFar' /\ told' \in [Intent -> Said]
  BY <1>0, <1>1, <1>3 DEF Typed, TypeOK, ToldSoFar, Said
<1>9. main.pc # "sending" /\ main.pc # "left" /\ main.intent <= main.intent
  BY <1>1, <1>2
<1> QED BY <1>0, <1>1, <1>2, <1>4, <1>5, <1>6, <1>7, <1>8, <1>9, SendKeeps

LEMMA AskIs ==
  ASSUME SessionInv, NEW kind \in Kind, Ask(kind)
  PROVE  \E m \in Main :
           /\ m.intent = main.intent + 1 /\ m.intent \in Intent /\ main' = Send(m, 1)
           /\ told' = [told EXCEPT ![m.intent] = "pending"]
<1>0. main \in Main /\ main.intent \in 0..MaxIntents /\ main.shown \in Nat \cup {-1}
  BY DEF SessionInv, TypeOK, Main
<1> DEFINE m == [main EXCEPT !.intent = main.intent + 1, !.kind = kind, !.shown = -1,
                             !.round = IF kind = "play" THEN main.shown ELSE 0]
<1>1. main' = Send(m, 1) /\ main.intent < MaxIntents /\ (kind = "play" => main.shown # -1)
      /\ told' = [told EXCEPT ![main.intent + 1] = "pending"]
  BY DEF Ask
<1>2. main.intent + 1 \in Intent /\ main.intent + 1 \in 0..MaxIntents
  BY <1>0, <1>1, BoundsAssumption DEF Intent
<1>3. (IF kind = "play" THEN main.shown ELSE 0) \in Nat
  BY <1>0, <1>1
<1>4. m \in Main /\ m.intent = main.intent + 1
  BY <1>0, <1>2, <1>3 DEF Main
<1> HIDE DEF m
<1> QED BY <1>1, <1>2, <1>4

LEMMA AskKeeps == ASSUME SessionInv, NEW kind \in Kind, Ask(kind) PROVE SessionInv'
<1>0. Typed /\ Attempts /\ Verdicts /\ main \in Main /\ main.intent \in Nat
  BY Facts DEF SessionInv, Typed
<1>1. PICK m \in Main :
        /\ m.intent = main.intent + 1 /\ m.intent \in Intent /\ main' = Send(m, 1)
        /\ told' = [told EXCEPT ![m.intent] = "pending"]
  BY AskIs
<1>2. /\ main.pc = "idle" /\ main.pc # "sending" /\ main.pc # "left" /\ main.pc \notin Active
      /\ UNCHANGED <<server, client, late, feed>>
  BY DEF Ask, Active, Waiting
<1>3. 1 \in Attempt
  BY BoundsAssumption DEF Attempt
<1>4. /\ main'.pc = "sending" /\ main'.pc \in Active /\ main'.intent = main.intent + 1
      /\ main'.attempt = 1
  BY <1>0, <1>1, <1>3, SendIs DEF Typed, Active, Waiting
<1>5. \A id \in Id : Sent(id) => id[1] <= main.intent
  BY <1>0 DEF Sent, Id, Intent
<1>6. \A id \in Id : Sent(id) => Sent(id)'
  BY <1>0, <1>4, <1>5 DEF Sent, Id, Intent
<1>7. ASSUME NEW a \in Attempt PROVE <<m.intent, a>> \in Id /\ ~Sent(<<m.intent, a>>)
  <2>1. <<m.intent, a>> \in Id
    BY <1>1 DEF Id
  <2> QED BY <1>0, <1>1, <1>5, <2>1
<1>8. ~Done(m.intent)
  BY <1>0, <1>7 DEF Attempts, Done
<1>9. \A x \in InFlight : x.id[1] # m.intent
  BY <1>0, <1>1, <1>5, InFlightTyped DEF Attempts
<1>10. told \in [Intent -> Said]
  BY DEF SessionInv, TypeOK, Said
<1>11. told' \in [Intent -> Said] /\ \A i \in Intent : told'[i] = IF i = m.intent THEN "pending" ELSE told[i]
  BY <1>1, <1>10 DEF Said
<1>12. ToldSoFar'
  <2>1. ASSUME NEW i \in Intent
        PROVE  /\ told'[i] = "none" <=> i > main'.intent
               /\ told'[i] = "pending" <=> i = main'.intent
    <3>1. /\ told[i] = "none" <=> i > main.intent
          /\ told[i] # "pending"
      BY <1>0, <1>2 DEF Typed, ToldSoFar
    <3> QED BY <1>0, <1>1, <1>4, <1>11, <3>1 DEF Intent
  <2> QED BY <1>4, <2>1 DEF ToldSoFar
<1>13. main.intent <= m.intent
  BY <1>0, <1>1
<1> QED BY <1>1, <1>2, <1>3, <1>6, <1>7, <1>8, <1>9, <1>11, <1>12, <1>13, SendKeeps

-----------------------------------------------------------------------------
(* The invariant holds at the start and is kept by every step.             *)

LEMMA InitHolds == Init => SessionInv
<1> SUFFICES ASSUME Init PROVE SessionInv
  OBVIOUS
<1>1. Typed
  BY InitTyped
<1>2. /\ InFlight = {} /\ main.pc = "idle" /\ main.pc \notin Active /\ main.reply = None
      /\ main.intent = 0 /\ feed.item = None
      /\ client.rev = 1 /\ client.view.rev = 1 /\ server.rev = 1
      /\ \A id \in Id : server.done[id] = 0
      /\ \A i \in Intent : told[i] = "none"
  BY DEF Init, InFlight, NoStream, Active, Waiting
<1>3. Revisions
  BY <1>2 DEF Revisions, Known
<1>4. Attempts
  BY <1>2 DEF Attempts
<1>5. Verdicts
  BY <1>2 DEF Verdicts, EndedRoomIsGone, Active, Waiting
<1>6. Views
  <2>1. ConfirmedIsShown
    BY <1>2 DEF ConfirmedIsShown
  <2> QED BY <1>2, <2>1 DEF Views
<1> QED BY <1>1, <1>3, <1>4, <1>5, <1>6 DEF SessionInv, Typed

\* The steps of the server and of the others at the table.
ServerSide ==
  Serve \/ ServeLate \/ Others \/ MarkedAway \/ RoomGoes \/ Heartbeat

LEMMA ServerSideMoves == ASSUME SessionInv, ServerSide PROVE ServerMoves /\ MainStays
BY ServeMoves, ServeLateMoves, OthersMove DEF ServerSide

LEMMA StutterKeeps == ASSUME SessionInv, UNCHANGED vars PROVE SessionInv'
<1>1. main \in Main /\ main' = main /\ late' = late /\ UNCHANGED <<server, client, feed, told>>
  BY DEF SessionInv, TypeOK, vars
<1> QED BY <1>1, LookingKeeps

LEMMA StepKeeps == SessionInv /\ [Next]_vars => SessionInv'
<1> SUFFICES ASSUME SessionInv, [Next]_vars PROVE SessionInv'
  OBVIOUS
<1>1. CASE ServerSide
  BY <1>1, ServerSideMoves, ServerMovesKeep
<1>2. CASE Look
  BY <1>2, LookKeeps
<1>3. ASSUME NEW kind \in Kind, Ask(kind) PROVE SessionInv'
  BY <1>3, AskKeeps
<1>4. CASE Resend
  BY <1>4, ResendKeeps
<1>5. CASE Timeout
  BY <1>5, TimeoutKeeps
<1>6. CASE Acknowledged
  BY <1>6, AcknowledgedKeeps
<1>7. CASE Stale
  BY <1>7, StaleKeeps
<1>8. CASE Synced
  BY <1>8, SyncedKeeps
<1>9. CASE Refused
  BY <1>9, RefusedKeeps
<1>10. CASE Push
  BY <1>10, PushKeeps
<1>11. CASE Deliver
  BY <1>11, DeliverKeeps
<1>12. CASE Break
  BY <1>12, BreakKeeps
<1>13. CASE UNCHANGED vars
  BY <1>13, StutterKeeps
<1> QED BY <1>1, <1>2, <1>3, <1>4, <1>5, <1>6, <1>7, <1>8, <1>9, <1>10, <1>11, <1>12, <1>13
        DEF Next, ServerSide

\* The invariant holds in every behaviour, for every number of intents, sends,
\* revisions and late requests.
THEOREM SessionIsSound == Spec => []SessionInv
<1>1. Init => SessionInv
  BY InitHolds
<1>2. SessionInv /\ [Next]_vars => SessionInv'
  BY StepKeeps
<1> QED BY <1>1, <1>2, PTL DEF Spec

\* Room, client, thread, requests and stream keep their types.
THEOREM SessionTyped == Spec => []TypeOK
<1>1. SessionInv => TypeOK
  BY DEF SessionInv
<1> QED BY <1>1, SessionIsSound, PTL

\* What the player is told is true: who is told that they ended the room has ended
\* it, and who is told that an action took effect sees a table it took effect on
\* (mutate and _send of together.py, _mutation of service.py).
THEOREM PlayersAreToldTheTruth == Spec => []ToldIsTrue
<1>1. SessionInv => ToldIsTrue
  BY DEF SessionInv, Verdicts, Views, ToldIsTrue
<1> QED BY <1>1, SessionIsSound, PTL

-----------------------------------------------------------------------------
(* The view never goes back.                                               *)

LEMMA AppliedIsNewer ==
  ASSUME SessionInv, NEW view \in View, client.rev < client.view.rev => Newer(view.rev),
         client' = Apply(client, view)
  PROVE  client'.view.rev >= client.view.rev
BY ApplyIs DEF SessionInv, Typed

LEMMA ViewKept == ASSUME SessionInv, [Next]_vars PROVE [client'.view.rev >= client.view.rev]_client
<1>1. client \in [rev : Nat, view : View] /\ client.view.rev >= client.view.rev
  BY DEF SessionInv, TypeOK, View
<1>2. CASE Deliver
  <2>1. feed.item \in View /\ feed.item # None /\ client' = Apply(client, feed.item)
    BY <1>2 DEF Deliver, SessionInv, TypeOK, Feed
  <2>2. client.rev < client.view.rev => Newer(feed.item.rev)
    BY <2>1 DEF SessionInv, Views
  <2> QED BY <2>1, <2>2, AppliedIsNewer
<1>3. CASE Synced
  <2>1. /\ main.reply # None /\ main.reply.status = "state" /\ main.reply \in Reply
        /\ client' = Apply(client, main.reply.view)
    BY <1>3 DEF Synced, SessionInv, TypeOK, Main
  <2>2. main.reply.view \in View /\ (client.rev < client.view.rev => Newer(main.reply.view.rev))
    BY <2>1 DEF SessionInv, Shape, Views, Reply
  <2>3. PICK view \in View : view = main.reply.view
    BY <2>2
  <2> QED BY <2>1, <2>2, <2>3, AppliedIsNewer
<1>4. CASE Acknowledged
  BY <1>1, <1>4 DEF Acknowledged
<1>5. CASE Refused
  BY <1>1, <1>5 DEF Refused
<1>6. CASE ServerSide
  BY <1>6, ServerSideMoves DEF ServerMoves
<1>7. CASE Look \/ (\E kind \in Kind : Ask(kind)) \/ Resend \/ Timeout \/ Stale \/ Push \/ Break
  BY <1>7 DEF Look, Ask, Resend, Timeout, Stale, Push, Break
<1>8. CASE UNCHANGED vars
  BY <1>8 DEF vars
<1> QED BY <1>2, <1>3, <1>4, <1>5, <1>6, <1>7, <1>8 DEF Next, ServerSide

\* What the player sees never goes back to an earlier revision, although mutate sets
\* the client's revision by itself and may lower it (_apply, mutate, _send).
THEOREM PlayersNeverLookBack == Spec => ViewNeverGoesBack
<1>1. SessionInv /\ [Next]_vars => [client'.view.rev >= client.view.rev]_client
  BY ViewKept
<1> QED BY <1>1, SessionIsSound, PTL DEF Spec, ViewNeverGoesBack

-----------------------------------------------------------------------------
(* Session implements Once: each step is one of Once's or changes nothing  *)
(* that Once sees.                                                         *)

Applied == {id \in Id : server.done[id] # 0}

\* What Once sees of a client's step: who was told what.
LEMMA PromiseIs ==
  /\ Promise!onceVars = <<Applied, told>>
  /\ \A i \in Intent : Promise!Done(i) <=> Done(i)
<1>1. Promise!onceVars = <<Applied, told>>
  BY DEF Promise!onceVars, Applied
<1>2. ASSUME NEW i \in Intent PROVE Promise!Done(i) <=> Done(i)
  <2>1. \A a \in Attempt : <<i, a>> \in Id
    BY DEF Id
  <2> QED BY <2>1 DEF Promise!Done, Done
<1> QED BY <1>1, <1>2

LEMMA PromiseInit == Init => Promise!Init
<1> SUFFICES ASSUME Init PROVE Promise!Init
  OBVIOUS
<1>1. \A id \in Id : server.done[id] = 0
  BY DEF Init
<1>2. told = [i \in Intent |-> "none"]
  BY DEF Init
<1> QED BY <1>1, <1>2 DEF Promise!Init

\* Steps that Once does not see.
LEMMA Unseen ==
  ASSUME server'.done = server.done, told' = told
  PROVE  UNCHANGED Promise!onceVars
BY DEF Promise!onceVars

LEMMA PromiseNext ==
  ASSUME NEW i \in Intent,
         Promise!Ask(i) \/ Promise!Apply(i) \/ \E outcome \in Promise!Outcome : Promise!Tell(i, outcome)
  PROVE  Promise!Next
BY DEF Promise!Next

LEMMA ServerSideImplements ==
  ASSUME SessionInv, ServerMoves, MainStays PROVE [Promise!Next]_Promise!onceVars
<1>1. CASE server'.done = server.done
  BY <1>1, Unseen DEF ServerMoves
<1>2. ASSUME NEW x \in InFlight, Takes(server, server', x) PROVE Promise!Next
  <2>0. Typed /\ Attempts /\ Verdicts
    BY DEF SessionInv, Typed
  <2>1. /\ x.id \in Id /\ x.id[1] \in Intent /\ x.id[2] \in Attempt /\ x.id = <<x.id[1], x.id[2]>>
    BY <2>0, InFlightTyped
  <2>2. ~Done(x.id[1]) /\ ~Dead(x)
    BY <1>2, <2>0, NeverAgain
  <2>3. told[x.id[1]] \notin {"none", "stale"}
    <3>1. Sent(x.id) /\ x.id[1] \in Int /\ main.intent \in Int
      BY <2>0, <2>1, Facts DEF Attempts, Intent, Typed
    <3>2. ~(x.id[1] > main.intent)
      BY <3>1 DEF Sent
    <3>3. told[x.id[1]] # "none"
      BY <2>0, <2>1, <3>2 DEF Typed, ToldSoFar
    <3>4. told[x.id[1]] # "stale"
      BY <2>0, <2>1, <2>2 DEF Verdicts
    <3> QED BY <3>3, <3>4
  <2>4. Applied' = Applied \cup {x.id}
    <3>1. /\ server'.done[x.id] # 0
          /\ \A id \in Id : id # x.id => server'.done[id] = server.done[id]
      BY <1>2, <2>0, TakesWhat
    <3> QED BY <2>1, <3>1 DEF Applied
  <2>5. Promise!Apply(x.id[1])
    <3>1. ~Promise!Done(x.id[1])
      BY <2>1, <2>2, PromiseIs
    <3>2. told' = told
      BY DEF ServerMoves
    <3>3. \E a \in Attempt : Applied' = Applied \cup {<<x.id[1], a>>}
      BY <2>1, <2>4
    <3> QED BY <2>3, <3>1, <3>2, <3>3 DEF Promise!Apply, Applied
  <2> QED BY <2>1, <2>5, PromiseNext
<1> QED BY <1>1, <1>2 DEF ServerMoves

LEMMA AskImplements ==
  ASSUME SessionInv, NEW kind \in Kind, Ask(kind) PROVE Promise!Next
<1>1. PICK m \in Main :
        /\ m.intent = main.intent + 1 /\ m.intent \in Intent
        /\ told' = [told EXCEPT ![m.intent] = "pending"]
  BY AskIs
<1>2. told[m.intent] = "none"
  BY <1>1, Facts DEF SessionInv, ToldSoFar
<1>3. Applied' = Applied
  BY DEF Ask, Applied
<1>4. Promise!Ask(m.intent)
  BY <1>1, <1>2, <1>3 DEF Promise!Ask, Applied
<1> QED BY <1>1, <1>4, PromiseNext

LEMMA TellImplements ==
  ASSUME SessionInv, NEW outcome \in Promise!Outcome, Tell(outcome), main.pc \in Active,
         server' = server, outcome # "ok" \/ Done(main.intent),
         outcome # "stale" \/ ~Done(main.intent)
  PROVE  Promise!Next
<1>1. main.intent \in Intent /\ told[main.intent] = "pending"
  BY DEF SessionInv, Shape, ToldSoFar
<1>2. Promise!Tell(main.intent, outcome)
  <2>1. Promise!Done(main.intent) <=> Done(main.intent)
    BY <1>1, PromiseIs
  <2> QED BY <1>1, <2>1 DEF Promise!Tell, Tell
<1> QED BY <1>1, <1>2, PromiseNext

LEMMA AnswersImplement ==
  ASSUME SessionInv, Timeout \/ Acknowledged \/ Synced \/ Refused
  PROVE  [Promise!Next]_Promise!onceVars
<1>1. CASE told' = told
  BY <1>1, Unseen DEF Timeout, Acknowledged, Synced, Refused
<1>2. CASE Timeout /\ told' # told
  <2>1. Tell("unreachable") /\ server' = server /\ main.pc \in Active
    BY <1>2 DEF Timeout, SessionInv, Shape, Active
  <2> QED BY <2>1, TellImplements DEF Promise!Outcome
<1>3. CASE Acknowledged /\ told' # told
  <2>1. /\ Tell("ok") /\ server' = server /\ main.pc = "sending" /\ main.pc \in Active
        /\ main.reply # None /\ main.reply.status = "ok"
    BY <1>3 DEF Acknowledged, Active, Waiting
  <2>2. server.done[main.req.id] # 0 /\ main.req.id = <<main.intent, main.attempt>>
        /\ main.attempt \in Attempt
    BY <2>1, Facts DEF SessionInv, Verdicts, Shape
  <2>3. Done(main.intent)
    BY <2>2 DEF Done
  <2> QED BY <2>1, <2>3, TellImplements DEF Promise!Outcome
<1>4. CASE Synced /\ told' # told
  <2>1. server' = server /\ main.pc \in {"confirming", "refreshing"} /\ main.pc \in Active
    BY <1>4 DEF Synced, Active, Waiting
  <2>2. CASE main.pc = "confirming"
    <3>1. Tell("ok") /\ main.attempt \in Attempt /\ server.done[<<main.intent, main.attempt>>] # 0
      BY <1>4, <2>2, Facts DEF Synced, SessionInv, Verdicts
    <3>2. Done(main.intent)
      BY <3>1 DEF Done
    <3> QED BY <2>1, <3>1, <3>2, TellImplements DEF Promise!Outcome
  <2>3. CASE main.pc = "refreshing"
    <3>1. Tell("stale") /\ ~Done(main.intent)
      BY <1>4, <2>3 DEF Synced, SessionInv, Verdicts
    <3> QED BY <2>1, <3>1, TellImplements DEF Promise!Outcome
  <2> QED BY <2>1, <2>2, <2>3
<1>5. CASE Refused /\ told' # told
  <2>1. /\ main.reply # None /\ main.reply.status \in {"refused", "gone"}
        /\ main.pc \in Active /\ server' = server
    BY <1>5 DEF Refused, SessionInv, Shape, Active
  <2>2. PICK outcome \in {"ended", "refused", "gone"} : Tell(outcome)
    BY <1>5, <2>1 DEF Refused
  <2> QED BY <2>1, <2>2, TellImplements DEF Promise!Outcome
<1> QED BY <1>1, <1>2, <1>3, <1>4, <1>5

LEMMA StepImplements ==
  ASSUME SessionInv, [Next]_vars PROVE [Promise!Next]_Promise!onceVars
<1>1. CASE ServerSide
  BY <1>1, ServerSideMoves, ServerSideImplements
<1>2. ASSUME NEW kind \in Kind, Ask(kind) PROVE Promise!Next
  BY <1>2, AskImplements
<1>3. CASE Timeout \/ Acknowledged \/ Synced \/ Refused
  BY <1>3, AnswersImplement
<1>4. CASE Look \/ Resend \/ Stale \/ Push \/ Deliver \/ Break \/ UNCHANGED vars
  BY <1>4, Unseen DEF Look, Resend, Stale, Push, Deliver, Break, vars
<1> QED BY <1>1, <1>2, <1>3, <1>4 DEF Next, ServerSide

\* Whatever is lost, late or sent again, an intent takes effect at most once, is
\* confirmed only if it did, and is refused as stale only if it never will
\* (_mutation of service.py, mutate and _send of together.py).
THEOREM ActionsHappenOnce == Spec => KeepsPromise
<1>1. Init => Promise!Init
  BY PromiseInit
<1>2. SessionInv /\ [Next]_vars => [Promise!Next]_Promise!onceVars
  BY StepImplements
<1> QED BY <1>1, <1>2, SessionIsSound, PTL DEF Spec, KeepsPromise, Promise!Spec
=============================================================================
