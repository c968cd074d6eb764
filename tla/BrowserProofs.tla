---------------------------- MODULE BrowserProofs ---------------------------
(***************************************************************************)
(* Theorems about Browser for any number of clicks, sends and revisions,   *)
(* and, where nothing else is said, of rooms; and, at the end, about the   *)
(* terminal's table (Terminal).                                            *)
(*                                                                         *)
(* BrowserInv says, by the step a click is at, whether it has taken effect *)
(* (Progress), that one which nobody waits for any more has not (Books),   *)
(* and that the room of a confirmed end is over (Ended).  That a resend    *)
(* stays in its round needs to know what a revision on the page stands     *)
(* for: a table that was drawn names its round (Known), and a revision     *)
(* which only an acceptance brought is sent with no further (Sent).        *)
(*                                                                         *)
(* A page that has gone to another room keeps the click it made in the     *)
(* first, whose end then forgets the session of the second.  So what is    *)
(* said of sessions and resends assumes OneRoom, and ForgottenByMoving     *)
(* says that nothing else makes a page forget a session it needs.          *)
(***************************************************************************)
EXTENDS Browser, Sequences, FiniteSetTheorems, TLAPS

PageType ==
  [view : {"join", "table"}, room : Room \cup {None}, token : BOOLEAN,
   state : View \cup {None}, revision : 0..MaxRevision]

\* Rounds are moved by revisions.
Rounds == \A r \in Room : server[r].round < server[r].rev

\* Who has named no room has asked nothing yet; a join is for the room last named.
Seated ==
  /\ page.room = None =>
       /\ page.view = "join" /\ ~page.token /\ page.state = None
       /\ refresh = None /\ beat = None /\ stream.room = None /\ ~Busy
  /\ joining # None => page.room = joining.room
  /\ stream.room = None => stream.item = None

\* Clicks are numbered; a send that nobody waits for is the only one that its click
\* may still take effect by.
Books ==
  /\ \A i \in Intent : told[i] = "none" <=> i > act.intent
  /\ \A id \in applied : id[1] <= act.intent
  /\ late # None => told[late.id[1]] = "unreachable" /\ ~Promise!Done(late.id[1])

\* What has become of the click under way, by the step.
Progress ==
  /\ Busy => act.intent \in Intent /\ told[act.intent] = "pending"
  /\ act.pc = "sending" => /\ act.req \in Request /\ act.req.kind = act.kind
                           /\ act.req.id = <<act.intent, act.attempt>>
                           /\ Promise!Done(act.intent) <=> act.reply.status = "ok"
  /\ act.pc = "refreshing" => ~Promise!Done(act.intent)
  /\ act.pc = "confirming" => Promise!Done(act.intent)

\* A confirmed end has ended the room it was sent to.
Ended ==
  act.pc = "sending" /\ act.kind = "end" /\ act.reply.status = "ok"
    => ~server[act.req.room].live

BrowserInv == TypeOK /\ Rounds /\ Seated /\ Books /\ Progress /\ Ended

-----------------------------------------------------------------------------
(* Operators of the model.                                                 *)

\* What may become of a request.
LEMMA HandlesIs ==
  ASSUME TypeOK, Rounds, NEW req \in Request, NEW reply, Handles(req, reply)
  PROVE  /\ server' \in [Room -> ServerRoom] /\ Rounds'
         /\ \A r \in Room : r # req.room => server'[r] = server[r]
         /\ \A r \in Room : server'[r].live => server[r].live
         /\ reply \in Reply /\ reply.status # "none"
         /\ reply.status = "ok" =>
              /\ applied' = applied \cup {req.id}
              /\ req.rev = server[req.room].rev
              /\ reply.rev = req.rev + 1 /\ server'[req.room].rev = req.rev + 1
              /\ req.kind = "end" => ~server'[req.room].live
         /\ reply.status # "ok" => UNCHANGED <<server, applied>>
         /\ reply.status = "stale" => req.rev # server[req.room].rev
<1> DEFINE s == server[req.room]
<1>1. s \in ServerRoom /\ s.round < s.rev /\ req.room \in Room /\ server \in [Room -> ServerRoom]
  BY DEF TypeOK, Rounds, Request
<1>2. \A x \in {"refused", "gone", "stale"} : Said(x) \in Reply /\ Said(x).status = x
  BY BrowserAssumption DEF Said, Reply
<1>3. CASE /\ s.live /\ req.auth /\ req.rev = s.rev /\ s.rev < MaxRevision
           /\ \E moves \in IF req.kind = "play" THEN {0, 1} ELSE {0}, fits \in BOOLEAN :
                server' = [server EXCEPT ![req.room].rev = @ + 1, ![req.room].round = @ + moves,
                                         ![req.room].fits = fits,
                                         ![req.room].live = req.kind # "end"]
           /\ applied' = applied \cup {req.id}
           /\ reply = [status |-> "ok", rev |-> s.rev + 1]
  <2>1. PICK moves \in {0, 1}, fits \in BOOLEAN :
          server' = [server EXCEPT ![req.room].rev = @ + 1, ![req.room].round = @ + moves,
                                   ![req.room].fits = fits, ![req.room].live = req.kind # "end"]
    BY <1>3
  <2> DEFINE new == [s EXCEPT !.rev = s.rev + 1, !.round = s.round + moves, !.fits = fits,
                              !.live = req.kind # "end"]
  <2>2. server' = [server EXCEPT ![req.room] = new]
    BY <1>1, <2>1
  <2>3. s.rev \in 1..MaxRevision /\ s.rev + 1 \in 1..MaxRevision
        /\ s.round + moves \in 0..MaxRevision /\ s.round + moves < s.rev + 1
    BY <1>1, <1>3, BrowserAssumption DEF ServerRoom
  <2>4. /\ new \in ServerRoom /\ new.rev = s.rev + 1 /\ new.round = s.round + moves
        /\ new.live <=> req.kind # "end"
    BY <1>1, <2>3 DEF ServerRoom
  <2>5. reply \in Reply /\ reply.status = "ok" /\ reply.rev = s.rev + 1
    BY <1>3, <2>3, BrowserAssumption DEF Reply
  <2> HIDE DEF new
  <2>6. /\ server' \in [Room -> ServerRoom] /\ server'[req.room] = new
        /\ \A r \in Room : r # req.room => server'[r] = server[r]
    BY <1>1, <2>2, <2>4
  <2>7. Rounds'
    BY <2>3, <2>4, <2>6 DEF Rounds
  <2> QED BY <1>1, <1>3, <2>4, <2>5, <2>6, <2>7
<1>4. CASE /\ \/ ~s.live /\ reply = Said("gone")
              \/ s.live /\ (req.auth => req.rev = s.rev) /\ reply = Said("refused")
              \/ s.live /\ req.auth /\ req.rev # s.rev /\ reply = Said("stale")
           /\ UNCHANGED <<server, applied>>
  BY <1>1, <1>2, <1>4 DEF Rounds
<1> QED BY <1>3, <1>4 DEF Handles

LEMMA ApplyKeeps ==
  ASSUME NEW p \in PageType, NEW v \in View
  PROVE  /\ Apply(p, v) \in PageType
         /\ Apply(p, v).room = p.room /\ Apply(p, v).view = p.view /\ Apply(p, v).token = p.token
         /\ \/ Apply(p, v) = p
            \/ Apply(p, v).state = v /\ Apply(p, v).revision = v.rev
<1>1. v.rev \in 0..MaxRevision
  BY BrowserAssumption DEF View
<1> QED BY <1>1 DEF Apply, PageType

LEMMA SnapshotIs ==
  ASSUME TypeOK, NEW r \in Room
  PROVE  /\ Snapshot(r) \in View
         /\ Snapshot(r).room = r /\ Snapshot(r).rev = server[r].rev
         /\ Snapshot(r).round = server[r].round
BY DEF Snapshot, View, TypeOK, ServerRoom

LEMMA NoActIs ==
  ASSUME NEW n \in 0..MaxIntents
  PROVE  /\ NoAct(n) \in Act /\ NoAct(n).pc = "idle" /\ NoAct(n).intent = n
         /\ NoAct(n).kind = "play" /\ NoAct(n).answer = None
BY BrowserAssumption DEF NoAct, Act, Kind, Attempt, Said, Reply

\* A send takes the room, the token and the revision of the page.
LEMMA SendIs ==
  ASSUME TypeOK, page.room \in Room, NEW m \in Act, m.intent \in Intent, NEW attempt \in Attempt
  PROVE  /\ Send(m, attempt) \in Act /\ Send(m, attempt).pc = "sending"
         /\ Send(m, attempt).intent = m.intent /\ Send(m, attempt).kind = m.kind
         /\ Send(m, attempt).attempt = attempt /\ Send(m, attempt).round = m.round
         /\ Send(m, attempt).reply = Said("none")
         /\ Send(m, attempt).answer = None /\ Send(m, attempt).asks = None
         /\ Send(m, attempt).req \in Request
         /\ Send(m, attempt).req =
              [room |-> page.room, id |-> <<m.intent, attempt>>, kind |-> m.kind,
               rev |-> page.revision, round |-> m.round, auth |-> page.token]
<1> DEFINE q == [room |-> page.room, id |-> <<m.intent, attempt>>, kind |-> m.kind,
                 rev |-> page.revision, round |-> m.round, auth |-> page.token]
<1>1. q \in Request
  BY DEF Request, TypeOK, Act, Id
<1>2. Said("none") \in Reply
  BY BrowserAssumption DEF Said, Reply
<1>3. Send(m, attempt) = [m EXCEPT !.pc = "sending", !.attempt = attempt,
                                   !.reply = Said("none"), !.asks = None, !.answer = None,
                                   !.req = q]
  BY DEF Send
<1> HIDE DEF q
<1>4. /\ Send(m, attempt) \in Act /\ Send(m, attempt).pc = "sending"
      /\ Send(m, attempt).intent = m.intent /\ Send(m, attempt).kind = m.kind
      /\ Send(m, attempt).attempt = attempt /\ Send(m, attempt).round = m.round
      /\ Send(m, attempt).reply = Said("none") /\ Send(m, attempt).req = q
      /\ Send(m, attempt).answer = None /\ Send(m, attempt).asks = None
  BY <1>1, <1>2, <1>3 DEF Act
<1> QED BY <1>1, <1>4 DEF q

LEMMA SyncingIs ==
  ASSUME TypeOK, NEW pc \in {"refreshing", "confirming"}
  PROVE  /\ Syncing(pc) \in Act /\ Syncing(pc).pc = pc /\ Syncing(pc).intent = act.intent
         /\ Syncing(pc).kind = act.kind /\ Syncing(pc).answer = act.answer
<1>1. Said("none") \in Reply /\ (IF page.token THEN page.room ELSE None) \in Room \cup {None}
  BY BrowserAssumption DEF Said, Reply, TypeOK
<1>2. act \in Act
  BY DEF TypeOK
<1>3. Syncing(pc) = [act EXCEPT !.pc = pc, !.req = None, !.reply = Said("none"),
                                !.asks = IF page.token THEN page.room ELSE None]
  BY <1>2 DEF Syncing, Act
<1> QED BY <1>1, <1>2, <1>3 DEF Act

LEMMA SyncedPageIs ==
  ASSUME TypeOK
  PROVE  /\ SyncedPage \in PageType
         /\ SyncedPage.room = page.room /\ SyncedPage.view = page.view
         /\ SyncedPage.token = page.token
         /\ \/ SyncedPage = page
            \/ /\ act.answer # None /\ SyncedPage.state = act.answer
               /\ SyncedPage.revision = act.answer.rev
<1>1. page \in PageType /\ act.answer \in View \cup {None}
  BY DEF TypeOK, PageType, Act
<1>2. CASE act.answer = None
  BY <1>1, <1>2 DEF SyncedPage
<1>3. CASE act.answer # None
  <2>1. SyncedPage = Apply(page, act.answer) /\ act.answer \in View
    BY <1>1, <1>3 DEF SyncedPage
  <2> QED BY <1>1, <1>3, <2>1, ApplyKeeps
<1> QED BY <1>2, <1>3

LEMMA LeaveLocalIs ==
  ASSUME TypeOK, LeaveLocal
  PROVE  /\ page' \in PageType /\ page'.room = page.room /\ page'.view = "join"
         /\ page'.token = FALSE /\ page'.state = None /\ page'.revision = 0
         /\ stream' = NoStream
<1>1. page \in PageType /\ 0 \in 0..MaxRevision
  BY BrowserAssumption DEF TypeOK, PageType
<1> QED BY <1>1 DEF LeaveLocal, PageType

\* What the end of a click leaves of the page and the sessions.
LEMMA OverIs ==
  ASSUME TypeOK, NEW ok \in BOOLEAN, NEW outcome \in {"ok", "stale", "refused", "gone", "unreachable"},
         Over(ok, outcome)
  PROVE  /\ act' = NoAct(act.intent) /\ told' = [told EXCEPT ![act.intent] = outcome]
         /\ saved' \subseteq saved
         /\ ForgetsSession(ok) => saved' = saved \ {page.room} /\ LeaveLocal
         /\ ~ForgetsSession(ok) => UNCHANGED <<saved, page, stream>>
         /\ page' \in PageType /\ page'.room = page.room
BY LeaveLocalIs DEF Over, Forget, TypeOK, PageType

LEMMA StreamIs ==
  /\ NoStream.room = None /\ NoStream.item = None /\ NoStream.sent = 0
  /\ \A r \in Room \cup {None} :
       LET s == [NoStream EXCEPT !.room = r]
       IN  /\ s \in [room : Room \cup {None}, sent : 0..MaxRevision, item : View \cup {None}]
           /\ s.room = r /\ s.item = None
BY BrowserAssumption DEF NoStream

-----------------------------------------------------------------------------
(* Every step keeps the invariant.                                         *)

\* Of the steps in which nothing becomes of a click.
LEMMA ClicksStay ==
  ASSUME BrowserInv, UNCHANGED <<applied, late, act, told>>,
         \A r \in Room : server'[r].live => server[r].live
  PROVE  Books' /\ Progress' /\ Ended'
<1>1. act.pc = "sending" => act.req.room \in Room
  BY DEF BrowserInv, Progress, Request
<1> QED BY <1>1 DEF BrowserInv, Books, Progress, Ended, Busy, Promise!Done

LEMMA InitHolds == Init => BrowserInv
<1> SUFFICES ASSUME Init PROVE BrowserInv
  OBVIOUS
<1>1. NoAct(0) \in Act /\ NoAct(0).pc = "idle" /\ NoAct(0).intent = 0
  BY NoActIs, BrowserAssumption
<1>4. server \in [Room -> ServerRoom] /\ page \in PageType
  BY BrowserAssumption DEF Init, ServerRoom, PageType
<1>5. stream \in [room : Room \cup {None}, sent : 0..MaxRevision, item : View \cup {None}]
  BY BrowserAssumption DEF Init, NoStream
<1>2. TypeOK
  BY <1>1, <1>4, <1>5 DEF Init, TypeOK, PageType, Intent
<1>3. Rounds /\ Seated /\ Books /\ Progress /\ Ended
  BY <1>1, StreamIs DEF Init, Rounds, Seated, Books, Progress, Ended, Busy, Intent
<1> QED BY <1>2, <1>3 DEF BrowserInv

\* The server, and what travels from it.
LEMMA OthersKeep ==
  ASSUME BrowserInv, NEW r \in Room, Others(r)
  PROVE  BrowserInv'
<1>1. PICK moves \in {0, 1}, fits \in BOOLEAN :
        server' = [server EXCEPT ![r].rev = @ + 1, ![r].round = @ + moves, ![r].fits = fits]
  BY DEF Others
<1> DEFINE s == server[r]
           new == [s EXCEPT !.rev = s.rev + 1, !.round = s.round + moves, !.fits = fits]
<1>2. server \in [Room -> ServerRoom] /\ s.round < s.rev /\ s.rev < MaxRevision
  BY DEF BrowserInv, TypeOK, Rounds, Others
<1>3. server' = [server EXCEPT ![r] = new]
  BY <1>1, <1>2
<1>4. s.rev \in 1..MaxRevision /\ s.rev + 1 \in 1..MaxRevision
      /\ s.round + moves \in 0..MaxRevision /\ s.round + moves < s.rev + 1
  BY <1>2, BrowserAssumption DEF ServerRoom
<1>5. new \in ServerRoom /\ new.live = s.live /\ new.rev = s.rev + 1 /\ new.round = s.round + moves
  BY <1>2, <1>4 DEF ServerRoom
<1> HIDE DEF new
<1>6. UNCHANGED <<applied, late, page, saved, joining, refresh, act, beat, stream, told, lowered>>
  BY DEF Others
<1>8. server' \in [Room -> ServerRoom] /\ Rounds'
  BY <1>2, <1>3, <1>4, <1>5 DEF BrowserInv, Rounds
<1>9. TypeOK' /\ Seated'
  BY <1>6, <1>8 DEF BrowserInv, TypeOK, Seated, Busy
<1>7. \A q \in Room : server'[q].live => server[q].live
  BY <1>2, <1>3, <1>5
<1> QED BY <1>6, <1>7, <1>8, <1>9, ClicksStay DEF BrowserInv

LEMMA RoomGoesKeeps ==
  ASSUME BrowserInv, NEW r \in Room, RoomGoes(r)
  PROVE  BrowserInv'
<1> DEFINE new == [server[r] EXCEPT !.live = FALSE]
<1>1. server \in [Room -> ServerRoom] /\ server' = [server EXCEPT ![r] = new]
  BY DEF BrowserInv, TypeOK, RoomGoes
<1>2. /\ new \in ServerRoom /\ new.live = FALSE
      /\ new.rev = server[r].rev /\ new.round = server[r].round
  BY <1>1 DEF ServerRoom
<1> HIDE DEF new
<1>3. UNCHANGED <<applied, late, page, saved, joining, refresh, act, beat, stream, told, lowered>>
  BY DEF RoomGoes
<1>5. server' \in [Room -> ServerRoom] /\ Rounds'
  BY <1>1, <1>2 DEF BrowserInv, Rounds
<1>6. TypeOK' /\ Seated'
  BY <1>3, <1>5 DEF BrowserInv, TypeOK, Seated, Busy
<1>4. \A q \in Room : server'[q].live => server[q].live
  BY <1>1, <1>2
<1> QED BY <1>3, <1>4, <1>5, <1>6, ClicksStay DEF BrowserInv

\* What the page asks for, and what is answered, leaves the click alone.
LEMMA JoiningKeeps ==
  ASSUME BrowserInv, NEW r \in Room, JoinAsked(r) \/ JoinServed \/ Joined \/ JoinFailed
  PROVE  BrowserInv'
<1>1. page \in PageType
  BY DEF BrowserInv, TypeOK, PageType
<1>2. CASE JoinAsked(r)
  <2> DEFINE offered == r \in saved
  <2>4. offered \in BOOLEAN /\ page' = [page EXCEPT !.room = r, !.token = offered]
        /\ joining' = [room |-> r, auth |-> offered, answer |-> None]
    BY <1>2 DEF JoinAsked
  <2> HIDE DEF offered
  <2>1. page' \in PageType /\ page'.room = r /\ page'.view = page.view /\ page'.state = page.state
    BY <1>1, <2>4 DEF PageType
  <2>2. joining' \in [room : Room, auth : BOOLEAN, answer : View \cup {None}] /\ joining'.room = r
    BY <2>4
  <2>3. TypeOK' /\ Rounds' /\ Seated'
    BY <1>2, <2>1, <2>2, NoneAssumption
       DEF BrowserInv, TypeOK, PageType, Rounds, Seated, Busy, JoinAsked
  <2> QED BY <1>2, <2>3, ClicksStay DEF BrowserInv, JoinAsked
<1>3. CASE JoinServed
  <2>1. joining.room \in Room /\ joining \in [room : Room, auth : BOOLEAN, answer : View \cup {None}]
    BY <1>3 DEF BrowserInv, TypeOK, JoinServed
  <2>2. Snapshot(joining.room) \in View
    BY <2>1, SnapshotIs DEF BrowserInv
  <2>3. joining' \in [room : Room, auth : BOOLEAN, answer : View \cup {None}]
        /\ joining'.room = joining.room
    BY <1>3, <2>1, <2>2 DEF JoinServed
  <2>4. TypeOK' /\ Rounds' /\ Seated'
    BY <1>3, <2>3 DEF BrowserInv, TypeOK, Rounds, Seated, Busy, JoinServed
  <2> QED BY <1>3, <2>4, ClicksStay DEF BrowserInv, JoinServed
<1>4. CASE Joined
  <2>1. joining.answer \in View /\ page.room = joining.room /\ joining.room \in Room
    BY <1>4 DEF BrowserInv, TypeOK, Seated, Joined
  <2> DEFINE p == Apply(page, joining.answer)
  <2>2. p \in PageType /\ p.room = page.room
    BY <1>1, <2>1, ApplyKeeps
  <2> HIDE DEF p
  <2>3. page' = [p EXCEPT !.token = TRUE, !.view = "table"]
    BY <1>4 DEF Joined, p
  <2>4. page' \in PageType /\ page'.room = page.room
    BY <2>2, <2>3 DEF PageType
  <2>5. TypeOK' /\ Rounds' /\ Seated'
    BY <1>4, <2>1, <2>4, StreamIs, NoneAssumption
       DEF BrowserInv, TypeOK, PageType, Rounds, Seated, Busy, Joined
  <2> QED BY <1>4, <2>5, ClicksStay DEF BrowserInv, Joined
<1>5. CASE JoinFailed
  <2>1. /\ joining.auth \in BOOLEAN /\ page.room = joining.room /\ joining.room \in Room
        /\ saved' \subseteq saved
    BY <1>5 DEF BrowserInv, TypeOK, Seated, JoinFailed, Forget
  <2>2. page' \in PageType /\ page'.room = page.room /\ page'.state = page.state
    BY <1>1, <1>5, <2>1 DEF JoinFailed, PageType
  <2>3. TypeOK' /\ Rounds' /\ Seated'
    BY <1>5, <2>1, <2>2, NoneAssumption
       DEF BrowserInv, TypeOK, PageType, Rounds, Seated, Busy, JoinFailed
  <2> QED BY <1>5, <2>3, ClicksStay DEF BrowserInv, JoinFailed
<1> QED BY <1>2, <1>3, <1>4, <1>5

LEMMA PageKeeps ==
  ASSUME BrowserInv,
         \/ Visible \/ RefreshAsked \/ RefreshServed \/ Refreshed \/ Beat \/ BeatAnswered
         \/ Push \/ Deliver \/ Break \/ StreamEnds
  PROVE  BrowserInv'
<1> SUFFICES TypeOK' /\ Seated' /\ UNCHANGED <<server, applied, late, act, told>>
  BY ClicksStay DEF BrowserInv, Rounds
<1> DEFINE StreamType == [room : Room \cup {None}, sent : 0..MaxRevision, item : View \cup {None}]
<1>0. /\ page \in PageType /\ page.room \in Room \cup {None} /\ TypeOK
      /\ stream \in StreamType
  BY DEF BrowserInv, TypeOK, PageType
<1>1. CASE Visible
  <2>1. stream' \in StreamType /\ stream'.room = page.room /\ stream'.item = None
    BY <1>0, <1>1, StreamIs DEF Visible
  <2> QED BY <1>1, <2>1 DEF Visible, BrowserInv, TypeOK, Seated, Busy
<1>2. CASE RefreshAsked
  <2>1. page.room \in Room
    BY <1>0, <1>2 DEF RefreshAsked, BrowserInv, Seated
  <2> QED BY <1>2, <2>1 DEF RefreshAsked, BrowserInv, TypeOK, Seated, Busy
<1>3. CASE RefreshServed
  <2>1. refresh.room \in Room /\ refresh \in [room : Room, answer : View \cup {None}]
    BY <1>3 DEF BrowserInv, TypeOK, RefreshServed
  <2>2. refresh' \in [room : Room, answer : View \cup {None}]
    BY <1>0, <1>3, <2>1, SnapshotIs DEF RefreshServed
  <2> QED BY <1>3, <2>2 DEF RefreshServed, BrowserInv, TypeOK, Seated, Busy
<1>4. CASE Refreshed
  <2>1. refresh.answer \in View \cup {None}
    BY <1>4 DEF BrowserInv, TypeOK, Refreshed
  <2>2. page' \in PageType /\ page'.room = page.room /\ page.room # None
    BY <1>0, <1>4, <2>1, ApplyKeeps DEF Refreshed, BrowserInv, Seated
  <2> QED BY <1>4, <2>2 DEF Refreshed, BrowserInv, TypeOK, PageType, Seated, Busy
<1>5. CASE Beat
  <2>1. page.room \in Room
    BY <1>0, <1>5 DEF Beat, BrowserInv, Seated
  <2> QED BY <1>5, <2>1 DEF Beat, BrowserInv, TypeOK, Seated, Busy
<1>6. ASSUME LeaveLocal, UNCHANGED <<server, applied, late, saved, joining, refresh, act, told, lowered>>,
             beat' \in {beat, None}
      PROVE  TypeOK' /\ Seated' /\ UNCHANGED <<server, applied, late, act, told>>
  <2>1. page' \in PageType /\ page'.room = page.room /\ page'.view = "join"
        /\ page'.token = FALSE /\ page'.state = None /\ stream' = NoStream
    BY <1>0, <1>6, LeaveLocalIs
  <2>2. stream' \in StreamType /\ stream'.room = None /\ stream'.item = None
    BY <2>1, StreamIs, BrowserAssumption DEF NoStream
  <2>3. TypeOK'
    BY <1>6, <2>1, <2>2 DEF BrowserInv, TypeOK, PageType
  <2>4. Seated'
    BY <1>6, <2>1, <2>2 DEF BrowserInv, Seated, Busy
  <2> QED BY <1>6, <2>3, <2>4
<1>7. CASE BeatAnswered
  <2>1. CASE server[beat].live
    BY <1>7, <2>1 DEF BeatAnswered, BrowserInv, TypeOK, Seated, Busy
  <2>2. CASE ~server[beat].live
    BY <1>6, <1>7, <2>2 DEF BeatAnswered
  <2> QED BY <2>1, <2>2
<1>8. CASE Push
  <2>1. stream.room \in Room /\ server[stream.room].rev \in 0..MaxRevision
    BY <1>0, <1>8, BrowserAssumption DEF Push, TypeOK, ServerRoom
  <2>2. stream' \in StreamType /\ stream'.room = stream.room
    BY <1>0, <1>8, <2>1, SnapshotIs DEF Push
  <2> QED BY <1>8, <2>2 DEF Push, BrowserInv, TypeOK, Seated, Busy
<1>9. CASE Deliver
  <2>1. stream.item \in View
    BY <1>0, <1>9 DEF Deliver
  <2>2. stream' \in StreamType /\ stream'.room = stream.room /\ stream'.item = None
    BY <1>0, <1>9 DEF Deliver
  <2>3. page' \in PageType /\ page'.room = page.room
        /\ page'.view = page.view /\ page'.token = page.token
    BY <1>0, <1>9, <2>1, ApplyKeeps DEF Deliver
  <2> QED BY <1>9, <2>2, <2>3 DEF Deliver, BrowserInv, TypeOK, PageType, Seated, Busy
<1>10. CASE Break
  <2>1. stream' \in StreamType /\ stream'.room = page.room /\ stream'.item = None
    BY <1>0, <1>10, StreamIs DEF Break
  <2> QED BY <1>10, <2>1 DEF Break, BrowserInv, TypeOK, Seated, Busy
<1>11. CASE StreamEnds
  BY <1>6, <1>11 DEF StreamEnds
<1> QED BY <1>1, <1>2, <1>3, <1>4, <1>5, <1>7, <1>8, <1>9, <1>10, <1>11

\* The requests, and the click they belong to.
LEMMA IdsAre ==
  ASSUME TypeOK
  PROVE  /\ late # None => late \in Request /\ late.room \in Room /\ late.id \in Id
                            /\ late.id[1] \in Intent
         /\ act.intent \in 0..MaxIntents /\ act.attempt \in Attempt
         /\ act.pc = "sending" /\ act.req \in Request => act.req.room \in Room
         /\ told \in [Intent -> {"none", "pending", "ok", "stale", "refused", "gone", "unreachable"}]
BY DEF TypeOK, Request, Id, Act

\* A request takes effect: nobody else's click is touched, and no other one is late.
LEMMA AppliedIs ==
  ASSUME BrowserInv, NEW i \in Intent, NEW a \in Attempt, applied' = applied \cup {<<i, a>>}
  PROVE  /\ applied' \subseteq Id
         /\ \A j \in Intent : j = i => Promise!Done(j)'
         /\ \A j \in Intent : j # i => (Promise!Done(j)' <=> Promise!Done(j))
<1>1. applied \subseteq Id /\ <<i, a>> \in Id
  BY DEF BrowserInv, TypeOK, Id
<1>2. \A j \in Intent : \A b \in Attempt :
        <<j, b>> \in applied' <=> <<j, b>> \in applied \/ (j = i /\ b = a)
  OBVIOUS
<1> QED BY <1>1, <1>2 DEF Promise!Done

LEMMA DoneStays ==
  ASSUME UNCHANGED applied
  PROVE  \A i : Promise!Done(i)' <=> Promise!Done(i)
BY DEF Promise!Done

LEMMA ServeKeeps ==
  ASSUME BrowserInv, Serve
  PROVE  BrowserInv'
<1>1. PICK reply \in Reply : Handles(act.req, reply) /\ act' = [act EXCEPT !.reply = reply]
  BY DEF Serve
<1>2. /\ act.pc = "sending" /\ act \in Act /\ act.intent \in Intent /\ act.attempt \in Attempt
      /\ act.req \in Request /\ act.req.kind = act.kind /\ act.req.id = <<act.intent, act.attempt>>
      /\ act.req.room \in Room /\ ~Promise!Done(act.intent) /\ told[act.intent] = "pending"
  BY DEF Serve, BrowserInv, TypeOK, Progress, Busy, Act, Request
<1>3. /\ act' \in Act /\ act'.pc = "sending" /\ act'.reply = reply /\ act'.req = act.req
      /\ act'.kind = act.kind /\ act'.intent = act.intent /\ act'.attempt = act.attempt
  BY <1>1, <1>2 DEF Act
<1>4. UNCHANGED <<late, page, saved, joining, refresh, beat, stream, told, lowered>>
  BY DEF Serve
<1>5. /\ server' \in [Room -> ServerRoom] /\ Rounds'
      /\ reply.status = "ok" => /\ applied' = applied \cup {act.req.id}
                                /\ act.req.kind = "end" => ~server'[act.req.room].live
      /\ reply.status # "ok" => UNCHANGED <<server, applied>>
  BY <1>1, <1>2, HandlesIs DEF BrowserInv
<1>6. /\ applied' \subseteq Id
      /\ \A j \in Intent : Promise!Done(j)'
           <=> IF j = act.intent THEN reply.status = "ok" ELSE Promise!Done(j)
      /\ \A id \in applied' : id \in applied \/ id[1] = act.intent
  <2>1. CASE reply.status = "ok"
    <3> DEFINE i == act.intent
               a == act.attempt
    <3>1. applied' = applied \cup {<<i, a>>} /\ i \in Intent /\ a \in Attempt
      BY <1>2, <1>5, <2>1
    <3> HIDE DEF i, a
    <3>2. /\ applied' \subseteq Id
          /\ \A j \in Intent : j = i => Promise!Done(j)'
          /\ \A j \in Intent : j # i => (Promise!Done(j)' <=> Promise!Done(j))
      BY <3>1, AppliedIs
    <3>3. \A id \in applied' : id \in applied \/ id[1] = i
      BY <3>1
    <3> QED BY <2>1, <3>2, <3>3 DEF i
  <2>2. CASE reply.status # "ok"
    <3>1. applied' = applied /\ ~Promise!Done(act.intent)
      BY <1>2, <1>5, <2>2
    <3>2. \A j \in Intent : Promise!Done(j)' <=> Promise!Done(j)
      BY <3>1, DoneStays
    <3> QED BY <2>2, <3>1, <3>2 DEF BrowserInv, TypeOK
  <2> QED BY <2>1, <2>2
<1>7. TypeOK' /\ Seated'
  BY <1>2, <1>3, <1>4, <1>5, <1>6 DEF BrowserInv, TypeOK, Seated, Busy
<1>8. Books'
  BY <1>2, <1>3, <1>4, <1>6, IdsAre DEF BrowserInv, Books, Intent
<1>9. Progress' /\ Ended'
  BY <1>2, <1>3, <1>4, <1>5, <1>6 DEF Progress, Ended, Busy
<1> QED BY <1>5, <1>7, <1>8, <1>9 DEF BrowserInv

LEMMA ServeLateKeeps ==
  ASSUME BrowserInv, ServeLate
  PROVE  BrowserInv'
<1>1. PICK reply \in Reply : Handles(late, reply)
  BY DEF ServeLate
<1>2. /\ late \in Request /\ late.id[1] \in Intent /\ late.id[1] <= act.intent
      /\ told[late.id[1]] = "unreachable" /\ late.id = <<late.id[1], late.id[2]>>
      /\ late.id[2] \in Attempt
  BY IdsAre DEF ServeLate, BrowserInv, TypeOK, Books, Request, Id, Intent
<1>3. /\ late' = None
      /\ UNCHANGED <<page, saved, joining, refresh, act, beat, stream, told, lowered>>
  BY DEF ServeLate
<1>4. /\ server' \in [Room -> ServerRoom] /\ Rounds'
      /\ \A r \in Room : server'[r].live => server[r].live
      /\ applied' = applied \cup {late.id} \/ applied' = applied
  BY <1>1, <1>2, HandlesIs DEF BrowserInv
<1>5. /\ applied' \subseteq Id
      /\ \A j \in Intent : j # late.id[1] => (Promise!Done(j)' <=> Promise!Done(j))
      /\ \A id \in applied' : id \in applied \/ id[1] = late.id[1]
  <2>1. CASE applied' = applied
    BY <2>1, DoneStays DEF BrowserInv, TypeOK
  <2>2. CASE applied' = applied \cup {late.id}
    <3> DEFINE i == late.id[1]
               a == late.id[2]
    <3>1. applied' = applied \cup {<<i, a>>} /\ i \in Intent /\ a \in Attempt
      BY <1>2, <2>2
    <3> HIDE DEF i, a
    <3>2. /\ applied' \subseteq Id
          /\ \A j \in Intent : j # i => (Promise!Done(j)' <=> Promise!Done(j))
      BY <3>1, AppliedIs
    <3> QED BY <2>2, <3>2 DEF i
  <2> QED BY <1>4, <2>1, <2>2
<1>6. TypeOK' /\ Seated'
  BY <1>3, <1>4, <1>5 DEF BrowserInv, TypeOK, Seated, Busy
<1>7. Books'
  BY <1>2, <1>3, <1>5 DEF BrowserInv, Books
<1>8. Progress'
  BY <1>2, <1>3, <1>5 DEF BrowserInv, Progress, Busy
<1>9. Ended'
  BY <1>3, <1>4 DEF BrowserInv, Progress, Ended, Request
<1> QED BY <1>4, <1>6, <1>7, <1>8, <1>9 DEF BrowserInv

LEMMA ClickKeeps ==
  ASSUME BrowserInv, NEW kind \in Kind, Click(kind)
  PROVE  BrowserInv'
<1> DEFINE i == act.intent + 1
           m == [NoAct(i) EXCEPT !.kind = kind, !.round = page.state.round]
<1>1. /\ i \in Intent /\ act.intent \in 0..MaxIntents /\ i = act.intent + 1 /\ page.room \in Room
      /\ page.state.round \in 0..MaxRevision /\ 1 \in Attempt /\ act.pc = "idle"
  BY BrowserAssumption
     DEF Click, BrowserInv, TypeOK, Seated, Busy, Act, Intent, Attempt, View
<1>2. act' = Send(m, 1) /\ told' = [told EXCEPT ![i] = "pending"]
  BY DEF Click
<1>3. NoAct(i) \in Act /\ NoAct(i).intent = i
  BY <1>1, NoActIs DEF Intent
<1>4. m \in Act /\ m.intent = i /\ m.kind = kind
  BY <1>1, <1>3 DEF Act
<1> HIDE DEF m, i
<1>11. /\ Send(m, 1) \in Act /\ Send(m, 1).pc = "sending" /\ Send(m, 1).intent = i
       /\ Send(m, 1).kind = kind /\ Send(m, 1).attempt = 1 /\ Send(m, 1).reply = Said("none")
       /\ Send(m, 1).req \in Request
       /\ Send(m, 1).req = [room |-> page.room, id |-> <<i, 1>>, kind |-> kind,
                            rev |-> page.revision, round |-> m.round, auth |-> page.token]
  BY <1>1, <1>4, SendIs DEF BrowserInv
<1>5. /\ act' \in Act /\ act'.pc = "sending" /\ act'.intent = i /\ act'.kind = kind
      /\ act'.attempt = 1 /\ act'.reply = Said("none") /\ act'.req \in Request
      /\ act'.req.id = <<i, 1>> /\ act'.req.kind = kind
  BY <1>2, <1>11
<1>6. UNCHANGED <<server, applied, late, page, saved, joining, refresh, beat, stream, lowered>>
  BY DEF Click
<1>12. page.room # None
  BY <1>1, NoneAssumption
<1>7. TypeOK' /\ Rounds' /\ Seated'
  BY <1>1, <1>2, <1>5, <1>6, <1>12 DEF BrowserInv, TypeOK, Rounds, Seated, Busy
<1>8. \A j \in Intent : j = i => ~Promise!Done(j)'
  <2>1. \A a \in Attempt : <<i, a>> \notin applied
    <3>1. \A id \in applied : id[1] <= act.intent
      BY DEF BrowserInv, Books
    <3>2. \A a \in Attempt : <<i, a>>[1] = i
      OBVIOUS
    <3> QED BY <1>1, <3>1, <3>2
  <2> QED BY <1>6, <2>1 DEF Promise!Done
<1>9. Books'
  <2>1. \A j \in Intent : told'[j] = "none" <=> j > act'.intent
    BY <1>1, <1>2, <1>5, IdsAre DEF BrowserInv, Books, Intent
  <2>2. \A id \in applied' : id[1] <= act'.intent
    BY <1>1, <1>5, <1>6 DEF BrowserInv, Books, TypeOK, Id, Intent
  <2>3. (late # None => told[late.id[1]] = "unreachable" /\ ~Promise!Done(late.id[1]))'
    BY <1>1, <1>2, <1>6, IdsAre, DoneStays DEF BrowserInv, Books, Intent
  <2> QED BY <2>1, <2>2, <2>3 DEF Books
<1>10. Progress' /\ Ended'
  BY <1>1, <1>2, <1>5, <1>6, <1>8, IdsAre DEF BrowserInv, Progress, Ended, Busy, Said, Promise!Done
<1> QED BY <1>7, <1>9, <1>10 DEF BrowserInv

\* The end of a click: it is told, and a send without an answer may be late.
LEMMA ClickEnds ==
  ASSUME BrowserInv, Busy, NEW outcome \in {"ok", "stale", "refused", "gone", "unreachable"},
         act' = NoAct(act.intent), told' = [told EXCEPT ![act.intent] = outcome],
         UNCHANGED <<server, applied>>,
         \/ late' = late
         \/ /\ act.pc = "sending" /\ act.reply.status = "none" /\ outcome = "unreachable"
            /\ late' = act.req
  PROVE  /\ act' \in Act /\ act'.pc = "idle" /\ late' \in Request \cup {None}
         /\ told' \in [Intent -> {"none", "pending", "ok", "stale", "refused", "gone", "unreachable"}]
         /\ Books' /\ Progress' /\ Ended'
<1>1. /\ act' \in Act /\ act'.pc = "idle" /\ act'.intent = act.intent
      /\ act.intent \in Intent /\ act.intent \in 0..MaxIntents /\ told[act.intent] = "pending"
  BY NoActIs DEF BrowserInv, Progress, Intent
<1>2. told' \in [Intent -> {"none", "pending", "ok", "stale", "refused", "gone", "unreachable"}]
  BY IdsAre DEF BrowserInv
<1>3. Progress' /\ Ended'
  BY <1>1 DEF Progress, Ended, Busy
<1>4. /\ late' \in Request \cup {None}
      /\ (late # None => told[late.id[1]] = "unreachable" /\ ~Promise!Done(late.id[1]))'
  <2>1. CASE late' = late
    BY <1>1, <2>1, IdsAre, DoneStays DEF BrowserInv, Books, TypeOK
  <2>2. CASE /\ act.pc = "sending" /\ act.reply.status = "none" /\ outcome = "unreachable"
             /\ late' = act.req
    <3>1. act.req \in Request /\ act.req.id[1] = act.intent /\ ~Promise!Done(act.intent)
      BY <2>2 DEF BrowserInv, Progress
    <3>2. told'[act.intent] = "unreachable"
      BY <1>1, <2>2, IdsAre DEF BrowserInv
    <3>3. late'.id[1] = act.intent
      BY <2>2, <3>1
    <3>4. (~Promise!Done(late.id[1]))'
      BY <3>1, <3>3, DoneStays
    <3> QED BY <2>2, <3>1, <3>2, <3>3, <3>4
  <2> QED BY <2>1, <2>2
<1>5. Books'
  <2>1. (\A i \in Intent : told[i] = "none" <=> i > act.intent)'
    BY <1>1, IdsAre DEF BrowserInv, Books, Intent
  <2>2. (\A id \in applied : id[1] <= act.intent)'
    BY <1>1 DEF BrowserInv, Books
  <2> QED BY <1>4, <2>1, <2>2 DEF Books
<1> QED BY <1>1, <1>2, <1>3, <1>4, <1>5

\* ...and the page, if it takes the player back to the form.
LEMMA OverKeeps ==
  ASSUME BrowserInv, Busy, NEW outcome \in {"ok", "stale", "refused", "gone", "unreachable"},
         NEW ok \in BOOLEAN, Over(ok, outcome),
         UNCHANGED <<server, applied, joining, refresh, beat, lowered>>,
         \/ late' = late
         \/ /\ act.pc = "sending" /\ act.reply.status = "none" /\ outcome = "unreachable"
            /\ late' = act.req
  PROVE  BrowserInv'
<1>1. /\ act' = NoAct(act.intent) /\ told' = [told EXCEPT ![act.intent] = outcome]
      /\ saved' \subseteq saved /\ page' \in PageType /\ page'.room = page.room
      /\ LeaveLocal \/ UNCHANGED <<page, stream>>
  BY OverIs DEF BrowserInv
<1>2. /\ act' \in Act /\ act'.pc = "idle" /\ late' \in Request \cup {None}
      /\ told' \in [Intent -> {"none", "pending", "ok", "stale", "refused", "gone", "unreachable"}]
      /\ Books' /\ Progress' /\ Ended'
  BY <1>1, ClickEnds
<1>3. \/ UNCHANGED <<page, stream>>
      \/ /\ page'.view = "join" /\ page'.token = FALSE /\ page'.state = None
         /\ stream' = NoStream
  BY <1>1, LeaveLocalIs DEF BrowserInv
<1>4. stream' \in [room : Room \cup {None}, sent : 0..MaxRevision, item : View \cup {None}]
  BY <1>3, BrowserAssumption DEF BrowserInv, TypeOK, NoStream
<1>5. TypeOK'
  BY <1>1, <1>2, <1>4 DEF BrowserInv, TypeOK, PageType
<1>6. Seated'
  BY <1>1, <1>2, <1>3, StreamIs DEF BrowserInv, Seated, Busy
<1> QED BY <1>2, <1>5, <1>6 DEF BrowserInv, Rounds

LEMMA AcceptedKeeps ==
  ASSUME BrowserInv, Accepted
  PROVE  BrowserInv'
<1>1. /\ act \in Act /\ act.pc = "sending" /\ act.reply.status = "ok" /\ Busy
      /\ act.reply.rev \in 0..MaxRevision /\ act.intent \in Intent
      /\ told[act.intent] = "pending" /\ Promise!Done(act.intent)
  BY DEF Accepted, BrowserInv, TypeOK, Progress, Act, Busy, Reply
<1>2. CASE act.kind = "play"
  <2>1. /\ page' = [page EXCEPT !.revision = act.reply.rev] /\ act' = Syncing("confirming")
        /\ lowered' = (lowered \/ act.reply.rev < page.revision)
        /\ UNCHANGED <<server, applied, late, saved, joining, refresh, beat, stream, told>>
    BY <1>2 DEF Accepted
  <2>2. /\ act' \in Act /\ act'.pc = "confirming" /\ act'.intent = act.intent
    BY <2>1, SyncingIs DEF BrowserInv
  <2>3. page \in PageType
    BY DEF BrowserInv, TypeOK, PageType
  <2>4. /\ page' \in PageType /\ page'.room = page.room /\ page'.view = page.view
        /\ page'.token = page.token /\ page'.state = page.state
    BY <1>1, <2>1, <2>3 DEF PageType
  <2>5. TypeOK'
    BY <2>1, <2>2, <2>4 DEF BrowserInv, TypeOK, PageType
  <2>6. Seated'
    BY <1>1, <2>1, <2>2, <2>4 DEF BrowserInv, Seated, Busy
  <2>7. Books'
    BY <2>1, <2>2, DoneStays DEF BrowserInv, Books
  <2>8. (Promise!Done(act.intent))'
    BY <1>1, <2>1, <2>2, DoneStays
  <2>9. Progress' /\ Ended'
    BY <1>1, <2>1, <2>2, <2>8 DEF Progress, Ended, Busy
  <2> QED BY <2>1, <2>5, <2>6, <2>7, <2>9 DEF BrowserInv, Rounds
<1>3. CASE act.kind # "play"
  BY <1>1, <1>3, OverKeeps DEF Accepted
<1> QED BY <1>2, <1>3

LEMMA StaleKeeps ==
  ASSUME BrowserInv, Stale
  PROVE  BrowserInv'
<1>1. /\ act.pc = "sending" /\ act.reply.status = "stale" /\ Busy
      /\ act.intent \in Intent /\ told[act.intent] = "pending" /\ ~Promise!Done(act.intent)
  BY DEF Stale, Synchronizes, BrowserInv, Progress, Busy
<1>2. /\ act' = Syncing("refreshing")
      /\ UNCHANGED <<server, applied, late, page, saved, joining, refresh, beat, stream, told, lowered>>
  BY DEF Stale
<1>3. act' \in Act /\ act'.pc = "refreshing" /\ act'.intent = act.intent
  BY <1>2, SyncingIs DEF BrowserInv
<1>4. TypeOK' /\ Rounds' /\ Seated'
  BY <1>1, <1>2, <1>3 DEF BrowserInv, TypeOK, Rounds, Seated, Busy
<1>5. Books'
  BY <1>2, <1>3, DoneStays DEF BrowserInv, Books
<1>6. (~Promise!Done(act.intent))'
  BY <1>1, <1>2, <1>3, DoneStays
<1>7. Progress' /\ Ended'
  BY <1>1, <1>2, <1>3, <1>6 DEF Progress, Ended, Busy
<1> QED BY <1>4, <1>5, <1>7 DEF BrowserInv

LEMMA RefusedKeeps ==
  ASSUME BrowserInv, Refused
  PROVE  BrowserInv'
<1>1. act.reply.status \in {"refused", "gone"} /\ Busy
  BY DEF Refused, Busy
<1> DEFINE outcome == act.reply.status
<1>2. outcome \in {"refused", "gone"} /\ Over(FALSE, outcome) /\ late' = late
      /\ UNCHANGED <<server, applied, joining, refresh, beat, lowered>>
  BY <1>1 DEF Refused
<1> HIDE DEF outcome
<1> QED BY <1>1, <1>2, OverKeeps

LEMMA LostKeeps ==
  ASSUME BrowserInv, Lost
  PROVE  BrowserInv'
<1>1. /\ Busy /\ act.pc = "sending" /\ Over(FALSE, "unreachable")
      /\ UNCHANGED <<server, applied, joining, refresh, beat, lowered>>
      /\ \/ late' = late
         \/ act.reply.status = "none" /\ late' = act.req
  BY DEF Lost, Busy
<1> QED BY <1>1, OverKeeps

LEMMA SyncServedKeeps ==
  ASSUME BrowserInv, SyncServed
  PROVE  BrowserInv'
<1>1. act \in Act /\ act.asks \in Room /\ act.pc \in {"refreshing", "confirming"}
  BY DEF SyncServed, BrowserInv, TypeOK, Act
<1> DEFINE v == Snapshot(act.asks)
<1>2. v \in View
  BY <1>1, SnapshotIs DEF BrowserInv
<1>3. /\ act' = [act EXCEPT !.answer = v]
      /\ UNCHANGED <<server, applied, late, page, saved, joining, refresh, beat, stream, told, lowered>>
  BY DEF SyncServed
<1> HIDE DEF v
<1>4. act' \in Act /\ act'.pc = act.pc /\ act'.intent = act.intent
  BY <1>1, <1>2, <1>3 DEF Act
<1>5. TypeOK' /\ Rounds' /\ Seated'
  BY <1>3, <1>4 DEF BrowserInv, TypeOK, Rounds, Seated, Busy
<1>6. Books'
  BY <1>3, <1>4, DoneStays DEF BrowserInv, Books
<1>7. (Promise!Done(act.intent))' <=> Promise!Done(act.intent)
  BY <1>3, <1>4, DoneStays
<1>8. Progress' /\ Ended'
  BY <1>1, <1>3, <1>4, <1>7 DEF BrowserInv, Progress, Ended, Busy
<1> QED BY <1>5, <1>6, <1>8 DEF BrowserInv

\* A click that is over with its sync's answer on the page.
LEMMA EndsAtTheTable ==
  ASSUME BrowserInv, Busy, NEW outcome \in {"ok", "stale"}, page' = SyncedPage,
         act' = NoAct(act.intent), told' = [told EXCEPT ![act.intent] = outcome],
         UNCHANGED <<server, applied, late, saved, joining, refresh, beat, stream, lowered>>
  PROVE  BrowserInv'
<1>1. /\ page' \in PageType /\ page'.room = page.room /\ page'.view = page.view
      /\ page'.token = page.token
  BY SyncedPageIs DEF BrowserInv
<1>2. page.room # None
  BY DEF BrowserInv, Seated
<1>3. /\ act' \in Act /\ act'.pc = "idle" /\ Books' /\ Progress' /\ Ended'
      /\ told' \in [Intent -> {"none", "pending", "ok", "stale", "refused", "gone", "unreachable"}]
  BY ClickEnds
<1>4. TypeOK'
  BY <1>1, <1>3 DEF BrowserInv, TypeOK, PageType
<1>5. Seated'
  BY <1>1, <1>2 DEF BrowserInv, Seated
<1> QED BY <1>3, <1>4, <1>5 DEF BrowserInv, Rounds

LEMMA ConfirmedKeeps ==
  ASSUME BrowserInv, Confirmed
  PROVE  BrowserInv'
BY EndsAtTheTable DEF Confirmed, Busy

LEMMA GivenUpKeeps ==
  ASSUME BrowserInv, GivenUp
  PROVE  BrowserInv'
<1>1. CASE act.kind = "leave"
  BY <1>1, OverKeeps DEF GivenUp, Busy
<1>2. CASE act.kind # "leave"
  BY <1>2, EndsAtTheTable DEF GivenUp, Busy
<1> QED BY <1>1, <1>2

\* What is sent again.
LEMMA ResendIs ==
  ASSUME BrowserInv, Resend
  PROVE  /\ act'.req = [room |-> page.room, id |-> <<act.intent, act.attempt + 1>>,
                        kind |-> act.kind, rev |-> SyncedPage.revision, round |-> act.round,
                        auth |-> page.token]
         /\ act' \in Act /\ act'.pc = "sending" /\ act'.intent = act.intent
         /\ act'.kind = act.kind /\ act'.attempt = act.attempt + 1
         /\ act'.reply = Said("none") /\ act'.answer = None /\ act'.req \in Request
         /\ page.room \in Room
<1>1. /\ act \in Act /\ act.intent \in Intent /\ act.attempt + 1 \in Attempt
      /\ page.room \in Room
  BY BrowserAssumption
     DEF Resend, MayResend, BrowserInv, TypeOK, Seated, Progress, Busy, Act, Attempt
<1> DEFINE sent == Send(act, act.attempt + 1)
<1>2. /\ sent \in Act /\ sent.pc = "sending" /\ sent.intent = act.intent
      /\ sent.kind = act.kind /\ sent.attempt = act.attempt + 1
      /\ sent.reply = Said("none") /\ sent.answer = None /\ sent.req \in Request
      /\ sent.req = [room |-> page.room, id |-> <<act.intent, act.attempt + 1>>,
                     kind |-> act.kind, rev |-> page.revision, round |-> act.round,
                     auth |-> page.token]
  BY <1>1, SendIs DEF BrowserInv
<1>3. act' = [sent EXCEPT !.req.rev = SyncedPage.revision]
  BY DEF Resend
<1> HIDE DEF sent
<1> DEFINE q == [sent.req EXCEPT !.rev = SyncedPage.revision]
<1>4. SyncedPage.revision \in 0..MaxRevision
  BY SyncedPageIs DEF BrowserInv, PageType
<1>5. /\ q \in Request
      /\ q = [room |-> page.room, id |-> <<act.intent, act.attempt + 1>>,
              kind |-> act.kind, rev |-> SyncedPage.revision, round |-> act.round,
              auth |-> page.token]
  BY <1>2, <1>4 DEF Request
<1>6. act' = [sent EXCEPT !.req = q]
  BY <1>2, <1>3 DEF Act
<1> HIDE DEF q
<1> QED BY <1>1, <1>2, <1>5, <1>6 DEF Act

LEMMA ResendKeeps ==
  ASSUME BrowserInv, Resend
  PROVE  BrowserInv'
<1>1. /\ act' \in Act /\ act'.pc = "sending" /\ act'.intent = act.intent
      /\ act'.kind = act.kind /\ act'.attempt = act.attempt + 1 /\ act'.reply.status = "none"
      /\ act'.req \in Request /\ act'.req.kind = act.kind
      /\ act'.req.id = <<act.intent, act.attempt + 1>> /\ page.room \in Room
  BY ResendIs DEF Said
<1>2. /\ page' \in PageType /\ page'.room = page.room /\ page'.view = page.view
      /\ page'.token = page.token
  BY SyncedPageIs DEF BrowserInv, Resend
<1>3. UNCHANGED <<server, applied, late, saved, joining, refresh, beat, stream, told, lowered>>
  BY DEF Resend
<1>4. TypeOK' /\ Rounds'
  BY <1>1, <1>2, <1>3 DEF BrowserInv, TypeOK, PageType, Rounds
<1>5. Seated'
  BY <1>1, <1>2, <1>3, NoneAssumption DEF BrowserInv, Seated
<1>6. Books'
  BY <1>1, <1>3, DoneStays DEF BrowserInv, Books
<1>7. act.pc = "refreshing" /\ ~Promise!Done(act.intent)
  BY DEF Resend, BrowserInv, Progress
<1>8. (~Promise!Done(act.intent))'
  BY <1>1, <1>3, <1>7, DoneStays
<1>9. Progress' /\ Ended'
  BY <1>1, <1>3, <1>7, <1>8 DEF BrowserInv, Progress, Ended, Busy
<1> QED BY <1>4, <1>5, <1>6, <1>9 DEF BrowserInv

LEMMA NextKeeps ==
  ASSUME BrowserInv, [Next]_vars
  PROVE  BrowserInv'
<1>1. CASE \E r \in Room : Others(r) \/ RoomGoes(r) \/ JoinAsked(r)
  BY <1>1, OthersKeep, RoomGoesKeeps, JoiningKeeps
<1>2. CASE JoinServed \/ Joined \/ JoinFailed
  <2>1. joining # None
    BY <1>2 DEF JoinServed, Joined, JoinFailed
  <2>2. joining.room \in Room
    BY <2>1 DEF BrowserInv, TypeOK
  <2> QED BY <1>2, <2>2, JoiningKeeps
<1>3. CASE \E kind \in Kind : Click(kind)
  BY <1>3, ClickKeeps
<1>4. CASE UNCHANGED vars
  <2>1. TypeOK' /\ Rounds' /\ Seated'
    BY <1>4 DEF vars, BrowserInv, TypeOK, Rounds, Seated, Busy
  <2> QED BY <1>4, <2>1, ClicksStay DEF vars, BrowserInv
<1> QED BY <1>1, <1>2, <1>3, <1>4, ServeKeeps, ServeLateKeeps, PageKeeps, AcceptedKeeps, StaleKeeps,
           RefusedKeeps, LostKeeps, SyncServedKeeps, ConfirmedKeeps, ResendKeeps, GivenUpKeeps
        DEF Next

\* What has become of a click is known at each of its steps, whatever the other tasks
\* of the page do between two of them (mutate 228-251).
THEOREM BrowserIsInvariant == Spec => []BrowserInv
BY InitHolds, NextKeeps, PTL DEF Spec

\* The page, the requests and what travels are what they are declared to be.
THEOREM BrowserIsTyped == Spec => []TypeOK
<1>1. BrowserInv => TypeOK
  BY DEF BrowserInv
<1> QED BY <1>1, BrowserIsInvariant, PTL

-----------------------------------------------------------------------------
(* The promise.                                                            *)

\* A request that takes effect.
LEMMA ServesOnce ==
  ASSUME BrowserInv, NEW i \in Intent, NEW a \in Attempt, applied' = applied \cup {<<i, a>>},
         ~Promise!Done(i), told[i] \notin {"none", "stale"}, UNCHANGED told
  PROVE  Promise!Next
BY DEF Promise!Next, Promise!Apply

\* An answer that a player is given.
LEMMA TellsTruth ==
  ASSUME BrowserInv, Busy, NEW outcome \in {"ok", "stale", "refused", "gone", "unreachable"},
         told' = [told EXCEPT ![act.intent] = outcome], UNCHANGED applied,
         outcome = "ok" => Promise!Done(act.intent),
         outcome = "stale" => ~Promise!Done(act.intent)
  PROVE  Promise!Next
<1>1. act.intent \in Intent /\ told[act.intent] = "pending"
  BY DEF BrowserInv, Progress
<1>2. outcome \in Promise!Outcome
  BY DEF Promise!Outcome
<1>3. Promise!Tell(act.intent, outcome)
  BY <1>1 DEF Promise!Tell
<1> QED BY <1>1, <1>2, <1>3 DEF Promise!Next

LEMMA StepIsPromised ==
  ASSUME BrowserInv, [Next]_vars
  PROVE  [Promise!Next]_(Promise!onceVars)
<1> SUFFICES ASSUME ~UNCHANGED <<applied, told>>
             PROVE  Promise!Next
  BY DEF Promise!onceVars
<1>1. CASE Serve
  <2>1. PICK reply \in Reply : Handles(act.req, reply)
    BY <1>1 DEF Serve
  <2>2. /\ act.intent \in Intent /\ act.attempt \in Attempt /\ act.req \in Request
        /\ act.req.id = <<act.intent, act.attempt>> /\ ~Promise!Done(act.intent)
        /\ told[act.intent] = "pending" /\ UNCHANGED told
    BY <1>1, IdsAre DEF Serve, BrowserInv, Progress, Busy
  <2>3. applied' = applied \cup {<<act.intent, act.attempt>>}
    BY <2>1, <2>2, HandlesIs DEF BrowserInv
  <2> QED BY <2>2, <2>3, ServesOnce
<1>2. CASE ServeLate
  <2>1. PICK reply \in Reply : Handles(late, reply)
    BY <1>2 DEF ServeLate
  <2>2. /\ late \in Request /\ late.id[1] \in Intent /\ late.id[2] \in Attempt
        /\ late.id = <<late.id[1], late.id[2]>> /\ ~Promise!Done(late.id[1])
        /\ told[late.id[1]] = "unreachable" /\ UNCHANGED told
    BY <1>2 DEF ServeLate, BrowserInv, TypeOK, Books, Request, Id
  <2>3. applied' = applied \cup {<<late.id[1], late.id[2]>>}
    BY <2>1, <2>2, HandlesIs DEF BrowserInv
  <2> QED BY <2>2, <2>3, ServesOnce
<1>3. ASSUME NEW kind \in Kind, Click(kind) PROVE Promise!Next
  <2> DEFINE i == act.intent + 1
  <2>1. i \in Intent /\ i > act.intent
    BY <1>3 DEF Click, BrowserInv, TypeOK, Act, Intent
  <2>2. told[i] = "none" /\ told' = [told EXCEPT ![i] = "pending"] /\ UNCHANGED applied
    BY <1>3, <2>1 DEF Click, BrowserInv, Books
  <2> HIDE DEF i
  <2> QED BY <2>1, <2>2 DEF Promise!Next, Promise!Ask
<1>4. CASE Accepted
  <2>1. /\ Busy /\ told' = [told EXCEPT ![act.intent] = "ok"] /\ UNCHANGED applied
        /\ Promise!Done(act.intent)
    BY <1>4 DEF Accepted, Over, Busy, BrowserInv, Progress
  <2> QED BY <2>1, TellsTruth
<1>5. CASE Refused
  <2> DEFINE outcome == act.reply.status
  <2>1. /\ Busy /\ outcome \in {"refused", "gone"} /\ UNCHANGED applied
        /\ told' = [told EXCEPT ![act.intent] = outcome]
    BY <1>5 DEF Refused, Over, Busy
  <2> HIDE DEF outcome
  <2> QED BY <2>1, TellsTruth
<1>6. CASE Lost
  <2>1. Busy /\ told' = [told EXCEPT ![act.intent] = "unreachable"] /\ UNCHANGED applied
    BY <1>6 DEF Lost, Over, Busy
  <2> QED BY <2>1, TellsTruth
<1>7. CASE Confirmed
  <2>1. /\ Busy /\ told' = [told EXCEPT ![act.intent] = "ok"] /\ UNCHANGED applied
        /\ Promise!Done(act.intent)
    BY <1>7 DEF Confirmed, Busy, BrowserInv, Progress
  <2> QED BY <2>1, TellsTruth
<1>8. CASE GivenUp
  <2>1. /\ Busy /\ told' = [told EXCEPT ![act.intent] = "stale"] /\ UNCHANGED applied
        /\ ~Promise!Done(act.intent)
    BY <1>8 DEF GivenUp, Over, Busy, BrowserInv, Progress
  <2> QED BY <2>1, TellsTruth
<1> QED BY <1>1, <1>2, <1>3, <1>4, <1>5, <1>6, <1>7, <1>8
        DEF Next, vars, Others, RoomGoes, JoinAsked, JoinServed, Joined, JoinFailed, Visible,
            RefreshAsked, RefreshServed, Refreshed, Beat, BeatAnswered, Push, Deliver, Break,
            StreamEnds, Stale, SyncServed, Resend

\* A click takes effect at most once, over every send and every late arrival, and the
\* player is told so truly: also with several rooms.
THEOREM ClicksTakeEffectOnce == Spec => KeepsPromise
<1>1. Init => Promise!Init
  BY DEF Init, Promise!Init
<1> QED BY <1>1, BrowserIsInvariant, StepIsPromised, PTL DEF Spec, KeepsPromise, Promise!Spec

-----------------------------------------------------------------------------
(* Sessions.                                                               *)

\* A confirmed end of a room that the page does not show any more.
EndsElsewhere(r) == act.pc = "sending" /\ act.kind = "end" /\ act.req.room # r

\* Why a session is forgotten.
LEMMA WhyForgotten ==
  ASSUME BrowserInv, [Next]_vars, NEW r \in saved \ saved'
  PROVE  ~server[r].live \/ (Busy /\ act.kind = "leave") \/ EndsElsewhere(r)
<1>1. r \in Room
  BY DEF BrowserInv, TypeOK
<1>2. CASE JoinFailed
  BY <1>1, <1>2 DEF JoinFailed, Forget, BrowserInv, TypeOK, Seated
<1>3. CASE Accepted
  <2>1. act.pc = "sending" /\ act.reply.status = "ok" /\ act.req.room \in Room /\ Busy
    BY <1>3 DEF Accepted, BrowserInv, Progress, Busy, Request
  <2>2. act.kind # "play" /\ ForgetsSession(TRUE)
    BY <1>3, <2>1 DEF Accepted, Over
  <2>3. act.kind = "leave" \/ (act.kind = "end" /\ ~server[act.req.room].live)
    BY <2>1, <2>2 DEF ForgetsSession, BrowserInv, Ended
  <2> QED BY <2>1, <2>3 DEF EndsElsewhere
<1>4. CASE Refused \/ Lost \/ GivenUp
  BY <1>4 DEF Refused, Lost, GivenUp, Over, ForgetsSession, Busy
<1> QED BY <1>2, <1>3, <1>4
        DEF Next, vars, Others, RoomGoes, JoinAsked, JoinServed, Joined, Visible,
            RefreshAsked, RefreshServed, Refreshed, Beat, BeatAnswered, Push, Deliver, Break,
            StreamEnds, Serve, ServeLate, Click, Stale, SyncServed, Confirmed, Resend

ForgottenOnlyByMoving ==
  [][\A r \in saved \ saved' :
       ~server[r].live \/ (Busy /\ act.kind = "leave") \/ EndsElsewhere(r)]_vars

\* With any number of rooms: a session is forgotten by a leaver, when its room is gone,
\* or by the end of another room that the page showed when it was clicked, and by
\* nothing else (forgetSession 34, 182, 334-336).
THEOREM ForgottenByMoving == Spec => ForgottenOnlyByMoving
<1>1. ASSUME BrowserInv, [Next]_vars
      PROVE  [\A r \in saved \ saved' :
                ~server[r].live \/ (Busy /\ act.kind = "leave") \/ EndsElsewhere(r)]_vars
  BY <1>1, WhyForgotten
<1> QED BY <1>1, BrowserIsInvariant, PTL DEF Spec, ForgottenOnlyByMoving

OneRoom == \A r, s \in Room : r = s

\* Where there is one room, its session is forgotten only by a leaver, or when it is gone.
THEOREM SessionsAreKept ==
  ASSUME OneRoom
  PROVE  Spec => SessionIsKept
<1>1. ASSUME BrowserInv, [Next]_vars
      PROVE  [\A r \in saved \ saved' : ~server[r].live \/ (Busy /\ act.kind = "leave")]_vars
  <2>1. ASSUME NEW r \in saved \ saved'
        PROVE  ~server[r].live \/ (Busy /\ act.kind = "leave")
    <3>1. ~server[r].live \/ (Busy /\ act.kind = "leave") \/ EndsElsewhere(r)
      BY <1>1, <2>1, WhyForgotten
    <3>2. r \in Room /\ (act.pc = "sending" => act.req.room \in Room)
      BY <1>1, <2>1 DEF BrowserInv, TypeOK, Progress, Request
    <3> QED BY <3>1, <3>2 DEF EndsElsewhere, OneRoom
  <2> QED BY <2>1
<1> QED BY <1>1, BrowserIsInvariant, PTL DEF Spec, SessionIsKept

-----------------------------------------------------------------------------
(* What is known of the room, and resends.                                 *)

\* A view is of the room as it was, and as it is unless it has moved since.
Honest(v, rooms) ==
  v # None => /\ v.rev <= rooms[v.room].rev
              /\ v.rev = rooms[v.room].rev => v.round = rooms[v.room].round

\* A request was made of the room as it was; sent again, of its round as it is.
Reliable(req, rooms) ==
  /\ req.rev <= rooms[req.room].rev
  /\ req.id[2] > 1 /\ req.rev = rooms[req.room].rev => req.round = rooms[req.room].round

Known ==
  /\ Honest(page.state, server) /\ Honest(stream.item, server) /\ Honest(act.answer, server)
  /\ joining # None => Honest(joining.answer, server)
  /\ refresh # None => Honest(refresh.answer, server)
  /\ \A r \in Room : page.revision <= server[r].rev

\* The table on the page is not that of its revision, which an acceptance brought.
Lagging == page.state # None /\ page.state.rev # page.revision

\* No click is sent again with a revision that only an acceptance brought, unless the
\* room has moved on, which has it refused.
Sent ==
  /\ late # None => Reliable(late, server)
  /\ act.pc = "sending" =>
       /\ Reliable(act.req, server)
       /\ Lagging => page.revision = act.req.rev
       /\ act.reply.status = "stale" => act.req.rev < server[act.req.room].rev
       /\ act.reply.status = "ok" => act.reply.rev <= server[act.req.room].rev
  /\ act.pc # "sending" => act.req = None
  /\ act.pc = "refreshing" /\ Lagging => \A r \in Room : page.revision < server[r].rev

KnownInv == BrowserInv /\ Known /\ Sent

\* Rooms move, if at all, to a new revision.
RoomsMove ==
  /\ server \in [Room -> ServerRoom] /\ server' \in [Room -> ServerRoom]
  /\ \A r \in Room :
       \/ server'[r].rev = server[r].rev /\ server'[r].round = server[r].round
       \/ server'[r].rev > server[r].rev

LEMMA RoomsMoveOn ==
  ASSUME BrowserInv, [Next]_vars
  PROVE  RoomsMove
<1>1. server \in [Room -> ServerRoom] /\ server' \in [Room -> ServerRoom]
  BY NextKeeps DEF BrowserInv, TypeOK
<1>2. ASSUME NEW req \in Request, NEW reply \in Reply, Handles(req, reply)
      PROVE  RoomsMove
  <2>1. req.room \in Room /\ server[req.room].rev \in Int
    BY <1>1 DEF Request, ServerRoom
  <2>2. CASE reply.status = "ok"
    <3>1. /\ req.rev = server[req.room].rev /\ server'[req.room].rev = req.rev + 1
          /\ \A r \in Room : r # req.room => server'[r] = server[r]
      BY <1>2, <2>2, HandlesIs DEF BrowserInv
    <3> QED BY <1>1, <2>1, <3>1 DEF RoomsMove
  <2>3. CASE reply.status # "ok"
    <3>1. server' = server
      BY <1>2, <2>3, HandlesIs DEF BrowserInv
    <3> QED BY <1>1, <3>1 DEF RoomsMove
  <2> QED BY <2>2, <2>3
<1>3. CASE Serve
  <2>1. act.req \in Request
    BY <1>3 DEF Serve, BrowserInv, Progress
  <2> QED BY <1>2, <1>3, <2>1 DEF Serve
<1>4. CASE ServeLate
  <2>1. late \in Request
    BY <1>4 DEF ServeLate, BrowserInv, TypeOK
  <2> QED BY <1>2, <1>4, <2>1 DEF ServeLate
<1>5. ASSUME NEW r \in Room, Others(r) \/ RoomGoes(r) PROVE RoomsMove
  <2>1. \A q \in Room : q # r => server'[q] = server[q]
    BY <1>1, <1>5 DEF Others, RoomGoes
  <2>2. \/ server'[r].rev = server[r].rev + 1
        \/ server'[r].rev = server[r].rev /\ server'[r].round = server[r].round
    BY <1>1, <1>5 DEF Others, RoomGoes, ServerRoom
  <2>3. server[r].rev \in Int
    BY <1>1 DEF ServerRoom
  <2> QED BY <1>1, <2>1, <2>2, <2>3 DEF RoomsMove
<1>6. CASE UNCHANGED server
  BY <1>1, <1>6 DEF RoomsMove
<1> QED BY <1>3, <1>4, <1>5, <1>6
        DEF Next, vars, JoinAsked, JoinServed, Joined, JoinFailed, Visible, RefreshAsked,
            RefreshServed, Refreshed, Beat, BeatAnswered, Push, Deliver, Break, StreamEnds, Click,
            Accepted, Stale, Refused, Lost, SyncServed, Confirmed, Resend, GivenUp

LEMMA HonestStays ==
  ASSUME RoomsMove, NEW v \in View \cup {None}, Honest(v, server)
  PROVE  Honest(v, server')
<1>1. CASE v \in View
  <2>1. v.room \in Room /\ v.rev \in Int
    BY <1>1 DEF View
  <2>2. server[v.room].rev \in Int /\ server'[v.room].rev \in Int
    BY <2>1 DEF RoomsMove, ServerRoom
  <2> QED BY <2>1, <2>2 DEF Honest, RoomsMove
<1>2. CASE v = None
  BY <1>2 DEF Honest
<1> QED BY <1>1, <1>2

LEMMA ReliableStays ==
  ASSUME RoomsMove, NEW req \in Request, Reliable(req, server)
  PROVE  Reliable(req, server')
<1>1. req.room \in Room /\ req.rev \in Int
  BY DEF Request
<1>2. server[req.room].rev \in Int /\ server'[req.room].rev \in Int
  BY <1>1 DEF RoomsMove, ServerRoom
<1> QED BY <1>1, <1>2 DEF Reliable, RoomsMove

LEMMA SnapshotIsHonest ==
  ASSUME TypeOK, NEW r \in Room
  PROVE  Honest(Snapshot(r), server)
<1>1. server[r].rev \in Int
  BY DEF TypeOK, ServerRoom
<1> QED BY <1>1, SnapshotIs DEF Honest

\* What the page may become without an acceptance: what it was, the form, or a view.
PageMoves ==
  \/ page'.state = page.state /\ page'.revision = page.revision
  \/ page'.state = None /\ page'.revision = 0
  \/ /\ page'.state \in View /\ page'.revision = page'.state.rev
     /\ Honest(page'.state, server)

LEMMA AppliedPageMoves ==
  ASSUME NEW p, NEW v \in View, Honest(v, server), p = Apply(page, v), page \in PageType,
         page'.state = p.state, page'.revision = p.revision
  PROVE  PageMoves
BY ApplyKeeps DEF PageMoves

LEMMA PageIsKnown ==
  ASSUME KnownInv, OneRoom, RoomsMove, PageMoves
  PROVE  /\ Honest(page.state, server)'
         /\ (\A r \in Room : page.revision <= server[r].rev)'
         /\ Lagging' => Lagging /\ page'.revision = page.revision
<1>1. page.state \in View \cup {None} /\ page.revision \in Int
  BY DEF KnownInv, BrowserInv, TypeOK
<1>2. \A r \in Room : server[r].rev \in Nat /\ server'[r].rev \in Nat
                       /\ server[r].rev <= server'[r].rev
  BY DEF RoomsMove, ServerRoom
<1>3. CASE page'.state = page.state /\ page'.revision = page.revision
  BY <1>1, <1>2, <1>3, HonestStays DEF KnownInv, Known, Lagging
<1>4. CASE page'.state = None /\ page'.revision = 0
  BY <1>2, <1>4 DEF Honest, Lagging
<1>5. CASE /\ page'.state \in View /\ page'.revision = page'.state.rev
           /\ Honest(page'.state, server)
  <2>1. Honest(page'.state, server')
    BY <1>5, HonestStays
  <2>2. page'.state.room \in Room /\ page'.state.rev \in Int
    BY <1>5 DEF View
  <2>3. \A r \in Room : page'.revision <= server'[r].rev
    BY <1>5, <2>1, <2>2, NoneAssumption DEF Honest, OneRoom
  <2> QED BY <1>2, <1>5, <2>1, <2>2, <2>3 DEF Lagging
<1> QED BY <1>3, <1>4, <1>5 DEF PageMoves

\* What travels to the page is honest when a step puts it on its way.
LEMMA StreamIsKnown ==
  ASSUME KnownInv, [Next]_vars
  PROVE  Honest(stream'.item, server)
<1>1. CASE Push
  <2>1. stream \in [room : Room \cup {None}, sent : 0..MaxRevision, item : View \cup {None}]
        /\ stream.room \in Room
    BY <1>1 DEF Push, KnownInv, BrowserInv, TypeOK
  <2>2. stream'.item = Snapshot(stream.room)
    BY <1>1, <2>1 DEF Push
  <2> QED BY <2>1, <2>2, SnapshotIsHonest DEF KnownInv, BrowserInv
<1>2. CASE stream'.item = None
  BY <1>2 DEF Honest
<1>3. CASE UNCHANGED stream
  BY <1>3 DEF KnownInv, Known
<1>4. ASSUME Joined \/ Visible \/ Break \/ LeaveLocal \/ Deliver PROVE stream'.item = None
  <2>1. stream \in [room : Room \cup {None}, sent : 0..MaxRevision, item : View \cup {None}]
        /\ page.room \in Room \cup {None}
    BY DEF KnownInv, BrowserInv, TypeOK
  <2> QED BY <1>4, <2>1, StreamIs DEF Joined, Visible, Break, LeaveLocal, Deliver
<1>5. ASSUME NEW ok, NEW outcome, Over(ok, outcome) PROVE LeaveLocal \/ UNCHANGED stream
  BY <1>5 DEF Over
<1> QED BY <1>1, <1>2, <1>3, <1>4, <1>5
        DEF Next, vars, Others, RoomGoes, JoinAsked, JoinServed, JoinFailed, RefreshAsked,
            RefreshServed, Refreshed, Beat, BeatAnswered, StreamEnds, Serve, ServeLate, Click,
            Accepted, Stale, Refused, Lost, SyncServed, Confirmed, Resend, GivenUp

LEMMA AnswersAreKnown ==
  ASSUME KnownInv, [Next]_vars
  PROVE  /\ joining' # None => Honest(joining'.answer, server)
         /\ refresh' # None => Honest(refresh'.answer, server)
<1>1. CASE JoinServed
  <2>1. joining \in [room : Room, auth : BOOLEAN, answer : View \cup {None}]
    BY <1>1 DEF JoinServed, KnownInv, BrowserInv, TypeOK
  <2>2. joining'.answer = Snapshot(joining.room) /\ UNCHANGED refresh
    BY <1>1, <2>1 DEF JoinServed
  <2> QED BY <2>1, <2>2, SnapshotIsHonest DEF KnownInv, BrowserInv, Known
<1>2. CASE RefreshServed
  <2>1. refresh \in [room : Room, answer : View \cup {None}]
    BY <1>2 DEF RefreshServed, KnownInv, BrowserInv, TypeOK
  <2>2. refresh'.answer = Snapshot(refresh.room) /\ UNCHANGED joining
    BY <1>2, <2>1 DEF RefreshServed
  <2> QED BY <2>1, <2>2, SnapshotIsHonest DEF KnownInv, BrowserInv, Known
<1>3. ASSUME NEW r \in Room, JoinAsked(r)
      PROVE  joining'.answer = None /\ UNCHANGED refresh
  BY <1>3 DEF JoinAsked
<1>4. CASE RefreshAsked
  BY <1>4 DEF RefreshAsked, KnownInv, Known, Honest
<1>5. CASE joining' \in {joining, None} /\ refresh' \in {refresh, None}
  BY <1>5 DEF KnownInv, Known
<1>6. CASE joining'.answer = None /\ UNCHANGED refresh
  BY <1>6 DEF KnownInv, Known, Honest
<1> QED BY <1>1, <1>2, <1>3, <1>4, <1>5, <1>6
        DEF Next, vars, Others, RoomGoes, Joined, JoinFailed, Visible, Refreshed, Beat,
            BeatAnswered, Push, Deliver, Break, StreamEnds, Serve, ServeLate, Click,
            Accepted, Stale, Refused, Lost, SyncServed, Confirmed, Resend, GivenUp

LEMMA SyncIsKnown ==
  ASSUME KnownInv, [Next]_vars
  PROVE  Honest(act'.answer, server)
<1>1. act \in Act /\ act.intent \in 0..MaxIntents /\ TypeOK
  BY IdsAre DEF KnownInv, BrowserInv, TypeOK
<1>2. CASE SyncServed
  <2>1. act.asks \in Room
    BY <1>1, <1>2 DEF SyncServed, Act
  <2>2. act'.answer = Snapshot(act.asks)
    BY <1>1, <1>2 DEF SyncServed, Act
  <2> QED BY <1>1, <2>1, <2>2, SnapshotIsHonest
<1>3. CASE act'.answer = None
  BY <1>3 DEF Honest
<1>4. CASE act'.answer = act.answer
  BY <1>4 DEF KnownInv, Known
<1>5. CASE act' = NoAct(act.intent)
  BY <1>1, <1>3, <1>5, NoActIs
<1>6. CASE Serve
  BY <1>1, <1>4, <1>6 DEF Serve, Act
<1>7. ASSUME NEW kind \in Kind, Click(kind) PROVE act'.answer = None
  BY <1>7 DEF Click, Send, NoAct
<1>8. CASE Resend
  BY <1>3, <1>8, ResendIs DEF KnownInv
<1>9. CASE Stale \/ act' = Syncing("confirming")
  BY <1>1, <1>4, <1>9, SyncingIs DEF Stale
<1> QED BY <1>2, <1>3, <1>4, <1>5, <1>6, <1>7, <1>8, <1>9
        DEF Next, vars, Others, RoomGoes, JoinAsked, JoinServed, Joined, JoinFailed, Visible,
            RefreshAsked, RefreshServed, Refreshed, Beat, BeatAnswered, Push, Deliver, Break,
            StreamEnds, ServeLate, Accepted, Refused, Lost, Confirmed, GivenUp, Over

\* Only an acceptance changes the page's revision without its table.
LEMMA OthersMovePage ==
  ASSUME KnownInv, [Next]_vars, ~(Accepted /\ act.kind = "play")
  PROVE  PageMoves
<1>1. page \in PageType /\ TypeOK
  BY DEF KnownInv, BrowserInv, TypeOK, PageType
<1>2. CASE UNCHANGED page
  BY <1>2 DEF PageMoves
<1>3. CASE LeaveLocal
  BY <1>1, <1>3, LeaveLocalIs DEF PageMoves
<1>4. CASE page' = SyncedPage
  <2>1. Honest(act.answer, server) /\ act.answer \in View \cup {None}
    BY <1>1 DEF KnownInv, Known, TypeOK, Act
  <2> QED BY <1>1, <1>4, <2>1, SyncedPageIs DEF PageMoves
<1>5. ASSUME NEW r \in Room, JoinAsked(r) PROVE PageMoves
  BY <1>1, <1>5 DEF JoinAsked, PageMoves, PageType
<1>6. CASE JoinFailed
  BY <1>1, <1>6 DEF JoinFailed, PageMoves, PageType
<1>7. CASE Joined
  <2>1. joining.answer \in View /\ Honest(joining.answer, server)
    BY <1>7 DEF Joined, KnownInv, BrowserInv, TypeOK, Known
  <2> DEFINE p == Apply(page, joining.answer)
  <2>2. p \in PageType
    BY <1>1, <2>1, ApplyKeeps
  <2>3. page' = [p EXCEPT !.token = TRUE, !.view = "table"]
    BY <1>7 DEF Joined
  <2>4. page'.state = p.state /\ page'.revision = p.revision
    BY <2>2, <2>3 DEF PageType
  <2> QED BY <1>1, <2>1, <2>4, AppliedPageMoves
<1>8. CASE Refreshed
  <2>1. CASE refresh.answer = None
    BY <1>2, <1>8, <2>1 DEF Refreshed
  <2>2. CASE refresh.answer # None
    <3>1. refresh.answer \in View /\ Honest(refresh.answer, server)
      BY <1>8, <2>2 DEF Refreshed, KnownInv, BrowserInv, TypeOK, Known
    <3>2. page' = Apply(page, refresh.answer)
      BY <1>8, <2>2 DEF Refreshed
    <3> QED BY <1>1, <3>1, <3>2, AppliedPageMoves
  <2> QED BY <2>1, <2>2
<1>9. CASE Deliver
  <2>1. stream.item \in View /\ Honest(stream.item, server)
    BY <1>9 DEF Deliver, KnownInv, BrowserInv, TypeOK, Known
  <2>2. page' = Apply(page, stream.item)
    BY <1>9 DEF Deliver
  <2> QED BY <1>1, <2>1, <2>2, AppliedPageMoves
<1>10. ASSUME NEW ok, NEW outcome, Over(ok, outcome) PROVE LeaveLocal \/ UNCHANGED page
  BY <1>10 DEF Over
<1> QED BY <1>2, <1>3, <1>4, <1>5, <1>6, <1>7, <1>8, <1>9, <1>10
        DEF Next, vars, Others, RoomGoes, JoinServed, Visible, RefreshAsked, RefreshServed, Beat,
            BeatAnswered, Push, Break, StreamEnds, Serve, ServeLate, Click, Accepted, Stale,
            Refused, Lost, SyncServed, Confirmed, Resend, GivenUp

LEMMA KnownKeeps ==
  ASSUME KnownInv, OneRoom, [Next]_vars
  PROVE  Known'
<1>1. RoomsMove
  BY RoomsMoveOn DEF KnownInv
<1>2. TypeOK'
  BY NextKeeps DEF KnownInv, BrowserInv
<1>3. Honest(stream.item, server)'
  <2>1. stream'.item \in View \cup {None}
    BY <1>2 DEF TypeOK
  <2> QED BY <1>1, <2>1, StreamIsKnown, HonestStays
<1>4. Honest(act.answer, server)'
  <2>1. act'.answer \in View \cup {None}
    BY <1>2 DEF TypeOK, Act
  <2> QED BY <1>1, <2>1, SyncIsKnown, HonestStays
<1>5. (joining # None => Honest(joining.answer, server))'
  <2>1. joining' # None => joining'.answer \in View \cup {None}
    BY <1>2 DEF TypeOK
  <2> QED BY <1>1, <2>1, AnswersAreKnown, HonestStays
<1>6. (refresh # None => Honest(refresh.answer, server))'
  <2>1. refresh' # None => refresh'.answer \in View \cup {None}
    BY <1>2 DEF TypeOK
  <2> QED BY <1>1, <2>1, AnswersAreKnown, HonestStays
<1>7. Honest(page.state, server)' /\ (\A r \in Room : page.revision <= server[r].rev)'
  <2>1. CASE Accepted /\ act.kind = "play"
    <3>1. /\ act.pc = "sending" /\ act.reply.status = "ok" /\ page \in PageType
          /\ page' = [page EXCEPT !.revision = act.reply.rev] /\ server' = server
      BY <2>1 DEF Accepted, KnownInv, BrowserInv, TypeOK, PageType
    <3>2. act.req.room \in Room /\ act.reply.rev <= server[act.req.room].rev
      BY <3>1 DEF KnownInv, BrowserInv, Progress, Sent, Request
    <3>3. page'.state = page.state /\ page'.revision = act.reply.rev
      BY <3>1 DEF PageType
    <3> QED BY <3>1, <3>2, <3>3 DEF OneRoom, KnownInv, Known
  <2>2. CASE ~(Accepted /\ act.kind = "play")
    BY <1>1, <2>2, OthersMovePage, PageIsKnown
  <2> QED BY <2>1, <2>2
<1> QED BY <1>3, <1>4, <1>5, <1>6, <1>7 DEF Known

\* A send that is late was made like any other.
LEMMA LateIsReliable ==
  ASSUME KnownInv, [Next]_vars
  PROVE  (late # None => Reliable(late, server))'
<1>1. RoomsMove /\ TypeOK
  BY RoomsMoveOn DEF KnownInv, BrowserInv
<1>2. CASE late' = late
  BY <1>1, <1>2, ReliableStays DEF KnownInv, Sent, TypeOK
<1>3. CASE late' = None
  BY <1>3
<1>4. CASE Lost /\ late' = act.req
  <2>1. act.req \in Request /\ Reliable(act.req, server)
    BY <1>4 DEF Lost, KnownInv, BrowserInv, Progress, Sent
  <2> QED BY <1>1, <1>4, <2>1, ReliableStays
<1> QED BY <1>2, <1>3, <1>4
        DEF Next, vars, Others, RoomGoes, JoinAsked, JoinServed, Joined, JoinFailed, Visible,
            RefreshAsked, RefreshServed, Refreshed, Beat, BeatAnswered, Push, Deliver, Break,
            StreamEnds, Serve, ServeLate, Click, Accepted, Stale, Refused, Lost, SyncServed,
            Confirmed, Resend, GivenUp

\* What a click waits for, when nothing becomes of it.
LEMMA SentStays ==
  ASSUME KnownInv, OneRoom, RoomsMove, PageMoves, UNCHANGED act,
         (late # None => Reliable(late, server))'
  PROVE  Sent'
<1>1. Lagging' => Lagging /\ page'.revision = page.revision
  BY PageIsKnown
<1>2. \A r \in Room : server[r].rev \in Nat /\ server'[r].rev \in Nat
                       /\ server[r].rev <= server'[r].rev
  BY DEF RoomsMove, ServerRoom
<1>3. page.revision \in Int /\ act.reply.rev \in Int
  BY DEF KnownInv, BrowserInv, TypeOK, Act, Reply
<1>4. act.pc = "sending" =>
        /\ act.req \in Request /\ act.req.room \in Room /\ act.req.rev \in Int
        /\ Reliable(act.req, server')
  BY ReliableStays DEF KnownInv, BrowserInv, Progress, Sent, Request
<1> QED BY <1>1, <1>2, <1>3, <1>4 DEF KnownInv, Sent

LEMMA SentKeeps ==
  ASSUME KnownInv, OneRoom, [Next]_vars
  PROVE  Sent'
<1>0. (late # None => Reliable(late, server))'
  BY LateIsReliable
<1>1. RoomsMove /\ TypeOK /\ TypeOK'
  BY RoomsMoveOn, NextKeeps DEF KnownInv, BrowserInv
<1>2. CASE UNCHANGED act
  <2>1. ~Accepted
    BY <1>2, SyncingIs, NoActIs, IdsAre, <1>1 DEF Accepted, Over
  <2> QED BY <1>0, <1>1, <1>2, <2>1, OthersMovePage, SentStays
<1>3. CASE act' = NoAct(act.intent)
  BY <1>0, <1>1, <1>3, NoActIs, IdsAre DEF Sent, NoAct
<1>4. CASE Serve
  <2>1. PICK reply \in Reply : Handles(act.req, reply) /\ act' = [act EXCEPT !.reply = reply]
    BY <1>4 DEF Serve
  <2>2. /\ act \in Act /\ act.req \in Request /\ act.req.room \in Room /\ act.req.rev \in Int
        /\ act.pc = "sending" /\ Reliable(act.req, server)
        /\ Lagging => page.revision = act.req.rev
    BY <1>4 DEF Serve, KnownInv, BrowserInv, TypeOK, Progress, Sent, Request
  <2>3. /\ act'.pc = "sending" /\ act'.req = act.req /\ act'.reply = reply /\ page' = page
    BY <1>4, <2>1, <2>2 DEF Serve, Act
  <2>4. Reliable(act.req, server')
    BY <1>1, <2>2, ReliableStays
  <2>5. Lagging' => page'.revision = act'.req.rev
    BY <2>2, <2>3 DEF Lagging
  <2>6. reply.status = "stale" => act.req.rev < server'[act.req.room].rev
    <3>1. reply.status = "stale" => act.req.rev # server[act.req.room].rev /\ server' = server
      BY <2>1, <2>2, HandlesIs DEF KnownInv, BrowserInv
    <3>2. server[act.req.room].rev \in Int
      BY <1>1, <2>2 DEF TypeOK, ServerRoom
    <3> QED BY <2>2, <3>1, <3>2 DEF Reliable
  <2>7. reply.status = "ok" => reply.rev <= server'[act.req.room].rev
    <3>1. reply.status = "ok" => reply.rev = server'[act.req.room].rev
      BY <2>1, <2>2, HandlesIs DEF KnownInv, BrowserInv
    <3>2. server'[act.req.room].rev \in Int
      BY <1>1, <2>2 DEF TypeOK, ServerRoom
    <3> QED BY <3>1, <3>2
  <2> QED BY <1>0, <2>3, <2>4, <2>5, <2>6, <2>7 DEF Sent
<1>5. ASSUME NEW kind \in Kind, Click(kind) PROVE Sent'
  <2> DEFINE i == act.intent + 1
             m == [NoAct(i) EXCEPT !.kind = kind, !.round = page.state.round]
  <2>1. /\ i \in Intent /\ page.room \in Room /\ page.state.round \in 0..MaxRevision
        /\ 1 \in Attempt
    BY <1>5, BrowserAssumption
       DEF Click, KnownInv, BrowserInv, TypeOK, Seated, Act, Intent, Attempt, View
  <2>2. act' = Send(m, 1) /\ UNCHANGED <<server, page>>
    BY <1>5 DEF Click
  <2>3. NoAct(i) \in Act /\ NoAct(i).intent = i
    BY <2>1, NoActIs DEF Intent
  <2>4. m \in Act /\ m.intent = i
    BY <1>5, <2>1, <2>3 DEF Act
  <2> HIDE DEF m, i
  <2>5. /\ Send(m, 1).pc = "sending" /\ Send(m, 1).reply = Said("none")
        /\ Send(m, 1).req = [room |-> page.room, id |-> <<m.intent, 1>>, kind |-> m.kind,
                             rev |-> page.revision, round |-> m.round, auth |-> page.token]
    BY <1>1, <2>1, <2>4, SendIs
  <2>6. /\ act'.pc = "sending" /\ act'.reply.status = "none" /\ act'.req.room = page.room
        /\ act'.req.rev = page.revision /\ act'.req.id[2] = 1
    BY <2>2, <2>5 DEF Said
  <2>7. Reliable(act'.req, server')
    BY <2>1, <2>2, <2>6 DEF Reliable, KnownInv, Known
  <2> QED BY <1>0, <2>2, <2>6, <2>7 DEF Sent
<1>6. CASE Accepted /\ act' = Syncing("confirming")
  BY <1>0, <1>6 DEF Syncing, Sent, Act, Accepted
<1>7. CASE Stale
  <2>1. /\ act.pc = "sending" /\ act.reply.status = "stale" /\ UNCHANGED <<server, page>>
        /\ act' = Syncing("refreshing") /\ act \in Act
    BY <1>1, <1>7 DEF Stale, Synchronizes, TypeOK
  <2>2. act'.pc = "refreshing" /\ act'.req = None
    BY <2>1 DEF Syncing, Act
  <2>3. act.req.room \in Room /\ act.req.rev < server[act.req.room].rev
        /\ (Lagging => page.revision = act.req.rev)
    BY <2>1 DEF KnownInv, BrowserInv, Progress, Sent, Request
  <2>4. Lagging' => \A r \in Room : page'.revision < server'[r].rev
    BY <2>1, <2>3 DEF OneRoom, Lagging
  <2> QED BY <1>0, <2>2, <2>4 DEF Sent
<1>8. CASE SyncServed
  <2>1. /\ act \in Act /\ act.pc \in {"refreshing", "confirming"} /\ UNCHANGED <<server, page>>
        /\ act' = [act EXCEPT !.answer = Snapshot(act.asks)]
    BY <1>1, <1>8 DEF SyncServed, TypeOK
  <2>2. act'.pc = act.pc /\ act'.req = act.req
    BY <2>1 DEF Act
  <2> QED BY <1>0, <2>1, <2>2 DEF KnownInv, Sent, Lagging
<1>9. CASE Resend
  <2>1. /\ act'.pc = "sending" /\ act'.reply = Said("none") /\ page.room \in Room
        /\ act'.req = [room |-> page.room, id |-> <<act.intent, act.attempt + 1>>,
                       kind |-> act.kind, rev |-> SyncedPage.revision, round |-> act.round,
                       auth |-> page.token]
    BY <1>9, ResendIs DEF KnownInv
  <2>2. /\ act'.reply.status = "none" /\ act'.req.room = page.room
        /\ act'.req.rev = page'.revision /\ act'.req.round = act.round
    BY <1>9, <2>1 DEF Said, Resend
  <2>3. /\ page' = SyncedPage /\ server' = server /\ act.pc = "refreshing"
        /\ page'.state # None /\ page'.state.round = act.round
    BY <1>9 DEF Resend, MayResend, StillValid
  <2>4. /\ page'.revision <= server[page.room].rev
        /\ Honest(page'.state, server)
        /\ Lagging' => page'.revision < server[page.room].rev
    <3>1. PageMoves
      BY <1>9, OthersMovePage DEF Resend, Accepted
    <3>2. /\ Honest(page'.state, server') /\ \A r \in Room : page'.revision <= server'[r].rev
          /\ Lagging' => Lagging /\ page'.revision = page.revision
      BY <1>1, <3>1, PageIsKnown
    <3> QED BY <2>1, <2>3, <3>2 DEF KnownInv, Sent
  <2>5. page'.state.room = page.room
    <3>1. page'.state \in View
      BY <1>1, <2>3 DEF TypeOK
    <3> QED BY <2>1, <3>1 DEF View, OneRoom
  <2>6. Reliable(act'.req, server')
    <3>1. page'.revision = server[page.room].rev => act.round = server[page.room].round
      BY <1>1, <2>1, <2>3, <2>4, <2>5 DEF Lagging, Honest, TypeOK, ServerRoom
    <3> QED BY <2>2, <2>3, <2>4, <3>1 DEF Reliable
  <2> QED BY <1>0, <2>1, <2>2, <2>6 DEF Sent
<1> QED BY <1>2, <1>3, <1>4, <1>5, <1>6, <1>7, <1>8, <1>9
        DEF Next, vars, Others, RoomGoes, JoinAsked, JoinServed, Joined, JoinFailed, Visible,
            RefreshAsked, RefreshServed, Refreshed, Beat, BeatAnswered, Push, Deliver, Break,
            StreamEnds, ServeLate, Accepted, Refused, Lost, Confirmed, GivenUp, Over

LEMMA KnownInit == Init => KnownInv
<1> SUFFICES ASSUME Init PROVE KnownInv
  OBVIOUS
<1>1. NoAct(0).pc = "idle" /\ NoAct(0).req = None /\ NoAct(0).answer = None
  BY NoActIs, BrowserAssumption DEF NoAct
<1>2. Known /\ Sent
  BY <1>1, StreamIs DEF Init, Known, Sent, Honest
<1> QED BY <1>2, InitHolds DEF KnownInv

\* A send, and a send that is late, are never of the same click.
LEMMA TakesEffectInRound ==
  ASSUME KnownInv, OneRoom, [Next]_vars,
         NEW req \in {late, act.req} \ {None}, req.id \in applied' \ applied, req.id[2] > 1
  PROVE  server[req.room].round = req.round
<1>1. ASSUME NEW q \in Request, NEW reply \in Reply, Handles(q, reply)
      PROVE  applied' \ applied \subseteq {q.id} /\ (applied' # applied => q.rev = server[q.room].rev)
  BY <1>1, HandlesIs DEF KnownInv, BrowserInv
<1>2. /\ act.pc = "sending" => act.req \in Request /\ act.req.id[1] = act.intent
                                /\ told[act.intent] = "pending" /\ Reliable(act.req, server)
      /\ act.pc # "sending" => act.req = None
      /\ late # None => late \in Request /\ told[late.id[1]] = "unreachable"
                        /\ Reliable(late, server)
  BY IdsAre DEF KnownInv, BrowserInv, Sent, Books, Progress, Busy
<1>3. late # None /\ act.req # None => late.id # act.req.id
  BY <1>2
<1>4. CASE Serve
  <2>1. act.req \in Request /\ Reliable(act.req, server)
    BY <1>2, <1>4 DEF Serve
  <2>2. req.id = act.req.id /\ act.req.rev = server[act.req.room].rev
    BY <1>1, <1>4, <2>1 DEF Serve
  <2>3. req = act.req
    BY <1>2, <1>3, <1>4, <2>2 DEF Serve
  <2> QED BY <2>1, <2>2, <2>3 DEF Reliable
<1>5. CASE ServeLate
  <2>1. late # None /\ late \in Request /\ Reliable(late, server)
    BY <1>2, <1>5 DEF ServeLate
  <2>2. req.id = late.id /\ late.rev = server[late.room].rev
    BY <1>1, <1>5, <2>1 DEF ServeLate
  <2>3. req = late
    BY <1>3, <2>1, <2>2
  <2> QED BY <2>1, <2>2, <2>3 DEF Reliable
<1> QED BY <1>4, <1>5
        DEF Next, vars, Others, RoomGoes, JoinAsked, JoinServed, Joined, JoinFailed, Visible,
            RefreshAsked, RefreshServed, Refreshed, Beat, BeatAnswered, Push, Deliver, Break,
            StreamEnds, Click, Accepted, Stale, Refused, Lost, SyncServed, Confirmed, Resend,
            GivenUp

\* No action takes effect, sent again, in another round than it was clicked in.
THEOREM ResendsStay ==
  ASSUME OneRoom
  PROVE  Spec => ResendsStayInRound
<1>1. ASSUME KnownInv, [Next]_vars
      PROVE  KnownInv'
  BY <1>1, NextKeeps, KnownKeeps, SentKeeps DEF KnownInv
<1>2. ASSUME KnownInv, [Next]_vars
      PROVE  [\A req \in {late, act.req} \ {None} :
                req.id \in applied' \ applied /\ req.id[2] > 1
                  => server[req.room].round = req.round]_vars
  BY <1>2, TakesEffectInRound
<1> QED BY <1>1, <1>2, KnownInit, PTL DEF Spec, ResendsStayInRound

-----------------------------------------------------------------------------
(* The other table on a screen: Terminal, taken as the instance Tui, for   *)
(* any courses of a table, prompts, sends and queues.  What each    *)
(* drawing keeps of the choices is KeptIsOnOffer.  That the stream brings  *)
(* the table is followed (Streamed) along the way of its last state: once  *)
(* the stream has sent the table as it is, so has the client it, and the   *)
(* hand of the events thread, or the queue, or the screen.                 *)

CONSTANTS Option, Courses, MaxQueue

VARIABLES course, table, live, client, events, queue, worker, input, screen, chosen, app

Tui == INSTANCE Terminal WITH stream <- events

\* What that module assumes of its constants.
TuiConstants ==
  /\ Sends \in Nat \ {0} /\ MaxRevision \in Nat \ {0} /\ MaxQueue \in Nat \ {0}
  /\ Courses \subseteq [Tui!Revision -> Tui!Contents]
  /\ None \notin Tui!Revision \cup Option

LEMMA SameCount == \A S : Tui!Cardinality(S) = Cardinality(S)
BY DEF Tui!Cardinality, Cardinality

USE SameCount DEF TuiConstants

\* Sequences of bounded length.
LEMMA BoundedIsSeq ==
  ASSUME NEW S, NEW n \in Nat, NEW q
  PROVE  q \in Tui!BoundedSeq(S, n) <=> q \in Seq(S) /\ Len(q) <= n
<1>1. ASSUME NEW m \in 0..n, q \in [1..m -> S]
      PROVE  q \in Seq(S) /\ Len(q) = m
  BY <1>1
<1>2. ASSUME q \in Seq(S), Len(q) <= n
      PROVE  Len(q) \in 0..n /\ q \in [1..Len(q) -> S]
  BY <1>2
<1> QED BY <1>1, <1>2 DEF Tui!BoundedSeq, Tui!SeqOf

LEMMA EmptyQueue ==
  ASSUME TuiConstants
  PROVE  <<>> \in Tui!BoundedSeq(Tui!Revision, MaxQueue)
<1>1. <<>> \in Seq(Tui!Revision) /\ Len(<<>>) <= MaxQueue /\ MaxQueue \in Nat
  OBVIOUS
<1> QED BY <1>1, BoundedIsSeq

\* An operation that starts.
LEMMA RunningType ==
  ASSUME TuiConstants, NEW op \in Tui!Operation
  PROVE  /\ Tui!Running(op) \in Tui!Worker
         /\ Tui!Running(op).answer = None /\ Tui!Running(op).pc \in {"sending", "syncing"}
<1>1. 1 \in 1..Sends
  OBVIOUS
<1> QED BY <1>1 DEF Tui!Running, Tui!Worker

LEMMA ShownType ==
  ASSUME TuiConstants, Tui!TypeOK, NEW r \in Tui!Revision
  PROVE  /\ Tui!Shown(r).part \in Tui!Part /\ Tui!Shown(r).offer \in SUBSET Option
         /\ Tui!Shown(r).slots \in Nat \ {0}
BY DEF Tui!TypeOK, Tui!Shown, Tui!Contents

Chosen == [cards : SUBSET Option, decision : Option \cup {None}]

\* Some prompt of the table asks for that many.
Asked(n) == \E r \in Tui!Revision : n <= Tui!Shown(r).slots

LEMMA FewerAreAsked ==
  ASSUME TuiConstants, Tui!TypeOK, NEW n \in Nat, Asked(n), NEW m \in Nat, m <= n
  PROVE  Asked(m)
<1>1. PICK r \in Tui!Revision : n <= Tui!Shown(r).slots
  BY DEF Asked
<1>2. m <= Tui!Shown(r).slots
  BY <1>1, ShownType
<1> QED BY <1>2 DEF Asked

\* The choices, drawn anew, are on offer, and no more than they were.
LEMMA KeptIsOnOffer ==
  ASSUME TuiConstants, Tui!TypeOK, IsFiniteSet(chosen.cards), Asked(Cardinality(chosen.cards)),
         NEW r \in Tui!Revision, NEW c, c = Tui!Kept(r)
  PROVE  /\ c \in Chosen /\ IsFiniteSet(c.cards) /\ Asked(Cardinality(c.cards))
         /\ Tui!Shown(r).part = "answers" => c.cards \subseteq Tui!Shown(r).offer
         /\ Tui!Shown(r).part = "decisions" => c.decision \in Tui!Shown(r).offer \cup {None}
<1>1. chosen \in Chosen /\ Cardinality(chosen.cards) \in Nat
  BY FS_CardinalityType DEF Tui!TypeOK, Chosen
<1>2. Tui!Shown(r).part \in Tui!Part /\ Tui!Shown(r).offer \in SUBSET Option
  BY ShownType
<1>3. CASE Tui!Shown(r).part = "answers"
  <2>1. c = [chosen EXCEPT !.cards = @ \cap Tui!Shown(r).offer]
    BY <1>3 DEF Tui!Kept
  <2>2. c.cards = chosen.cards \cap Tui!Shown(r).offer /\ c \in Chosen
    BY <1>1, <1>2, <2>1 DEF Chosen
  <2>3. IsFiniteSet(c.cards) /\ Cardinality(c.cards) <= Cardinality(chosen.cards)
    BY <2>2, FS_Subset
  <2>4. Asked(Cardinality(c.cards))
    BY <1>1, <2>3, FS_CardinalityType, FewerAreAsked
  <2> QED BY <1>3, <2>2, <2>3, <2>4
<1>4. CASE Tui!Shown(r).part = "decisions"
  <2>1. c = [chosen EXCEPT !.decision = IF @ \in Tui!Shown(r).offer THEN @ ELSE None]
    BY <1>4, Zenon DEF Tui!Kept
  <2>2. c \in Chosen /\ c.cards = chosen.cards
    BY <1>1, <1>2, <2>1 DEF Chosen
  <2>3. c.decision \in Tui!Shown(r).offer \cup {None}
    BY <1>1, <2>1 DEF Chosen
  <2> QED BY <1>4, <2>2, <2>3
<1>5. CASE Tui!Shown(r).part = "other"
  <2>1. c = [cards |-> {}, decision |-> None]
    BY <1>5, Zenon DEF Tui!Kept
  <2>2. c \in Chosen /\ IsFiniteSet(c.cards) /\ Cardinality(c.cards) = 0
    BY <2>1, FS_EmptySet DEF Chosen
  <2>3. Asked(Cardinality(c.cards))
    BY <1>1, <2>2, FewerAreAsked
  <2> QED BY <1>5, <2>2, <2>3
<1> QED BY <1>2, <1>3, <1>4, <1>5 DEF Tui!Part

-----------------------------------------------------------------------------
(* The invariant.                                                          *)

\* Once the stream has sent the table as it is, the client has it, and so has whatever
\* of the stream comes last: its hand, the queue, or the screen.
Streamed ==
  events.sent = table =>
    /\ client = table
    /\ events.hand # None => events.hand = table
    /\ events.hand = None /\ queue # <<>> => Tui!Last(queue) = table
    /\ (events.hand = None /\ queue = <<>> /\ ~app.closed /\ app.last = "event")
         => screen = table

\* Nobody is ahead of the table.
Behind ==
  /\ client <= table /\ events.sent <= table
  /\ worker.answer # None => worker.answer <= table
  /\ worker.pc = "answered" => worker.answer # None

TerminalInv == Tui!ChosenIsOnOffer /\ IsFiniteSet(chosen.cards) /\ Behind /\ Streamed

USE DEF TerminalInv

LEMMA TerminalInit ==
  ASSUME TuiConstants
  PROVE  Tui!Init => TerminalInv
<1> SUFFICES ASSUME Tui!Init PROVE TerminalInv
  OBVIOUS
<1>1. 1 \in Tui!Revision /\ 1 <= MaxRevision /\ 1 \in 1..Sends
  BY DEF Tui!Revision
<1>2. IsFiniteSet({}) /\ Cardinality({}) = 0
  BY FS_EmptySet
<1>3. worker \in Tui!Worker
  BY <1>1 DEF Tui!Init, Tui!Running, Tui!Worker, Tui!Operation
<1>4. queue \in Tui!BoundedSeq(Tui!Revision, MaxQueue)
  BY EmptyQueue DEF Tui!Init
<1>5. Tui!TypeOK
  BY <1>1, <1>2, <1>3, <1>4 DEF Tui!Init, Tui!TypeOK, Tui!NoInput
<1>6. \E r \in Tui!Revision : Cardinality(chosen.cards) <= Tui!Shown(r).slots
  <2>1. Tui!Shown(1).slots \in Nat \ {0}
    BY <1>1, <1>5, ShownType
  <2> QED BY <1>1, <1>2, <2>1 DEF Tui!Init
<1> QED BY <1>1, <1>2, <1>5, <1>6
        DEF Tui!Init, Tui!ChosenIsOnOffer, Behind, Streamed, Tui!Running

-----------------------------------------------------------------------------
(* The steps.                                                              *)

\* What is drawn is what is on offer.
LEMMA DrawnIsOnOffer ==
  ASSUME TuiConstants, TerminalInv, UNCHANGED course,
         \/ UNCHANGED <<screen, chosen>>
         \/ screen' \in Tui!Revision /\ chosen' = Tui!Kept(screen')
  PROVE  /\ screen' \in Tui!Revision
         /\ chosen' \in Chosen /\ IsFiniteSet(chosen.cards)'
         /\ Asked(Cardinality(chosen.cards))'
         /\ Tui!Shown(screen)'.part = "answers" => chosen'.cards \subseteq Tui!Shown(screen)'.offer
         /\ Tui!Shown(screen)'.part = "decisions" =>
              chosen'.decision \in Tui!Shown(screen)'.offer \cup {None}
<1>1. CASE UNCHANGED <<screen, chosen>>
  BY <1>1 DEF Tui!ChosenIsOnOffer, Tui!TypeOK, Chosen, Tui!Shown, Asked
<1>2. CASE screen' \in Tui!Revision /\ chosen' = Tui!Kept(screen')
  <2>0. Asked(Cardinality(chosen.cards))
    BY DEF Tui!ChosenIsOnOffer, Asked
  <2>1. /\ chosen' \in Chosen /\ IsFiniteSet(chosen'.cards) /\ Asked(Cardinality(chosen'.cards))
        /\ Tui!Shown(screen').part = "answers" => chosen'.cards \subseteq Tui!Shown(screen').offer
        /\ Tui!Shown(screen').part = "decisions" =>
             chosen'.decision \in Tui!Shown(screen').offer \cup {None}
    BY <1>2, <2>0, KeptIsOnOffer DEF Tui!ChosenIsOnOffer
  <2> QED BY <1>2, <2>1 DEF Tui!Shown, Asked
<1> QED BY <1>1, <1>2

\* The queue is a sequence of revisions.
LEMMA QueueType ==
  ASSUME TuiConstants, Tui!TypeOK
  PROVE  queue \in Seq(Tui!Revision) /\ Len(queue) <= MaxQueue
BY BoundedIsSeq DEF Tui!TypeOK

\* An applied revision moves the client to the later of the two.
LEMMA ApplyMoves ==
  ASSUME TuiConstants, Tui!TypeOK, NEW r \in Tui!Revision, r <= table, client <= table, Tui!Apply(r)
  PROVE  /\ client' \in Tui!Revision /\ client' <= table
         /\ client = table => client' = table
         /\ r = table => client' = table
BY DEF Tui!Apply, Tui!TypeOK, Tui!Revision

\* Steps that draw nothing and leave the stream's revisions alone.
LEMMA TableKeeps ==
  ASSUME TuiConstants, TerminalInv, Tui!Others \/ Tui!RoomGoes
  PROVE  TerminalInv'
<1>1. table' \in Tui!Revision /\ table' >= table /\ (table' # table => table' > events.sent)
  BY DEF Tui!Others, Tui!RoomGoes, Tui!TableMoves, Tui!Revision, Tui!ChosenIsOnOffer, Tui!TypeOK,
         Behind
<1>2. UNCHANGED <<course, client, events, queue, worker, input, screen, chosen, app>>
  BY DEF Tui!Others, Tui!RoomGoes
<1>3. live' \in BOOLEAN
  BY DEF Tui!Others, Tui!RoomGoes, Tui!ChosenIsOnOffer, Tui!TypeOK
<1>4. Tui!TypeOK'
  BY <1>1, <1>2, <1>3 DEF Tui!TypeOK, Tui!ChosenIsOnOffer
<1>5. Tui!ChosenIsOnOffer'
  BY <1>2, <1>4 DEF Tui!ChosenIsOnOffer, Tui!Shown
<1>6. client \in Int /\ table \in Int /\ events.sent \in Int /\ table' \in Int
      /\ worker.answer \in Tui!Revision \cup {None}
  BY <1>1 DEF Tui!ChosenIsOnOffer, Tui!TypeOK, Tui!Revision, Tui!Worker
<1>7. Behind'
  BY <1>1, <1>2, <1>6 DEF Behind, Tui!Revision
<1>8. Streamed'
  BY <1>1, <1>2, <1>6 DEF Streamed
<1> QED BY <1>2, <1>5, <1>7, <1>8

\* Steps of the worker.
LEMMA WorkKeeps ==
  ASSUME TuiConstants, TerminalInv, Tui!Work
  PROVE  TerminalInv'
<1>0. /\ worker \in Tui!Worker /\ table \in Tui!Revision /\ events.sent \in 0..MaxRevision
      /\ client \in Tui!Revision /\ Tui!TypeOK
  BY DEF Tui!ChosenIsOnOffer, Tui!TypeOK
<1>1. UNCHANGED <<course, events, queue, input, screen, chosen, app>>
  BY DEF Tui!Work, Tui!Accepted, Tui!Stale, Tui!SyncServed, Tui!Synced, Tui!Fails
<1>2. /\ table' \in Tui!Revision /\ table' >= table /\ (table' # table => table' > events.sent)
      /\ live' \in BOOLEAN
  <2>1. table' = table \/ (table < MaxRevision /\ table' = table + 1)
    BY DEF Tui!Work, Tui!Accepted, Tui!Stale, Tui!SyncServed, Tui!Synced, Tui!Fails, Tui!TableMoves
  <2>2. live' \in BOOLEAN
    BY DEF Tui!Work, Tui!Accepted, Tui!Stale, Tui!SyncServed, Tui!Synced, Tui!Fails, Tui!TypeOK,
           Tui!ChosenIsOnOffer
  <2> QED BY <1>0, <2>1, <2>2 DEF Tui!Revision, Behind
<1>3. /\ client' \in Tui!Revision /\ client' <= table'
      /\ client = table /\ table' = table => client' = table'
  <2>1. CASE Tui!Synced
    <3>1. worker.answer \in Tui!Revision /\ Tui!Apply(worker.answer) /\ table' = table
      BY <1>0, <2>1 DEF Tui!Synced, Tui!Worker, Behind
    <3> QED BY <1>0, <2>1, <3>1, ApplyMoves DEF Behind
  <2>2. CASE Tui!Accepted \/ Tui!Stale \/ Tui!SyncServed \/ Tui!Fails
    BY <1>0, <1>2, <2>2 DEF Tui!Accepted, Tui!Stale, Tui!SyncServed, Tui!Fails, Behind, Tui!Revision
  <2> QED BY <2>1, <2>2 DEF Tui!Work
<1>4. /\ worker' \in Tui!Worker
      /\ worker'.answer # None => worker'.answer <= table'
      /\ worker'.pc = "answered" => worker'.answer # None
  <2>0. \A a \in Tui!Revision : a <= table => a <= table'
    BY <1>0, <1>2 DEF Tui!Revision
  <2>1. CASE Tui!Accepted
    BY <1>0, <2>0, <2>1 DEF Tui!Accepted, Tui!Worker, Behind
  <2>2. CASE Tui!Stale
    BY <1>0, <2>0, <2>2 DEF Tui!Stale, Tui!Worker, Behind
  <2>3. CASE Tui!SyncServed
    <3>1. table <= table
      BY <1>0 DEF Tui!Revision
    <3> QED BY <1>0, <2>0, <2>3, <3>1 DEF Tui!SyncServed, Tui!Worker, Behind
  <2>4. CASE Tui!Synced
    <3>1. worker.attempt < Sends => worker.attempt + 1 \in 1..Sends
      BY <1>0 DEF Tui!Worker
    <3>2. worker' = [worker EXCEPT !.pc = "posted", !.answer = None,
                  !.result = IF @ = None /\ worker.op # "leave" THEN client' ELSE @]
            => worker' \in Tui!Worker /\ worker'.answer = None /\ worker'.pc = "posted"
      BY <1>0, <1>3 DEF Tui!Worker
    <3>3. worker.attempt < Sends
            /\ worker' = [worker EXCEPT !.pc = "sending", !.answer = None, !.attempt = @ + 1]
            => worker' \in Tui!Worker /\ worker'.answer = None /\ worker'.pc = "sending"
      BY <1>0, <3>1 DEF Tui!Worker
    <3>4. worker' = [worker EXCEPT !.pc = "posted", !.answer = None, !.failed = TRUE]
            => worker' \in Tui!Worker /\ worker'.answer = None /\ worker'.pc = "posted"
      BY <1>0 DEF Tui!Worker
    <3> QED BY <2>4, <3>2, <3>3, <3>4 DEF Tui!Synced
  <2>5. CASE Tui!Fails
    BY <1>0, <2>5 DEF Tui!Fails, Tui!Worker
  <2> QED BY <2>1, <2>2, <2>3, <2>4, <2>5 DEF Tui!Work
<1>5. Tui!TypeOK'
  BY <1>0, <1>1, <1>2, <1>3, <1>4 DEF Tui!TypeOK
<1>6. Tui!ChosenIsOnOffer'
  BY <1>1, <1>5 DEF Tui!ChosenIsOnOffer, Tui!Shown
<1>7. Behind'
  BY <1>0, <1>1, <1>2, <1>3, <1>4 DEF Behind, Tui!Revision
<1>8. Streamed'
  BY <1>0, <1>1, <1>2, <1>3 DEF Streamed, Tui!Revision
<1> QED BY <1>1, <1>6, <1>7, <1>8

\* Steps of the events thread.
LEMMA EventsKeep ==
  ASSUME TuiConstants, TerminalInv, Tui!Event \/ Tui!Put \/ Tui!Break
  PROVE  TerminalInv'
<1>0. /\ table \in Tui!Revision /\ client \in Tui!Revision /\ Tui!TypeOK /\ client <= table
      /\ events \in [sent : 0..MaxRevision, hand : Tui!Revision \cup {None}]
  BY DEF Tui!ChosenIsOnOffer, Tui!TypeOK, Behind
<1>1. UNCHANGED <<course, table, live, worker, input, screen, chosen, app>>
  BY DEF Tui!Event, Tui!Put, Tui!Break
<1>2. client' \in Tui!Revision /\ client' <= table /\ (client = table => client' = table)
  <2>1. CASE Tui!Event
    <3>1. table <= table /\ Tui!Apply(table)
      BY <1>0, <2>1 DEF Tui!Event, Tui!Revision
    <3> QED BY <1>0, <3>1, ApplyMoves
  <2>2. CASE Tui!Put \/ Tui!Break
    BY <1>0, <2>2 DEF Tui!Put, Tui!Break
  <2> QED BY <2>1, <2>2
<1>3. events' \in [sent : 0..MaxRevision, hand : Tui!Revision \cup {None}] /\ events'.sent <= table
  <2>1. CASE Tui!Event
    BY <1>0, <1>2, <2>1 DEF Tui!Event, Tui!Revision
  <2>2. CASE Tui!Put
    BY <1>0, <2>2 DEF Tui!Put, Behind
  <2>3. CASE Tui!Break
    BY <1>0, <2>3 DEF Tui!Break, Tui!Revision
  <2> QED BY <2>1, <2>2, <2>3
<1>4. queue' \in Tui!BoundedSeq(Tui!Revision, MaxQueue)
  <2>1. CASE Tui!Put
    <3>1. queue \in Seq(Tui!Revision) /\ Len(queue) < MaxQueue /\ events.hand \in Tui!Revision
      BY <1>0, <2>1, QueueType DEF Tui!Put
    <3>2. queue' \in Seq(Tui!Revision) /\ Len(queue') = Len(queue) + 1
      BY <2>1, <3>1 DEF Tui!Put
    <3>3. Len(queue') <= MaxQueue /\ MaxQueue \in Nat
      BY <3>1, <3>2
    <3> QED BY <3>2, <3>3, BoundedIsSeq
  <2>2. CASE Tui!Event \/ Tui!Break
    BY <1>0, <2>2 DEF Tui!Event, Tui!Break, Tui!TypeOK
  <2> QED BY <2>1, <2>2
<1>5. Tui!TypeOK'
  BY <1>0, <1>1, <1>2, <1>3, <1>4 DEF Tui!TypeOK
<1>6. Tui!ChosenIsOnOffer'
  BY <1>1, <1>5 DEF Tui!ChosenIsOnOffer, Tui!Shown
<1>7. Behind'
  BY <1>1, <1>2, <1>3 DEF Behind
<1>8. Streamed'
  <2>1. CASE Tui!Event
    <3>1. events'.hand = client' /\ client' = table
      <4>1. table <= table /\ Tui!Apply(table)
        BY <1>0, <2>1 DEF Tui!Event, Tui!Revision
      <4> QED BY <1>0, <2>1, <4>1, ApplyMoves DEF Tui!Event
    <3> QED BY <1>0, <1>1, <3>1 DEF Streamed
  <2>2. CASE Tui!Put
    <3>1. /\ queue \in Seq(Tui!Revision) /\ events.hand \in Tui!Revision
          /\ queue' = Append(queue, events.hand)
      BY <1>0, <2>2, QueueType DEF Tui!Put
    <3>2. Tui!Last(queue') = events.hand /\ queue' # <<>>
      BY <3>1 DEF Tui!Last
    <3>3. events' = [events EXCEPT !.hand = None] /\ client' = client /\ events.hand # None
      BY <2>2 DEF Tui!Put
    <3> QED BY <1>0, <1>1, <3>2, <3>3 DEF Streamed
  <2>3. CASE Tui!Break
    <3>1. events'.sent = 0 /\ table # 0
      BY <1>0, <2>3 DEF Tui!Break, Tui!Revision
    <3> QED BY <1>1, <3>1 DEF Streamed
  <2> QED BY <2>1, <2>2, <2>3
<1> QED BY <1>1, <1>6, <1>7, <1>8

\* The user interface draws what the stream brought, or what the worker posted.
LEMMA DrawingKeeps ==
  ASSUME TuiConstants, TerminalInv, Tui!Drain \/ Tui!Finished
  PROVE  TerminalInv'
<1>0. Tui!TypeOK /\ screen \in Tui!Revision /\ client \in Tui!Revision /\ app.closed \in BOOLEAN
      /\ app \in [closed : BOOLEAN, confirm : BOOLEAN, last : {"event", "result"}]
  BY DEF Tui!ChosenIsOnOffer, Tui!TypeOK
<1>1. UNCHANGED <<course, table, live, client, events, input>>
  BY DEF Tui!Drain, Tui!Finished
<1>2. CASE Tui!Drain
  <2>1. queue \in Seq(Tui!Revision) /\ queue # <<>>
    BY <1>0, <1>2, QueueType DEF Tui!Drain
  <2>2. Tui!Last(queue) \in Tui!Revision
    BY <2>1 DEF Tui!Last
  <2>3. /\ screen' = Tui!Last(queue) /\ chosen' = Tui!Kept(screen')
        /\ app' = [app EXCEPT !.last = "event"] /\ queue' = <<>> /\ worker' = worker
    BY <1>2 DEF Tui!Drain, Tui!Render, Tui!Newest
  <2>4. <<>> \in Tui!BoundedSeq(Tui!Revision, MaxQueue)
    BY EmptyQueue
  <2>5. /\ chosen' \in Chosen /\ IsFiniteSet(chosen.cards)' /\ Asked(Cardinality(chosen.cards))'
        /\ Tui!Shown(screen)'.part = "answers" => chosen'.cards \subseteq Tui!Shown(screen)'.offer
        /\ Tui!Shown(screen)'.part = "decisions" =>
             chosen'.decision \in Tui!Shown(screen)'.offer \cup {None}
    BY <1>1, <2>2, <2>3, DrawnIsOnOffer
  <2>6. app' \in [closed : BOOLEAN, confirm : BOOLEAN, last : {"event", "result"}]
    BY <1>0, <2>3
  <2>7. Tui!TypeOK'
    BY <1>0, <1>1, <2>2, <2>3, <2>4, <2>5, <2>6 DEF Tui!TypeOK, Chosen
  <2>8. Tui!ChosenIsOnOffer'
    BY <2>5, <2>7 DEF Tui!ChosenIsOnOffer, Asked
  <2>9. Behind'
    BY <1>1, <2>3 DEF Behind
  <2>10. Streamed'
    BY <1>1, <2>1, <2>3 DEF Streamed
  <2> QED BY <2>5, <2>8, <2>9, <2>10
<1>3. CASE Tui!Finished
  <2>1. /\ worker' = Tui!IdleWorker /\ queue' = queue
        /\ \/ app' = [app EXCEPT !.closed = TRUE] /\ UNCHANGED <<screen, chosen>>
           \/ UNCHANGED <<screen, chosen, app>>
           \/ \E r \in Tui!Revision : Tui!Render(r, "result")
    BY <1>0, <1>3 DEF Tui!Finished, Tui!TypeOK, Tui!Worker
  <2>2. Tui!IdleWorker \in Tui!Worker /\ Tui!IdleWorker.answer = None /\ Tui!IdleWorker.pc = "idle"
    <3>1. "none" \in Tui!Operation
      BY DEF Tui!Operation
    <3>2. Tui!Running("none") \in Tui!Worker /\ Tui!Running("none").answer = None
      BY <3>1, RunningType
    <3> QED BY <3>2 DEF Tui!IdleWorker, Tui!Worker
  <2>3. /\ UNCHANGED <<screen, chosen>> \/ (screen' \in Tui!Revision /\ chosen' = Tui!Kept(screen'))
        /\ app' \in [closed : BOOLEAN, confirm : BOOLEAN, last : {"event", "result"}]
        /\ (app'.closed \/ app'.last = "result" \/ UNCHANGED <<screen, app>>)
    BY <1>0, <2>1 DEF Tui!Render
  <2>4. /\ screen' \in Tui!Revision
        /\ chosen' \in Chosen /\ IsFiniteSet(chosen.cards)'
        /\ Asked(Cardinality(chosen.cards))'
        /\ Tui!Shown(screen)'.part = "answers" => chosen'.cards \subseteq Tui!Shown(screen)'.offer
        /\ Tui!Shown(screen)'.part = "decisions" =>
             chosen'.decision \in Tui!Shown(screen)'.offer \cup {None}
    BY <1>1, <2>3, DrawnIsOnOffer
  <2>5. Tui!TypeOK'
    BY <1>0, <1>1, <2>1, <2>2, <2>3, <2>4 DEF Tui!TypeOK, Chosen
  <2>6. Tui!ChosenIsOnOffer'
    BY <2>4, <2>5 DEF Tui!ChosenIsOnOffer, Asked
  <2>7. Behind'
    BY <1>1, <2>1, <2>2 DEF Behind
  <2>8. Streamed'
    BY <1>1, <2>1, <2>3 DEF Streamed
  <2> QED BY <2>4, <2>6, <2>7, <2>8
<1> QED BY <1>2, <1>3

HIDE SameCount

\* A click chooses no more than the prompt asks for, or was chosen before.
LEMMA ToggleIsBounded ==
  ASSUME TuiConstants, Tui!TypeOK, IsFiniteSet(chosen.cards), Asked(Cardinality(chosen.cards)),
         NEW key \in Option
  PROVE  /\ Tui!Toggled(key) \in SUBSET Option /\ Tui!Toggled(key) \subseteq chosen.cards \cup {key}
         /\ IsFiniteSet(Tui!Toggled(key)) /\ Asked(Cardinality(Tui!Toggled(key)))
<1>1. /\ chosen.cards \in SUBSET Option /\ screen \in Tui!Revision
      /\ Cardinality(chosen.cards) \in Nat /\ Tui!Shown(screen).slots \in Nat
  BY FS_CardinalityType, ShownType DEF Tui!TypeOK
<1>2. CASE key \in chosen.cards
  <2>1. Tui!Toggled(key) = chosen.cards \ {key}
    BY <1>2, Zenon DEF Tui!Toggled
  <2>2. /\ IsFiniteSet(Tui!Toggled(key))
        /\ Cardinality(Tui!Toggled(key)) = Cardinality(chosen.cards) - 1
    <3>1. /\ IsFiniteSet(chosen.cards \ {key})
          /\ Cardinality(chosen.cards \ {key})
               = IF key \in chosen.cards THEN Cardinality(chosen.cards) - 1
                 ELSE Cardinality(chosen.cards)
      BY FS_RemoveElement
    <3> QED BY <1>2, <2>1, <3>1
  <2>3. Asked(Cardinality(Tui!Toggled(key)))
    BY <1>1, <2>2, FS_CardinalityType, FewerAreAsked
  <2> QED BY <1>1, <2>1, <2>2, <2>3
<1>3. CASE key \notin chosen.cards /\ Cardinality(chosen.cards) < Tui!Shown(screen).slots
  <2>1. Tui!Toggled(key) = chosen.cards \cup {key}
    BY <1>3, SameCount, Zenon DEF Tui!Toggled
  <2>2. /\ IsFiniteSet(Tui!Toggled(key))
        /\ Cardinality(Tui!Toggled(key)) = Cardinality(chosen.cards) + 1
    <3>1. /\ IsFiniteSet(chosen.cards \cup {key})
          /\ Cardinality(chosen.cards \cup {key})
               = IF key \in chosen.cards THEN Cardinality(chosen.cards)
                 ELSE Cardinality(chosen.cards) + 1
      BY FS_AddElement
    <3> QED BY <1>3, <2>1, <3>1
  <2>3. Asked(Cardinality(chosen.cards) + 1)
    BY <1>1, <1>3 DEF Asked
  <2>4. Tui!Toggled(key) \in SUBSET Option
    BY <1>1, <2>1
  <2> QED BY <2>1, <2>2, <2>3, <2>4
<1>4. CASE key \notin chosen.cards /\ ~(Cardinality(chosen.cards) < Tui!Shown(screen).slots)
  <2>1. Tui!Toggled(key) = chosen.cards
    BY <1>4, SameCount, Zenon DEF Tui!Toggled
  <2> QED BY <1>1, <2>1
<1> QED BY <1>2, <1>3, <1>4

\* What the player does, and its handling.
LEMMA ActKeeps ==
  ASSUME TuiConstants, TerminalInv, Tui!Act
  PROVE  TerminalInv'
<1>1. input' \in [row : Option \cup {None}, button : Tui!Button \cup {None}]
  <2>1. Tui!Shown(screen).offer \in SUBSET Option
    BY ShownType DEF Tui!ChosenIsOnOffer, Tui!TypeOK
  <2> QED BY <2>1 DEF Tui!Act, Tui!NoInput
<1>2. UNCHANGED <<course, table, live, client, events, queue, worker, screen, chosen, app>>
  BY DEF Tui!Act
<1>3. Tui!ChosenIsOnOffer'
  BY <1>1, <1>2 DEF Tui!ChosenIsOnOffer, Tui!TypeOK, Tui!Shown
<1> QED BY <1>2, <1>3 DEF Behind, Streamed

LEMMA RowKeeps ==
  ASSUME TuiConstants, TerminalInv, Tui!RowSelected
  PROVE  TerminalInv'
<1>0. /\ Tui!TypeOK /\ input.row \in Option /\ chosen \in Chosen
      /\ Asked(Cardinality(chosen.cards))
  BY SameCount DEF Tui!RowSelected, Tui!ChosenIsOnOffer, Tui!TypeOK, Chosen, Asked
<1>1. UNCHANGED <<course, table, live, client, events, queue, worker, screen, app>>
  BY DEF Tui!RowSelected
<1>2. input' = Tui!NoInput
  BY DEF Tui!RowSelected
<1>3. Tui!Shown(screen).part \in Tui!Part /\ Tui!Shown(screen).offer \in SUBSET Option
  BY <1>0, ShownType DEF Tui!TypeOK
<1>4. /\ chosen' \in Chosen /\ IsFiniteSet(chosen'.cards) /\ Asked(Cardinality(chosen'.cards))
      /\ Tui!Shown(screen).part = "answers" => chosen'.cards \subseteq Tui!Shown(screen).offer
      /\ Tui!Shown(screen).part = "decisions" =>
           chosen'.decision \in Tui!Shown(screen).offer \cup {None}
  <2>1. CASE Tui!Selectable(input.row) /\ Tui!Shown(screen).part = "answers"
    <3>1. chosen' = [chosen EXCEPT !.cards = Tui!Toggled(input.row)]
      BY <2>1, Zenon DEF Tui!RowSelected
    <3>2. /\ Tui!Toggled(input.row) \in SUBSET Option
          /\ Tui!Toggled(input.row) \subseteq chosen.cards \cup {input.row}
          /\ IsFiniteSet(Tui!Toggled(input.row)) /\ Asked(Cardinality(Tui!Toggled(input.row)))
      BY <1>0, ToggleIsBounded
    <3>3. chosen' \in Chosen /\ chosen'.cards = Tui!Toggled(input.row)
      BY <1>0, <3>1, <3>2 DEF Chosen
    <3>4. chosen'.cards \subseteq Tui!Shown(screen).offer
      BY <2>1, <3>2, <3>3 DEF Tui!ChosenIsOnOffer, Tui!Selectable
    <3> QED BY <2>1, <3>2, <3>3, <3>4
  <2>2. CASE Tui!Selectable(input.row) /\ Tui!Shown(screen).part = "decisions"
    <3>1. chosen' = [chosen EXCEPT !.decision = input.row]
      BY <2>2, Zenon DEF Tui!RowSelected
    <3> QED BY <1>0, <2>2, <3>1 DEF Chosen, Tui!Selectable
  <2>3. CASE ~Tui!Selectable(input.row) \/ Tui!Shown(screen).part = "other"
    <3>1. chosen' = chosen
      BY <2>3, Zenon DEF Tui!RowSelected
    <3> QED BY <1>0, <3>1 DEF Tui!ChosenIsOnOffer
  <2> QED BY <1>3, <2>1, <2>2, <2>3 DEF Tui!Part
<1>5. Tui!TypeOK'
  BY <1>0, <1>1, <1>2, <1>4, SameCount DEF Tui!TypeOK, Chosen, Tui!NoInput
<1>6. Tui!ChosenIsOnOffer'
  BY <1>1, <1>4, <1>5, SameCount DEF Tui!ChosenIsOnOffer, Tui!Shown, Asked
<1> QED BY <1>1, <1>4, <1>6 DEF Behind, Streamed

LEMMA ButtonKeeps ==
  ASSUME TuiConstants, TerminalInv, Tui!ButtonPressed \/ Tui!LeaveKey
  PROVE  TerminalInv'
<1>0. /\ Tui!TypeOK /\ input.button \in Tui!Button \cup {None} /\ worker \in Tui!Worker
      /\ input \in [row : Option \cup {None}, button : Tui!Button \cup {None}]
      /\ app \in [closed : BOOLEAN, confirm : BOOLEAN, last : {"event", "result"}]
  BY DEF Tui!ChosenIsOnOffer, Tui!TypeOK
<1>1. UNCHANGED <<course, table, live, client, events, queue, screen, chosen>>
  BY DEF Tui!ButtonPressed, Tui!LeaveKey
<1>2. \/ worker' = worker
      \/ \E op \in Tui!Operation : worker' = Tui!Running(op)
  <2>1. CASE Tui!LeaveKey
    BY <2>1 DEF Tui!LeaveKey, Tui!Run, Tui!Operation
  <2>2. CASE Tui!ButtonPressed
    <3>1. /\ input.button = "play" => UNCHANGED worker \/ Tui!Run("play")
          /\ input.button = "refresh" => Tui!Run("sync")
          /\ input.button = "leave" => Tui!Run("leave")
          /\ input.button = "end" => UNCHANGED worker \/ Tui!Run("end")
      BY <2>2, Zenon DEF Tui!ButtonPressed
    <3>2. input.button \in {"play", "refresh", "leave", "end"}
      BY <1>0, <2>2 DEF Tui!ButtonPressed, Tui!Button
    <3> QED BY <3>1, <3>2 DEF Tui!Run, Tui!Operation
  <2> QED BY <2>1, <2>2
<1>3. /\ input' \in [row : Option \cup {None}, button : Tui!Button \cup {None}]
      /\ app' \in [closed : BOOLEAN, confirm : BOOLEAN, last : {"event", "result"}]
      /\ app'.closed = app.closed /\ app'.last = app.last
  <2>1. input' \in {input, Tui!NoInput}
    BY Zenon DEF Tui!ButtonPressed, Tui!LeaveKey
  <2>2. app' = app \/ \E c \in BOOLEAN : app' = [app EXCEPT !.confirm = c]
    <3>1. CASE Tui!LeaveKey
      BY <3>1 DEF Tui!LeaveKey
    <3>2. CASE Tui!ButtonPressed
      <4>1. /\ input.button \in {"play", "refresh", "leave"}
                 => app' = [app EXCEPT !.confirm = FALSE]
            /\ input.button = "end" => app' = [app EXCEPT !.confirm = IF Tui!Busy THEN @ ELSE ~@]
        BY <3>2, Zenon DEF Tui!ButtonPressed
      <4>2. input.button \in {"play", "refresh", "leave", "end"}
        BY <1>0, <3>2 DEF Tui!ButtonPressed, Tui!Button
      <4>3. (IF Tui!Busy THEN app.confirm ELSE ~app.confirm) \in BOOLEAN
        BY <1>0
      <4> QED BY <4>1, <4>2, <4>3
    <3> QED BY <3>1, <3>2
  <2> QED BY <1>0, <2>1, <2>2 DEF Tui!NoInput
<1>4. /\ worker' \in Tui!Worker
      /\ worker'.answer # None => worker'.answer <= table
      /\ worker'.pc = "answered" => worker'.answer # None
  BY <1>0, <1>2, RunningType DEF Behind
<1>5. Tui!TypeOK'
  BY <1>0, <1>1, <1>3, <1>4 DEF Tui!TypeOK
<1>6. Tui!ChosenIsOnOffer'
  BY <1>1, <1>5 DEF Tui!ChosenIsOnOffer, Tui!Shown
<1> QED BY <1>1, <1>3, <1>4, <1>6 DEF Behind, Streamed

LEMMA TerminalNext ==
  ASSUME TuiConstants, TerminalInv, [Tui!Next]_(Tui!vars)
  PROVE  TerminalInv'
<1>1. CASE UNCHANGED Tui!vars
  BY <1>1 DEF Tui!vars, Tui!ChosenIsOnOffer, Tui!TypeOK, Tui!Shown, Behind, Streamed
<1> QED BY <1>1, TableKeeps, WorkKeeps, EventsKeep, DrawingKeeps, ActKeeps, RowKeeps, ButtonKeeps
        DEF Tui!Next

\* Whatever the three threads do in whichever order, what is chosen is on the screen,
\* and never more than some prompt of the table asked for; the one on the screen may
\* ask for fewer (together_tui.py:253-281, 302-319).
THEOREM ChoicesAreOnOffer ==
  ASSUME TuiConstants
  PROVE  Tui!Spec => []Tui!ChosenIsOnOffer
<1>1. TerminalInv => Tui!ChosenIsOnOffer
  OBVIOUS
<1> QED BY <1>1, TerminalInit, TerminalNext, PTL DEF Tui!Spec

\* Whatever results, queued events and reconnections came before, when all is quiet and
\* the stream was drawn last, the screen shows the table as it is.
THEOREM StreamBringsTheTable ==
  ASSUME TuiConstants
  PROVE  Tui!Spec => []Tui!EventsBringTheTable
<1>1. TerminalInv => Tui!EventsBringTheTable
  BY DEF Streamed, Tui!EventsBringTheTable, Tui!AllQuiet
<1> QED BY <1>1, TerminalInit, TerminalNext, PTL DEF Tui!Spec
=============================================================================
