------------------------------ MODULE Browser -------------------------------
(***************************************************************************)
(* The browser's table: web/together.js against the rooms of the server.   *)
(* Everything runs on one thread, but every await lets the others go on:   *)
(* a join, a Refresh, a mutation with its synchronizations, a heartbeat    *)
(* and the event stream are tasks that take up the same page where they    *)
(* left it, whatever has become of it meanwhile.                           *)
(*                                                                         *)
(* A room is one file on the server: a code that is taken again after its  *)
(* room is gone is another room.  Requests and answers may be lost, and a  *)
(* request nobody waits for may still arrive.  What an operation demands   *)
(* is module Room's business: here it may be refused at any time; our      *)
(* player hosts the room.  Which cards are picked, and how anything is     *)
(* drawn, is left out.                                                     *)
(***************************************************************************)
EXTENDS Integers, FiniteSets

CONSTANTS
  Room,         \* rooms that the player may join from one page
  MaxIntents,   \* bound: clicks on an action
  Sends,        \* sends of one action: 3
  MaxRevision,  \* bound: rooms move up to this revision
  None

ASSUME BrowserAssumption ==
  MaxIntents \in Nat \ {0} /\ Sends \in Nat \ {0} /\ MaxRevision \in Nat \ {0}

Intent == 1..MaxIntents
Attempt == 1..Sends
Id == Intent \X Attempt    \* requestId: a fresh one for every send

VARIABLES
  server,    \* the rooms
  applied,   \* the requests that took effect
  late,      \* a send nobody waits for any more, still on its way
  page,      \* the globals of the page
  saved,     \* the rooms whose session is in local storage
  joining,   \* join
  refresh,   \* the sync of the Refresh button
  act,       \* mutate, and the click that called it
  beat,      \* the room of a heartbeat on its way
  stream,    \* the event stream
  told,      \* what the player was told of each intent
  lowered    \* history: an acceptance was overtaken by its own event

vars == <<server, applied, late, page, saved, joining, refresh, act, beat, stream, told, lowered>>

View == [room : Room, rev : 1..MaxRevision, round : 0..MaxRevision, fits : BOOLEAN]

ASSUME NoneAssumption == None \notin Room \cup View

ServerRoom ==
  [rev : 1..MaxRevision, round : 0..MaxRevision,
   fits : BOOLEAN,       \* our player may play now, or choose what they chose
   live : BOOLEAN]

Kind == {"play", "leave", "end"}

Request == [room : Room, id : Id, kind : Kind, rev : 0..MaxRevision, round : 0..MaxRevision,
            auth : BOOLEAN]

Reply == [status : {"none", "ok", "stale", "refused", "gone"}, rev : 0..MaxRevision]

Said(status) == [status |-> status, rev |-> 0]

Act ==
  [pc : {"idle", "sending", "refreshing", "confirming"}, intent : 0..MaxIntents,
   kind : Kind, round : 0..MaxRevision, attempt : Attempt,
   req : Request \cup {None}, reply : Reply,
   asks : Room \cup {None},         \* of the sync under way: the room, if with a token
   answer : View \cup {None}]

TypeOK ==
  /\ server \in [Room -> ServerRoom]
  /\ applied \subseteq Id
  /\ late \in Request \cup {None}
  /\ page \in [view : {"join", "table"}, room : Room \cup {None}, token : BOOLEAN,
               state : View \cup {None}, revision : 0..MaxRevision]
  /\ saved \subseteq Room
  /\ joining \in [room : Room, auth : BOOLEAN, answer : View \cup {None}] \cup {None}
  /\ refresh \in [room : Room, answer : View \cup {None}] \cup {None}
  /\ act \in Act
  /\ beat \in Room \cup {None}
  /\ stream \in [room : Room \cup {None}, sent : 0..MaxRevision, item : View \cup {None}]
  /\ told \in [Intent -> {"none", "pending", "ok", "stale", "refused", "gone", "unreachable"}]
  /\ lowered \in BOOLEAN

NoStream == [room |-> None, sent |-> 0, item |-> None]

NoAct(n) ==
  [pc |-> "idle", intent |-> n, kind |-> "play", round |-> 0, attempt |-> 1,
   req |-> None, reply |-> Said("none"), asks |-> None, answer |-> None]

Init ==
  /\ server = [r \in Room |-> [rev |-> 1, round |-> 0, fits |-> TRUE, live |-> TRUE]]
  /\ applied = {} /\ late = None
  /\ page = [view |-> "join", room |-> None, token |-> FALSE, state |-> None, revision |-> 0]
  /\ saved = {}
  /\ joining = None /\ refresh = None /\ act = NoAct(0) /\ beat = None
  /\ stream = NoStream
  /\ told = [i \in Intent |-> "none"] /\ lowered = FALSE

Busy == act.pc # "idle"

-----------------------------------------------------------------------------
(* The server.                                                             *)

Snapshot(r) ==
  [room |-> r, rev |-> server[r].rev, round |-> server[r].round, fits |-> server[r].fits]

\* The other players, and time.
Others(r) ==
  /\ server[r].live /\ server[r].rev < MaxRevision
  /\ \E moves \in {0, 1}, fits \in BOOLEAN :
       server' = [server EXCEPT ![r].rev = @ + 1, ![r].round = @ + moves, ![r].fits = fits]
  /\ UNCHANGED <<applied, late, page, saved, joining, refresh, act, beat, stream, told, lowered>>

RoomGoes(r) ==
  /\ server[r].live
  /\ server' = [server EXCEPT ![r].live = FALSE]
  /\ UNCHANGED <<applied, late, page, saved, joining, refresh, act, beat, stream, told, lowered>>

\* _mutation: what may become of a request.
Handles(req, reply) ==
  LET s == server[req.room]
  IN  \/ /\ \/ ~s.live /\ reply = Said("gone")
            \/ s.live /\ (req.auth => req.rev = s.rev) /\ reply = Said("refused")
            \/ s.live /\ req.auth /\ req.rev # s.rev /\ reply = Said("stale")
         /\ UNCHANGED <<server, applied>>
      \/ /\ s.live /\ req.auth /\ req.rev = s.rev /\ s.rev < MaxRevision
         /\ req.kind = "play" => s.fits
         /\ \E moves \in IF req.kind = "play" THEN {0, 1} ELSE {0}, fits \in BOOLEAN :
              server' = [server EXCEPT ![req.room].rev = @ + 1, ![req.room].round = @ + moves,
                                       ![req.room].fits = fits,
                                       ![req.room].live = req.kind # "end"]
         /\ applied' = applied \cup {req.id}
         /\ reply = [status |-> "ok", rev |-> s.rev + 1]

Serve ==
  /\ act.pc = "sending" /\ act.reply.status = "none"
  /\ \E reply \in Reply : Handles(act.req, reply) /\ act' = [act EXCEPT !.reply = reply]
  /\ UNCHANGED <<late, page, saved, joining, refresh, beat, stream, told, lowered>>

ServeLate ==
  /\ late # None
  /\ \E reply \in Reply : Handles(late, reply)
  /\ late' = None
  /\ UNCHANGED <<page, saved, joining, refresh, act, beat, stream, told, lowered>>

-----------------------------------------------------------------------------
(* The page.                                                               *)

Apply_drops_equal(p, v) ==
  IF v.rev <= p.revision THEN p ELSE [p EXCEPT !.revision = v.rev, !.state = v]

\* apply: a projection older than the revision is dropped.
Apply(p, v) == IF v.rev < p.revision THEN p ELSE [p EXCEPT !.revision = v.rev, !.state = v]

\* leaveLocal: back to the form; the controller of the stream is aborted.
LeaveLocal ==
  /\ page' = [page EXCEPT !.view = "join", !.token = FALSE, !.state = None, !.revision = 0]
  /\ stream' = NoStream

\* forgetSession, of the room the page is about now.
Forget == saved' = saved \ {page.room}

\* The form: a saved session is offered.
JoinAsked(r) ==
  /\ page.view = "join" /\ joining = None
  /\ page' = [page EXCEPT !.room = r, !.token = r \in saved]
  /\ joining' = [room |-> r, auth |-> r \in saved, answer |-> None]
  /\ UNCHANGED <<server, applied, late, saved, refresh, act, beat, stream, told, lowered>>

JoinServed ==
  /\ joining # None /\ joining.answer = None
  /\ server[joining.room].live
  /\ joining' = [joining EXCEPT !.answer = Snapshot(joining.room)]
  /\ UNCHANGED <<server, applied, late, page, saved, refresh, act, beat, stream, told, lowered>>

\* The player is at the table: a new stream is started.
Joined ==
  /\ joining # None /\ joining.answer # None
  /\ page' = [Apply(page, joining.answer) EXCEPT !.token = TRUE, !.view = "table"]
  /\ saved' = saved \cup {page.room}
  /\ stream' = [NoStream EXCEPT !.room = page.room]
  /\ joining' = None /\ lowered' = FALSE
  /\ UNCHANGED <<server, applied, late, refresh, act, beat, told>>

\* No answer; or the room of a saved session is gone, which forgets the session (the
\* join that follows at once creates another room: it is a join of its own here, or
\* fails, which leaves the old token).
JoinFailed ==
  /\ joining # None
  /\ LET gone == ~server[joining.room].live
     IN  /\ page' = [page EXCEPT !.token = joining.auth]
         /\ IF gone /\ joining.auth THEN Forget ELSE UNCHANGED saved
  /\ joining' = None
  /\ UNCHANGED <<server, applied, late, refresh, act, beat, stream, told, lowered>>

\* visibilitychange: a token without a stream starts one.
Visible ==
  /\ page.token /\ stream.room = None
  /\ stream' = [NoStream EXCEPT !.room = page.room]
  /\ UNCHANGED <<server, applied, late, page, saved, joining, refresh, act, beat, told, lowered>>

\* The Refresh button does not make the page busy.
RefreshAsked ==
  /\ page.view = "table" /\ ~Busy /\ refresh = None
  /\ refresh' = [room |-> page.room, answer |-> None]
  /\ UNCHANGED <<server, applied, late, page, saved, joining, act, beat, stream, told, lowered>>

RefreshServed ==
  /\ refresh # None /\ refresh.answer = None
  /\ server[refresh.room].live
  /\ refresh' = [refresh EXCEPT !.answer = Snapshot(refresh.room)]
  /\ UNCHANGED <<server, applied, late, page, saved, joining, act, beat, stream, told, lowered>>

\* sync keeps its errors to itself.
Refreshed ==
  /\ refresh # None
  /\ page' = IF refresh.answer = None THEN page ELSE Apply(page, refresh.answer)
  /\ refresh' = None
  /\ UNCHANGED <<server, applied, late, saved, joining, act, beat, stream, told, lowered>>

Beat ==
  /\ page.view = "table" /\ page.token /\ beat = None
  /\ beat' = page.room
  /\ UNCHANGED <<server, applied, late, page, saved, joining, refresh, act, stream, told, lowered>>

\* A heartbeat that finds no room takes the page back to the form.
BeatAnswered ==
  /\ beat # None
  /\ beat' = None
  /\ IF server[beat].live THEN UNCHANGED <<page, stream>> ELSE LeaveLocal
  /\ UNCHANGED <<server, applied, late, saved, joining, refresh, act, told, lowered>>

-----------------------------------------------------------------------------
(* The event stream.                                                       *)

Push ==
  /\ stream.room # None /\ server[stream.room].live
  /\ stream.item = None /\ stream.sent # server[stream.room].rev
  /\ stream' = [stream EXCEPT !.sent = server[stream.room].rev, !.item = Snapshot(stream.room)]
  /\ UNCHANGED <<server, applied, late, page, saved, joining, refresh, act, beat, told, lowered>>

Deliver ==
  /\ stream.item # None
  /\ page' = Apply(page, stream.item)
  /\ stream' = [stream EXCEPT !.item = None]
  /\ UNCHANGED <<server, applied, late, saved, joining, refresh, act, beat, told, lowered>>

\* A stream that breaks is opened again, to the room the page is about now...
Break ==
  /\ stream.room # None /\ stream # [NoStream EXCEPT !.room = page.room]
  /\ stream' = [NoStream EXCEPT !.room = page.room]
  /\ UNCHANGED <<server, applied, late, page, saved, joining, refresh, act, beat, told, lowered>>

\* ...and one that finds no room takes the page back to the form.
StreamEnds ==
  /\ stream.room # None /\ ~server[stream.room].live
  /\ LeaveLocal
  /\ UNCHANGED <<server, applied, late, saved, joining, refresh, act, beat, told, lowered>>

-----------------------------------------------------------------------------
(* mutate.                                                                 *)

\* A send carries the room, the token and the revision of this moment.
Send(m, attempt) ==
  [m EXCEPT !.pc = "sending", !.attempt = attempt, !.reply = Said("none"),
            !.asks = None, !.answer = None,
            !.req = [room |-> page.room, id |-> <<m.intent, attempt>>, kind |-> m.kind,
                     rev |-> page.revision, round |-> m.round, auth |-> page.token]]

\* A click on an action that the page offers.
Click(kind) ==
  /\ page.view = "table" /\ page.state # None /\ ~Busy /\ act.intent < MaxIntents
  /\ kind = "play" => page.state.fits
  /\ LET i == act.intent + 1
     IN  /\ act' = Send([NoAct(i) EXCEPT !.kind = kind, !.round = page.state.round], 1)
         /\ told' = [told EXCEPT ![i] = "pending"]
  /\ UNCHANGED <<server, applied, late, page, saved, joining, refresh, beat, stream, lowered>>

\* A sync goes to the room, with the token, of this moment.
Syncing(pc) ==
  [act EXCEPT !.pc = pc, !.req = None, !.reply = Said("none"),
              !.asks = IF page.token THEN page.room ELSE None]

ForgetsSession_at_any_end(ok) == act.kind \in {"leave", "end"}

\* A leave forgets the session whatever the room says, an end only if confirmed.
ForgetsSession(ok) == act.kind = "leave" \/ (act.kind = "end" /\ ok)

\* mutate returns, and the click that called it goes on.
Over(ok, outcome) ==
  /\ act' = NoAct(act.intent)
  /\ told' = [told EXCEPT ![act.intent] = outcome]
  /\ IF ForgetsSession(ok) THEN Forget /\ LeaveLocal ELSE UNCHANGED <<saved, page, stream>>

Accepted ==
  /\ act.pc = "sending" /\ act.reply.status = "ok"
  /\ IF act.kind = "play"
     THEN /\ page' = [page EXCEPT !.revision = act.reply.rev]
          /\ lowered' = (lowered \/ act.reply.rev < page.revision)
          /\ act' = Syncing("confirming")
          /\ UNCHANGED <<saved, stream, told>>
     ELSE Over(TRUE, "ok") /\ UNCHANGED lowered
  /\ UNCHANGED <<server, applied, late, joining, refresh, beat>>

Synchronizes_after_any_failure(reply) == reply.status \in {"stale", "ok"}

\* Only stale_revision, which proves that nothing was done, leads to another send.
Synchronizes(reply) == reply.status = "stale"

\* Synchronize first.
Stale ==
  /\ act.pc = "sending" /\ Synchronizes(act.reply)
  /\ act' = Syncing("refreshing")
  /\ UNCHANGED <<server, applied, late, page, saved, joining, refresh, beat, stream, told, lowered>>

Refused ==
  /\ act.pc = "sending" /\ act.reply.status \in {"refused", "gone"}
  /\ Over(FALSE, act.reply.status)
  /\ UNCHANGED <<server, applied, late, joining, refresh, beat, lowered>>

\* No answer: not sent again.
Lost ==
  /\ act.pc = "sending"
  /\ late' \in {late, IF act.reply.status = "none" THEN act.req ELSE late}
  /\ Over(FALSE, "unreachable")
  /\ UNCHANGED <<server, applied, joining, refresh, beat, lowered>>

SyncServed ==
  /\ act.pc \in {"refreshing", "confirming"} /\ act.answer = None
  /\ act.asks # None /\ server[act.asks].live
  /\ act' = [act EXCEPT !.answer = Snapshot(act.asks)]
  /\ UNCHANGED <<server, applied, late, page, saved, joining, refresh, beat, stream, told, lowered>>

StillValid_in_any_round(p) == p.state # None /\ (act.kind = "play" => p.state.fits)

\* mutationStillValid.
StillValid(p) ==
  /\ p.state # None /\ p.state.round = act.round
  /\ act.kind = "play" => p.state.fits

MayResend_once_more(p) == act.attempt <= Sends /\ StillValid(p)

MayResend(p) == act.attempt < Sends /\ StillValid(p)

SyncedPage == IF act.answer = None THEN page ELSE Apply(page, act.answer)

\* The sync is over, with or without an answer: an accepted action is done...
Confirmed ==
  /\ act.pc = "confirming"
  /\ page' = SyncedPage
  /\ act' = NoAct(act.intent)
  /\ told' = [told EXCEPT ![act.intent] = "ok"]
  /\ UNCHANGED <<server, applied, late, saved, joining, refresh, beat, stream, lowered>>

\* ...a refused one is sent again, if the page still allows it...
Resend ==
  /\ act.pc = "refreshing" /\ MayResend(SyncedPage)
  /\ page' = SyncedPage
  /\ act' = [Send(act, act.attempt + 1) EXCEPT !.req.rev = SyncedPage.revision]
  /\ UNCHANGED <<server, applied, late, saved, joining, refresh, beat, stream, told, lowered>>

\* ..."The table moved before you did", or keeps moving.
GivenUp ==
  /\ act.pc = "refreshing" /\ ~MayResend(SyncedPage)
  /\ IF act.kind = "leave" THEN Over(FALSE, "stale")
     ELSE /\ page' = SyncedPage /\ act' = NoAct(act.intent)
          /\ told' = [told EXCEPT ![act.intent] = "stale"]
          /\ UNCHANGED <<saved, stream>>
  /\ UNCHANGED <<server, applied, late, joining, refresh, beat, lowered>>

Next ==
  \/ \E r \in Room : Others(r) \/ RoomGoes(r) \/ JoinAsked(r)
  \/ Serve \/ ServeLate
  \/ JoinServed \/ Joined \/ JoinFailed \/ Visible
  \/ RefreshAsked \/ RefreshServed \/ Refreshed \/ Beat \/ BeatAnswered
  \/ Push \/ Deliver \/ Break \/ StreamEnds
  \/ \E kind \in Kind : Click(kind)
  \/ Accepted \/ Stale \/ Refused \/ Lost
  \/ SyncServed \/ Confirmed \/ Resend \/ GivenUp

Spec == Init /\ [][Next]_vars

-----------------------------------------------------------------------------
(* Properties.                                                             *)

\* Though every send has an id of its own, a click takes effect at most once, is
\* called done only if it did, and stale only if it never will (mutate 228-251).
Promise == INSTANCE Once

KeepsPromise == Promise!Spec

\* CHANGELOG.md:12-14: a refused action is sent again only while the refreshed state
\* proves it valid.  So a resend never takes effect in another round than the one it
\* was made in, though syncs fail, and the stream and older answers also move the
\* revision it is sent with (mutate 234-243).
ResendsStayInRound ==
  [][\A req \in {late, act.req} \ {None} :
       req.id \in applied' \ applied /\ req.id[2] > 1
         => server[req.room].round = req.round]_vars

\* A refused, stale or unsent end leaves the host in control: the session of a room
\* is forgotten only by a player who leaves it, or when it is gone, whether or not the
\* answers that say so come through (together.js:182, 334-336).  So it is where there is
\* one room: a page that has gone to another forgets that one's session instead.
SessionIsKept ==
  [][\A r \in saved \ saved' : ~server[r].live \/ (Busy /\ act.kind = "leave")]_vars

\* The server's loop runs while somebody listens, and a stream that is opened again
\* and again gets through in the end.
FairSpec == Spec /\ WF_vars(Push) /\ SF_vars(Deliver)

\* Every revision reaches a page that stays at its table and is still shown when the
\* room has come to rest, however answers overtake each other (94-99, 120-161).  The
\* one exception: an acceptance that comes after a later event lowers the revision
\* (236), and an older Refresh may then be drawn over the newer table.
EveryChangeReachesThePage ==
  \A r \in Room, n \in 1..MaxRevision :
    (server[r].rev >= n /\ page.view = "table" /\ page.room = r)
      ~> (\/ page.state # None /\ page.state.room = r /\ page.state.rev >= n
          \/ lowered \/ page.view = "join" \/ ~server[r].live)

=============================================================================
