------------------------------ MODULE Session -------------------------------
(***************************************************************************)
(* One player's Regret client and the room's server, at the level of       *)
(* requests and revisions: client/src/bad_decisions_client/together.py     *)
(* against _mutation, project and watch of peer_pressure/service.py and    *)
(* the event stream of api.py.  The client has three threads: the one the  *)
(* player types into (mutate), the heartbeats and the event stream.        *)
(*                                                                         *)
(* A request or an answer may be lost, and an abandoned request may still  *)
(* arrive.  Whatever else happens at the table is "others": any number of  *)
(* transactions, each one step.  What an operation itself demands is       *)
(* module Room's business: here an operation may be refused at any time.   *)
(* A room's code is not taken again after the room is gone.                *)
(***************************************************************************)
EXTENDS Integers, FiniteSets

CONSTANTS
  MaxIntents,   \* actions the player asks for
  Sends,        \* STALE_RETRIES: sends of one action in total
  MaxRevision,  \* bound: the others, and time, move the revision up to here
  MaxLate,      \* bound: abandoned sends still on their way; more are lost
  None          \* no request, no answer, nothing in the stream

ASSUME BoundsAssumption ==
  /\ MaxIntents \in Nat \ {0} /\ Sends \in Nat \ {0}
  /\ MaxRevision \in Nat /\ MaxLate \in Nat

Intent == 1..MaxIntents
Attempt == 1..Sends
Kind == {"play", "leave", "end"}   \* play: start, submit, judge or advance

\* A request id is minted per send: it is named by the intent and the attempt.
Id == Intent \X Attempt

VARIABLES
  server,   \* the room
  client,   \* TogetherClient: revision and the projection it belongs to
  main,     \* the thread inside mutate, or waiting for the player
  late,     \* sends nobody waits for any more, still on their way
  feed,     \* the event stream
  told      \* what the player was told of each intent

vars == <<server, client, main, late, feed, told>>

\* A projection, as far as anything here looks at it.
View == [rev : Nat, round : Nat, needed : BOOLEAN]

Server ==
  [rev : Nat, round : Nat,
   needed : BOOLEAN,      \* the round cannot go on without our player: they are
                          \* its adult, or have yet to decide in it
   here : BOOLEAN,        \* our player is connected
   live : BOOLEAN,        \* the room's file exists
   done : [Id -> Nat]]    \* processed_requests: the resulting revision, or 0

Request == [kind : Kind \cup {"sync"}, id : Id, rev : Nat]

Reply == [status : {"ok", "state", "stale", "refused", "gone"}, rev : Nat,
          view : View \cup {None}]

ASSUME NoneAssumption == None \notin Request \cup Reply \cup View

Main ==
  [pc : {"idle", "sending", "confirming", "refreshing", "resending", "left"},
   shown : Nat \cup {-1},              \* the round the player looks at, if it needs them
   intent : 0..MaxIntents, kind : Kind, round : Nat,
   attempt : Attempt, copy : {1, 2},
   req : Request \cup {None}, reply : Reply \cup {None}]

Feed == [sent : Nat \cup {-1}, item : View \cup {None}]

TypeOK ==
  /\ server \in Server
  /\ client \in [rev : Nat, view : View]
  /\ main \in Main
  /\ late \in SUBSET Request
  /\ feed \in Feed
  /\ told \in [Intent -> {"none", "pending", "ok", "ended", "stale", "refused",
                          "gone", "unreachable"}]

\* Not yet open, broken or closed.
NoStream == [sent |-> -1, item |-> None]

\* After join: in the first seat of a lobby at revision 1, which waits for its host.
Init ==
  LET first == [rev |-> 1, round |-> 0, needed |-> TRUE]
  IN  /\ server = [rev |-> 1, round |-> 0, needed |-> TRUE, here |-> TRUE, live |-> TRUE,
                   done |-> [id \in Id |-> 0]]
      /\ client = [rev |-> 1, view |-> first]
      /\ main = [pc |-> "idle", shown |-> -1, intent |-> 0, kind |-> "play",
                 round |-> 0, attempt |-> 1, copy |-> 1, req |-> None, reply |-> None]
      /\ late = {}
      /\ feed = NoStream
      /\ told = [i \in Intent |-> "none"]

-----------------------------------------------------------------------------
(* The server.  Each operator gives the outcomes, server and reply, that   *)
(* one transaction may have.                                               *)

Answer(status, rev) == [status |-> status, rev |-> rev, view |-> None]

Snapshot(s) == [rev |-> s.rev, round |-> s.round, needed |-> s.needed]

Projection(s) == [status |-> "state", rev |-> s.rev, view |-> Snapshot(s)]

\* _touch: the player is back; the revision moves if they were away, and may move
\* for what the touch does to others.
Touches(s) ==
  LET others == IF s.rev < MaxRevision THEN {0, 1} ELSE {0}
  IN  {[s EXCEPT !.here = TRUE, !.rev = @ + bump] :
         bump \in IF s.here THEN others ELSE {1}}

\* The room's file is gone, and the table with it.
Gone(s) ==
  [s EXCEPT !.live = FALSE, !.rev = 0, !.round = 0, !.needed = FALSE, !.here = FALSE]

\* Where an operation may leave the table: a play may open the next round, which
\* needs everybody.
Onward(kind) ==
  {on \in [moves : {0, 1}, needed : BOOLEAN] : on.moves = 1 => kind = "play" /\ on.needed}

\* The operation and its bump, recorded under the request's id.
Recorded(s, req, on) ==
  [s EXCEPT !.rev = @ + 1, !.round = @ + on.moves, !.needed = on.needed,
            !.done[req.id] = s.rev + 1, !.here = req.kind # "leave"]

\* An accepted operation; a play is made by somebody the round needs.
Accepted(s, req) ==
  LET able == {t \in Touches(s) : req.kind = "play" => t.needed}
      tables == {Recorded(t, req, on) : t \in able, on \in Onward(req.kind)}
  IN  IF req.kind = "end" THEN {Gone(t) : t \in tables} ELSE tables

\* What is left to do with a request of a known player in a live room.
Fresh(s, req) ==
  IF s.rev # req.rev THEN {<<s, Answer("stale", 0)>>}
  ELSE {<<s, Answer("refused", 0)>>} \cup {<<t, Answer("ok", t.done[req.id])>> : t \in Accepted(s, req)}

Mutation_forgets(s, req) == Fresh(s, req)

\* _mutation: a known id is answered as before, a stale revision is refused, and
\* the operation may refuse, which undoes the touch.
Mutation(s, req) ==
  IF s.done[req.id] # 0 THEN {<<s, Answer("ok", s.done[req.id])>>} ELSE Fresh(s, req)

Outcomes(s, req) ==
  CASE ~s.live -> {<<s, Answer("gone", 0)>>}
    [] s.live /\ req.kind = "sync" -> {<<t, Projection(t)>> : t \in Touches(s)}
    [] OTHER -> Mutation(s, req)

\* The request main waits for is handled...
Serve ==
  /\ main.req # None /\ main.reply = None
  /\ \E out \in Outcomes(server, main.req) :
       /\ server' = out[1]
       /\ main' = [main EXCEPT !.reply = out[2]]
  /\ UNCHANGED <<client, late, feed, told>>

\* ...or one that nobody waits for any more.
ServeLate ==
  \E req \in late :
    /\ \E out \in Outcomes(server, req) : server' = out[1]
    /\ late' = late \ {req}
    /\ UNCHANGED <<client, main, feed, told>>

\* Other players' transactions: the table moves, perhaps to another round, but not
\* past a connected player it needs.
Others ==
  /\ server.live /\ server.rev < MaxRevision
  /\ \E moves \in {0, 1}, needed \in BOOLEAN :
       /\ server.here /\ server.needed => moves = 0 /\ needed
       /\ server.here /\ moves = 1 => needed
       /\ server' = [server EXCEPT !.rev = @ + 1, !.round = @ + moves, !.needed = needed]
  /\ UNCHANGED <<client, main, late, feed, told>>

\* Another player's touch finds our lease run out, and the table does without us.
MarkedAway ==
  /\ server.live /\ server.here /\ server.rev < MaxRevision
  /\ \E needed \in BOOLEAN :
       server' = [server EXCEPT !.rev = @ + 1, !.here = FALSE, !.needed = needed]
  /\ UNCHANGED <<client, main, late, feed, told>>

\* The room expires, or somebody who hosts it ends it.
RoomGoes ==
  /\ server.live
  /\ server' = Gone(server)
  /\ UNCHANGED <<client, main, late, feed, told>>

-----------------------------------------------------------------------------
(* The client.                                                             *)

Apply_adopts_any(c, view) == [rev |-> view.rev, view |-> view]

Apply_drops_equal(c, view) ==
  IF view.rev <= c.rev THEN c ELSE [rev |-> view.rev, view |-> view]

\* _apply: a projection older than what the client knows is dropped.
Apply(c, view) == IF view.rev < c.rev THEN c ELSE [rev |-> view.rev, view |-> view]

\* still_valid: can_start, can_submit, can_judge and can_advance ask for the round
\* the action was made for and for the player's part in it.
StillValid(m, view) == m.kind # "play" \/ (view.round = m.round /\ view.needed)

\* It carries no id and no revision that anything depends on.
SyncRequest == [kind |-> "sync", id |-> <<1, 1>>, rev |-> 0]

Call(m, pc, req) == [m EXCEPT !.pc = pc, !.copy = 1, !.reply = None, !.req = req]

CallSync(m, pc) == Call(m, pc, SyncRequest)

\* _send: a fresh id, and the revision known at this moment.
Send(m, attempt) ==
  Call([m EXCEPT !.attempt = attempt], "sending",
       [kind |-> m.kind, id |-> <<m.intent, attempt>>, rev |-> client.rev])

Quiet(m, pc) == [m EXCEPT !.pc = pc, !.req = None, !.reply = None, !.copy = 1]
Idle(m) == [Quiet(m, "idle") EXCEPT !.kind = "play", !.round = 0, !.attempt = 1]
Left(m) == [Quiet(m, "left") EXCEPT !.round = 0, !.attempt = 1]

\* A program that ends closes its connection.
FeedGoesOn == feed' = IF main'.pc = "left" THEN NoStream ELSE feed

Abandon(req) == IF Cardinality(late) < MaxLate THEN late \cup {req} ELSE late

Tell(outcome) == told' = [told EXCEPT ![main.intent] = outcome]

\* run_together looks at the client's state once and then waits for input.
Look ==
  LET shown == IF client.view.needed THEN client.view.round ELSE -1
  IN  /\ main.pc = "idle" /\ main.shown # shown
      /\ main' = [main EXCEPT !.shown = shown]
      /\ UNCHANGED <<server, client, late, feed, told>>

\* The player answers what is shown: mutate makes its first send.
Ask(kind) ==
  /\ main.pc = "idle" /\ main.intent < MaxIntents
  /\ kind = "play" => main.shown # -1
  /\ LET i == main.intent + 1
     IN  /\ main' = Send([main EXCEPT !.intent = i, !.kind = kind, !.shown = -1,
                                      !.round = IF kind = "play" THEN main.shown ELSE 0], 1)
         /\ told' = [told EXCEPT ![i] = "pending"]
  /\ UNCHANGED <<server, client, late, feed>>

\* The retry of mutate, once the fresh state was found valid.
Resend ==
  /\ main.pc = "resending"
  /\ main' = Send(main, main.attempt + 1)
  /\ UNCHANGED <<server, client, late, feed, told>>

\* "Cannot reach API": the answer, or the request, is lost or late.  A send is
\* repeated once, with its id and revision; anything else raises.
Timeout ==
  /\ main.req # None
  /\ late' = IF main.pc = "sending" /\ main.reply = None THEN Abandon(main.req) ELSE late
  /\ IF main.pc = "sending" /\ main.copy = 1
     THEN main' = [main EXCEPT !.copy = 2, !.reply = None] /\ UNCHANGED told
     ELSE main' = Idle(main) /\ Tell("unreachable")
  /\ UNCHANGED <<server, client, feed>>

\* A send was accepted (or answered again): the revision is adopted and, but for
\* an end, a sync asked for.
Acknowledged ==
  /\ main.pc = "sending" /\ main.reply # None
  /\ main.reply.status = "ok"
  /\ client' = [client EXCEPT !.rev = main.reply.rev]
  /\ IF main.kind = "end" THEN main' = Left(main) /\ Tell("ok")
     ELSE main' = CallSync(main, "confirming") /\ UNCHANGED told
  /\ FeedGoesOn
  /\ UNCHANGED <<server, late>>

\* A send was refused as stale: synchronize before deciding.
Stale ==
  /\ main.pc = "sending" /\ main.reply # None
  /\ main.reply.status = "stale"
  /\ main' = CallSync(main, "refreshing")
  /\ UNCHANGED <<server, client, late, feed, told>>

MayResend_unlimited(m, view) == StillValid(m, view)

\* Whether a refused action is sent again.
MayResend(m, view) == m.attempt < Sends /\ StillValid(m, view)

\* A sync answered: after an acknowledgement the player is told, and after a
\* leave the program ends; after a refusal the action is resent or given up.
Synced ==
  /\ main.pc \in {"confirming", "refreshing"} /\ main.reply # None
  /\ main.reply.status = "state"
  /\ client' = Apply(client, main.reply.view)
  /\ IF main.pc = "confirming"
     THEN /\ main' = IF main.kind = "leave" THEN Left(main) ELSE Idle(main)
          /\ Tell("ok")
     ELSE IF MayResend(main, client'.view)
     THEN main' = Quiet(main, "resending") /\ UNCHANGED told
     ELSE main' = Idle(main) /\ Tell("stale")
  /\ FeedGoesOn
  /\ UNCHANGED <<server, late>>

EndConfirmed_any_refusal(m) == m.kind = "end" /\ m.pc = "sending" /\ m.copy = 2

\* room_not_found answers the resend of an end: it had succeeded.
EndConfirmed(m) ==
  m.kind = "end" /\ m.pc = "sending" /\ m.copy = 2 /\ m.reply.status = "gone"

\* Any other refusal is raised to the player, who stays at the prompt.
Refused ==
  /\ main.reply # None /\ main.reply.status \in {"refused", "gone"}
  /\ IF EndConfirmed(main)
     THEN /\ client' = [client EXCEPT !.rev = main.req.rev]
          /\ main' = Left(main) /\ Tell("ended")
     ELSE main' = Idle(main) /\ Tell(main.reply.status) /\ UNCHANGED client
  /\ FeedGoesOn
  /\ UNCHANGED <<server, late>>

\* The heartbeat thread: a touch, with whose answer nothing is done.  A sync that
\* nobody waits for any more does the same, and either may be late for the leave.
Heartbeat ==
  /\ server.live /\ (main.pc = "left" => MaxLate > 0)
  /\ server' \in Touches(server)
  /\ UNCHANGED <<client, main, late, feed, told>>

\* The stream: the server sends the projection of every revision it notices...
Push ==
  /\ main.pc # "left" /\ server.live
  /\ feed.item = None /\ feed.sent # server.rev
  /\ feed' = [sent |-> server.rev, item |-> Snapshot(server)]
  /\ UNCHANGED <<server, client, main, late, told>>

\* ...the events thread applies it...
Deliver ==
  /\ main.pc # "left" /\ feed.item # None
  /\ client' = Apply(client, feed.item)
  /\ feed' = [feed EXCEPT !.item = None]
  /\ UNCHANGED <<server, main, late, told>>

\* ...and a broken stream is opened again, starting with the current projection.
Break ==
  /\ main.pc # "left" /\ feed # NoStream
  /\ feed' = NoStream
  /\ UNCHANGED <<server, client, main, late, told>>

Next ==
  \/ Serve \/ ServeLate \/ Others \/ MarkedAway \/ RoomGoes
  \/ Look \/ (\E kind \in Kind : Ask(kind)) \/ Resend \/ Timeout
  \/ Acknowledged \/ Stale \/ Synced \/ Refused
  \/ Heartbeat \/ Push \/ Deliver \/ Break

Spec == Init /\ [][Next]_vars

-----------------------------------------------------------------------------
(* Safety.                                                                 *)

\* Whatever is lost, late or sent again, an intent takes effect at most once, is
\* confirmed only if it did, and is refused as stale only if it never will
\* (docs/PEER_PRESSURE.md:134-140; _mutation 342-371, mutate and _send 177-219).
Promise ==
  INSTANCE Once WITH applied <- {id \in Id : server.done[id] # 0}

KeepsPromise == Promise!Spec

\* What the player sees never goes back to an earlier revision, though answers
\* and events overtake each other and mutate sets the revision by itself
\* (_apply 143-150, mutate 194-195).
ViewNeverGoesBack == [][client'.view.rev >= client.view.rev]_client

\* Who is told that they ended the room has ended it: nobody can play on
\* (_send 213-217).
EndedRoomIsGone == main.pc = "left" /\ main.kind = "end" => ~server.live

\* Who is told that their action took effect is looking at a table it took effect
\* on: the answer's revision arrives without its projection, and what follows it
\* must not be taken for old (mutate 194-197).  An ended room shows nothing more.
ConfirmedIsShown ==
  \A id \in Id :
    told[id[1]] = "ok" /\ ~(main.pc = "left" /\ main.kind = "end")
      => server.done[id] <= client.view.rev

\* What the player is told of an action is true, and is what they see.
ToldIsTrue == EndedRoomIsGone /\ ConfirmedIsShown

-----------------------------------------------------------------------------
(* Liveness.  The server's stream loop runs for as long as somebody        *)
(* listens, and the events thread opens a broken stream again for ever; a  *)
(* stream that gets through again and again gets through in the end.       *)

FairSpec == Spec /\ WF_vars(Push) /\ SF_vars(Deliver)

\* The screen of a player who stays catches up with the table again and again,
\* whatever mutate did to the client's revision meanwhile (events 168-175,
\* api.py 530-566); the table moves MaxRevision times, so every revision is seen.
EveryChangeIsSeen ==
  []<>(client.view.rev >= server.rev \/ ~server.live \/ main.pc = "left")

-----------------------------------------------------------------------------
(* What the documentation says and the code does not do.                   *)

\* docs/PEER_PRESSURE.md:91-92 says that when the host leaves the lobby the next
\* connected player hosts.  Our player has the first seat, so they host for as
\* long as they are connected.
LeaverDoesNotHost == main.pc = "left" /\ main.kind = "leave" => ~server.here

=============================================================================
