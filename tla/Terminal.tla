------------------------------ MODULE Terminal ------------------------------
(***************************************************************************)
(* The full-screen table of Regret: together_tui.py over one PeerClient    *)
(* connection.  Three threads meet here:                                   *)
(*                                                                         *)
(*   the user interface  draws projections and handles what the player     *)
(*                       does, one message at a time;                      *)
(*   the network worker  runs one operation (a refresh, a mutation, a      *)
(*                       leave, an end) and posts its result;              *)
(*   the events thread   applies the stream to the client and queues the   *)
(*                       client's state for the user interface.            *)
(*                                                                         *)
(* The client is taken as module Session has it: its state never goes      *)
(* back.  A mutation is any sequence of refused sends and synchronizations *)
(* that ends in an acceptance or an error.  A projection is named by its   *)
(* revision: what each revision shows is the course of the table, chosen   *)
(* at the start.  Messages, and the heartbeat's part in them, are left out.*)
(***************************************************************************)
EXTENDS Integers, FiniteSets, SequencesExt

CONSTANTS
  Option,       \* cards and decisions that may be on offer
  Courses,      \* what successive revisions of a table may show our player
  Sends,        \* STALE_RETRIES: sends of one mutation
  MaxRevision,  \* bound: the table moves up to this revision
  MaxQueue,     \* bound: the events thread runs this far ahead of the screen
  None

\* What the player is to do: choose answers, judge decisions, or neither (start,
\* advance, wait).
Part == {"answers", "decisions", "other"}

Revision == 1..MaxRevision

\* What a revision shows: the part, what is on offer for it, and how many answers the
\* prompt asks for.
Contents == [part : Part, offer : SUBSET Option, slots : Nat \ {0}]

ASSUME TerminalAssumption ==
  /\ Sends \in Nat \ {0} /\ MaxRevision \in Nat \ {0} /\ MaxQueue \in Nat \ {0}
  /\ Courses \subseteq [Revision -> Contents]

ASSUME NoneAssumption == None \notin Revision \cup Option

Button == {"play", "refresh", "leave", "end"}   \* play: start, submit, judge, advance

VARIABLES
  course,   \* the contents of each revision; it does not change
  table,    \* the room on the server: its revision
  live,     \* the room exists
  client,   \* TogetherClient.state
  stream,   \* the events thread: the revision sent last, the state in its hand
  queue,    \* event_queue
  worker,   \* the operation that _busy waits for
  input,    \* what the player did that has not been handled yet
  screen,   \* the state that is drawn
  chosen,   \* selected_cards and selected_submission
  app       \* the rest of PeerPressureApp

vars == <<course, table, live, client, stream, queue, worker, input, screen, chosen, app>>

Operation == {"none", "sync", "play", "leave", "end"}

Worker ==
  [op : Operation, pc : {"idle", "sending", "syncing", "answered", "posted"},
   attempt : 1..Sends, accepted : BOOLEAN,
   answer : Revision \cup {None},   \* of the sync under way
   result : Revision \cup {None}, failed : BOOLEAN]

TypeOK ==
  /\ course \in Courses
  /\ table \in Revision /\ live \in BOOLEAN
  /\ client \in Revision
  /\ stream \in [sent : 0..MaxRevision, hand : Revision \cup {None}]
  /\ queue \in BoundedSeq(Revision, MaxQueue)
  /\ worker \in Worker
  /\ input \in [row : Option \cup {None}, button : Button \cup {None}]
  /\ screen \in Revision
  /\ chosen \in [cards : SUBSET Option, decision : Option \cup {None}]
  /\ app \in [closed : BOOLEAN, confirm : BOOLEAN, last : {"event", "result"}]

Running(op) ==
  [op |-> op, pc |-> IF op = "sync" THEN "syncing" ELSE "sending", attempt |-> 1,
   accepted |-> op = "sync", answer |-> None, result |-> None, failed |-> FALSE]

IdleWorker == [Running("none") EXCEPT !.pc = "idle"]

NoInput == [row |-> None, button |-> None]

\* After join, on_mount draws the state and starts a refresh.
Init ==
  /\ course \in Courses
  /\ table = 1
  /\ live = TRUE
  /\ client = table /\ screen = table
  /\ stream = [sent |-> 0, hand |-> None]
  /\ queue = <<>>
  /\ worker = Running("sync")
  /\ input = NoInput
  /\ chosen = [cards |-> {}, decision |-> None]
  /\ app = [closed |-> FALSE, confirm |-> FALSE, last |-> "result"]

Busy == worker.pc # "idle"

-----------------------------------------------------------------------------
(* The server and the other players.                                       *)

TableMoves == table < MaxRevision /\ table' = table + 1

Others ==
  /\ live /\ TableMoves
  /\ UNCHANGED <<course, live, client, stream, queue, worker, input, screen, chosen, app>>

RoomGoes ==
  /\ live
  /\ live' = FALSE
  /\ UNCHANGED <<course, table, client, stream, queue, worker, input, screen, chosen, app>>

-----------------------------------------------------------------------------
(* The network worker.                                                     *)

Apply(r) == client' = IF r < client THEN client ELSE r

\* A mutation is accepted.  An end takes the room away and is not followed by a
\* sync; its operation returns no state.
Accepted ==
  /\ worker.pc = "sending" /\ live
  /\ IF worker.op = "end"
     THEN /\ live' = FALSE /\ UNCHANGED table
          /\ worker' = [worker EXCEPT !.pc = "posted", !.accepted = TRUE]
     ELSE /\ TableMoves
          /\ worker' = [worker EXCEPT !.pc = "syncing", !.accepted = TRUE]
          /\ UNCHANGED live
  /\ UNCHANGED <<course, client, stream, queue, input, screen, chosen, app>>

\* stale_revision: synchronize before deciding.
Stale ==
  /\ worker.pc = "sending" /\ live
  /\ worker' = [worker EXCEPT !.pc = "syncing"]
  /\ UNCHANGED <<course, table, live, client, stream, queue, input, screen, chosen, app>>

\* The server answers a sync; the answer travels.
SyncServed ==
  /\ worker.pc = "syncing" /\ live
  /\ worker' = [worker EXCEPT !.pc = "answered", !.answer = table]
  /\ UNCHANGED <<course, table, live, client, stream, queue, input, screen, chosen, app>>

\* The answer is applied.  An operation that is done returns the client's state; a
\* leave's returns none; a refused mutation is sent again or gives up.
Synced ==
  /\ worker.pc = "answered"
  /\ Apply(worker.answer)
  /\ \/ /\ worker.accepted
        /\ worker' = [worker EXCEPT !.pc = "posted", !.answer = None,
                                    !.result = IF @ = None /\ worker.op # "leave" THEN client' ELSE @]
     \/ /\ ~worker.accepted /\ worker.attempt < Sends
        /\ worker' = [worker EXCEPT !.pc = "sending", !.answer = None, !.attempt = @ + 1]
     \/ /\ ~worker.accepted
        /\ worker' = [worker EXCEPT !.pc = "posted", !.answer = None, !.failed = TRUE]
  /\ UNCHANGED <<course, table, live, stream, queue, input, screen, chosen, app>>

\* A request is refused, finds no room, or gets no answer in time.
Fails ==
  /\ worker.pc \in {"sending", "syncing", "answered"}
  /\ worker' = [worker EXCEPT !.pc = "posted", !.answer = None, !.failed = TRUE]
  /\ UNCHANGED <<course, table, live, client, stream, queue, input, screen, chosen, app>>

-----------------------------------------------------------------------------
(* The events thread.                                                      *)

\* An event is applied, and the client's state taken...
Event ==
  /\ ~app.closed /\ live
  /\ stream.hand = None /\ stream.sent # table
  /\ Apply(table)
  /\ stream' = [sent |-> table, hand |-> client']
  /\ UNCHANGED <<course, table, live, queue, worker, input, screen, chosen, app>>

\* ...and put in the queue.
Put ==
  /\ stream.hand # None /\ Len(queue) < MaxQueue
  /\ queue' = Append(queue, stream.hand)
  /\ stream' = [stream EXCEPT !.hand = None]
  /\ UNCHANGED <<course, table, live, client, worker, input, screen, chosen, app>>

\* A broken stream starts again with the current projection.
Break ==
  /\ ~app.closed /\ stream.sent # 0 /\ stream.hand = None
  /\ stream' = [stream EXCEPT !.sent = 0]
  /\ UNCHANGED <<course, table, live, client, queue, worker, input, screen, chosen, app>>

-----------------------------------------------------------------------------
(* The user interface.                                                     *)

Shown(r) == course[r]

\* _rebuild_choices: what was chosen and is still on offer stays chosen, also where
\* the new prompt asks for fewer.
Kept(r) ==
  CASE Shown(r).part = "answers" -> [chosen EXCEPT !.cards = @ \cap Shown(r).offer]
    [] Shown(r).part = "decisions" ->
         [chosen EXCEPT !.decision = IF @ \in Shown(r).offer THEN @ ELSE None]
    [] OTHER -> [cards |-> {}, decision |-> None]

\* _render_state.
Render(r, source) ==
  /\ screen' = r /\ chosen' = Kept(r)
  /\ app' = [app EXCEPT !.last = source]

Newest_first(q) == Head(q)

\* _drain_events draws the last of what is in the queue.
Newest(q) == Last(q)

Drain ==
  /\ ~app.closed /\ queue # <<>>
  /\ Render(Newest(queue), "event")
  /\ queue' = <<>>
  /\ UNCHANGED <<course, table, live, client, stream, worker, input>>

Closes_when_told == worker.op \in {"leave", "end"} /\ ~worker.failed

\* exit_after of a leave; exit_on_success of an end.
Closes == worker.op = "leave" \/ (worker.op = "end" /\ ~worker.failed)

\* _network_finished.  A failed mutation may still have resynchronized the client.
Finished ==
  /\ worker.pc = "posted" /\ ~app.closed
  /\ worker' = IdleWorker
  /\ IF Closes THEN app' = [app EXCEPT !.closed = TRUE] /\ UNCHANGED <<screen, chosen>>
     ELSE IF worker.result # None THEN Render(worker.result, "result")
     ELSE IF client # screen THEN Render(client, "result")
     ELSE UNCHANGED <<screen, chosen, app>>
  /\ UNCHANGED <<course, table, live, client, stream, queue, input>>

\* The player clicks a row or presses a button that is enabled; the message waits
\* behind others.
Enabled(b) ==
  /\ ~Busy
  /\ b = "play" =>
       CASE Shown(screen).part = "answers" -> Cardinality(chosen.cards) = Shown(screen).slots
         [] Shown(screen).part = "decisions" -> chosen.decision # None
         [] OTHER -> TRUE

Act ==
  /\ ~app.closed /\ input = NoInput
  /\ \/ \E key \in Shown(screen).offer : input' = [NoInput EXCEPT !.row = key]
     \/ \E b \in Button : Enabled(b) /\ input' = [NoInput EXCEPT !.button = b]
  /\ UNCHANGED <<course, table, live, client, stream, queue, worker, screen, chosen, app>>

Selectable_anything(key) == TRUE

\* A row that is no longer on the screen is not selected.
Selectable(key) == key \in Shown(screen).offer

\* A click on a card, which chooses it, lets it go, or is one too many.
Toggled(key) ==
  CASE key \in chosen.cards -> chosen.cards \ {key}
    [] key \notin chosen.cards /\ Cardinality(chosen.cards) < Shown(screen).slots ->
         chosen.cards \cup {key}
    [] OTHER -> chosen.cards

\* on_data_table_row_selected.
RowSelected ==
  /\ ~app.closed /\ input.row # None
  /\ input' = NoInput
  /\ chosen' = IF ~Selectable(input.row) THEN chosen
               ELSE CASE Shown(screen).part = "answers" -> [chosen EXCEPT !.cards = Toggled(input.row)]
                      [] Shown(screen).part = "decisions" -> [chosen EXCEPT !.decision = input.row]
                      [] OTHER -> chosen
  /\ UNCHANGED <<course, table, live, client, stream, queue, worker, screen, app>>

\* _run_network: one operation at a time.
Run(op) == worker' = IF Busy THEN worker ELSE Running(op)

\* on_button_pressed, also of a button that was disabled since.
ButtonPressed ==
  /\ ~app.closed /\ input.button # None
  /\ input' = NoInput
  /\ CASE input.button = "play" ->
            /\ app' = [app EXCEPT !.confirm = FALSE]
            /\ IF Shown(screen).part = "decisions" /\ chosen.decision = None THEN UNCHANGED worker
               ELSE Run("play")
       [] input.button = "refresh" -> app' = [app EXCEPT !.confirm = FALSE] /\ Run("sync")
       [] input.button = "leave" -> app' = [app EXCEPT !.confirm = FALSE] /\ Run("leave")
       [] input.button = "end" ->   \* action_end asks twice
            /\ app' = [app EXCEPT !.confirm = IF Busy THEN @ ELSE ~@]
            /\ IF ~Busy /\ app.confirm THEN Run("end") ELSE UNCHANGED worker
  /\ UNCHANGED <<course, table, live, client, stream, queue, screen, chosen>>

\* The key q.
LeaveKey ==
  /\ ~app.closed
  /\ Run("leave")
  /\ UNCHANGED <<course, table, live, client, stream, queue, input, screen, chosen, app>>

Work == Accepted \/ Stale \/ SyncServed \/ Synced \/ Fails

Next ==
  \/ Others \/ RoomGoes \/ Work
  \/ Event \/ Put \/ Break
  \/ Drain \/ Finished \/ Act \/ RowSelected \/ ButtonPressed \/ LeaveKey

Spec == Init /\ [][Next]_vars

-----------------------------------------------------------------------------
(* Properties.                                                             *)

\* What is chosen is on the screen: a click that waited while the table was drawn anew
\* chooses nothing that is no longer there, and a new hand drops what it does not have
\* (together_tui.py:253-281, 302-319).  It is never more than some prompt of the table
\* asked for, but may be more than the one on the screen asks for.
ChosenIsOnOffer ==
  /\ TypeOK
  /\ \E r \in Revision : Cardinality(chosen.cards) <= Shown(r).slots
  /\ Shown(screen).part = "answers" => chosen.cards \subseteq Shown(screen).offer
  /\ Shown(screen).part = "decisions" => chosen.decision \in Shown(screen).offer \cup {None}

\* Nothing is under way between the server and the screen.
AllQuiet ==
  /\ live /\ ~app.closed
  /\ stream = [sent |-> table, hand |-> None] /\ queue = <<>> /\ ~Busy

\* When all is quiet and the last thing drawn came from the stream, the screen shows
\* the table as it is, whatever the workers' results, the queue and reconnections did
\* before (_drain_events 132-142, TogetherClient.events).
EventsBringTheTable == AllQuiet /\ app.last = "event" => screen = table

\* The player keeps asking to leave; every request has a timeout, and the user
\* interface handles what the worker posts.
FairSpec == Spec /\ WF_vars(Work) /\ WF_vars(Finished) /\ SF_vars(LeaveKey)

\* Leaving is local first: whoever keeps pressing q gets out, whatever operation is
\* still under way and whether or not the room can be reached (150-181, 386-395).
LeaveTrapsNobody == <>(app.closed)

=============================================================================
