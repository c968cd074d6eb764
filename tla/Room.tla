-------------------------------- MODULE Room --------------------------------
(***************************************************************************)
(* One Peer Pressure room: the SQLite database behind                      *)
(* bad_decisions/peer_pressure/service.py and the transactions that change *)
(* it.  Every writer runs under BEGIN IMMEDIATE and rolls back when it     *)
(* raises, so one action is one committed transaction: the presence update *)
(* (_touch), the operation, the repairs both call and the revision bump,   *)
(* in the code's order.  A refused call is no step.                        *)
(*                                                                         *)
(* Abstractions.  The clock: a connected player whose last_seen is older   *)
(* than the disconnect timeout is a member of "silent"; a room whose       *)
(* expires_at has passed is "expired".  The revision: only the distance    *)
(* the last transaction moved it is kept ("bumps"), because an accepted    *)
(* mutation always carries the current one (module Protocol models the     *)
(* comparison).  A submission is named by its player, unique in a round.   *)
(***************************************************************************)
EXTENDS Integers, FiniteSets, Functions

CONSTANTS
  Answer,       \* answer cards in the selected packs
  Prompt,       \* prompt cards in the selected packs
  None,         \* neither a player nor a prompt
  Slots,        \* Slots[q]: the answers prompt q asks for (models.py: at least one)
  HandSize,     \* cards a full hand holds
  MinPlayers,   \* connected players needed to start
  MaxPlayers,   \* seats in the room
  Deals(_, _)   \* Deals(pool, need): the ways the random draw may deal need[p]
                \* unused cards to every p; none when the pool is too small

\* join mints a player's id together with the next seat, so a player is named by
\* it: player n is the n-th to join, and seat_order is n - 1.
Player == 1..MaxPlayers

\* A deal gives every player as many cards as needed and no card to two players.
IsDeal(d, pool, need) ==
  /\ d \in [Player -> SUBSET pool]
  /\ \A p \in Player : Cardinality(d[p]) = need[p]
  /\ \A p, q \in Player : p # q => d[p] \cap d[q] = {}

ASSUME FiniteAssumption == IsFiniteSet(Answer)
ASSUME NoneAssumption == None \notin Player /\ None \notin Prompt
ASSUME SlotsAssumption == Slots \in [Prompt -> Nat \ {0}]
ASSUME SizeAssumption ==
  HandSize \in Nat \ {0} /\ MinPlayers \in Nat \ {0} /\ MaxPlayers \in Nat \ {0}
ASSUME DealsAssumption ==
  \A pool \in SUBSET Answer, need \in [Player -> 0..HandSize] :
    \A d \in Deals(pool, need) : IsDeal(d, pool, need)

VARIABLES
  room,   \* the database: one record, a field per table or column
  file    \* "linked" while the room's path names the database, then "gone"

vars == <<room, file>>

Active == {"PLAYING", "JUDGING", "ROUND_RESULT"}
States == Active \cup {"WAITING", "ENDED"}
NoCards == [p \in Player |-> {}]

RoomType ==
  [state : States,
   seats : 0..MaxPlayers,             \* rows of players; none is ever deleted
   connected : SUBSET Player,
   silent : SUBSET Player,            \* connected, but last_seen is too old
   score : [Player -> Nat],
   hand : [Player -> SUBSET Answer],
   sub : [Player -> SUBSET Answer],   \* this round's submission; {} for none
   played : SUBSET Answer,            \* submission cards of earlier rounds
   drawn : SUBSET Answer,             \* drawn_cards of kind answer
   asked : SUBSET Prompt,             \* drawn_cards of kind prompt
   round : Nat,
   adult : Player \cup {None},        \* this round's responsible adult
   prompt : Prompt \cup {None},
   winner : Player \cup {None},       \* this round's winning submission
   expired : BOOLEAN,                 \* expires_at <= now
   bumps : Nat]                       \* revision steps of the last transaction

\* create_room: an empty lobby at revision 0.
Init ==
  /\ room = [state |-> "WAITING", seats |-> 0,
             connected |-> {}, silent |-> {}, score |-> [p \in Player |-> 0],
             hand |-> NoCards, sub |-> NoCards, played |-> {}, drawn |-> {},
             asked |-> {}, round |-> 0, adult |-> None, prompt |-> None,
             winner |-> None, expired |-> FALSE, bumps |-> 0]
  /\ file = "linked"

-----------------------------------------------------------------------------
(* Reading the tables.                                                     *)

Joined(r) == 1..r.seats

Decided(r) == {p \in Player : r.sub[p] # {}}

FirstSeat(S) == CHOOSE p \in S : \A q \in S : p <= q

\* _host: the first connected player by seat, or the first seat when all are away.
Host(r) == FirstSeat(IF r.connected # {} THEN r.connected ELSE Joined(r))

\* The next connected player after p in seat order, wrapping round.
NextSeat(r, p) ==
  LET later == {q \in r.connected : q > p}
  IN  FirstSeat(IF later # {} THEN later ELSE r.connected)

-----------------------------------------------------------------------------
(* The steps transactions are made of.  Each takes a room to a room.       *)
(* X_what is X as somebody might have got it wrong: nothing uses it,       *)
(* except to see that a property notices.                                  *)

Begin(r) == [r EXCEPT !.bumps = 0]

\* _bump: the revision moves and the room's lifetime starts again.
Bump(r) == [r EXCEPT !.bumps = @ + 1, !.expired = FALSE]

WithdrawSubmission_forgets(r, p) == [r EXCEPT !.sub[p] = {}]

\* _withdraw_submission: the decision goes back to its player's hand.
WithdrawSubmission(r, p) ==
  [r EXCEPT !.hand[p] = @ \cup r.sub[p], !.sub[p] = {}]

Ready_early(r) == Decided(r) \cap r.connected # {}

Ready_strict(r) ==
  Cardinality(Decided(r) \cap r.connected) > Cardinality(r.connected \ {r.adult})

\* The counts _maybe_begin_judging compares: connected players who may decide,
\* and decisions of players still connected.
Ready(r) ==
  LET submitted == Decided(r) \cap r.connected
  IN  /\ Cardinality(submitted) >= Cardinality(r.connected \ {r.adult})
      /\ submitted # {}

MaybeBeginJudging(r) ==
  IF Ready(r) THEN [r EXCEPT !.state = "JUDGING"] ELSE r

HandOver_keeps_judging(r) ==
  LET successor == NextSeat(r, r.adult)
  IN  [IF r.state # "ROUND_RESULT" THEN WithdrawSubmission(r, successor) ELSE r
         EXCEPT !.adult = successor]

\* The away branch of _repair_table: the next connected player takes the role,
\* never with a decision of their own in an open round.
HandOver(r) ==
  LET successor == NextSeat(r, r.adult)
      freed == IF r.state # "ROUND_RESULT"
               THEN WithdrawSubmission(r, successor) ELSE r
      reopened == freed.state = "JUDGING" /\ Decided(freed) = {}
  IN  [freed EXCEPT !.adult = successor,
                    !.state = IF reopened THEN "PLAYING" ELSE freed.state]

RepairTable(r) ==
  IF r.state \notin Active \/ (r.adult \notin r.connected /\ r.connected = {})
  THEN r
  ELSE LET held == IF r.adult \in r.connected THEN r ELSE HandOver(r)
       IN  IF held.state = "PLAYING" THEN MaybeBeginJudging(held) ELSE held

Present_trusts_silence(r, who) ==
  [r EXCEPT !.connected = @ \cup who, !.silent = @ \ who]

\* _touch by the players in who (one, or none for a newcomer): they are back,
\* everyone else whose lease lapsed is away, the table is repaired, and the
\* revision moves exactly when any of that changed something.
Present(r, who) ==
  [r EXCEPT !.connected = (@ \cup who) \ (r.silent \ who), !.silent = {}]

Touch_bumps_repairs_only(r, who) ==
  LET present == Present(r, who)
      repaired == RepairTable(present)
  IN  IF repaired # present THEN Bump(repaired) ELSE repaired

Touch(r, who) ==
  LET present == Present(r, who)
      repaired == RepairTable(present)
  IN  IF present.connected # r.connected \/ repaired # present
      THEN Bump(repaired) ELSE repaired

\* _fill_hand for every connected player: what each hand lacks, and the deal.
Need(r) ==
  [p \in Player |->
     IF p \in r.connected /\ Cardinality(r.hand[p]) < HandSize
     THEN HandSize - Cardinality(r.hand[p]) ELSE 0]

FillHands(r, d) ==
  [r EXCEPT !.hand = [p \in Player |-> @[p] \cup d[p]],
            !.drawn = @ \cup UNION {d[p] : p \in Player}]

\* _new_round: a fresh prompt; the last round's decisions become history.
NewRound(r, adult, prompt) ==
  [r EXCEPT !.state = "PLAYING", !.round = @ + 1, !.adult = adult,
            !.prompt = prompt, !.asked = @ \cup {prompt}, !.winner = None,
            !.played = @ \cup UNION {r.sub[p] : p \in Player},
            !.sub = NoCards]

Seat(r) ==
  [r EXCEPT !.seats = @ + 1, !.connected = @ \cup {r.seats + 1}]

MarkAway_drops_decision(r, p) ==
  [r EXCEPT !.connected = @ \ {p}, !.sub[p] = {},
            !.hand[p] = @ \cup r.sub[p]]

MarkAway(r, p) == [r EXCEPT !.connected = @ \ {p}]

PlaceSubmission(r, p, cards) ==
  [r EXCEPT !.hand[p] = @ \ cards, !.sub[p] = cards]

Award(r, w) ==
  [r EXCEPT !.score[w] = @ + 1, !.winner = w, !.state = "ROUND_RESULT"]

-----------------------------------------------------------------------------
(* Requests.                                                               *)

\* _ensure_live refuses, and unlinks, a room past its lifetime or ended.
Dead(r) == r.expired \/ r.state = "ENDED"

Commit(r) == room' = r /\ UNCHANGED file

Join_unbounded ==
  /\ file = "linked" /\ ~Dead(room)
  /\ room.state = "WAITING"
  /\ Commit(Bump(Seat(Touch(Begin(room), {}))))

\* join by a newcomer: _ensure_live, then a seat while the lobby is open.
Join ==
  LET t == Touch(Begin(room), {})
  IN  /\ file = "linked" /\ ~Dead(room)
      /\ room.state = "WAITING"
      /\ room.seats < MaxPlayers
      /\ Commit(Bump(Seat(t)))

\* join with a saved session: _ensure_live, then presence only.
Rejoin(p) ==
  /\ file = "linked" /\ ~Dead(room)
  /\ p \in Joined(room)
  /\ Commit(Touch(Begin(room), {p}))

\* heartbeat: presence only, with no _ensure_live.
Heartbeat(p) ==
  /\ file = "linked"
  /\ p \in Joined(room)
  /\ Commit(Touch(Begin(room), {p}))

\* sync: the touch comes first and _ensure_live reads what it left; when it
\* refuses, the touch is rolled back but the file is already unlinked.
Sync(p) ==
  LET t == Touch(Begin(room), {p})
  IN  /\ file = "linked"
      /\ p \in Joined(room)
      /\ IF Dead(t) THEN file' = "gone" /\ UNCHANGED room ELSE Commit(t)

\* What every mutation does before its operation: authenticate, then touch.
\* (The operations name the touched room by \E t \in {...}: TLC then computes it
\* once, also where a fairness condition asks whether they are enabled.)
Mutation(p) == file = "linked" /\ p \in Joined(room)
Touched(p) == Touch(Begin(room), {p})

Leave(p) ==
  /\ Mutation(p)
  /\ Commit(Bump(RepairTable(MarkAway(Touched(p), p))))

Start(p) ==
  /\ Mutation(p)
  /\ \E t \in {Touched(p)} :
      /\ t.state = "WAITING"
      /\ Host(t) = p
      /\ Cardinality(t.connected) >= MinPlayers
      /\ \E d \in Deals(Answer \ t.drawn, Need(t)), q \in Prompt \ t.asked :
           Commit(Bump(NewRound(FillHands(t, d), p, q)))

Submit(p) ==
  /\ Mutation(p)
  /\ \E t \in {Touched(p)} :
      /\ t.state = "PLAYING"
      /\ p # t.adult
      /\ t.sub[p] = {}
      /\ \E cards \in SUBSET t.hand[p] :
           /\ Cardinality(cards) = Slots[t.prompt]
           /\ Commit(Bump(MaybeBeginJudging(PlaceSubmission(t, p, cards))))

\* A submission id is shown to the adult of a round in JUDGING only, so a judge
\* request can name a decision only of a round that is already there.
Shown == IF room.state = "JUDGING" THEN Decided(room) ELSE {}

Judge(p) ==
  /\ Mutation(p)
  /\ \E t \in {Touched(p)} :
      /\ t.state = "JUDGING"
      /\ p = t.adult
      /\ \E w \in Shown \cap Decided(t) : Commit(Bump(Award(t, w)))

Advance(p) ==
  /\ Mutation(p)
  /\ \E t \in {Touched(p)} :
      /\ t.state = "ROUND_RESULT"
      /\ p = t.adult
      /\ \E d \in Deals(Answer \ t.drawn, Need(t)), q \in Prompt \ t.asked :
           Commit(Bump(NewRound(FillHands(t, d), NextSeat(t, p), q)))

End(p) ==
  /\ Mutation(p)
  /\ \E t \in {Touched(p)} :
      /\ Host(t) = p
      /\ Commit(Bump([t EXCEPT !.state = "ENDED"]))

\* A dead room's file goes: end's own unlink, _ensure_live in watch, project or
\* join, or cleanup_expired.
Reap ==
  /\ file = "linked" /\ Dead(room)
  /\ file' = "gone" /\ UNCHANGED room

-----------------------------------------------------------------------------
(* Time.  Leases run out in any order, as they can when the wall clock the *)
(* server reads is stepped.                                                *)

Lapse(p) ==
  /\ file = "linked"
  /\ p \in room.connected \ room.silent
  /\ Commit([room EXCEPT !.silent = @ \cup {p}])

Expire ==
  /\ file = "linked" /\ ~room.expired
  /\ Commit([room EXCEPT !.expired = TRUE])

Next ==
  \/ \E p \in Player :
       \/ Rejoin(p) \/ Heartbeat(p) \/ Sync(p) \/ Lapse(p)
       \/ Leave(p) \/ Start(p) \/ Submit(p) \/ Judge(p) \/ Advance(p) \/ End(p)
  \/ Join \/ Reap \/ Expire

Spec == Init /\ [][Next]_vars

-----------------------------------------------------------------------------
(* Safety.                                                                 *)

TypeOK == room \in RoomType /\ file \in {"linked", "gone"}

\* Every card ever drawn is in exactly one place: a hand, a decision of this
\* round, or an earlier round's decisions.  Withdrawal, submission, dealing and
\* the move into history neither lose a card nor put one in two places
\* (service.py 417-427, 442-471, 555-572).
CardsConserved ==
  LET held(p) == room.hand[p] \cup room.sub[p]
  IN  /\ room.drawn = room.played \cup UNION {held(p) : p \in Player}
      /\ \A p \in Player : /\ room.hand[p] \cap room.sub[p] = {}
                           /\ held(p) \cap room.played = {}
      /\ \A p, q \in Player : p # q => held(p) \cap held(q) = {}

\* While a round is open its responsible adult has no decision in it, however
\* the role got to them (_repair_table's promise, 385-391).
AdultHasNoDecision ==
  room.state \in {"PLAYING", "JUDGING"} => room.sub[room.adult] = {}

\* There is something to judge whenever the table is judging, and the winner
\* of a judged round is one of its decisions (391, 633-635).
JudgingHasDecisions ==
  /\ room.state = "JUDGING" => Decided(room) # {}
  /\ room.state = "ROUND_RESULT" => room.winner \in Decided(room)

\* A table with anybody connected has a connected adult, so that somebody can
\* always make the next move (384-415).
AdultIsPresent ==
  room.state \in Active /\ room.connected # {} => room.adult \in room.connected

\* Judging is never missed: no transaction leaves a round collecting decisions
\* when all connected players have made theirs (docs/PEER_PRESSURE.md:106).
JudgingNotMissed == room.state = "PLAYING" => ~Ready(room)

\* Between transactions the round is sound and its table repaired, whatever order
\* touches, operations and repairs came in.
RoundIsSound == AdultHasNoDecision /\ JudgingHasDecisions /\ AdultIsPresent /\ JudgingNotMissed

\* A hand and its decision together never exceed the hand size, so handing a
\* decision back cannot overfill a hand (417-427, 555-563).
HandsBounded ==
  \A p \in Player :
    Cardinality(room.hand[p]) + Cardinality(room.sub[p]) <= HandSize

\* Every judged round gave exactly one point and every round a prompt of its
\* own: scores, rounds and drawn prompts tell the same story (489-501, 565-572).
ScoresMatchRounds ==
  LET judged == IF room.round > 0 /\ room.winner = None
                THEN room.round - 1 ELSE room.round
  IN  /\ SumFunction(room.score) = judged
      /\ Cardinality(room.asked) = room.round

\* Cards, hands, rounds and points add up.
BooksBalance == CardsConserved /\ HandsBounded /\ ScoresMatchRounds

-----------------------------------------------------------------------------
(* Action properties.                                                      *)

\* What _project shows to somebody at the table.
Visible(r) ==
  <<r.state, r.round, r.seats, r.score, r.connected, r.adult, r.prompt,
    r.hand, r.sub, r.winner>>

\* Watchers are woken by a new revision only (watch, 589-602), so a transaction
\* that changes anything a player sees moves the revision.
VisibleChangeBumps ==
  [][Visible(room') # Visible(room) => room'.bumps > 0]_room

\* ...and presence alone moves it only for a reason (_touch, 680-682).
PresenceIsQuiet ==
  [][\A p \in Player :
       (Heartbeat(p) \/ Rejoin(p)) /\ room'.bumps > 0
         => Visible(room') # Visible(room)]_vars

\* The revision moves when the table does: a watcher misses nothing, and nobody's
\* next action is refused as stale for a heartbeat.
RevisionFollowsTable == VisibleChangeBumps /\ PresenceIsQuiet

\* A decision, once made, is lost only to a new round or to taking the adult's
\* role, even by somebody who leaves with it, and then it is back in its player's
\* hand (385-391, 417-427).
DecisionsKept ==
  [][\A p \in Player :
       room.sub[p] # {} /\ room'.sub[p] # room.sub[p] =>
         \/ room'.round > room.round
         \/ room'.sub[p] = {} /\ room.sub[p] \subseteq room'.hand[p]
            /\ room'.adult # room.adult
            /\ (room'.adult = p \/ p \notin room'.connected)]_room

\* Nobody is given a point by their own judgement, even when the role moved in
\* the same transaction (489-501 after 384-415).
NobodyAwardsThemselves ==
  [][\A p \in Player : room'.score[p] # room.score[p]
       => room'.adult # p /\ p \in Decided(room)]_room

-----------------------------------------------------------------------------
(* Refinement: the room implements the table its players were promised.    *)

Game ==
  INSTANCE Table WITH
    phase <- room.state, present <- room.connected, adult <- room.adult,
    decided <- Decided(room), points <- room.score,
    rounds <- room.round

\* Every transaction is one step of Table, or none at all.
ImplementsTable == Game!Spec

=============================================================================
