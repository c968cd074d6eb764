---------------------------- MODULE RoomLiveness ----------------------------
(***************************************************************************)
(* What keeps a table moving.  The only process the code itself keeps      *)
(* running is each client's heartbeat (PeerConnection in the Python        *)
(* client, a timer in the browser), so most of what is promised here rests *)
(* on the heartbeats of some steady clients.  That the people behind them  *)
(* also play is assumed for RoundsFinish alone.                            *)
(***************************************************************************)
EXTENDS Room

CONSTANT Steady   \* players whose client heartbeats, and who play, forever

ASSUME SteadyAssumption == Steady \subseteq Player /\ Steady # {}

Heartbeats == \A p \in Steady : WF_vars(Heartbeat(p))

\* Whatever an open round asks of a steady player, they do.
Play(p) == Submit(p) \/ Judge(p)

Plays == \A p \in Steady : WF_vars(Play(p))

FairSpec == Spec /\ Heartbeats /\ Plays

Here(r) == r.connected \ r.silent

SomeoneSteady == Joined(room) \cap Steady # {}

\* An adult who left or fell silent is replaced, or comes back, as soon as any
\* steady client is heard from (_touch, 679-697 with _repair_table, 384-415).
AbsentAdultReplaced ==
  (room.state \in Active /\ SomeoneSteady /\ room.adult \notin Here(room))
    ~> (file = "gone" \/ room.state \notin Active \/ room.adult \in Here(room))

\* Players who fell silent do not hold up a round: once everybody still there
\* has decided, judging begins, unless somebody undecided comes back or the
\* last who decided goes too (docs/PEER_PRESSURE.md:98-106).
SilenceDoesNotBlock ==
  LET deciders == Here(room) \ {room.adult}
      decided == Decided(room) \cap Here(room)
  IN  (room.state = "PLAYING" /\ SomeoneSteady
         /\ decided # {} /\ deciders \subseteq decided)
        ~> (file = "gone" \/ room.state # "PLAYING" \/ decided = {}
              \/ ~(deciders \subseteq decided))

\* Whoever goes silent, the others are not held up.
SilenceIsPassedOver == AbsentAdultReplaced /\ SilenceDoesNotBlock

\* When the steady players, at least two, are the whole table for good and each
\* was dealt the cards the prompt asks for, no round stays open for ever.
CanPlay ==
  \A p \in Steady \ {room.adult} :
    room.state = "PLAYING" /\ room.sub[p] = {}
      => Cardinality(room.hand[p]) >= Slots[room.prompt]

Settled ==
  /\ file = "linked" /\ Cardinality(Steady) > 1
  /\ room.connected = Steady /\ room.silent = {} /\ CanPlay

RoundsFinish ==
  <>[]Settled => []<>(room.state \notin {"PLAYING", "JUDGING"})

=============================================================================
