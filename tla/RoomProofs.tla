----------------------------- MODULE RoomProofs -----------------------------
(***************************************************************************)
(* Theorems about Room for every number of players and every pack, and, at *)
(* the end, about the files behind a room (RoomFiles).                     *)
(*                                                                         *)
(* TypeCorrect comes first.  The round properties are not inductive one by *)
(* one: whether a repaired table has an adult without a decision depends   *)
(* on its having had one before, and a repair may run in any state a       *)
(* transaction passes through.  RoundInv puts them together with what they *)
(* need, split in two: Sound, which each step inside a transaction keeps,  *)
(* and Settled, which only the table repair at its end restores.  So there *)
(* is one lemma per step saying what it does to Sound or Settled, and one  *)
(* step per action putting them together.  The books are a second          *)
(* invariant, kept card by card: no step creates, loses or doubles one.    *)
(***************************************************************************)
EXTENDS Room, FiniteSetTheorems, TLAPS

\* The first of some seats is one of them.  (Initial segments of seats are well
\* founded under inclusion, so a nonempty set of them has a smallest.)
LEMMA FirstSeatIn ==
  ASSUME NEW S \in SUBSET Player, S # {}
  PROVE  FirstSeat(S) \in S
<1> DEFINE Segment == [p \in Player |-> 1..p]
           T == {Segment[p] : p \in S}
<1>1. IsFiniteSet(Player)
  BY FS_Interval, SizeAssumption DEF Player
<1>2. \A p \in Player : Segment[p] \in SUBSET Player
  BY SizeAssumption DEF Player
<1>3. IsWellFoundedOn(StrictSubsetOrdering(Player), SUBSET Player)
  BY <1>1, FS_StrictSubsetOrderingWellFounded, FS_FiniteSubsetsOfFinite
<1>4. \A p, q \in Player : ~(Segment[q] \subseteq Segment[p] /\ Segment[q] # Segment[p]) => p <= q
  BY SizeAssumption DEF Player
<1> HIDE DEF Segment
<1>5. T \subseteq SUBSET Player /\ T # {}
  BY <1>2
<1>6. \E x \in T : \A y \in T : ~ (<<y, x>> \in StrictSubsetOrdering(Player))
  <2> HIDE DEF T
  <2> QED BY <1>5, <1>3, WFMin, Zenon
<1>7. PICK p \in S : \A q \in S : ~ (<<Segment[q], Segment[p]>> \in StrictSubsetOrdering(Player))
  BY <1>6
<1>8. ASSUME NEW q \in S PROVE p <= q
  <2>1. <<Segment[q], Segment[p]>> \in (SUBSET Player) \X (SUBSET Player)
    BY <1>2, Zenon
  <2>2. ~(Segment[q] \subseteq Segment[p] /\ Segment[q] # Segment[p])
    BY <1>7, <2>1, Zenon DEF StrictSubsetOrdering
  <2> QED BY <2>2, <1>4
<1> QED BY <1>8 DEF FirstSeat

LEMMA BumpType ==
  ASSUME NEW r \in RoomType
  PROVE  Bump(r) \in RoomType
<1>1. r.bumps + 1 \in Nat
  BY DEF RoomType
<1>2. \A b \in Nat : [r EXCEPT !.bumps = b, !.expired = FALSE] \in RoomType
  BY DEF RoomType
<1> QED BY <1>1, <1>2 DEF Bump

LEMMA WithdrawType ==
  ASSUME NEW r \in RoomType, NEW p \in Player
  PROVE  WithdrawSubmission(r, p) \in RoomType
<1>1. [r.hand EXCEPT ![p] = @ \cup r.sub[p]] \in [Player -> SUBSET Answer]
  BY DEF RoomType
<1>2. [r.sub EXCEPT ![p] = {}] \in [Player -> SUBSET Answer]
  BY DEF RoomType
<1>3. \A h, s \in [Player -> SUBSET Answer] : [r EXCEPT !.hand = h, !.sub = s] \in RoomType
  BY DEF RoomType
<1> QED BY <1>1, <1>2, <1>3 DEF WithdrawSubmission

LEMMA WithdrawFields ==
  ASSUME NEW r \in RoomType, NEW p \in Player
  PROVE  LET w == WithdrawSubmission(r, p)
         IN  /\ w.state = r.state /\ w.connected = r.connected
             /\ w.winner = r.winner /\ w.adult = r.adult
             /\ w.sub = [r.sub EXCEPT ![p] = {}] /\ w.sub[p] = {}
             /\ w.hand = [r.hand EXCEPT ![p] = @ \cup r.sub[p]]
             /\ w.drawn = r.drawn /\ w.played = r.played
             /\ w.seats = r.seats /\ w.score = r.score /\ w.round = r.round
BY DEF WithdrawSubmission, RoomType

LEMMA HandOverType ==
  ASSUME NEW r \in RoomType, r.connected # {}
  PROVE  HandOver(r) \in RoomType
<1> DEFINE s == NextSeat(r, r.adult)
           freed == IF r.state # "ROUND_RESULT" THEN WithdrawSubmission(r, s) ELSE r
           st == IF freed.state = "JUDGING" /\ Decided(freed) = {} THEN "PLAYING" ELSE freed.state
<1>1. s \in Player
  BY FirstSeatIn DEF NextSeat, RoomType
<1>2. freed \in RoomType
  BY <1>1, WithdrawType
<1>3. freed.state \in States /\ "PLAYING" \in States
  BY <1>2 DEF RoomType, States, Active
<1>4. \A f \in RoomType, a \in Player, t \in States : [f EXCEPT !.adult = a, !.state = t] \in RoomType
  BY DEF RoomType
<1>5. st \in States
  BY <1>3
<1>6. HandOver(r) = [freed EXCEPT !.adult = s, !.state = st]
  BY DEF HandOver
<1> HIDE DEF freed, s, st
<1> QED BY <1>1, <1>2, <1>4, <1>5, <1>6

LEMMA MaybeBeginJudgingType ==
  ASSUME NEW r \in RoomType
  PROVE  MaybeBeginJudging(r) \in RoomType
<1>1. \A t \in States : [r EXCEPT !.state = t] \in RoomType
  BY DEF RoomType
<1> QED BY <1>1 DEF MaybeBeginJudging, States, Active

LEMMA RepairTableType ==
  ASSUME NEW r \in RoomType
  PROVE  RepairTable(r) \in RoomType
<1> DEFINE held == IF r.adult \in r.connected THEN r ELSE HandOver(r)
<1>3. CASE r.state \notin Active \/ (r.adult \notin r.connected /\ r.connected = {})
  BY <1>3 DEF RepairTable
<1>4. CASE ~(r.state \notin Active \/ (r.adult \notin r.connected /\ r.connected = {}))
  <2>1. held \in RoomType
    BY <1>4, HandOverType
  <2> HIDE DEF held
  <2>2. RepairTable(r) = IF held.state = "PLAYING" THEN MaybeBeginJudging(held) ELSE held
    BY <1>4 DEF RepairTable, held
  <2> QED BY <2>1, <2>2, MaybeBeginJudgingType
<1> QED BY <1>3, <1>4

LEMMA TouchType ==
  ASSUME NEW r \in RoomType, NEW who \in SUBSET Player
  PROVE  Touch(r, who) \in RoomType
<1>1. Present(r, who) \in RoomType
  BY DEF Present, RoomType
<1>2. RepairTable(Present(r, who)) \in RoomType
  BY <1>1, RepairTableType
<1> QED BY <1>2, BumpType DEF Touch

LEMMA NeedType ==
  ASSUME NEW r \in RoomType
  PROVE  Need(r) \in [Player -> 0..HandSize]
<1>1. \A p \in Player : Cardinality(r.hand[p]) \in Nat
  BY FiniteAssumption, FS_Subset, FS_CardinalityType DEF RoomType
<1> QED BY <1>1, SizeAssumption DEF Need

LEMMA FillHandsType ==
  ASSUME NEW r \in RoomType, NEW d \in Deals(Answer \ r.drawn, Need(r))
  PROVE  FillHands(r, d) \in RoomType
<1>1. d \in [Player -> SUBSET Answer]
  BY NeedType, DealsAssumption DEF IsDeal
<1>2. [p \in Player |-> r.hand[p] \cup d[p]] \in [Player -> SUBSET Answer]
  BY <1>1 DEF RoomType
<1>3. r.drawn \cup UNION {d[p] : p \in Player} \in SUBSET Answer
  BY <1>1 DEF RoomType
<1>4. \A h \in [Player -> SUBSET Answer], w \in SUBSET Answer : [r EXCEPT !.hand = h, !.drawn = w] \in RoomType
  BY DEF RoomType
<1> QED BY <1>2, <1>3, <1>4 DEF FillHands

LEMMA FillHandsFields ==
  ASSUME NEW r \in RoomType, NEW d
  PROVE  LET f == FillHands(r, d)
         IN  /\ f.connected = r.connected /\ f.sub = r.sub /\ f.played = r.played
             /\ f.hand = [p \in Player |-> r.hand[p] \cup d[p]]
             /\ f.drawn = r.drawn \cup UNION {d[p] : p \in Player}
             /\ f.score = r.score /\ f.round = r.round /\ f.state = r.state
BY DEF FillHands, RoomType

LEMMA NewRoundType ==
  ASSUME NEW r \in RoomType, NEW a \in Player, NEW q \in Prompt
  PROVE  NewRound(r, a, q) \in RoomType
<1>1. r.round + 1 \in Nat
  BY DEF RoomType
<1>2. r.played \cup UNION {r.sub[p] : p \in Player} \in SUBSET Answer
  BY DEF RoomType
<1>3. r.asked \cup {q} \in SUBSET Prompt
  BY DEF RoomType
<1>4. NoCards \in [Player -> SUBSET Answer]
  BY DEF NoCards
<1>5. \A n \in Nat, k \in SUBSET Prompt, w \in SUBSET Answer, c \in [Player -> SUBSET Answer] :
        [r EXCEPT !.state = "PLAYING", !.round = n, !.adult = a, !.prompt = q, !.asked = k,
                  !.winner = None, !.played = w, !.sub = c] \in RoomType
  BY DEF RoomType, States, Active
<1> QED BY <1>1, <1>2, <1>3, <1>4, <1>5 DEF NewRound

LEMMA PlaceSubmissionType ==
  ASSUME NEW r \in RoomType, NEW p \in Player, NEW cards \in SUBSET Answer
  PROVE  PlaceSubmission(r, p, cards) \in RoomType
<1>1. [r.hand EXCEPT ![p] = @ \ cards] \in [Player -> SUBSET Answer]
  BY DEF RoomType
<1>2. [r.sub EXCEPT ![p] = cards] \in [Player -> SUBSET Answer]
  BY DEF RoomType
<1>3. \A h, s \in [Player -> SUBSET Answer] : [r EXCEPT !.hand = h, !.sub = s] \in RoomType
  BY DEF RoomType
<1> QED BY <1>1, <1>2, <1>3 DEF PlaceSubmission

LEMMA AwardType ==
  ASSUME NEW r \in RoomType, NEW w \in Player
  PROVE  Award(r, w) \in RoomType
<1>1. [r.score EXCEPT ![w] = @ + 1] \in [Player -> Nat]
  BY DEF RoomType
<1>2. \A s \in [Player -> Nat] : [r EXCEPT !.score = s, !.winner = w, !.state = "ROUND_RESULT"] \in RoomType
  BY DEF RoomType, States, Active
<1> QED BY <1>1, <1>2 DEF Award

LEMMA SeatType ==
  ASSUME NEW r \in RoomType, r.seats < MaxPlayers
  PROVE  Seat(r) \in RoomType
<1>1. r.seats + 1 \in 0..MaxPlayers /\ r.seats + 1 \in Player
  BY SizeAssumption DEF RoomType, Player
<1>2. r.connected \cup {r.seats + 1} \in SUBSET Player
  BY <1>1 DEF RoomType
<1>3. \A n \in 0..MaxPlayers, c \in SUBSET Player : [r EXCEPT !.seats = n, !.connected = c] \in RoomType
  BY DEF RoomType
<1> QED BY <1>1, <1>2, <1>3 DEF Seat

LEMMA TouchKeeps ==
  ASSUME NEW r \in RoomType, NEW who \in SUBSET Player
  PROVE  /\ Touch(r, who).seats = r.seats
         /\ Touch(r, who).score = r.score
         /\ Touch(r, who).winner = r.winner
         /\ Touch(r, who).drawn = r.drawn
         /\ Touch(r, who).played = r.played
<1> DEFINE p == Present(r, who)
<1>1. p \in RoomType /\ p.seats = r.seats /\ p.score = r.score /\ p.winner = r.winner
        /\ p.drawn = r.drawn /\ p.played = r.played
  BY DEF Present, RoomType
<1> HIDE DEF p
<1>2. RepairTable(p).seats = p.seats /\ RepairTable(p).score = p.score /\ RepairTable(p).winner = p.winner 
        /\ RepairTable(p).drawn = p.drawn /\ RepairTable(p).played = p.played
  BY <1>1 DEF RepairTable, HandOver, MaybeBeginJudging, WithdrawSubmission, RoomType
<1>3. RepairTable(p) \in RoomType
  BY <1>1, RepairTableType
<1> QED BY <1>1, <1>2, <1>3 DEF Touch, p, Bump, RoomType

\* Touching a lobby leaves it a lobby.
LEMMA TouchWaits ==
  ASSUME NEW r \in RoomType, NEW who \in SUBSET Player, r.state \notin Active
  PROVE  Touch(r, who).state = r.state
<1>1. Present(r, who) \in RoomType /\ Present(r, who).state = r.state
  BY DEF Present, RoomType
<1>2. RepairTable(Present(r, who)) = Present(r, who)
  BY <1>1 DEF RepairTable
<1> QED BY <1>1, <1>2 DEF Touch, Bump, RoomType

LEMMA NextSeatIn ==
  ASSUME NEW r \in RoomType, NEW p, r.connected # {}
  PROVE  NextSeat(r, p) \in r.connected /\ NextSeat(r, p) \in Player
<1> DEFINE later == {q \in r.connected : q > p}
<1>1. r.connected \in SUBSET Player /\ later \in SUBSET Player /\ later \subseteq r.connected
  BY DEF RoomType
<1>2. NextSeat(r, p) = FirstSeat(IF later # {} THEN later ELSE r.connected)
  BY DEF NextSeat
<1> HIDE DEF later
<1> QED BY <1>1, <1>2, FirstSeatIn

\* Whoever a transaction serves is at the table once it has touched the room.
LEMMA TouchPresent ==
  ASSUME TypeOK, NEW p \in Player
  PROVE  Touched(p).connected # {} /\ p \in Touched(p).connected
<1> DEFINE t == Present(Begin(room), {p})
<1>1. t \in RoomType /\ p \in t.connected
  BY DEF Present, Begin, RoomType, TypeOK
<1> HIDE DEF t
<1>2. RepairTable(t).connected = t.connected
  BY <1>1 DEF RepairTable, HandOver, MaybeBeginJudging, WithdrawSubmission, RoomType
<1>3. RepairTable(t) \in RoomType
  BY <1>1, RepairTableType
<1> QED BY <1>1, <1>2, <1>3 DEF Touched, Touch, t, Bump, RoomType

-----------------------------------------------------------------------------
(* Type correctness.                                                       *)

LEMMA TouchedType ==
  ASSUME TypeOK, NEW p \in Player
  PROVE  Touched(p) \in RoomType
<1>1. Begin(room) \in RoomType
  BY DEF TypeOK, Begin, RoomType
<1> QED BY <1>1, TouchType DEF Touched

LEMMA InitType == Init => TypeOK
BY SizeAssumption DEF Init, TypeOK, RoomType, States, NoCards

LEMMA NextType ==
  ASSUME TypeOK, Next
  PROVE  TypeOK'
<1>1. ASSUME NEW r \in RoomType, Commit(r) PROVE TypeOK'
  BY <1>1 DEF Commit, TypeOK
<1>3. CASE Join
  <2> DEFINE t == Touch(Begin(room), {})
  <2>1. Begin(room) \in RoomType /\ Begin(room).seats = room.seats
    BY DEF TypeOK, Begin, RoomType
  <2>2. t \in RoomType /\ t.seats = room.seats
    BY <2>1, TouchType, TouchKeeps
  <2> HIDE DEF t
  <2>3. Seat(t) \in RoomType
    BY <1>3, <2>2, SeatType DEF Join
  <2> QED BY <1>1, <1>3, <2>3, BumpType DEF Join, t
<1>4. ASSUME NEW p \in Player, Rejoin(p) \/ Heartbeat(p) PROVE TypeOK'
  BY <1>1, <1>4, TouchedType DEF Rejoin, Heartbeat, Touched
<1>5. ASSUME NEW p \in Player, Sync(p) PROVE TypeOK'
  BY <1>1, <1>5, TouchedType DEF Sync, Touched, TypeOK
<1>6. ASSUME NEW p \in Player, Leave(p) PROVE TypeOK'
  <2>1. \A r \in RoomType : MarkAway(r, p) \in RoomType
    BY DEF MarkAway, RoomType
  <2> QED BY <1>1, <1>6, <2>1, TouchedType, RepairTableType, BumpType DEF Leave
<1>7. ASSUME NEW p \in Player, Start(p) PROVE TypeOK'
  <2>1. PICK d \in Deals(Answer \ Touched(p).drawn, Need(Touched(p))), q \in Prompt :
          Commit(Bump(NewRound(FillHands(Touched(p), d), p, q)))
    BY <1>7 DEF Start
  <2> QED BY <1>1, <2>1, TouchedType, FillHandsType, NewRoundType, BumpType
<1>8. ASSUME NEW p \in Player, Submit(p) PROVE TypeOK'
  <2>1. PICK cards \in SUBSET Touched(p).hand[p] :
          Commit(Bump(MaybeBeginJudging(PlaceSubmission(Touched(p), p, cards))))
    BY <1>8 DEF Submit
  <2>2. cards \in SUBSET Answer
    BY TouchedType DEF RoomType
  <2> QED BY <1>1, <2>1, <2>2, TouchedType, PlaceSubmissionType, MaybeBeginJudgingType, BumpType
<1>9. ASSUME NEW p \in Player, Judge(p) PROVE TypeOK'
  BY <1>1, <1>9, TouchedType, AwardType, BumpType DEF Judge, Decided
<1>10. ASSUME NEW p \in Player, Advance(p) PROVE TypeOK'
  <2>1. PICK d \in Deals(Answer \ Touched(p).drawn, Need(Touched(p))), q \in Prompt :
          Commit(Bump(NewRound(FillHands(Touched(p), d), NextSeat(Touched(p), p), q)))
    BY <1>10 DEF Advance
  <2>2. NextSeat(Touched(p), p) \in Player
    BY TouchedType, TouchPresent, NextSeatIn
  <2> QED BY <1>1, <2>1, <2>2, TouchedType, FillHandsType, NewRoundType, BumpType
<1>11. ASSUME NEW p \in Player, End(p) PROVE TypeOK'
  <2>1. \A r \in RoomType : [r EXCEPT !.state = "ENDED"] \in RoomType
    BY DEF RoomType, States
  <2> QED BY <1>1, <1>11, <2>1, TouchedType, BumpType DEF End
<1>12. CASE Reap
  BY <1>12 DEF Reap, TypeOK
<1>13. ASSUME NEW p \in Player, Lapse(p) PROVE TypeOK'
  BY <1>1, <1>13 DEF Lapse, TypeOK, RoomType
<1>14. CASE Expire
  BY <1>1, <1>14 DEF Expire, TypeOK, RoomType
<1> QED
  BY <1>3, <1>4, <1>5, <1>6, <1>7, <1>8, <1>9, <1>10, <1>11, <1>12, <1>13, <1>14 DEF Next

\* The room's data always has the shape its tables declare.
THEOREM TypeCorrect == Spec => []TypeOK
<1>1. TypeOK /\ [Next]_vars => TypeOK'
  BY NextType DEF TypeOK, vars
<1> QED BY InitType, <1>1, PTL DEF Spec

-----------------------------------------------------------------------------
(* The round.  Each part is a property of Room, said of any room r.        *)

HasAdult(r) == r.state \in Active => r.adult \in Player

NoDecision(r) == r.state \in {"PLAYING", "JUDGING"} => r.sub[r.adult] = {}

HasDecisions(r) ==
  /\ r.state = "JUDGING" => Decided(r) # {}
  /\ r.state = "ROUND_RESULT" => r.winner \in Decided(r)

AdultHere(r) == r.state \in Active /\ r.connected # {} => r.adult \in r.connected

NotMissed(r) == r.state = "PLAYING" => ~Ready(r)

\* What holds between transactions, and what of it holds within one.
Sound(r) == HasAdult(r) /\ NoDecision(r) /\ HasDecisions(r)
Settled(r) == Sound(r) /\ AdultHere(r) /\ NotMissed(r)

RoundInv == TypeOK /\ Settled(room)

\* The counters a request touches on its way are no part of the round.
LEMMA SoundReads ==
  ASSUME NEW r \in RoomType, NEW s \in RoomType,
         s.state = r.state, s.adult = r.adult, s.sub = r.sub, s.winner = r.winner
  PROVE  Sound(r) => Sound(s)
BY DEF Sound, HasAdult, NoDecision, HasDecisions, Decided

LEMMA SettledReads ==
  ASSUME NEW r \in RoomType, NEW s \in RoomType,
         s.state = r.state, s.adult = r.adult, s.sub = r.sub, s.winner = r.winner,
         s.connected = r.connected
  PROVE  Settled(r) => Settled(s)
BY SoundReads DEF Settled, AdultHere, NotMissed, Ready, Decided

\* A hand-over never leaves the new adult with a decision in an open round, nor
\* a table judging nothing.
LEMMA HandOverSound ==
  ASSUME NEW r \in RoomType, r.connected # {}, r.state \in Active, Sound(r)
  PROVE  /\ Sound(HandOver(r))
         /\ HandOver(r).adult \in r.connected
         /\ HandOver(r).connected = r.connected
         /\ HandOver(r).state \in Active
<1> DEFINE s == NextSeat(r, r.adult)
           freed == IF r.state # "ROUND_RESULT" THEN WithdrawSubmission(r, s) ELSE r
           st == IF freed.state = "JUDGING" /\ Decided(freed) = {} THEN "PLAYING" ELSE freed.state
           h == [freed EXCEPT !.adult = s, !.state = st]
<1>1. s \in r.connected /\ s \in Player
  BY NextSeatIn
<1>2. /\ freed \in RoomType
      /\ freed.state = r.state /\ freed.connected = r.connected
      /\ freed.winner = r.winner
      /\ r.state # "ROUND_RESULT" => freed.sub[s] = {}
      /\ r.state = "ROUND_RESULT" => freed.sub = r.sub
  BY <1>1, WithdrawType, WithdrawFields
<1>3. HandOver(r) = h
  BY DEF HandOver
<1> HIDE DEF freed, s
<1>4. h.adult = s /\ h.state = st /\ h.sub = freed.sub /\ h.winner = freed.winner
        /\ h.connected = freed.connected
  <2> HIDE DEF st
  <2> QED BY <1>2 DEF RoomType
<1>5. Decided(h) = Decided(freed)
  BY <1>4 DEF Decided
<1>6. r.state = "ROUND_RESULT" => Decided(freed) = Decided(r)
  BY <1>2 DEF Decided
<1> HIDE DEF h
<1>7. HasAdult(h) /\ NoDecision(h)
  BY <1>1, <1>2, <1>4 DEF HasAdult, NoDecision, Active
<1>8. HasDecisions(h)
  BY <1>2, <1>4, <1>5, <1>6 DEF HasDecisions, Active, Sound
<1> QED BY <1>1, <1>2, <1>3, <1>4, <1>7, <1>8 DEF Sound, Active

\* Judging begins with something to judge, and only where it was not missed.
LEMMA MaybeBeginJudgingSettles ==
  ASSUME NEW r \in RoomType, Sound(r), AdultHere(r), r.state = "PLAYING"
  PROVE  Settled(MaybeBeginJudging(r))
<1>1. CASE Ready(r)
  <2> DEFINE j == [r EXCEPT !.state = "JUDGING"]
  <2>1. /\ j.state = "JUDGING" /\ j.sub = r.sub /\ j.adult = r.adult
        /\ j.connected = r.connected
    BY DEF RoomType
  <2>2. Decided(j) = Decided(r) /\ Decided(r) # {}
    BY <1>1, <2>1 DEF Decided, Ready
  <2> HIDE DEF j
  <2>3. Settled(j)
    BY <2>1, <2>2 DEF Settled, Sound, HasAdult, NoDecision, HasDecisions, AdultHere, NotMissed, Active
  <2> QED BY <1>1, <2>3 DEF MaybeBeginJudging, j
<1>2. CASE ~Ready(r)
  BY <1>2 DEF MaybeBeginJudging, Settled, NotMissed
<1> QED BY <1>1, <1>2

LEMMA RepairTableSettles ==
  ASSUME NEW r \in RoomType, Sound(r)
  PROVE  Settled(RepairTable(r)) /\ RepairTable(r).connected = r.connected
<1>1. CASE r.state \notin Active
  BY <1>1 DEF RepairTable, Settled, AdultHere, NotMissed, Active
<1>2. CASE r.state \in Active /\ r.adult \notin r.connected /\ r.connected = {}
  <2>1. ~Ready(r)
    BY <1>2 DEF Ready
  <2> QED BY <1>2, <2>1 DEF RepairTable, Settled, AdultHere, NotMissed
<1>3. CASE r.state \in Active /\ ~(r.adult \notin r.connected /\ r.connected = {})
  <2> DEFINE held == IF r.adult \in r.connected THEN r ELSE HandOver(r)
  <2>1. /\ held \in RoomType /\ Sound(held) /\ AdultHere(held)
        /\ held.connected = r.connected
    BY <1>3, HandOverSound, HandOverType DEF AdultHere
  <2> HIDE DEF held
  <2>2. RepairTable(r) = IF held.state = "PLAYING" THEN MaybeBeginJudging(held) ELSE held
    BY <1>3 DEF RepairTable, held
  <2>3. held.state # "PLAYING" => Settled(held)
    BY <2>1 DEF Settled, NotMissed
  <2>4. MaybeBeginJudging(held).connected = held.connected
    BY <2>1 DEF MaybeBeginJudging, RoomType
  <2> QED BY <2>1, <2>2, <2>3, <2>4, MaybeBeginJudgingSettles
<1> QED BY <1>1, <1>2, <1>3

LEMMA BumpSettled ==
  ASSUME NEW r \in RoomType
  PROVE  Settled(r) => Settled(Bump(r))
<1>1. /\ Bump(r).state = r.state /\ Bump(r).adult = r.adult /\ Bump(r).sub = r.sub
      /\ Bump(r).winner = r.winner /\ Bump(r).connected = r.connected
  BY DEF Bump, RoomType
<1> QED BY <1>1, BumpType, SettledReads

LEMMA TouchedSettled ==
  ASSUME RoundInv, NEW who \in SUBSET Player
  PROVE  Settled(Touch(Begin(room), who))
<1> DEFINE r == Present(Begin(room), who)
<1>1. /\ r \in RoomType
      /\ r.state = room.state /\ r.adult = room.adult /\ r.sub = room.sub
      /\ r.winner = room.winner
  BY DEF Present, Begin, RoomType, RoundInv, TypeOK
<1>2. Sound(r)
  BY <1>1, SoundReads DEF RoundInv, Settled, TypeOK
<1> HIDE DEF r
<1>3. Settled(RepairTable(r)) /\ RepairTable(r) \in RoomType
  BY <1>1, <1>2, RepairTableSettles, RepairTableType
<1> QED BY <1>3, BumpSettled DEF Touch, r

LEMMA NewRoundSettled ==
  ASSUME NEW r \in RoomType, NEW a \in r.connected, NEW q \in Prompt
  PROVE  Settled(NewRound(r, a, q))
<1> DEFINE n == NewRound(r, a, q)
<1>1. /\ n.state = "PLAYING" /\ n.adult = a /\ n.sub = NoCards /\ n.connected = r.connected
  BY DEF NewRound, RoomType
<1>2. a \in Player
  BY DEF RoomType
<1> HIDE DEF n
<1>3. Decided(n) = {}
  BY <1>1 DEF Decided, NoCards
<1>4. ~Ready(n)
  BY <1>3 DEF Ready
<1> QED
  BY <1>1, <1>2, <1>4
  DEF Settled, Sound, HasAdult, NoDecision, HasDecisions, AdultHere, NotMissed, NoCards, n

LEMMA SubmitSettled ==
  ASSUME NEW r \in RoomType, Settled(r), r.state = "PLAYING",
         NEW p \in Player, p # r.adult, NEW cards \in SUBSET Answer
  PROVE  Settled(MaybeBeginJudging(PlaceSubmission(r, p, cards)))
<1> DEFINE s == PlaceSubmission(r, p, cards)
<1>1. /\ s.state = r.state /\ s.adult = r.adult /\ s.connected = r.connected
      /\ s.sub = [r.sub EXCEPT ![p] = cards]
  BY DEF PlaceSubmission, RoomType
<1>2. r.adult \in Player /\ r.sub[r.adult] = {} /\ r.sub \in [Player -> SUBSET Answer]
  BY DEF Settled, Sound, HasAdult, NoDecision, Active, RoomType
<1>3. s \in RoomType
  BY PlaceSubmissionType
<1> HIDE DEF s
<1>4. Sound(s) /\ AdultHere(s)
  BY <1>1, <1>2 DEF Sound, HasAdult, NoDecision, HasDecisions, AdultHere, Settled
<1> QED BY <1>1, <1>3, <1>4, MaybeBeginJudgingSettles DEF s

LEMMA AwardSettled ==
  ASSUME NEW r \in RoomType, Settled(r), r.state = "JUDGING", NEW w \in Decided(r)
  PROVE  Settled(Award(r, w))
<1> DEFINE a == Award(r, w)
<1>1. /\ a.state = "ROUND_RESULT" /\ a.adult = r.adult /\ a.connected = r.connected
      /\ a.sub = r.sub /\ a.winner = w
  BY DEF Award, RoomType
<1> HIDE DEF a
<1> QED
  BY <1>1 DEF Settled, Sound, HasAdult, NoDecision, HasDecisions, AdultHere, NotMissed,
              Decided, Active, a

\* A room that is not in a round has nothing to settle.
LEMMA IdleSettled ==
  ASSUME NEW r, r.state \notin Active
  PROVE  Settled(r)
BY DEF Settled, Sound, HasAdult, NoDecision, HasDecisions, AdultHere, NotMissed, Active

LEMMA InitRound == Init => RoundInv
BY InitType, IdleSettled DEF Init, RoundInv, Active

LEMMA NextRound ==
  ASSUME RoundInv, Next
  PROVE  RoundInv'
<1>0. TypeOK /\ TypeOK'
  BY NextType DEF RoundInv
<1>1. ASSUME NEW r \in RoomType, Settled(r), Commit(r) \/ Commit(Bump(r)) PROVE RoundInv'
  BY <1>0, <1>1, BumpSettled DEF Commit, RoundInv
<1>2. ASSUME NEW p \in Player PROVE Settled(Touched(p)) /\ Touched(p) \in RoomType
  BY <1>0, TouchedSettled, TouchedType DEF Touched
<1>3. CASE Join
  <2> DEFINE t == Touch(Begin(room), {})
  <2>1. Begin(room) \in RoomType /\ Begin(room).seats = room.seats /\ Begin(room).state = "WAITING"
    BY <1>0, <1>3 DEF TypeOK, Begin, RoomType, Join
  <2>2. t \in RoomType /\ t.seats = room.seats /\ t.state = "WAITING"
    BY <2>1, TouchType, TouchKeeps, TouchWaits DEF Active
  <2> HIDE DEF t
  <2>3. Seat(t) \in RoomType /\ Seat(t).state = "WAITING"
    BY <1>3, <2>2, SeatType DEF Join, Seat, RoomType
  <2>4. Settled(Seat(t))
    BY <2>3, IdleSettled DEF Active
  <2> QED BY <1>1, <1>3, <2>3, <2>4 DEF Join, t
<1>4. ASSUME NEW p \in Player, Rejoin(p) \/ Heartbeat(p) PROVE RoundInv'
  BY <1>1, <1>2, <1>4 DEF Rejoin, Heartbeat, Touched
<1>5. ASSUME NEW p \in Player, Sync(p) PROVE RoundInv'
  BY <1>0, <1>1, <1>2, <1>5 DEF Sync, Touched, RoundInv
<1>6. ASSUME NEW p \in Player, Leave(p) PROVE RoundInv'
  <2> DEFINE m == MarkAway(Touched(p), p)
  <2>1. /\ m \in RoomType /\ m.state = Touched(p).state /\ m.adult = Touched(p).adult
        /\ m.sub = Touched(p).sub /\ m.winner = Touched(p).winner
    BY <1>2 DEF MarkAway, RoomType
  <2>2. Sound(m)
    BY <1>2, <2>1, SoundReads DEF Settled
  <2> HIDE DEF m
  <2>3. Settled(RepairTable(m)) /\ RepairTable(m) \in RoomType
    BY <2>1, <2>2, RepairTableSettles, RepairTableType
  <2> QED BY <1>1, <1>6, <2>3 DEF Leave, m
<1>7. ASSUME NEW p \in Player, Start(p) \/ Advance(p) PROVE RoundInv'
  <2> DEFINE t == Touched(p)
  <2>1. PICK d \in Deals(Answer \ t.drawn, Need(t)), q \in Prompt :
          Commit(Bump(NewRound(FillHands(t, d), p, q))) \/ Commit(Bump(NewRound(FillHands(t, d), NextSeat(t, p), q)))
    BY <1>7 DEF Start, Advance
  <2>2. t \in RoomType /\ p \in t.connected /\ NextSeat(t, p) \in t.connected
    BY <1>0, <1>2, TouchPresent, NextSeatIn
  <2> HIDE DEF t
  <2>3. FillHands(t, d) \in RoomType /\ FillHands(t, d).connected = t.connected
    BY <2>2, FillHandsType, FillHandsFields
  <2>4. ASSUME NEW a \in t.connected PROVE Settled(NewRound(FillHands(t, d), a, q)) /\ NewRound(FillHands(t, d), a, q) \in RoomType
    <3>1. a \in FillHands(t, d).connected /\ a \in Player
      BY <2>2, <2>3 DEF RoomType
    <3> QED BY <2>3, <3>1, NewRoundSettled, NewRoundType
  <2> QED BY <1>1, <2>1, <2>2, <2>4
<1>8. ASSUME NEW p \in Player, Submit(p) PROVE RoundInv'
  <2>1. PICK cards \in SUBSET Touched(p).hand[p] :
          /\ Touched(p).state = "PLAYING" /\ p # Touched(p).adult
          /\ Commit(Bump(MaybeBeginJudging(PlaceSubmission(Touched(p), p, cards))))
    BY <1>8 DEF Submit
  <2>2. cards \in SUBSET Answer
    BY <1>2 DEF RoomType
  <2>3. MaybeBeginJudging(PlaceSubmission(Touched(p), p, cards)) \in RoomType
    BY <1>2, <2>2, PlaceSubmissionType, MaybeBeginJudgingType
  <2> QED BY <1>1, <1>2, <2>1, <2>2, <2>3, SubmitSettled
<1>9. ASSUME NEW p \in Player, Judge(p) PROVE RoundInv'
  <2>1. PICK w \in Decided(Touched(p)) :
          Touched(p).state = "JUDGING" /\ Commit(Bump(Award(Touched(p), w)))
    BY <1>9 DEF Judge
  <2>2. w \in Player
    BY DEF Decided
  <2> QED BY <1>1, <1>2, <2>1, <2>2, AwardSettled, AwardType
<1>10. ASSUME NEW p \in Player, End(p) PROVE RoundInv'
  <2> DEFINE e == [Touched(p) EXCEPT !.state = "ENDED"]
  <2>1. e \in RoomType /\ e.state = "ENDED"
    BY <1>2 DEF RoomType, States
  <2> QED BY <1>1, <1>10, <2>1, IdleSettled DEF End, Active
<1>11. CASE Reap
  BY <1>0, <1>11 DEF Reap, RoundInv
<1>12. ASSUME NEW p \in Player, Lapse(p) PROVE RoundInv'
  <2> DEFINE l == [room EXCEPT !.silent = @ \cup {p}]
  <2>1. /\ l \in RoomType /\ l.state = room.state /\ l.adult = room.adult /\ l.sub = room.sub
        /\ l.winner = room.winner /\ l.connected = room.connected
    BY <1>0 DEF TypeOK, RoomType
  <2> QED BY <1>0, <1>1, <1>12, <2>1, SettledReads DEF Lapse, RoundInv, TypeOK
<1>13. CASE Expire
  <2> DEFINE l == [room EXCEPT !.expired = TRUE]
  <2>1. /\ l \in RoomType /\ l.state = room.state /\ l.adult = room.adult /\ l.sub = room.sub
        /\ l.winner = room.winner /\ l.connected = room.connected
    BY <1>0 DEF TypeOK, RoomType
  <2> QED BY <1>0, <1>1, <1>13, <2>1, SettledReads DEF Expire, RoundInv, TypeOK
<1> QED
  BY <1>3, <1>4, <1>5, <1>6, <1>7, <1>8, <1>9, <1>10, <1>11, <1>12, <1>13 DEF Next

\* Between transactions a room is always typed, sound and repaired: RoundInv is
\* an inductive invariant (_touch 679-697 with every operation, 373-525).
THEOREM RoundSound == Spec => []RoundInv
<1>1. RoundInv /\ [Next]_vars => RoundInv'
  <2>1. RoundInv /\ UNCHANGED vars => RoundInv'
    BY DEF vars, RoundInv, TypeOK, Settled, Sound, HasAdult, NoDecision, HasDecisions,
           AdultHere, NotMissed, Decided, Ready
  <2> QED BY <2>1, NextRound
<1> QED BY InitRound, <1>1, PTL DEF Spec

\* However the role got to them, a responsible adult has no decision in the open
\* round; a table that judges has something to judge; whenever anybody is connected
\* the adult is; and no transaction leaves a round open that is ready to be judged
\* (_repair_table 384-415, _maybe_begin_judging 473-487).
THEOREM RoundIsAlwaysSound == Spec => []RoundIsSound
<1>1. RoundInv => AdultHasNoDecision
  BY DEF RoundInv, Settled, Sound, NoDecision, AdultHasNoDecision
<1>2. RoundInv => JudgingHasDecisions
  BY DEF RoundInv, Settled, Sound, HasDecisions, JudgingHasDecisions
<1>3. RoundInv => AdultIsPresent
  BY DEF RoundInv, Settled, AdultHere, AdultIsPresent
<1>4. RoundInv => JudgingNotMissed
  BY DEF RoundInv, Settled, NotMissed, JudgingNotMissed
<1>5. RoundInv => RoundIsSound
  BY ONLY <1>1, <1>2, <1>3, <1>4, Zenon DEF RoundIsSound
<1> QED BY <1>5, RoundSound, PTL
-----------------------------------------------------------------------------
(* Sums.  SumFunction folds over a set in an order nobody chose.  A sum of *)
(* natural numbers is the number of points it counts, which does not       *)
(* depend on the order; both facts below follow from that.                 *)

\* The points of f on s, one by one.
Points(f, s) == {x \in s \X Nat : x[2] \in 1..f[x[1]]}

First(s) == CHOOSE x \in s : TRUE

\* What the recursion inside SumFunctionOnSet asks of its function.
IsSum(g, f, S) ==
  g = [s \in SUBSET S |-> IF s = {} THEN 0 ELSE f[First(s)] + g[s \ {First(s)}]]

LEMMA DisjointUnion ==
  ASSUME NEW S, NEW T, IsFiniteSet(S), IsFiniteSet(T), S \cap T = {}
  PROVE  /\ IsFiniteSet(S \cup T)
         /\ Cardinality(S \cup T) = Cardinality(S) + Cardinality(T)
BY FS_Union, FS_EmptySet, FS_CardinalityType

LEMMA PointsOfOne ==
  ASSUME NEW S, NEW f \in [S -> Nat], NEW p \in S
  PROVE  IsFiniteSet(Points(f, {p})) /\ Cardinality(Points(f, {p})) = f[p]
<1> DEFINE n == f[p]
           b == [k \in 1..n |-> <<p, k>>]
<1>1. n \in Nat
  OBVIOUS
<1>2. IsFiniteSet(1..n) /\ Cardinality(1..n) = n
  BY <1>1, FS_Interval
<1>3. Points(f, {p}) = {<<p, k>> : k \in 1..n}
  BY <1>1 DEF Points
<1>4. b \in Bijection(1..n, Points(f, {p}))
  BY <1>3 DEF Bijection, Injection, Surjection, IsInjective
<1> HIDE DEF b, n
<1>5. ExistsBijection(1..n, Points(f, {p}))
  BY <1>4 DEF ExistsBijection
<1> QED BY <1>2, <1>5, FS_Bijection DEF n

LEMMA PointsSplit ==
  ASSUME NEW S, NEW f \in [S -> Nat], NEW s \in SUBSET S, NEW p \in s
  PROVE  /\ Points(f, s) = Points(f, s \ {p}) \cup Points(f, {p})
         /\ Points(f, s \ {p}) \cap Points(f, {p}) = {}
BY DEF Points

LEMMA PointsFinite ==
  ASSUME NEW S, IsFiniteSet(S), NEW f \in [S -> Nat]
  PROVE  \A s \in SUBSET S : IsFiniteSet(Points(f, s))
<1> DEFINE T == {s \in SUBSET S : ~IsFiniteSet(Points(f, s))}
<1>1. IsWellFoundedOn(StrictSubsetOrdering(S), SUBSET S)
  BY FS_StrictSubsetOrderingWellFounded, FS_FiniteSubsetsOfFinite
<1>2. SUFFICES ASSUME T # {} PROVE FALSE
  OBVIOUS
<1>3. PICK s \in T : \A t \in T : <<t, s>> \notin StrictSubsetOrdering(S)
  <2>1. T \subseteq SUBSET S
    OBVIOUS
  <2> HIDE DEF T
  <2> QED BY <1>1, <1>2, <2>1, WFMin, Zenon
<1>4. CASE s = {}
  <2>1. Points(f, {}) = {}
    BY DEF Points
  <2> QED BY <1>4, <2>1, FS_EmptySet
<1>5. ASSUME NEW p \in s PROVE FALSE
  <2>1. s \ {p} \in SUBSET S /\ s \ {p} \subseteq s /\ s \ {p} # s /\ s \in SUBSET S
    OBVIOUS
  <2>2. <<s \ {p}, s>> \in StrictSubsetOrdering(S)
    BY <2>1 DEF StrictSubsetOrdering
  <2>3. IsFiniteSet(Points(f, s \ {p}))
    BY <1>3, <2>1, <2>2
  <2>4. IsFiniteSet(Points(f, s \ {p}) \cup Points(f, {p}))
    BY <2>1, <2>3, PointsOfOne, FS_Union
  <2>5. Points(f, s) = Points(f, s \ {p}) \cup Points(f, {p})
    BY <2>1, PointsSplit
  <2> QED BY <2>4, <2>5
<1> QED BY <1>4, <1>5

LEMMA CountIsSum ==
  ASSUME NEW S, IsFiniteSet(S), NEW f \in [S -> Nat]
  PROVE  IsSum([s \in SUBSET S |-> Cardinality(Points(f, s))], f, S)
<1> DEFINE g == [s \in SUBSET S |-> Cardinality(Points(f, s))]
<1>1. g[{}] = 0
  <2>1. Points(f, {}) = {}
    BY DEF Points
  <2> QED BY <2>1, FS_EmptySet
<1>2. ASSUME NEW s \in SUBSET S, s # {}
      PROVE  g[s] = f[First(s)] + g[s \ {First(s)}]
  <2> DEFINE p == First(s)
  <2>1. p \in s
    BY <1>2 DEF First
  <2> HIDE DEF p
  <2>2. s \ {p} \in SUBSET S /\ p \in S
    BY <2>1
  <2>3. /\ IsFiniteSet(Points(f, s \ {p})) /\ IsFiniteSet(Points(f, {p}))
        /\ Cardinality(Points(f, {p})) = f[p]
    BY <2>2, PointsFinite, PointsOfOne
  <2>4. Cardinality(Points(f, s \ {p})) \in Nat /\ f[p] \in Nat
    BY <2>2, <2>3, FS_CardinalityType
  <2>5. /\ Points(f, s) = Points(f, s \ {p}) \cup Points(f, {p})
        /\ Points(f, s \ {p}) \cap Points(f, {p}) = {}
    BY <2>1, PointsSplit
  <2>8. Cardinality(Points(f, s)) = Cardinality(Points(f, s \ {p})) + Cardinality(Points(f, {p}))
    BY <2>3, <2>5, DisjointUnion
  <2>9. f[p] + Cardinality(Points(f, s \ {p})) = Cardinality(Points(f, s))
    BY ONLY <2>3, <2>4, <2>8
  <2> QED BY <2>2, <2>9 DEF p
<1>3. \A s \in SUBSET S : g[s] = IF s = {} THEN 0 ELSE f[First(s)] + g[s \ {First(s)}]
  BY <1>1, <1>2, Zenon
<1>4. g = [s \in SUBSET S |-> g[s]]
  BY Zenon
<1> HIDE DEF g
<1>5. IsSum(g, f, S)
  BY <1>3, <1>4, Zenon DEF IsSum
<1> QED BY <1>5 DEF g

\* The recursion has one solution only.
LEMMA SumIsUnique ==
  ASSUME NEW S, IsFiniteSet(S), NEW f, NEW g, NEW h, IsSum(g, f, S), IsSum(h, f, S)
  PROVE  g[S] = h[S]
<1> DEFINE T == {s \in SUBSET S : g[s] # h[s]}
<1>1. IsWellFoundedOn(StrictSubsetOrdering(S), SUBSET S)
  BY FS_StrictSubsetOrderingWellFounded, FS_FiniteSubsetsOfFinite
<1>2. SUFFICES ASSUME T # {} PROVE FALSE
  OBVIOUS
<1>3. PICK s \in T : \A t \in T : <<t, s>> \notin StrictSubsetOrdering(S)
  <2>1. T \subseteq SUBSET S
    OBVIOUS
  <2> HIDE DEF T
  <2> QED BY <1>1, <1>2, <2>1, WFMin, Zenon
<1>4. /\ g[s] = IF s = {} THEN 0 ELSE f[First(s)] + g[s \ {First(s)}]
      /\ h[s] = IF s = {} THEN 0 ELSE f[First(s)] + h[s \ {First(s)}]
  BY Zenon DEF IsSum
<1>5. s # {} => First(s) \in s
  BY DEF First
<1>6. CASE s # {}
  <2> DEFINE t == s \ {First(s)}
  <2>1. t \in SUBSET S /\ t \subseteq s /\ t # s /\ s \in SUBSET S
    BY <1>5, <1>6
  <2> HIDE DEF t
  <2>2. <<t, s>> \in StrictSubsetOrdering(S)
    BY <2>1 DEF StrictSubsetOrdering
  <2>3. g[t] = h[t]
    BY <1>3, <2>1, <2>2
  <2> QED BY <1>4, <1>6, <2>3 DEF t
<1> QED BY <1>4, <1>6

\* So a sum of natural numbers counts their points.
LEMMA SumCounts ==
  ASSUME NEW S, IsFiniteSet(S), NEW f \in [S -> Nat]
  PROVE  SumFunction(f) = Cardinality(Points(f, S))
<1> DEFINE g == CHOOSE h : IsSum(h, f, S)
           c == [s \in SUBSET S |-> Cardinality(Points(f, s))]
<1>1. SumFunction(f) = g[S]
  BY DEF SumFunction, SumFunctionOnSet, FoldFunctionOnSet, MapThenFoldSet, IsSum, First
<1>2. IsSum(c, f, S)
  BY CountIsSum
<1> HIDE DEF c
<1>3. IsSum(g, f, S)
  BY <1>2
<1> HIDE DEF g
<1>4. g[S] = c[S]
  BY ONLY <1>2, <1>3, SumIsUnique, IsFiniteSet(S)
<1> QED BY <1>1, <1>4 DEF c

LEMMA SumOfZeros ==
  ASSUME NEW S, IsFiniteSet(S)
  PROVE  SumFunction([p \in S |-> 0]) = 0
<1> DEFINE f == [p \in S |-> 0]
<1>1. f \in [S -> Nat] /\ Points(f, S) = {}
  BY DEF Points
<1> HIDE DEF f
<1> QED BY <1>1, SumCounts, FS_EmptySet DEF f

LEMMA SumOfOneMore ==
  ASSUME NEW S, IsFiniteSet(S), NEW f \in [S -> Nat], NEW w \in S
  PROVE  SumFunction([f EXCEPT ![w] = @ + 1]) = SumFunction(f) + 1
<1> DEFINE g == [f EXCEPT ![w] = @ + 1]
           point == <<w, f[w] + 1>>
<1>1. g \in [S -> Nat]
  OBVIOUS
<1>2. Points(g, S) = Points(f, S) \cup {point} /\ point \notin Points(f, S)
  BY DEF Points
<1> HIDE DEF g, point
<1>3. IsFiniteSet(Points(f, S))
  BY PointsFinite
<1>4. SumFunction(f) = Cardinality(Points(f, S)) /\ SumFunction(g) = Cardinality(Points(g, S))
  BY <1>1, SumCounts
<1>5. Cardinality(Points(f, S) \cup {point}) = Cardinality(Points(f, S)) + 1
  BY <1>2, <1>3, FS_AddElement
<1>6. SumFunction(g) = SumFunction(f) + 1
  BY <1>2, <1>4, <1>5
<1> QED BY <1>6 DEF g
-----------------------------------------------------------------------------
(* The books.  Cards are counted by what each player holds, hand and       *)
(* decision together: withdrawing, submitting and repairing move cards     *)
(* between the two and leave the union alone.  Points are counted by the   *)
(* phase: a round that is open has not given its point yet.                *)

Held(r, p) == r.hand[p] \cup r.sub[p]

Conserved(r) ==
  /\ r.drawn = r.played \cup UNION {Held(r, p) : p \in Player}
  /\ \A p \in Player : r.hand[p] \cap r.sub[p] = {} /\ Held(r, p) \cap r.played = {}
  /\ \A p, q \in Player : p # q => Held(r, p) \cap Held(r, q) = {}

Bounded(r) == \A p \in Player : Cardinality(Held(r, p)) <= HandSize

Judged(r) == IF r.round > 0 /\ r.winner = None THEN r.round - 1 ELSE r.round

\* The prompts asked are finitely many, though the packs' need not be.
Tallied(r) ==
  /\ SumFunction(r.score) = Judged(r)
  /\ IsFiniteSet(r.asked) /\ Cardinality(r.asked) = r.round

\* A winner is on record from the judgement to the next round, and only then.
Phased(r) ==
  /\ r.state = "WAITING" => r.round = 0 /\ r.winner = None
  /\ r.state \in {"PLAYING", "JUDGING"} => r.round > 0 /\ r.winner = None
  /\ r.state = "ROUND_RESULT" => r.round > 0 /\ r.winner \in Player

Books(r) == Conserved(r) /\ Bounded(r) /\ Tallied(r) /\ Phased(r)

BooksInv == TypeOK /\ Books(room)

LEMMA CardsFinite ==
  ASSUME NEW S \in SUBSET Answer
  PROVE  IsFiniteSet(S) /\ Cardinality(S) \in Nat
BY FiniteAssumption, FS_Subset, FS_CardinalityType

\* Cards that move between a hand and a decision stay on the books.
LEMMA HeldKeepsCards ==
  ASSUME NEW r, NEW s, Conserved(r), Bounded(r),
         \A p \in Player : Held(s, p) = Held(r, p) /\ s.hand[p] \cap s.sub[p] = {},
         s.drawn = r.drawn, s.played = r.played
  PROVE  Conserved(s) /\ Bounded(s)
<1>1. UNION {Held(s, p) : p \in Player} = UNION {Held(r, p) : p \in Player}
  OBVIOUS
<1> QED BY <1>1 DEF Conserved, Bounded

LEMMA CardsRead ==
  ASSUME NEW r, NEW s, Books(r),
         s.hand = r.hand, s.sub = r.sub, s.drawn = r.drawn, s.played = r.played
  PROVE  Conserved(s) /\ Bounded(s)
BY HeldKeepsCards DEF Books, Held, Conserved

\* Points and prompts are only read through these columns.
LEMMA TalliedReads ==
  ASSUME NEW r, NEW s, Tallied(r),
         s.score = r.score, s.asked = r.asked, s.round = r.round, s.winner = r.winner
  PROVE  Tallied(s)
BY DEF Tallied, Judged

LEMMA BooksReads ==
  ASSUME NEW r, NEW s, Books(r), s.state = r.state,
         s.hand = r.hand, s.sub = r.sub, s.drawn = r.drawn, s.played = r.played,
         s.score = r.score, s.asked = r.asked, s.round = r.round, s.winner = r.winner
  PROVE  Books(s)
<1>1. Conserved(s) /\ Bounded(s)
  BY CardsRead
<1> QED BY <1>1, TalliedReads DEF Books, Phased

LEMMA BumpBooks ==
  ASSUME NEW r \in RoomType, Books(r)
  PROVE  Books(Bump(r))
<1> DEFINE s == Bump(r)
<1>1. /\ s.state = r.state /\ s.hand = r.hand /\ s.sub = r.sub /\ s.drawn = r.drawn
      /\ s.played = r.played /\ s.score = r.score /\ s.asked = r.asked
      /\ s.round = r.round /\ s.winner = r.winner
  BY DEF Bump, RoomType
<1> HIDE DEF s
<1> QED BY <1>1, BooksReads DEF s

LEMMA WithdrawBooks ==
  ASSUME NEW r \in RoomType, Books(r), NEW p \in Player
  PROVE  Books(WithdrawSubmission(r, p))
<1> DEFINE w == WithdrawSubmission(r, p)
<1>1. /\ w.state = r.state /\ w.winner = r.winner /\ w.score = r.score /\ w.round = r.round
      /\ w.drawn = r.drawn /\ w.played = r.played
      /\ w.sub = [r.sub EXCEPT ![p] = {}] /\ w.hand = [r.hand EXCEPT ![p] = @ \cup r.sub[p]]
  BY WithdrawFields
<1>2. w.asked = r.asked
  BY DEF WithdrawSubmission, RoomType
<1> HIDE DEF w
<1>3. \A q \in Player : Held(w, q) = Held(r, q) /\ w.hand[q] \cap w.sub[q] = {}
  BY <1>1 DEF Held, Books, Conserved, RoomType
<1>4. Conserved(w) /\ Bounded(w)
  BY <1>1, <1>3, HeldKeepsCards DEF Books
<1> QED BY <1>1, <1>2, <1>4, TalliedReads DEF Books, Phased, w

LEMMA HandOverBooks ==
  ASSUME NEW r \in RoomType, Books(r), r.connected # {}
  PROVE  Books(HandOver(r))
<1> DEFINE s == NextSeat(r, r.adult)
           freed == IF r.state # "ROUND_RESULT" THEN WithdrawSubmission(r, s) ELSE r
           st == IF freed.state = "JUDGING" /\ Decided(freed) = {} THEN "PLAYING" ELSE freed.state
           h == [freed EXCEPT !.adult = s, !.state = st]
<1>1. freed \in RoomType /\ Books(freed)
  BY NextSeatIn, WithdrawType, WithdrawBooks
<1>2. HandOver(r) = h
  BY DEF HandOver
<1> HIDE DEF freed, s
<1>3. /\ h.state = st /\ h.hand = freed.hand /\ h.sub = freed.sub /\ h.drawn = freed.drawn
      /\ h.played = freed.played /\ h.score = freed.score /\ h.asked = freed.asked
      /\ h.round = freed.round /\ h.winner = freed.winner
  <2> HIDE DEF st
  <2> QED BY <1>1 DEF RoomType
<1> HIDE DEF h
<1>4. Conserved(h) /\ Bounded(h)
  BY <1>1, <1>3, CardsRead
<1>5. Phased(h)
  BY <1>1, <1>3 DEF Books, Phased
<1> QED BY <1>1, <1>2, <1>3, <1>4, <1>5, TalliedReads DEF Books

LEMMA MaybeBeginJudgingBooks ==
  ASSUME NEW r \in RoomType, Books(r), r.state = "PLAYING"
  PROVE  Books(MaybeBeginJudging(r))
<1> DEFINE j == [r EXCEPT !.state = "JUDGING"]
<1>1. /\ j.state = "JUDGING" /\ j.hand = r.hand /\ j.sub = r.sub /\ j.drawn = r.drawn
      /\ j.played = r.played /\ j.score = r.score /\ j.asked = r.asked
      /\ j.round = r.round /\ j.winner = r.winner
  BY DEF RoomType
<1>2. MaybeBeginJudging(r) \in {r, j}
  BY DEF MaybeBeginJudging
<1> HIDE DEF j
<1>3. Conserved(j) /\ Bounded(j)
  BY <1>1, CardsRead
<1>4. Phased(j)
  BY <1>1 DEF Books, Phased
<1> QED BY <1>1, <1>2, <1>3, <1>4, TalliedReads DEF Books

LEMMA RepairTableBooks ==
  ASSUME NEW r \in RoomType, Books(r)
  PROVE  Books(RepairTable(r))
<1> DEFINE held == IF r.adult \in r.connected THEN r ELSE HandOver(r)
<1>1. CASE r.state \notin Active \/ (r.adult \notin r.connected /\ r.connected = {})
  BY <1>1 DEF RepairTable
<1>2. CASE ~(r.state \notin Active \/ (r.adult \notin r.connected /\ r.connected = {}))
  <2>1. held \in RoomType /\ Books(held)
    BY <1>2, HandOverType, HandOverBooks
  <2> HIDE DEF held
  <2>2. RepairTable(r) = IF held.state = "PLAYING" THEN MaybeBeginJudging(held) ELSE held
    BY <1>2 DEF RepairTable, held
  <2> QED BY <2>1, <2>2, MaybeBeginJudgingBooks
<1> QED BY <1>1, <1>2

LEMMA TouchBooks ==
  ASSUME NEW r \in RoomType, Books(r), NEW who \in SUBSET Player
  PROVE  Books(Touch(Begin(r), who))
<1> DEFINE p == Present(Begin(r), who)
<1>1. /\ p \in RoomType /\ p.state = r.state /\ p.hand = r.hand /\ p.sub = r.sub
      /\ p.drawn = r.drawn /\ p.played = r.played /\ p.score = r.score
      /\ p.asked = r.asked /\ p.round = r.round /\ p.winner = r.winner
  BY DEF Present, Begin, RoomType
<1> HIDE DEF p
<1>2. Books(RepairTable(p)) /\ RepairTable(p) \in RoomType
  BY <1>1, BooksReads, RepairTableBooks, RepairTableType
<1> QED BY <1>2, BumpBooks DEF Touch, p

\* A decision is paid from its player's hand.
LEMMA PlaceSubmissionBooks ==
  ASSUME NEW r \in RoomType, Books(r), NEW p \in Player, r.sub[p] = {},
         NEW cards \in SUBSET r.hand[p]
  PROVE  Books(PlaceSubmission(r, p, cards))
<1> DEFINE s == PlaceSubmission(r, p, cards)
<1>1. /\ s.state = r.state /\ s.winner = r.winner /\ s.score = r.score /\ s.round = r.round
      /\ s.drawn = r.drawn /\ s.played = r.played /\ s.asked = r.asked
      /\ s.sub = [r.sub EXCEPT ![p] = cards] /\ s.hand = [r.hand EXCEPT ![p] = @ \ cards]
  BY DEF PlaceSubmission, RoomType
<1> HIDE DEF s
<1>2. \A q \in Player : Held(s, q) = Held(r, q) /\ s.hand[q] \cap s.sub[q] = {}
  BY <1>1 DEF Held, Books, Conserved, RoomType
<1>3. Conserved(s) /\ Bounded(s)
  BY <1>1, <1>2, HeldKeepsCards DEF Books
<1> QED BY <1>1, <1>3, TalliedReads DEF Books, Phased, s

\* A new round deals what the hands lack and turns the old decisions into
\* history: in between, hands and decisions together may exceed the hand size.
LEMMA DealtRoundBooks ==
  ASSUME NEW r \in RoomType, Books(r), r.state \in {"WAITING", "ROUND_RESULT"},
         NEW d \in Deals(Answer \ r.drawn, Need(r)), NEW a \in Player, NEW q \in Prompt \ r.asked
  PROVE  Books(NewRound(FillHands(r, d), a, q))
<1> DEFINE f == FillHands(r, d)
           n == NewRound(f, a, q)
<1>1. IsDeal(d, Answer \ r.drawn, Need(r))
  BY NeedType, DealsAssumption DEF RoomType
<1>2. /\ f \in RoomType
      /\ f.sub = r.sub /\ f.played = r.played /\ f.score = r.score /\ f.round = r.round
      /\ f.hand = [p \in Player |-> r.hand[p] \cup d[p]]
      /\ f.drawn = r.drawn \cup UNION {d[p] : p \in Player}
  BY FillHandsFields, FillHandsType
<1>3. f.asked = r.asked
  BY DEF FillHands, RoomType
<1> HIDE DEF f
<1>4. /\ n.state = "PLAYING" /\ n.round = r.round + 1 /\ n.winner = None
      /\ n.asked = r.asked \cup {q} /\ n.score = r.score
      /\ n.played = r.played \cup UNION {r.sub[p] : p \in Player}
      /\ n.hand = f.hand /\ n.drawn = f.drawn /\ n.sub = [p \in Player |-> {}]
  BY <1>2, <1>3 DEF NewRound, NoCards, RoomType
<1> HIDE DEF n
<1>5. ASSUME NEW p \in Player
      PROVE  /\ Held(n, p) = r.hand[p] \cup d[p] /\ n.hand[p] \cap n.sub[p] = {}
             /\ d[p] \in SUBSET Answer /\ d[p] \cap r.drawn = {}
             /\ Held(r, p) \subseteq r.drawn
  BY <1>1, <1>2, <1>4 DEF IsDeal, Held, Books, Conserved
<1>6. Conserved(n)
  <2>1. n.drawn = n.played \cup UNION {Held(n, p) : p \in Player}
    BY <1>2, <1>4, <1>5 DEF Books, Conserved, Held
  <2>2. \A p \in Player : Held(n, p) \cap n.played = {}
    <3>1. \A p, o \in Player : r.hand[p] \cap r.sub[o] = {}
      BY DEF Books, Conserved, Held
    <3>2. r.played \subseteq r.drawn /\ \A p \in Player : r.hand[p] \cap r.played = {}
      BY DEF Books, Conserved, Held
    <3>3. \A o \in Player : r.sub[o] \subseteq r.drawn
      BY <1>5 DEF Held
    <3> QED BY <1>4, <1>5, <3>1, <3>2, <3>3
  <2>3. \A p, o \in Player : p # o => Held(n, p) \cap Held(n, o) = {}
    <3>1. \A p, o \in Player : p # o => r.hand[p] \cap r.hand[o] = {} /\ d[p] \cap d[o] = {}
      BY <1>1 DEF Books, Conserved, Held, IsDeal
    <3>2. \A p \in Player : r.hand[p] \subseteq r.drawn
      BY <1>5 DEF Held
    <3> QED BY <1>5, <3>1, <3>2
  <2> QED BY <1>5, <2>1, <2>2, <2>3 DEF Conserved
<1>7. Bounded(n)
  <2> SUFFICES ASSUME NEW p \in Player PROVE Cardinality(r.hand[p] \cup d[p]) <= HandSize
    BY <1>5 DEF Bounded
  <2>1. /\ IsFiniteSet(r.hand[p]) /\ IsFiniteSet(d[p]) /\ IsFiniteSet(Held(r, p))
        /\ Cardinality(r.hand[p]) \in Nat /\ Cardinality(d[p]) \in Nat
    BY <1>5, CardsFinite DEF Held, RoomType
  <2>2. Cardinality(d[p]) = Need(r)[p]
    BY <1>1 DEF IsDeal
  <2>3. Cardinality(r.hand[p]) <= Cardinality(Held(r, p)) /\ Cardinality(Held(r, p)) \in Nat
    BY <2>1, FS_Subset, FS_CardinalityType DEF Held
  <2>4. Cardinality(r.hand[p]) <= HandSize
    BY <2>1, <2>3, SizeAssumption DEF Books, Bounded
  <2>5. r.hand[p] \cap d[p] = {}
    BY <1>5 DEF Held
  <2>6. Cardinality(r.hand[p] \cup d[p]) = Cardinality(r.hand[p]) + Cardinality(d[p])
    BY <2>1, <2>5, DisjointUnion
  <2>7. Need(r)[p] = IF p \in r.connected /\ Cardinality(r.hand[p]) < HandSize
                     THEN HandSize - Cardinality(r.hand[p]) ELSE 0
    BY DEF Need
  <2> QED BY <2>1, <2>2, <2>4, <2>6, <2>7, SizeAssumption
<1>8. Tallied(n)
  <2>1. r.round \in Nat /\ SumFunction(r.score) = Judged(r) /\ Judged(r) = r.round
    BY NoneAssumption DEF Books, Tallied, Phased, Judged, RoomType
  <2>2. Judged(n) = r.round
    BY <1>4, <2>1 DEF Judged
  <2>3. IsFiniteSet(n.asked) /\ Cardinality(n.asked) = r.round + 1
    BY <1>4, FS_AddElement DEF Books, Tallied
  <2> QED BY <1>4, <2>1, <2>2, <2>3 DEF Tallied
<1>9. Phased(n)
  BY <1>4 DEF Phased, RoomType
<1> QED BY <1>6, <1>7, <1>8, <1>9 DEF Books, n, f

LEMMA AwardBooks ==
  ASSUME NEW r \in RoomType, Books(r), r.state = "JUDGING", NEW w \in Player
  PROVE  Books(Award(r, w))
<1> DEFINE a == Award(r, w)
<1>1. /\ a.state = "ROUND_RESULT" /\ a.winner = w /\ a.round = r.round
      /\ a.score = [r.score EXCEPT ![w] = @ + 1] /\ a.asked = r.asked
      /\ a.hand = r.hand /\ a.sub = r.sub /\ a.drawn = r.drawn /\ a.played = r.played
  BY DEF Award, RoomType
<1> HIDE DEF a
<1>2. Conserved(a) /\ Bounded(a)
  BY <1>1, CardsRead
<1>3. r.round \in Nat /\ r.round > 0 /\ SumFunction(r.score) = r.round - 1
  BY DEF Books, Tallied, Phased, Judged, RoomType
<1>4. Judged(a) = r.round
  BY <1>1, NoneAssumption DEF Judged
<1>5. SumFunction(a.score) = SumFunction(r.score) + 1
  <2>1. IsFiniteSet(Player)
    BY FS_Interval, SizeAssumption DEF Player
  <2>2. r.score \in [Player -> Nat]
    BY DEF RoomType
  <2>3. SumFunction([r.score EXCEPT ![w] = @ + 1]) = SumFunction(r.score) + 1
    BY <2>1, <2>2, SumOfOneMore
  <2> QED BY <1>1, <2>3
<1>6. Tallied(a)
  BY <1>1, <1>3, <1>4, <1>5 DEF Tallied, Books
<1>7. Phased(a)
  BY <1>1, <1>3 DEF Phased
<1> QED BY <1>2, <1>6, <1>7 DEF Books, a

LEMMA InitBooks == Init => BooksInv
<1> SUFFICES ASSUME Init PROVE Books(room)
  BY InitType DEF BooksInv
<1>1. IsFiniteSet(Player)
  BY FS_Interval, SizeAssumption DEF Player
<1>2. SumFunction(room.score) = 0
  BY <1>1, SumOfZeros DEF Init
<1>3. \A p \in Player : Held(room, p) = {}
  BY DEF Init, Held, NoCards
<1>4. Conserved(room)
  BY <1>3 DEF Init, Conserved, Held
<1>5. Bounded(room)
  BY <1>3, FS_EmptySet, SizeAssumption DEF Bounded
<1> QED BY <1>2, <1>4, <1>5, FS_EmptySet DEF Init, Books, Tallied, Judged, Phased

LEMMA NextBooks ==
  ASSUME BooksInv, Next
  PROVE  BooksInv'
<1>0. TypeOK /\ TypeOK' /\ room \in RoomType /\ Books(room)
  BY NextType DEF BooksInv, TypeOK
<1>1. ASSUME NEW r \in RoomType, Books(r), Commit(r) \/ Commit(Bump(r)) PROVE BooksInv'
  BY <1>0, <1>1, BumpBooks DEF Commit, BooksInv
<1>2. ASSUME NEW p \in Player PROVE Books(Touched(p)) /\ Touched(p) \in RoomType
  BY <1>0, TouchBooks, TouchedType DEF Touched
<1>3. CASE Join
  <2> DEFINE t == Touch(Begin(room), {})
             s == Seat(t)
  <2>1. Begin(room) \in RoomType /\ Begin(room).seats = room.seats
    BY <1>0 DEF Begin, RoomType
  <2>2. t \in RoomType /\ t.seats = room.seats /\ Books(t)
    BY <1>0, <2>1, TouchType, TouchKeeps, TouchBooks
  <2> HIDE DEF t
  <2>3. /\ s \in RoomType /\ s.state = t.state /\ s.hand = t.hand /\ s.sub = t.sub
        /\ s.drawn = t.drawn /\ s.played = t.played /\ s.score = t.score
        /\ s.asked = t.asked /\ s.round = t.round /\ s.winner = t.winner
    BY <1>3, <2>2, SeatType DEF Join, Seat, RoomType
  <2> HIDE DEF s
  <2>4. Books(s)
    BY <2>2, <2>3, BooksReads
  <2> QED BY <1>1, <1>3, <2>3, <2>4 DEF Join, t, s
<1>4. ASSUME NEW p \in Player, Rejoin(p) \/ Heartbeat(p) PROVE BooksInv'
  BY <1>1, <1>2, <1>4 DEF Rejoin, Heartbeat, Touched
<1>5. ASSUME NEW p \in Player, Sync(p) PROVE BooksInv'
  BY <1>0, <1>1, <1>2, <1>5 DEF Sync, Touched, BooksInv
<1>6. ASSUME NEW p \in Player, Leave(p) PROVE BooksInv'
  <2> DEFINE t == Touched(p)
             m == MarkAway(t, p)
  <2>1. t \in RoomType /\ Books(t)
    BY <1>2
  <2> HIDE DEF t
  <2>2. /\ m \in RoomType /\ m.state = t.state /\ m.hand = t.hand /\ m.sub = t.sub
        /\ m.drawn = t.drawn /\ m.played = t.played /\ m.score = t.score
        /\ m.asked = t.asked /\ m.round = t.round /\ m.winner = t.winner
    BY <2>1 DEF MarkAway, RoomType
  <2> HIDE DEF m
  <2>3. Books(RepairTable(m)) /\ RepairTable(m) \in RoomType
    BY <2>1, <2>2, BooksReads, RepairTableBooks, RepairTableType
  <2> QED BY <1>1, <1>6, <2>3 DEF Leave, m, t
<1>7. ASSUME NEW p \in Player, Start(p) \/ Advance(p) PROVE BooksInv'
  <2> DEFINE t == Touched(p)
  <2>1. PICK d \in Deals(Answer \ t.drawn, Need(t)), q \in Prompt \ t.asked, a \in {p, NextSeat(t, p)} :
          /\ t.state \in {"WAITING", "ROUND_RESULT"}
          /\ Commit(Bump(NewRound(FillHands(t, d), a, q)))
    BY <1>7 DEF Start, Advance
  <2>2. t \in RoomType /\ Books(t) /\ a \in Player
    BY <1>0, <1>2, TouchPresent, NextSeatIn
  <2> HIDE DEF t
  <2>3. NewRound(FillHands(t, d), a, q) \in RoomType
    BY <2>2, FillHandsType, NewRoundType
  <2> QED BY <1>1, <2>1, <2>2, <2>3, DealtRoundBooks
<1>8. ASSUME NEW p \in Player, Submit(p) PROVE BooksInv'
  <2> DEFINE t == Touched(p)
  <2>1. PICK cards \in SUBSET t.hand[p] :
          /\ t.state = "PLAYING" /\ t.sub[p] = {}
          /\ Commit(Bump(MaybeBeginJudging(PlaceSubmission(t, p, cards))))
    BY <1>8 DEF Submit
  <2>2. t \in RoomType /\ Books(t)
    BY <1>2
  <2> HIDE DEF t
  <2>3. cards \in SUBSET Answer
    BY <2>2 DEF RoomType
  <2> DEFINE s == PlaceSubmission(t, p, cards)
  <2>4. s \in RoomType /\ Books(s) /\ s.state = "PLAYING"
    BY <2>1, <2>2, <2>3, PlaceSubmissionType, PlaceSubmissionBooks DEF PlaceSubmission, RoomType
  <2> HIDE DEF s
  <2>5. MaybeBeginJudging(s) \in RoomType /\ Books(MaybeBeginJudging(s))
    BY <2>4, MaybeBeginJudgingType, MaybeBeginJudgingBooks
  <2> QED BY <1>1, <2>1, <2>5 DEF s
<1>9. ASSUME NEW p \in Player, Judge(p) PROVE BooksInv'
  <2>1. PICK w \in Decided(Touched(p)) :
          Touched(p).state = "JUDGING" /\ Commit(Bump(Award(Touched(p), w)))
    BY <1>9 DEF Judge
  <2>2. w \in Player
    BY DEF Decided
  <2> QED BY <1>1, <1>2, <2>1, <2>2, AwardBooks, AwardType
<1>10. ASSUME NEW p \in Player, End(p) PROVE BooksInv'
  <2> DEFINE t == Touched(p)
             e == [t EXCEPT !.state = "ENDED"]
  <2>1. t \in RoomType /\ Books(t)
    BY <1>2
  <2>2. room' = Bump(e) /\ UNCHANGED file
    BY <1>10 DEF End, Commit
  <2> HIDE DEF t
  <2>3. /\ e \in RoomType /\ e.state = "ENDED" /\ e.hand = t.hand /\ e.sub = t.sub
        /\ e.drawn = t.drawn /\ e.played = t.played /\ e.score = t.score
        /\ e.asked = t.asked /\ e.round = t.round /\ e.winner = t.winner
    BY <2>1 DEF RoomType, States
  <2> HIDE DEF e
  <2>4. Conserved(e) /\ Bounded(e)
    BY <2>1, <2>3, CardsRead
  <2>5. Books(e)
    BY <2>1, <2>3, <2>4, TalliedReads DEF Books, Phased
  <2> QED BY <1>1, <2>2, <2>3, <2>5 DEF Commit
<1>11. CASE Reap
  BY <1>0, <1>11 DEF Reap, BooksInv
<1>12. ASSUME NEW p \in Player, Lapse(p) \/ Expire PROVE BooksInv'
  <2>1. /\ room'.state = room.state /\ room'.hand = room.hand /\ room'.sub = room.sub
        /\ room'.drawn = room.drawn /\ room'.played = room.played /\ room'.score = room.score
        /\ room'.asked = room.asked /\ room'.round = room.round /\ room'.winner = room.winner
    BY <1>0, <1>12 DEF Lapse, Expire, Commit, RoomType
  <2>2. Books(room')
    BY <1>0, <2>1, BooksReads
  <2> QED BY <1>0, <2>2 DEF BooksInv
<1>13. CASE Expire
  <2>1. 1 \in Player
    BY SizeAssumption DEF Player
  <2> QED BY <1>12, <1>13, <2>1
<1> QED
  BY <1>3, <1>4, <1>5, <1>6, <1>7, <1>8, <1>9, <1>10, <1>11, <1>12, <1>13 DEF Next

\* Whatever was dealt, submitted, withdrawn and judged, in any order: every drawn
\* card is in one place, no hand with its decision is over the hand size, and
\* points, rounds and prompts agree (417-471, 489-501, 555-572).
THEOREM BooksAlwaysBalance == Spec => []BooksBalance
<1>1. BooksInv /\ UNCHANGED vars => BooksInv'
  BY DEF vars, BooksInv, TypeOK, Books, Conserved, Held, Bounded, Tallied, Judged, Phased
<1>2. BooksInv /\ [Next]_vars => BooksInv'
  BY <1>1, NextBooks
<1>3. BooksInv => CardsConserved
  BY DEF BooksInv, Books, Conserved, Held, CardsConserved
<1>4. BooksInv => HandsBounded
  <2> SUFFICES ASSUME BooksInv, NEW p \in Player
               PROVE  Cardinality(room.hand[p]) + Cardinality(room.sub[p]) <= HandSize
    BY DEF HandsBounded
  <2>1. room.hand[p] \in SUBSET Answer /\ room.sub[p] \in SUBSET Answer
    BY DEF BooksInv, TypeOK, RoomType
  <2>2. room.hand[p] \cap room.sub[p] = {} /\ Cardinality(Held(room, p)) <= HandSize
    BY DEF BooksInv, Books, Conserved, Bounded
  <2> QED BY <2>1, <2>2, CardsFinite, DisjointUnion DEF Held
<1>5. BooksInv => ScoresMatchRounds
  BY DEF BooksInv, Books, Tallied, Judged, ScoresMatchRounds
<1>6. BooksInv => BooksBalance
  BY ONLY <1>3, <1>4, <1>5, Zenon DEF BooksBalance
<1> QED BY InitBooks, <1>2, <1>6, PTL DEF Spec
-----------------------------------------------------------------------------
(* Steps: the room implements the table, and nobody judges their own       *)
(* decision.  These theorems rest on RoundInv and on one relation,         *)
(* Follows: what presence updates and repairs may do to a room, whoever    *)
(* asked for them.                                                         *)

AllIn(r) == r.connected \ {r.adult} \subseteq Decided(r)

\* From room r to room s only presence changed, and the table was repaired.
Follows(r, s) ==
  /\ s.score = r.score /\ s.round = r.round
  /\ r.state \notin Active => s.state = r.state /\ s.adult = r.adult /\ s.sub = r.sub
  /\ r.state = "ROUND_RESULT" => s.state = r.state /\ s.sub = r.sub
  /\ r.state \in {"PLAYING", "JUDGING"} => s.state \in {"PLAYING", "JUDGING"}
  /\ s.adult = r.adult \/ (r.adult \notin s.connected /\ s.adult \in Player)
  /\ Decided(s) \subseteq Decided(r)
  /\ s.adult = r.adult => s.sub = r.sub
  /\ r.state = "JUDGING" /\ s.adult = r.adult => s.state = "JUDGING"
  /\ r.state = "PLAYING" /\ s.state = "JUDGING" => AllIn(s)

\* ...in one repair: at most one hand-over, to somebody at the table, whose
\* decision alone is withdrawn.
Repairs(r, s) ==
  /\ Follows(r, s)
  /\ s.adult = r.adult \/ s.adult \in s.connected
  /\ Decided(r) \subseteq Decided(s) \cup {s.adult}

\* The counts of _maybe_begin_judging mean what they are for: they agree exactly
\* when everybody connected, the adult aside, has decided.
LEMMA ReadyMeansAllIn ==
  ASSUME NEW r \in RoomType, Sound(r), r.state \in {"PLAYING", "JUDGING"}
  PROVE  Ready(r) <=> AllIn(r) /\ Decided(r) \cap r.connected # {}
<1> DEFINE submitted == Decided(r) \cap r.connected
           eligible == r.connected \ {r.adult}
<1>1. IsFiniteSet(Player)
  BY FS_Interval, SizeAssumption DEF Player
<1>2. r.adult \notin Decided(r)
  BY DEF Sound, NoDecision, Decided
<1>3. submitted \in SUBSET eligible
  BY <1>2
<1>4. eligible \in SUBSET Player
  BY DEF RoomType
<1>5. IsFiniteSet(eligible) /\ IsFiniteSet(submitted)
  BY <1>1, <1>3, <1>4, FS_Subset
<1>6. /\ Cardinality(submitted) \in Nat /\ Cardinality(eligible) \in Nat
      /\ Cardinality(submitted) <= Cardinality(eligible)
      /\ Cardinality(eligible) = Cardinality(submitted) => eligible = submitted
  BY <1>3, <1>5, FS_Subset, FS_CardinalityType
<1>7. Ready(r) <=> Cardinality(submitted) >= Cardinality(eligible) /\ submitted # {}
  BY DEF Ready
<1>8. AllIn(r) => submitted = eligible
  BY <1>3 DEF AllIn
<1>9. submitted = eligible => AllIn(r)
  BY DEF AllIn
<1> HIDE DEF submitted, eligible
<1>10. Ready(r) <=> AllIn(r) /\ submitted # {}
  BY <1>6, <1>7, <1>8, <1>9
<1> QED BY <1>10 DEF submitted

LEMMA HandOverFollows ==
  ASSUME NEW r \in RoomType, Sound(r), r.connected # {}, r.state \in Active,
         r.adult \notin r.connected
  PROVE  Repairs(r, HandOver(r))
<1> DEFINE s == NextSeat(r, r.adult)
           freed == IF r.state # "ROUND_RESULT" THEN WithdrawSubmission(r, s) ELSE r
           st == IF freed.state = "JUDGING" /\ Decided(freed) = {} THEN "PLAYING" ELSE freed.state
           h == [freed EXCEPT !.adult = s, !.state = st]
<1>1. s \in r.connected /\ s \in Player
  BY NextSeatIn
<1>2. /\ freed \in RoomType
      /\ freed.state = r.state /\ freed.connected = r.connected
      /\ freed.score = r.score /\ freed.round = r.round
      /\ r.state # "ROUND_RESULT" => freed.sub = [r.sub EXCEPT ![s] = {}]
      /\ r.state = "ROUND_RESULT" => freed.sub = r.sub
  BY <1>1, WithdrawType, WithdrawFields
<1>3. HandOver(r) = h
  BY DEF HandOver
<1> HIDE DEF freed, s
<1>4. h.adult = s /\ h.state = st /\ h.sub = freed.sub /\ h.score = r.score /\ h.round = r.round
        /\ h.connected = freed.connected
  <2> HIDE DEF st
  <2> QED BY <1>2 DEF RoomType
<1>5. Decided(h) \subseteq Decided(r) /\ Decided(r) \subseteq Decided(h) \cup {s}
  BY <1>2, <1>4 DEF Decided, RoomType
<1>6. r.adult # s
  BY <1>1
<1> HIDE DEF h
<1> QED BY <1>1, <1>2, <1>3, <1>4, <1>5, <1>6 DEF Repairs, Follows, Active, AllIn

LEMMA RepairTableFollows ==
  ASSUME NEW r \in RoomType, Sound(r)
  PROVE  Repairs(r, RepairTable(r))
<1>1. Repairs(r, r)
  BY DEF Repairs, Follows
<1>2. CASE r.state \notin Active \/ (r.adult \notin r.connected /\ r.connected = {})
  BY <1>1, <1>2 DEF RepairTable
<1>3. CASE ~(r.state \notin Active \/ (r.adult \notin r.connected /\ r.connected = {}))
  <2> DEFINE held == IF r.adult \in r.connected THEN r ELSE HandOver(r)
             j == [held EXCEPT !.state = "JUDGING"]
  <2>1. /\ held \in RoomType /\ Sound(held) /\ Repairs(r, held)
        /\ held.connected = r.connected /\ held.state \in Active
    BY <1>1, <1>3, HandOverSound, HandOverType, HandOverFollows
  <2> HIDE DEF held
  <2>2. RepairTable(r) = IF held.state = "PLAYING" /\ Ready(held) THEN j ELSE held
    BY <1>3 DEF RepairTable, held, MaybeBeginJudging
  <2>3. /\ j.state = "JUDGING" /\ j.sub = held.sub /\ j.adult = held.adult /\ j.connected = held.connected
        /\ j.score = held.score /\ j.round = held.round
    BY <2>1 DEF RoomType
  <2> HIDE DEF j
  <2>4. Decided(j) = Decided(held)
    BY <2>3 DEF Decided
  <2>5. held.state = "PLAYING" /\ Ready(held) => AllIn(j)
    BY <2>1, <2>3, <2>4, ReadyMeansAllIn DEF AllIn
  <2>6. held.state = "PLAYING" /\ Ready(held) => Repairs(r, j)
    BY <2>1, <2>3, <2>4, <2>5 DEF Repairs, Follows, Active
  <2> QED BY <2>1, <2>2, <2>6
<1> QED BY <1>2, <1>3

LEMMA FollowsReads ==
  ASSUME NEW r, NEW s, NEW t,
         s.score = t.score, s.round = t.round, s.state = t.state, s.adult = t.adult,
         s.sub = t.sub, s.connected = t.connected
  PROVE  /\ Follows(r, t) => Follows(r, s)
         /\ Follows(t, r) => Follows(s, r)
BY DEF Follows, Decided, AllIn

LEMMA FollowsFollows ==
  ASSUME NEW r \in RoomType, NEW s \in RoomType, NEW t \in RoomType,
         Follows(r, s), Repairs(s, t), t.connected \subseteq s.connected
  PROVE  Follows(r, t)
<1>1. t.adult = r.adult \/ (r.adult \notin t.connected /\ t.adult \in Player)
  BY DEF Follows, Repairs
<1>2. ASSUME t.adult = r.adult PROVE s.adult = r.adult
  BY <1>2 DEF Follows, Repairs
<1>3. ASSUME r.state = "PLAYING", t.state = "JUDGING" PROVE AllIn(t)
  BY <1>3 DEF Follows, Repairs, AllIn, Active
<1> QED BY <1>1, <1>2, <1>3 DEF Follows, Repairs, Active

LEMMA TouchFollows ==
  ASSUME RoundInv, NEW who \in SUBSET Player
  PROVE  Follows(room, Touch(Begin(room), who))
<1> DEFINE r == Present(Begin(room), who)
           t == RepairTable(r)
<1>1. /\ r \in RoomType
      /\ r.state = room.state /\ r.adult = room.adult /\ r.sub = room.sub
      /\ r.winner = room.winner /\ r.score = room.score /\ r.round = room.round
  BY DEF Present, Begin, RoomType, RoundInv, TypeOK
<1>2. Sound(r)
  BY <1>1, SoundReads DEF RoundInv, Settled, TypeOK
<1> HIDE DEF r
<1>3. Follows(r, t) /\ t \in RoomType
  BY <1>1, <1>2, RepairTableFollows, RepairTableType DEF Repairs
<1> HIDE DEF t
<1>4. Follows(room, t)
  BY <1>1, <1>3 DEF Follows, Decided
<1>5. /\ Bump(t).score = t.score /\ Bump(t).round = t.round /\ Bump(t).state = t.state
      /\ Bump(t).adult = t.adult /\ Bump(t).sub = t.sub /\ Bump(t).connected = t.connected
  BY <1>3 DEF Bump, RoomType
<1>6. Follows(room, Bump(t))
  BY <1>4, <1>5, FollowsReads
<1> QED BY <1>4, <1>6 DEF Touch, r, t

LEMMA LeaveFollows ==
  ASSUME RoundInv, NEW p \in Player
  PROVE  Follows(room, RepairTable(MarkAway(Touched(p), p)))
<1> DEFINE t == Touched(p)
           m == MarkAway(t, p)
           f == RepairTable(m)
<1>1. t \in RoomType /\ Settled(t) /\ Follows(room, t)
  BY TouchedType, TouchedSettled, TouchFollows DEF RoundInv, Touched
<1> HIDE DEF t
<1>2. /\ m \in RoomType
      /\ m.state = t.state /\ m.adult = t.adult /\ m.sub = t.sub
      /\ m.winner = t.winner /\ m.score = t.score /\ m.round = t.round
      /\ m.connected \subseteq t.connected
  BY <1>1 DEF MarkAway, RoomType
<1>3. Sound(m)
  BY <1>1, <1>2, SoundReads DEF Settled
<1> HIDE DEF m
<1>4. Repairs(m, f) /\ f \in RoomType /\ f.connected = m.connected
  BY <1>2, <1>3, RepairTableFollows, RepairTableType, RepairTableSettles
<1> HIDE DEF f
<1>5. Repairs(t, f)
  BY <1>2, <1>4 DEF Repairs, Follows, Decided
<1>6. room \in RoomType
  BY DEF RoundInv, TypeOK
<1>7. Follows(room, f)
  BY <1>1, <1>2, <1>4, <1>5, <1>6, FollowsFollows
<1> QED BY <1>7 DEF f, m, t

-----------------------------------------------------------------------------
(* What each transaction does to the table, seen from its two ends.        *)

\* A step of the table.
TableStep == Game!Next \/ UNCHANGED Game!tableVars

LEMMA FollowsStep ==
  ASSUME RoundInv, RoundInv', Follows(room, room')
  PROVE  TableStep
<1>1. room.adult \in Player \/ room.state \notin Active
  BY DEF RoundInv, Settled, Sound, HasAdult
<1>2. room \in RoomType /\ room' \in RoomType
  BY DEF RoundInv, TypeOK
<1>3. CASE room.state \in {"WAITING", "ENDED"}
  <2>1. Decided(room)' = Decided(room)
    BY <1>3 DEF Follows, Active, Decided
  <2> QED BY <1>3, <2>1 DEF Follows, Active, TableStep, Game!Next, Game!Gather
<1>4. CASE room.state = "ROUND_RESULT"
  <2>1. Decided(room)' = Decided(room)
    BY <1>4 DEF Follows, Decided
  <2> QED BY <1>2, <1>4, <2>1 DEF Follows, TableStep, Game!Next, Game!Linger, Game!RolePasses, RoomType
<1>5. CASE room.state \in {"PLAYING", "JUDGING"}
  <2>1. room'.state \in {"PLAYING", "JUDGING"}
    BY <1>5 DEF Follows
  <2>2. Game!RolePasses
    BY <1>2 DEF Game!RolePasses, Follows, RoomType
  <2>3. \E p \in Player : Decided(room)' \subseteq Decided(room) \cup {p}
    BY <1>1, <1>5 DEF Follows, Active, Decided
  <2>4. room'.adult \notin Decided(room)'
    BY <2>1 DEF RoundInv, Settled, Sound, NoDecision, Decided
  <2>5. room'.state = "PLAYING" => ~(AllIn(room') /\ room'.connected \cap Decided(room') # {})
    BY <1>2, ReadyMeansAllIn DEF RoundInv, Settled, NotMissed
  <2>6. room'.state = "JUDGING" => Decided(room') # {} /\ (room.state = "PLAYING" => AllIn(room'))
    BY DEF RoundInv, Settled, Sound, HasDecisions, Follows
  <2>7. room.state = "JUDGING" /\ room'.adult = room.adult
          => room'.state = room.state /\ Decided(room') = Decided(room)
    BY DEF Follows, Decided
  <2>8. room'.score = room.score /\ room'.round = room.round
    BY DEF Follows
  <2>9. Decided(room)' = Decided(room')
    BY DEF Decided
  <2>10. Game!NobodyDeciding <=> AllIn(room')
    BY <2>9 DEF Game!NobodyDeciding, AllIn
  <2>11. Game!Decide
    BY <1>5, <2>1, <2>2, <2>3, <2>4, <2>5, <2>6, <2>7, <2>8, <2>9, <2>10 DEF Game!Decide
  <2> QED BY <2>11 DEF TableStep, Game!Next
<1> QED BY <1>2, <1>3, <1>4, <1>5 DEF RoomType, States, Active

LEMMA OpenStep ==
  ASSUME RoundInv, NEW t \in RoomType, Follows(room, t),
         t.state \in {"WAITING", "ROUND_RESULT"},
         NEW d, FillHands(t, d) \in RoomType, NEW a \in t.connected, NEW q \in Prompt,
         Commit(Bump(NewRound(FillHands(t, d), a, q)))
  PROVE  TableStep /\ room'.score = room.score
<1> DEFINE f == FillHands(t, d)
           n == NewRound(f, a, q)
<1>0. f \in RoomType /\ f.round = t.round /\ f.connected = t.connected /\ f.score = t.score
  BY FillHandsFields
<1> HIDE DEF f
<1>1. /\ n.state = "PLAYING" /\ n.adult = a /\ n.sub = NoCards /\ n.round = t.round + 1
      /\ n.connected = t.connected /\ n.score = t.score
  BY <1>0 DEF NewRound, RoomType
<1>2. n \in RoomType
  BY <1>0, NewRoundType DEF RoomType
<1> HIDE DEF n
<1>3. /\ Bump(n).state = "PLAYING" /\ Bump(n).adult = a /\ Bump(n).sub = NoCards
      /\ Bump(n).round = t.round + 1 /\ Bump(n).connected = t.connected
      /\ Bump(n).score = t.score
  BY <1>1, <1>2 DEF Bump, RoomType
<1>4. room' = Bump(n)
  BY DEF Commit, n, f
<1>5. Decided(room)' = {}
  BY <1>3, <1>4 DEF Decided, NoCards
<1>6. room.state \in {"WAITING", "ROUND_RESULT"} /\ t.round = room.round /\ t.score = room.score
  BY DEF Follows, Active, RoundInv, TypeOK, RoomType, States
<1> QED BY <1>3, <1>4, <1>5, <1>6 DEF TableStep, Game!Next, Game!Open

LEMMA SubmitStep ==
  ASSUME RoundInv, RoundInv', NEW p \in Player, Submit(p)
  PROVE  TableStep /\ room'.score = room.score
<1> DEFINE t == Touched(p)
<1>1. PICK cards \in SUBSET t.hand[p] :
        /\ t.state = "PLAYING" /\ p # t.adult
        /\ Commit(Bump(MaybeBeginJudging(PlaceSubmission(t, p, cards))))
  BY DEF Submit
<1> DEFINE s == PlaceSubmission(t, p, cards)
           f == MaybeBeginJudging(s)
<1>2. t \in RoomType /\ Settled(t) /\ Follows(room, t)
  BY TouchedType, TouchedSettled, TouchFollows DEF RoundInv, Touched
<1> HIDE DEF t
<1>3. cards \in SUBSET Answer
  BY <1>2 DEF RoomType
<1>4. /\ s.state = "PLAYING" /\ s.adult = t.adult /\ s.connected = t.connected
      /\ s.score = t.score /\ s.round = t.round /\ s.sub = [t.sub EXCEPT ![p] = cards]
  BY <1>1, <1>2 DEF PlaceSubmission, RoomType
<1>5. s \in RoomType
  BY <1>2, <1>3, PlaceSubmissionType
<1>6. Decided(s) \subseteq Decided(t) \cup {p}
  BY <1>2, <1>4 DEF Decided, RoomType
<1>7. Sound(s)
  BY <1>1, <1>2, <1>4 DEF Settled, Sound, HasAdult, NoDecision, HasDecisions, Active, RoomType
<1> HIDE DEF s
<1>8. /\ f.state \in {"PLAYING", "JUDGING"} /\ f.adult = s.adult /\ f.connected = s.connected
      /\ f.score = s.score /\ f.round = s.round /\ f.sub = s.sub
      /\ f.state = "JUDGING" => AllIn(s)
  BY <1>4, <1>5, <1>7, ReadyMeansAllIn DEF MaybeBeginJudging, RoomType
<1>9. f \in RoomType
  BY <1>5, MaybeBeginJudgingType
<1> HIDE DEF f
<1>10. /\ room'.state = f.state /\ room'.adult = t.adult /\ room'.connected = t.connected
       /\ room'.score = t.score /\ room'.round = t.round /\ room'.sub = s.sub
  BY <1>1, <1>4, <1>8, <1>9 DEF Commit, Bump, RoomType, f, s
<1>11. room.state \in {"PLAYING", "JUDGING"}
  BY <1>1, <1>2 DEF Follows, Active, RoundInv, TypeOK, RoomType, States
<1>12. Decided(room)' = Decided(s) /\ Decided(room') = Decided(s)
  BY <1>10 DEF Decided
<1>13. Game!RolePasses
  BY <1>2, <1>10 DEF Game!RolePasses, Follows, RoomType
<1>14. Decided(s) \subseteq Decided(room) \cup {p}
  BY <1>2, <1>6 DEF Follows
<1>15. room'.adult \notin Decided(room')
  BY <1>8, <1>10 DEF RoundInv, Settled, Sound, NoDecision, Decided
<1>16. room'.state = "PLAYING" => ~(AllIn(room') /\ room'.connected \cap Decided(room') # {})
  BY ReadyMeansAllIn DEF RoundInv, Settled, NotMissed, TypeOK
<1>17. room'.state = "JUDGING" => Decided(room') # {} /\ AllIn(room')
  BY <1>4, <1>8, <1>10, <1>12 DEF AllIn, RoundInv, Settled, Sound, HasDecisions
<1>18. Game!NobodyDeciding <=> AllIn(room')
  BY <1>12 DEF Game!NobodyDeciding, AllIn
<1>19. ~(room.state = "JUDGING" /\ room'.adult = room.adult)
  BY <1>1, <1>2, <1>10 DEF Follows
<1>20. room'.score = room.score /\ room'.round = room.round
  BY <1>2, <1>10 DEF Follows
<1>21. Game!Decide
  BY <1>8, <1>10, <1>11, <1>12, <1>13, <1>14, <1>15, <1>16, <1>17, <1>18, <1>19, <1>20 DEF Game!Decide
<1> QED BY <1>20, <1>21 DEF TableStep, Game!Next

LEMMA JudgeStep ==
  ASSUME RoundInv, NEW p \in Player, Judge(p)
  PROVE  /\ TableStep
         /\ \A w \in Player : room'.score[w] # room.score[w]
              => room'.adult # w /\ w \in Decided(room)
<1> DEFINE t == Touched(p)
<1>1. PICK w \in Shown \cap Decided(t) :
        t.state = "JUDGING" /\ p = t.adult /\ Commit(Bump(Award(t, w)))
  BY DEF Judge
<1>2. t \in RoomType /\ Settled(t) /\ Follows(room, t)
  BY TouchedType, TouchedSettled, TouchFollows DEF RoundInv, Touched
<1> HIDE DEF t
<1> DEFINE a == Award(t, w)
<1>3. /\ a.state = "ROUND_RESULT" /\ a.adult = t.adult /\ a.connected = t.connected
      /\ a.round = t.round /\ a.sub = t.sub /\ a.score = [t.score EXCEPT ![w] = @ + 1]
  BY <1>2 DEF Award, RoomType
<1>4. a \in RoomType
  BY <1>1, <1>2, AwardType DEF Decided
<1> HIDE DEF a
<1>5. /\ room'.state = "ROUND_RESULT" /\ room'.adult = t.adult /\ room'.connected = t.connected
      /\ room'.round = t.round /\ room'.sub = t.sub
      /\ room'.score = [t.score EXCEPT ![w] = @ + 1]
  BY <1>1, <1>3, <1>4 DEF Commit, Bump, RoomType, a
<1>6. room.state = "JUDGING" /\ w \in Decided(room)
  BY <1>1 DEF Shown
<1>7. t.score = room.score /\ t.round = room.round /\ Decided(t) \subseteq Decided(room)
  BY <1>2 DEF Follows
<1>8. Decided(room)' = Decided(t)
  BY <1>5 DEF Decided
<1>9. t.adult \notin Decided(t)
  BY <1>1, <1>2 DEF Settled, Sound, NoDecision, Decided
<1>10. Game!RolePasses
  BY <1>2, <1>5 DEF Game!RolePasses, Follows, RoomType
<1>11. Game!Judge
  BY <1>1, <1>5, <1>6, <1>7, <1>8, <1>9, <1>10 DEF Game!Judge
<1>12. ASSUME NEW v \in Player, room'.score[v] # room.score[v] PROVE v = w
  BY <1>2, <1>5, <1>7, <1>12 DEF RoomType
<1> QED BY <1>1, <1>5, <1>6, <1>9, <1>11, <1>12 DEF TableStep, Game!Next

LEMMA JoinStep ==
  ASSUME RoundInv, Join
  PROVE  TableStep /\ room'.score = room.score
<1> DEFINE t == Touch(Begin(room), {})
           s == Seat(t)
<1>1. /\ Begin(room) \in RoomType /\ Begin(room).seats = room.seats
      /\ Begin(room).state = "WAITING" /\ room.state = "WAITING"
  BY DEF RoundInv, TypeOK, Begin, RoomType, Join
<1>2. t \in RoomType /\ t.seats = room.seats /\ t.state = "WAITING"
  BY <1>1, TouchType, TouchKeeps, TouchWaits DEF Active
<1>3. Follows(room, t)
  BY TouchFollows
<1> HIDE DEF t
<1>4. /\ s \in RoomType /\ s.state = t.state /\ s.adult = t.adult /\ s.sub = t.sub
      /\ s.score = t.score /\ s.round = t.round
  BY <1>2, SeatType DEF Join, Seat, RoomType
<1> HIDE DEF s
<1>5. /\ Bump(s).state = t.state /\ Bump(s).adult = t.adult /\ Bump(s).sub = t.sub
      /\ Bump(s).score = t.score /\ Bump(s).round = t.round
  BY <1>4 DEF Bump, RoomType
<1>6. room' = Bump(s)
  BY DEF Join, Commit, s, t
<1>7. /\ room'.state = room.state /\ room'.adult = room.adult /\ room'.sub = room.sub
      /\ room'.score = room.score /\ room'.round = room.round
  BY <1>1, <1>3, <1>5, <1>6 DEF Follows, Active
<1>8. Decided(room)' = Decided(room)
  BY <1>7 DEF Decided
<1> QED BY <1>1, <1>7, <1>8 DEF TableStep, Game!Next, Game!Gather

LEMMA NewRoundStep ==
  ASSUME RoundInv, NEW p \in Player, Start(p) \/ Advance(p)
  PROVE  TableStep /\ room'.score = room.score
<1> DEFINE t == Touched(p)
<1>1. PICK d \in Deals(Answer \ t.drawn, Need(t)), q \in Prompt :
        \/ t.state = "WAITING" /\ Commit(Bump(NewRound(FillHands(t, d), p, q)))
        \/ t.state = "ROUND_RESULT" /\ Commit(Bump(NewRound(FillHands(t, d), NextSeat(t, p), q)))
  BY DEF Start, Advance
<1>2. t \in RoomType /\ Follows(room, t) /\ p \in t.connected /\ NextSeat(t, p) \in t.connected
  BY TouchedType, TouchFollows, TouchPresent, NextSeatIn DEF RoundInv, Touched, TypeOK
<1>3. FillHands(t, d) \in RoomType
  BY <1>2, FillHandsType
<1> QED BY <1>1, <1>2, <1>3, OpenStep

LEMMA EndStep ==
  ASSUME RoundInv, NEW p \in Player, End(p)
  PROVE  TableStep /\ room'.score = room.score
<1> DEFINE t == Touched(p)
           e == [t EXCEPT !.state = "ENDED"]
<1>1. t \in RoomType /\ Follows(room, t)
  BY TouchedType, TouchFollows DEF RoundInv, Touched
<1> HIDE DEF t
<1>2. e \in RoomType /\ e.state = "ENDED" /\ e.score = t.score /\ e.round = t.round
  BY <1>1 DEF RoomType, States
<1> HIDE DEF e
<1>3. room' = Bump(e)
  BY DEF End, Commit, e, t
<1>4. room'.state = "ENDED" /\ room'.score = room.score /\ room'.round = room.round
  BY <1>1, <1>2, <1>3 DEF Bump, RoomType, Follows
<1> QED BY <1>4 DEF TableStep, Game!Next, Game!Close

LEMMA PresenceFollows ==
  ASSUME RoundInv, NEW p \in Player,
         Rejoin(p) \/ Heartbeat(p) \/ Sync(p) \/ Leave(p) \/ Lapse(p) \/ Expire \/ Reap
  PROVE  Follows(room, room')
<1>1. Follows(room, room)
  BY DEF Follows
<1>2. Follows(room, Touched(p))
  BY TouchFollows DEF Touched
<1>3. CASE Rejoin(p) \/ Heartbeat(p) \/ Sync(p)
  BY <1>1, <1>2, <1>3 DEF Rejoin, Heartbeat, Sync, Commit, Touched
<1>4. CASE Leave(p)
  <2> DEFINE f == RepairTable(MarkAway(Touched(p), p))
  <2>1. Follows(room, f)
    BY LeaveFollows
  <2>2. f \in RoomType
    <3>1. Touched(p) \in RoomType
      BY TouchedType DEF RoundInv
    <3>2. MarkAway(Touched(p), p) \in RoomType
      BY <3>1 DEF MarkAway, RoomType
    <3> QED BY <3>2, RepairTableType
  <2>3. room' = Bump(f)
    BY <1>4 DEF Leave, Commit
  <2> HIDE DEF f
  <2>4. /\ Bump(f).score = f.score /\ Bump(f).round = f.round /\ Bump(f).state = f.state
        /\ Bump(f).adult = f.adult /\ Bump(f).sub = f.sub /\ Bump(f).connected = f.connected
    BY <2>2 DEF Bump, RoomType
  <2> QED BY <2>1, <2>3, <2>4, FollowsReads
<1>5. CASE Lapse(p) \/ Expire
  <2>1. /\ room'.score = room.score /\ room'.round = room.round /\ room'.state = room.state
        /\ room'.adult = room.adult /\ room'.sub = room.sub
        /\ room'.connected = room.connected
    BY <1>5 DEF Lapse, Expire, Commit, RoundInv, TypeOK, RoomType
  <2> QED BY <1>1, <2>1, FollowsReads
<1>6. CASE Reap
  BY <1>1, <1>6 DEF Reap
<1> QED BY <1>3, <1>4, <1>5, <1>6

\* Every transaction, whatever it did, is a step of the table, and only a
\* judgement changes a score.
LEMMA NextStep ==
  ASSUME RoundInv, RoundInv', [Next]_vars
  PROVE  /\ TableStep
         /\ \A w \in Player : room'.score[w] # room.score[w]
              => room'.adult # w /\ w \in Decided(room)
<1>1. ASSUME NEW p \in Player,
             Rejoin(p) \/ Heartbeat(p) \/ Sync(p) \/ Leave(p) \/ Lapse(p) \/ Expire \/ Reap
      PROVE  TableStep /\ room'.score = room.score
  BY <1>1, PresenceFollows, FollowsStep DEF Follows
<1>2. ASSUME Expire \/ Reap PROVE TableStep /\ room'.score = room.score
  <2>1. 1 \in Player
    BY SizeAssumption DEF Player
  <2> QED BY <1>1, <1>2, <2>1
<1>3. ASSUME NEW p \in Player, Submit(p) PROVE TableStep /\ room'.score = room.score
  BY <1>3, SubmitStep
<1>4. CASE UNCHANGED vars
  <2>1. Decided(room)' = Decided(room)
    BY <1>4 DEF Decided, vars
  <2> QED BY <1>4, <2>1 DEF vars, TableStep, Game!tableVars
<1> QED
  BY <1>1, <1>2, <1>3, <1>4, JoinStep, NewRoundStep, EndStep, JudgeStep DEF Next

-----------------------------------------------------------------------------
(* Decisions.  Keeps is the relation of DecisionsKept, with the hands that  *)
(* make it compose: a transaction may repair the table twice.               *)

Keeps(r, s) ==
  \A p \in Player :
    /\ r.hand[p] \subseteq s.hand[p]
    /\ \/ s.sub[p] = r.sub[p]
       \/ /\ s.sub[p] = {} /\ r.sub[p] \subseteq s.hand[p]
          /\ s.adult # r.adult
          /\ s.adult = p \/ p \notin s.connected

LEMMA KeepsReads ==
  ASSUME NEW r, NEW s, NEW t,
         s.hand = t.hand, s.sub = t.sub, s.adult = t.adult
  PROVE  /\ Keeps(t, r) => Keeps(s, r)
         /\ s.connected = t.connected /\ Keeps(r, t) => Keeps(r, s)
BY DEF Keeps

LEMMA RepairTableKeeps ==
  ASSUME NEW r \in RoomType
  PROVE  Keeps(r, RepairTable(r))
<1>1. Keeps(r, r)
  BY DEF Keeps
<1>2. CASE r.state \notin Active \/ (r.adult \notin r.connected /\ r.connected = {})
  BY <1>1, <1>2 DEF RepairTable
<1>3. ASSUME r.connected # {}, r.adult \notin r.connected PROVE Keeps(r, HandOver(r))
  <2> DEFINE s == NextSeat(r, r.adult)
             freed == IF r.state # "ROUND_RESULT" THEN WithdrawSubmission(r, s) ELSE r
             st == IF freed.state = "JUDGING" /\ Decided(freed) = {} THEN "PLAYING" ELSE freed.state
             h == [freed EXCEPT !.adult = s, !.state = st]
  <2>1. s \in r.connected /\ s \in Player
    BY <1>3, NextSeatIn
  <2>2. /\ freed \in RoomType /\ freed.connected = r.connected
        /\ \/ freed.sub = r.sub /\ freed.hand = r.hand
           \/ /\ freed.sub = [r.sub EXCEPT ![s] = {}]
              /\ freed.hand = [r.hand EXCEPT ![s] = @ \cup r.sub[s]]
    BY <2>1, WithdrawType, WithdrawFields
  <2>3. HandOver(r) = h
    BY DEF HandOver
  <2> HIDE DEF freed, s
  <2>4. h.adult = s /\ h.sub = freed.sub /\ h.hand = freed.hand /\ h.connected = freed.connected
    <3> HIDE DEF st
    <3> QED BY <2>2 DEF RoomType
  <2>5. s # r.adult
    BY <1>3, <2>1
  <2> HIDE DEF h
  <2>6. Keeps(r, h)
    BY <2>1, <2>2, <2>4, <2>5 DEF Keeps, RoomType
  <2> QED BY <2>3, <2>6
<1>4. CASE ~(r.state \notin Active \/ (r.adult \notin r.connected /\ r.connected = {}))
  <2> DEFINE held == IF r.adult \in r.connected THEN r ELSE HandOver(r)
             j == [held EXCEPT !.state = "JUDGING"]
  <2>1. held \in RoomType /\ Keeps(r, held)
    BY <1>1, <1>3, <1>4, HandOverType
  <2> HIDE DEF held
  <2>2. RepairTable(r) \in {held, j}
    BY <1>4 DEF RepairTable, held, MaybeBeginJudging
  <2>3. j.hand = held.hand /\ j.sub = held.sub /\ j.adult = held.adult /\ j.connected = held.connected
    BY <2>1 DEF RoomType
  <2> HIDE DEF j
  <2> QED BY <2>1, <2>2, <2>3, KeepsReads
<1> QED BY <1>2, <1>4

LEMMA BumpKeeps ==
  ASSUME NEW r, NEW s \in RoomType, Keeps(r, s)
  PROVE  Keeps(r, Bump(s))
<1>1. /\ Bump(s).hand = s.hand /\ Bump(s).sub = s.sub /\ Bump(s).adult = s.adult
      /\ Bump(s).connected = s.connected
  BY DEF Bump, RoomType
<1> QED BY <1>1, KeepsReads

LEMMA TouchKeepsDecisions ==
  ASSUME TypeOK, NEW who \in SUBSET Player
  PROVE  Keeps(room, Touch(Begin(room), who))
<1> DEFINE r == Present(Begin(room), who)
           t == RepairTable(r)
<1>1. r \in RoomType /\ r.hand = room.hand /\ r.sub = room.sub /\ r.adult = room.adult
  BY DEF Present, Begin, RoomType, TypeOK
<1> HIDE DEF r
<1>2. Keeps(r, t) /\ t \in RoomType
  BY <1>1, RepairTableKeeps, RepairTableType
<1> HIDE DEF t
<1>3. Keeps(room, t)
  BY <1>1, <1>2, KeepsReads
<1> QED BY <1>2, <1>3, BumpKeeps DEF Touch, r, t

\* Two repairs in one transaction: who lost a decision to the first still gave it
\* up for the role, or is away, after the second.
LEMMA KeepsKeeps ==
  ASSUME NEW r \in RoomType, NEW s \in RoomType, NEW t \in RoomType,
         Keeps(r, s), Keeps(s, t), Follows(r, s), Repairs(s, t),
         t.connected \subseteq s.connected
  PROVE  Keeps(r, t)
<1>1. s.adult = r.adult \/ r.adult \notin s.connected
  BY DEF Follows
<1>2. t.adult = s.adult \/ (s.adult \notin t.connected /\ t.adult \in t.connected)
  BY DEF Repairs, Follows
<1>3. ASSUME s.adult # r.adult \/ t.adult # s.adult PROVE t.adult # r.adult
  BY <1>1, <1>2, <1>3
<1> SUFFICES ASSUME NEW p \in Player
             PROVE  /\ r.hand[p] \subseteq t.hand[p]
                    /\ \/ t.sub[p] = r.sub[p]
                       \/ /\ t.sub[p] = {} /\ r.sub[p] \subseteq t.hand[p]
                          /\ t.adult # r.adult
                          /\ t.adult = p \/ p \notin t.connected
  BY DEF Keeps
<1>4. r.hand[p] \subseteq s.hand[p] /\ s.hand[p] \subseteq t.hand[p]
  BY DEF Keeps
<1>5. CASE s.sub[p] = r.sub[p]
  BY <1>3, <1>4, <1>5 DEF Keeps
<1>6. CASE s.sub[p] # r.sub[p]
  <2>1. /\ s.sub[p] = {} /\ r.sub[p] \subseteq s.hand[p] /\ s.adult # r.adult
        /\ s.adult = p \/ p \notin s.connected
    BY <1>6 DEF Keeps
  <2>2. t.sub[p] = {}
    BY <2>1 DEF Keeps
  <2> QED BY <1>2, <1>3, <1>4, <2>1, <2>2
<1> QED BY <1>5, <1>6

LEMMA LeaveKeeps ==
  ASSUME RoundInv, NEW p \in Player
  PROVE  Keeps(room, Bump(RepairTable(MarkAway(Touched(p), p))))
<1> DEFINE t == Touched(p)
           m == MarkAway(t, p)
           f == RepairTable(m)
<1>1. /\ room \in RoomType /\ t \in RoomType /\ Settled(t)
      /\ Follows(room, t) /\ Keeps(room, t)
  BY TouchedType, TouchedSettled, TouchFollows, TouchKeepsDecisions DEF RoundInv, Touched, TypeOK
<1> HIDE DEF t
<1>2. /\ m \in RoomType
      /\ m.state = t.state /\ m.adult = t.adult /\ m.sub = t.sub /\ m.hand = t.hand
      /\ m.winner = t.winner /\ m.score = t.score /\ m.round = t.round
      /\ m.connected \subseteq t.connected
  BY <1>1 DEF MarkAway, RoomType
<1>3. Sound(m)
  BY <1>1, <1>2, SoundReads DEF Settled
<1> HIDE DEF m
<1>4. Repairs(m, f) /\ Keeps(m, f) /\ f \in RoomType /\ f.connected = m.connected
  BY <1>2, <1>3, RepairTableFollows, RepairTableKeeps, RepairTableType, RepairTableSettles
<1> HIDE DEF f
<1>5. Repairs(t, f)
  BY <1>2, <1>4 DEF Repairs, Follows, Decided
<1>6. Keeps(t, f)
  BY <1>2, <1>4, KeepsReads
<1>7. Keeps(room, f)
  BY <1>1, <1>2, <1>4, <1>5, <1>6, KeepsKeeps
<1> QED BY <1>4, <1>7, BumpKeeps DEF f, m, t

LEMMA SubmitKeeps ==
  ASSUME RoundInv, NEW p \in Player, Submit(p), NEW q \in Player,
         room.sub[q] # {}, room'.sub[q] # room.sub[q]
  PROVE  /\ room'.sub[q] = {} /\ room.sub[q] \subseteq room'.hand[q]
         /\ room'.adult # room.adult
         /\ room'.adult = q \/ q \notin room'.connected
<1> DEFINE t == Touched(p)
<1>1. PICK cards \in SUBSET t.hand[p] :
        /\ p # t.adult /\ t.sub[p] = {}
        /\ Commit(Bump(MaybeBeginJudging(PlaceSubmission(t, p, cards))))
  BY DEF Submit
<1> DEFINE s == PlaceSubmission(t, p, cards)
           f == MaybeBeginJudging(s)
<1>2. t \in RoomType /\ Keeps(room, t) /\ p \in t.connected
  BY TouchedType, TouchKeepsDecisions, TouchPresent DEF RoundInv, Touched
<1> HIDE DEF t
<1>3. s \in RoomType
  <2>1. cards \in SUBSET Answer
    BY <1>2 DEF RoomType
  <2> QED BY <1>2, <2>1, PlaceSubmissionType
<1>4. /\ s.hand = [t.hand EXCEPT ![p] = @ \ cards] /\ s.sub = [t.sub EXCEPT ![p] = cards]
      /\ s.adult = t.adult /\ s.connected = t.connected
  BY <1>2 DEF PlaceSubmission, RoomType
<1> HIDE DEF s
<1>5. /\ f \in RoomType /\ f.hand = s.hand /\ f.sub = s.sub
      /\ f.adult = s.adult /\ f.connected = s.connected
  BY <1>3, MaybeBeginJudgingType DEF MaybeBeginJudging, RoomType
<1> HIDE DEF f
<1>6. /\ room'.hand = s.hand /\ room'.sub = s.sub
      /\ room'.adult = t.adult /\ room'.connected = t.connected
  BY <1>1, <1>4, <1>5 DEF Commit, Bump, RoomType, f, s
<1>7. q # p
  BY <1>1, <1>2 DEF Keeps
<1>8. room'.hand[q] = t.hand[q] /\ room'.sub[q] = t.sub[q]
  BY <1>2, <1>4, <1>6, <1>7 DEF RoomType
<1> QED BY <1>2, <1>6, <1>8 DEF Keeps

LEMMA NewRoundCounts ==
  ASSUME RoundInv, NEW p \in Player, Start(p) \/ Advance(p)
  PROVE  room'.round > room.round
<1> DEFINE t == Touched(p)
<1>1. PICK d \in Deals(Answer \ t.drawn, Need(t)), q \in Prompt, a \in {p, NextSeat(t, p)} :
        Commit(Bump(NewRound(FillHands(t, d), a, q)))
  BY DEF Start, Advance
<1>2. t \in RoomType /\ t.round = room.round /\ a \in Player
  BY TouchedType, TouchFollows, TouchPresent, NextSeatIn DEF RoundInv, Touched, Follows
<1> HIDE DEF t
<1> DEFINE f == FillHands(t, d)
           n == NewRound(f, a, q)
<1>3. f \in RoomType /\ f.round = t.round
  BY <1>2, FillHandsType, FillHandsFields
<1> HIDE DEF f
<1>4. n \in RoomType /\ n.round = t.round + 1
  <2>1. n \in RoomType
    BY <1>2, <1>3, NewRoundType
  <2>2. n.round = f.round + 1
    BY <1>3 DEF NewRound, RoomType
  <2> QED BY <1>3, <2>1, <2>2
<1> HIDE DEF n
<1>5. room'.round = t.round + 1
  BY <1>1, <1>4 DEF Commit, Bump, RoomType, n, f
<1> QED BY <1>2, <1>5 DEF RoomType

\* The operations that leave hands and decisions where the touch put them.
LEMMA OthersKeep ==
  ASSUME RoundInv, NEW p \in Player,
         Join \/ Judge(p) \/ End(p) \/ Lapse(p) \/ Expire \/ Reap
  PROVE  Keeps(room, room')
<1>1. TypeOK /\ room \in RoomType
  BY DEF RoundInv, TypeOK
<1>2. Touched(p) \in RoomType /\ Keeps(room, Touched(p))
  BY <1>1, TouchedType, TouchKeepsDecisions DEF Touched
<1>3. CASE Join
  <2> DEFINE t == Touch(Begin(room), {})
             s == Seat(t)
  <2>1. Begin(room) \in RoomType /\ Begin(room).seats = room.seats
    BY <1>1 DEF Begin, RoomType
  <2>2. t \in RoomType /\ t.seats = room.seats /\ Keeps(room, t) /\ Follows(room, t)
    BY <1>1, <2>1, TouchType, TouchKeeps, TouchKeepsDecisions, TouchFollows
  <2> HIDE DEF t
  <2>3. s \in RoomType /\ s.hand = t.hand /\ s.sub = t.sub
    BY <1>3, <2>2, SeatType DEF Join, Seat, RoomType
  <2> HIDE DEF s
  <2>4. Bump(s).hand = t.hand /\ Bump(s).sub = t.sub
    BY <2>3 DEF Bump, RoomType
  <2>5. t.sub = room.sub
    BY <1>3, <2>2 DEF Join, Follows, Active
  <2>6. room' = Bump(s)
    BY <1>3 DEF Join, Commit, s, t
  <2> QED BY <2>2, <2>4, <2>5, <2>6 DEF Keeps
<1>4. CASE Judge(p)
  <2> DEFINE t == Touched(p)
  <2>1. PICK w \in Player : room' = Bump(Award(t, w))
    BY <1>4 DEF Judge, Commit, Decided
  <2> HIDE DEF t
  <2> DEFINE a == Award(t, w)
  <2>2. /\ a \in RoomType /\ a.hand = t.hand /\ a.sub = t.sub /\ a.adult = t.adult
        /\ a.connected = t.connected
    BY <1>2, AwardType DEF Award, RoomType, t
  <2> HIDE DEF a
  <2>3. Keeps(room, a)
    BY <1>2, <2>2, KeepsReads DEF t
  <2> QED BY <2>1, <2>2, <2>3, BumpKeeps DEF a
<1>5. CASE End(p)
  <2> DEFINE t == Touched(p)
             e == [t EXCEPT !.state = "ENDED"]
  <2>1. room' = Bump(e)
    BY <1>5 DEF End, Commit
  <2> HIDE DEF t
  <2>2. /\ e \in RoomType /\ e.hand = t.hand /\ e.sub = t.sub /\ e.adult = t.adult
        /\ e.connected = t.connected
    BY <1>2 DEF RoomType, States, t
  <2> HIDE DEF e
  <2>3. Keeps(room, e)
    BY <1>2, <2>2, KeepsReads DEF t
  <2> QED BY <2>1, <2>2, <2>3, BumpKeeps
<1>6. CASE Lapse(p) \/ Expire \/ Reap
  <2>1. room'.hand = room.hand /\ room'.sub = room.sub
    BY <1>1, <1>6 DEF Lapse, Expire, Reap, Commit, RoomType
  <2> QED BY <2>1 DEF Keeps
<1> QED BY <1>3, <1>4, <1>5, <1>6

LEMMA NextKeeps ==
  ASSUME RoundInv, [Next]_vars, NEW q \in Player,
         room.sub[q] # {}, room'.sub[q] # room.sub[q]
  PROVE  \/ room'.round > room.round
         \/ /\ room'.sub[q] = {} /\ room.sub[q] \subseteq room'.hand[q]
            /\ room'.adult # room.adult
            /\ room'.adult = q \/ q \notin room'.connected
<1>1. room' # room
  OBVIOUS
<1>2. ASSUME NEW p \in Player, Rejoin(p) \/ Heartbeat(p) \/ Sync(p)
      PROVE  Keeps(room, room')
  BY <1>1, <1>2, TouchKeepsDecisions DEF Rejoin, Heartbeat, Sync, Commit, RoundInv
<1>3. ASSUME NEW p \in Player, Leave(p) PROVE Keeps(room, room')
  BY <1>3, LeaveKeeps DEF Leave, Commit
<1>4. ASSUME Join \/ Expire \/ Reap PROVE Keeps(room, room')
  <2>1. 1 \in Player
    BY SizeAssumption DEF Player
  <2> QED BY <1>4, <2>1, OthersKeep
<1>5. Keeps(room, room') => /\ room'.sub[q] = {} /\ room.sub[q] \subseteq room'.hand[q]
                            /\ room'.adult # room.adult
                            /\ room'.adult = q \/ q \notin room'.connected
  BY DEF Keeps
<1>6. CASE Next
  BY <1>2, <1>3, <1>4, <1>5, <1>6, OthersKeep, SubmitKeeps, NewRoundCounts DEF Next
<1> QED BY <1>1, <1>6 DEF vars

-----------------------------------------------------------------------------
(* Revisions.                                                              *)

\* Two rooms with the same columns are one room.
LEMMA RoomsEqual ==
  ASSUME NEW r \in RoomType, NEW s \in RoomType,
         Visible(r) = Visible(s), r.silent = s.silent, r.played = s.played,
         r.drawn = s.drawn, r.asked = s.asked, r.expired = s.expired, r.bumps = s.bumps
  PROVE  r = s
BY DEF RoomType, Visible

\* What a repair leaves alone: in particular everything nobody at the table sees.
LEMMA RepairTableHidden ==
  ASSUME NEW r \in RoomType
  PROVE  LET s == RepairTable(r)
         IN  /\ s.silent = r.silent /\ s.played = r.played /\ s.drawn = r.drawn
             /\ s.asked = r.asked /\ s.expired = r.expired /\ s.bumps = r.bumps
             /\ s.connected = r.connected
BY DEF RepairTable, HandOver, MaybeBeginJudging, WithdrawSubmission, RoomType

LEMMA BumpMoves ==
  ASSUME NEW r \in RoomType
  PROVE  Bump(r).bumps > 0 /\ Visible(Bump(r)) = Visible(r)
<1>1. Bump(r).bumps = r.bumps + 1 /\ r.bumps \in Nat
  BY DEF Bump, RoomType
<1>2. Visible(Bump(r)) = Visible(r)
  BY DEF Bump, RoomType, Visible
<1> QED BY <1>1, <1>2

\* A touch moves the revision exactly when it changes what somebody sees.
LEMMA TouchMoves ==
  ASSUME TypeOK, NEW who \in SUBSET Player
  PROVE  LET t == Touch(Begin(room), who)
         IN  t.bumps > 0 <=> Visible(t) # Visible(room)
<1> DEFINE r == Present(Begin(room), who)
           f == RepairTable(r)
           t == Touch(Begin(room), who)
<1>1. r \in RoomType /\ r.bumps = 0 /\ f \in RoomType
  <2>1. r \in RoomType /\ r.bumps = 0
    BY DEF TypeOK, Present, Begin, RoomType
  <2> QED BY <2>1, RepairTableType
<1>2. Begin(room).connected = room.connected
  BY DEF TypeOK, Begin, RoomType
<1>3. r.connected = room.connected => Visible(r) = Visible(room)
  BY DEF TypeOK, Present, Begin, RoomType, Visible
<1>4. f.bumps = 0 /\ f.connected = r.connected
  BY <1>1, RepairTableHidden
<1>5. Visible(f) = Visible(r) => f = r
  BY <1>1, RepairTableHidden, RoomsEqual
<1>6. t = IF r.connected # room.connected \/ f # r THEN Bump(f) ELSE f
  BY <1>2 DEF Touch
<1>7. Bump(f).bumps > 0 /\ Visible(Bump(f)) = Visible(f) /\ ~(f.bumps > 0)
  BY <1>1, <1>4, BumpMoves
<1>8. f.connected # room.connected => Visible(f) # Visible(room)
  BY DEF Visible
<1> HIDE DEF r, f, t
<1>9. CASE r.connected # room.connected
  <2>1. t = Bump(f) /\ Visible(f) # Visible(room)
    BY <1>4, <1>6, <1>8, <1>9
  <2>2. t.bumps > 0 /\ Visible(t) # Visible(room)
    BY <1>7, <2>1, Zenon
  <2> QED BY <2>2 DEF t
<1>10. CASE r.connected = room.connected /\ f # r
  <2>1. t = Bump(f) /\ Visible(f) # Visible(room)
    BY <1>3, <1>5, <1>6, <1>10, Zenon
  <2>2. t.bumps > 0 /\ Visible(t) # Visible(room)
    BY <1>7, <2>1, Zenon
  <2> QED BY <2>2 DEF t
<1>11. CASE r.connected = room.connected /\ f = r
  <2>1. t = f /\ Visible(f) = Visible(room)
    BY <1>3, <1>6, <1>11, Zenon
  <2>2. ~(t.bumps > 0) /\ Visible(t) = Visible(room)
    BY <1>7, <2>1, Zenon
  <2> QED BY <2>2 DEF t
<1> QED BY <1>9, <1>10, <1>11

LEMMA OperationMoves ==
  ASSUME RoundInv, NEW p \in Player,
         Join \/ Leave(p) \/ Start(p) \/ Submit(p) \/ Judge(p) \/ Advance(p) \/ End(p)
  PROVE  room'.bumps > 0
<1>1. ASSUME NEW r \in RoomType, room' = Bump(r) PROVE room'.bumps > 0
  BY <1>1, BumpMoves
<1> DEFINE t == Touched(p)
<1>2. t \in RoomType /\ t.connected # {} /\ p \in t.connected
  BY TouchedType, TouchPresent DEF RoundInv
<1>3. CASE Join
  <2> DEFINE n == Touch(Begin(room), {})
  <2>1. Begin(room) \in RoomType /\ Begin(room).seats = room.seats
    BY DEF RoundInv, TypeOK, Begin, RoomType
  <2>2. n \in RoomType /\ n.seats = room.seats
    BY <2>1, TouchType, TouchKeeps
  <2> HIDE DEF n
  <2>3. Seat(n) \in RoomType
    BY <1>3, <2>2, SeatType DEF Join
  <2> QED BY <1>1, <1>3, <2>3 DEF Join, Commit, n
<1>4. CASE Leave(p)
  <2>1. MarkAway(t, p) \in RoomType
    BY <1>2 DEF MarkAway, RoomType
  <2>2. RepairTable(MarkAway(t, p)) \in RoomType
    BY <2>1, RepairTableType
  <2> QED BY <1>1, <1>4, <2>2 DEF Leave, Commit
<1>5. CASE Start(p) \/ Advance(p)
  <2>1. PICK d \in Deals(Answer \ t.drawn, Need(t)), q \in Prompt, a \in {p, NextSeat(t, p)} :
          room' = Bump(NewRound(FillHands(t, d), a, q))
    BY <1>5 DEF Start, Advance, Commit
  <2>2. a \in Player
    BY <1>2, NextSeatIn
  <2>3. NewRound(FillHands(t, d), a, q) \in RoomType
    BY <1>2, <2>2, FillHandsType, NewRoundType
  <2> QED BY <1>1, <2>1, <2>3
<1>6. CASE Submit(p)
  <2>1. PICK cards \in SUBSET t.hand[p] :
          room' = Bump(MaybeBeginJudging(PlaceSubmission(t, p, cards)))
    BY <1>6 DEF Submit, Commit
  <2>2. cards \in SUBSET Answer
    BY <1>2 DEF RoomType
  <2>3. MaybeBeginJudging(PlaceSubmission(t, p, cards)) \in RoomType
    BY <1>2, <2>2, PlaceSubmissionType, MaybeBeginJudgingType
  <2> QED BY <1>1, <2>1, <2>3
<1>7. CASE Judge(p)
  <2>1. PICK w \in Player : room' = Bump(Award(t, w))
    BY <1>7 DEF Judge, Commit, Decided
  <2> QED BY <1>1, <1>2, <2>1, AwardType
<1>8. CASE End(p)
  <2>1. [t EXCEPT !.state = "ENDED"] \in RoomType
    BY <1>2 DEF RoomType, States
  <2> QED BY <1>1, <1>8, <2>1 DEF End, Commit
<1> QED BY <1>3, <1>4, <1>5, <1>6, <1>7, <1>8

LEMMA NextMoves ==
  ASSUME RoundInv, [Next]_vars, Visible(room') # Visible(room)
  PROVE  room'.bumps > 0
<1>1. room' # room
  OBVIOUS
<1>2. ASSUME NEW p \in Player, Rejoin(p) \/ Heartbeat(p) \/ Sync(p) PROVE room'.bumps > 0
  BY <1>1, <1>2, TouchMoves DEF Rejoin, Heartbeat, Sync, Commit, RoundInv
<1>3. ASSUME NEW p \in Player, Lapse(p) \/ Expire \/ Reap PROVE FALSE
  <2>1. Visible(room') = Visible(room)
    BY <1>1, <1>3 DEF Lapse, Expire, Reap, Commit, RoundInv, TypeOK, RoomType, Visible
  <2> QED BY <2>1
<1>4. 1 \in Player
  BY SizeAssumption DEF Player
<1> QED BY <1>1, <1>2, <1>3, <1>4, OperationMoves DEF Next, vars

-----------------------------------------------------------------------------

\* The room implements the table its players were promised: every transaction,
\* with all the repairs it makes, is one step of Table or none.
THEOREM RoomImplementsTable == Spec => ImplementsTable
<1>1. Init => Game!Init
  BY DEF Init, Game!Init, Decided, NoCards
<1>2. RoundInv /\ RoundInv' /\ [Next]_vars => [Game!Next]_(Game!tableVars)
  BY NextStep DEF TableStep
<1>3. Spec => []RoundInv
  BY RoundSound
<1> QED BY <1>1, <1>2, <1>3, PTL DEF Spec, ImplementsTable, Game!Spec

\* Nobody is given a point by their own judgement, though the touch inside a
\* judge request may just have made them the adult.
THEOREM JudgedByAnother == Spec => NobodyAwardsThemselves
<1>1. RoundInv /\ RoundInv' /\ [Next]_vars
        => [\A p \in Player : room'.score[p] # room.score[p]
              => room'.adult # p /\ p \in Decided(room)]_room
  BY NextStep
<1>2. Spec => []RoundInv
  BY RoundSound
<1> QED BY <1>1, <1>2, PTL DEF Spec, NobodyAwardsThemselves

\* A decision is lost only to a new round or to taking the adult's role, and then
\* it is back in its player's hand, even where one transaction repairs the table
\* twice (leave after a touch, 373-427).
THEOREM DecisionsAreKept == Spec => DecisionsKept
<1>1. RoundInv /\ [Next]_vars
        => [\A p \in Player :
              room.sub[p] # {} /\ room'.sub[p] # room.sub[p] =>
                \/ room'.round > room.round
                \/ room'.sub[p] = {} /\ room.sub[p] \subseteq room'.hand[p]
                   /\ room'.adult # room.adult
                   /\ (room'.adult = p \/ p \notin room'.connected)]_room
  BY NextKeeps
<1> QED BY <1>1, RoundSound, PTL DEF Spec, DecisionsKept

\* The revision moves in every transaction that changes what somebody sees, and
\* for presence alone in no other (_touch 679-697, _bump).
THEOREM RevisionFollows == Spec => RevisionFollowsTable
<1>1. RoundInv /\ [Next]_vars
        => [Visible(room') # Visible(room) => room'.bumps > 0]_room
  BY NextMoves
<1>2. RoundInv /\ [Next]_vars
        => [\A p \in Player :
              (Heartbeat(p) \/ Rejoin(p)) /\ room'.bumps > 0
                => Visible(room') # Visible(room)]_vars
  BY TouchMoves DEF Heartbeat, Rejoin, Commit, RoundInv
<1> QED
  BY <1>1, <1>2, RoundSound, PTL DEF Spec, RevisionFollowsTable, VisibleChangeBumps, PresenceIsQuiet
-----------------------------------------------------------------------------
(* The directory behind a room's code (RoomFiles), for any number of       *)
(* requests and files.  That nobody sees a half-made room needs one thing  *)
(* more than it says: that a builder about to link has finished its file.  *)
(* Files are written anew only when nothing refers to them, which is why   *)
(* no step of another request can undo either.  That no more files are     *)
(* left behind than builders died is proved of private names that no       *)
(* builder holds, whoever else has the file open.                          *)

CONSTANTS Request, File, MaxCrashes

VARIABLES path, building, old, data, request, crashes

Files == INSTANCE RoomFiles

\* A builder links nothing but a whole room.
Finished == \A r \in Request : Files!At(r, "link") => data[request[r].file] \in Files!Whole

FilesInv == Files!TypeOK /\ Files!HalfMadeIsPrivate /\ Finished

\* A fresh file is one that nothing refers to.
LEMMA FreshIsFree ==
  ASSUME Files!Free # {}
  PROVE  /\ Files!Fresh \in File /\ Files!Fresh # path /\ Files!Fresh \notin building
         /\ \A r \in Request : request[r].file # Files!Fresh
BY DEF Files!Fresh, Files!Free

\* What an opened path names afterwards, and that no other file was written.
LEMMA ConnectEffect ==
  ASSUME Files!TypeOK, Files!Connect
  PROVE  /\ path' \in File /\ data' \in [File -> Files!Whole \cup {"empty", "half"}]
         /\ \A r \in Request : request[r].file \in File
                => data'[request[r].file] = data[request[r].file]
         /\ data'[path'] # data[path'] => data'[path'] = "empty"
         /\ path # None => path' = path /\ data' = data
         /\ path = None => data'[path'] = "empty"
<1>1. CASE path # None
  BY <1>1 DEF Files!Connect, Files!Named, Files!TypeOK
<1>2. CASE path = None
  <2>1. Files!Free # {} /\ path' = Files!Fresh /\ data' = [data EXCEPT ![Files!Fresh] = "empty"]
    BY <1>2 DEF Files!Connect, Files!Named
  <2>2. Files!Fresh \in File /\ \A r \in Request : request[r].file # Files!Fresh
    BY <2>1, FreshIsFree
  <2> QED BY <1>2, <2>1, <2>2 DEF Files!TypeOK
<1> QED BY <1>1, <1>2

\* A step of one request keeps the shape of all of them, and leaves the others alone.
LEMMA GoEffect ==
  ASSUME Files!TypeOK, NEW r \in Request, NEW step \in Files!Steps, NEW f \in File \cup {None},
         f # None <=> step \in Files!Holding, Files!Go(r, step, f)
  PROVE  /\ request' \in [Request -> [op : Files!Op, at : Files!Steps, file : File \cup {None}]]
         /\ \A q \in Request : request'[q].file # None <=> request'[q].at \in Files!Holding
         /\ \A q \in Request : q # r => request'[q] = request[q]
         /\ request'[r].at = step /\ request'[r].file = f
<1> DEFINE new == [request[r] EXCEPT !.at = step, !.file = f]
<1>1. request \in [Request -> [op : Files!Op, at : Files!Steps, file : File \cup {None}]]
  BY DEF Files!TypeOK
<1>2. request' = [request EXCEPT ![r] = new]
  BY <1>1 DEF Files!Go
<1>3. /\ new \in [op : Files!Op, at : Files!Steps, file : File \cup {None}]
      /\ new.at = step /\ new.file = f
  BY <1>1
<1> QED BY <1>1, <1>2, <1>3 DEF Files!TypeOK

LEMMA FilesInit ==
  ASSUME None \notin File, MaxCrashes \in Nat, Files!Init
  PROVE  FilesInv
BY    DEF Files!Init, FilesInv, Files!TypeOK, Files!HalfMadeIsPrivate, Finished, Files!At,
          Files!Idle, Files!Op, Files!Steps, Files!Holding, Files!Whole

\* Each step of a request, and of time, keeps the invariant.
LEMMA FilesNext ==
  ASSUME None \notin File, MaxCrashes \in Nat,
         FilesInv, [Files!Next]_(Files!vars)
  PROVE  FilesInv'
<1> USE DEF FilesInv, Files!At
<1> USE DEF Files!Steps, Files!Holding, Files!Op, Files!Cleaning
<1>0. Files!TypeOK /\ Files!HalfMadeIsPrivate /\ Finished
  OBVIOUS
<1>1. ASSUME NEW r \in Request, NEW op \in Files!Op, Files!Begin(r, op) PROVE FilesInv'
  BY <1>0, <1>1 DEF Files!Begin, Files!TypeOK, Files!HalfMadeIsPrivate, Finished
<1>2. ASSUME NEW r \in Request, Files!List(r) PROVE FilesInv'
  <2>1. PICK step \in {"inspect", "sweep"} : Files!Go(r, step, None)
    BY <1>2 DEF Files!List
  <2>2. UNCHANGED <<path, building, old, data, crashes>>
    BY <1>2 DEF Files!List
  <2>3. /\ request' \in [Request -> [op : Files!Op, at : Files!Steps, file : File \cup {None}]]
        /\ \A q \in Request : request'[q].file # None <=> request'[q].at \in Files!Holding
    BY <1>0, <2>1, GoEffect
  <2>4. Files!TypeOK'
    BY <1>0, <2>2, <2>3 DEF Files!TypeOK
  <2>5. \A q \in Request : request'[q].at \in {"transaction", "link"} => request'[q] = request[q]
    BY <1>0, <2>1, GoEffect
  <2>6. Files!HalfMadeIsPrivate' /\ Finished'
    BY <1>0, <2>2, <2>5 DEF Files!HalfMadeIsPrivate, Finished
  <2> QED BY <2>4, <2>6
<1>3. ASSUME NEW r \in Request, Files!Inspect(r) PROVE FilesInv'
  <2>1. Files!Connect /\ UNCHANGED <<building, old, crashes>>
    BY <1>3 DEF Files!Inspect
  <2>2. PICK step \in {"remove", "sweep"} : Files!Go(r, step, None)
    BY <1>3 DEF Files!Inspect
  <2>3. Files!TypeOK'
    <3>1. path' \in File /\ data' \in [File -> Files!Whole \cup {"empty", "half"}]
      BY <1>0, <2>1, ConnectEffect
    <3>2. /\ request' \in [Request -> [op : Files!Op, at : Files!Steps, file : File \cup {None}]]
          /\ \A q \in Request : request'[q].file # None <=> request'[q].at \in Files!Holding
      BY <1>0, <2>2, GoEffect
    <3> QED BY <1>0, <2>1, <3>1, <3>2 DEF Files!TypeOK
  <2>4. data'[path'] # "half"
    BY <1>0, <2>1, ConnectEffect DEF Files!HalfMadeIsPrivate
  <2>5. \A q \in Request : request'[q].at \in {"transaction", "link"}
          => request'[q] = request[q] /\ request[q].file \in File
    BY <1>0, <2>2, GoEffect DEF Files!TypeOK
  <2>6. \A q \in Request : request[q].file \in File
          => data'[request[q].file] = data[request[q].file]
    BY <1>0, <2>1, ConnectEffect
  <2>7. Files!HalfMadeIsPrivate'
    BY <1>0, <2>4, <2>5, <2>6 DEF Files!HalfMadeIsPrivate
  <2>8. Finished'
    BY <1>0, <2>5, <2>6 DEF Finished
  <2> QED BY <2>3, <2>7, <2>8
<1>4. ASSUME NEW r \in Request, Files!Remove(r) PROVE FilesInv'
  BY <1>0, <1>4 DEF Files!Remove, Files!Go, Files!Finish, Files!Idle, Files!TypeOK,
                    Files!HalfMadeIsPrivate, Finished
<1>5. ASSUME NEW r \in Request, Files!Sweep(r) PROVE FilesInv'
  BY <1>0, <1>5 DEF Files!Sweep, Files!Swept, Files!Go, Files!Finish, Files!Idle, Files!TypeOK,
                    Files!HalfMadeIsPrivate, Finished
<1>6. ASSUME NEW r \in Request, Files!Exists(r) PROVE FilesInv'
  BY <1>0, <1>6, FreshIsFree DEF Files!Exists, Files!Build, Files!Go, Files!Finish, Files!Idle,
                                 Files!TypeOK, Files!HalfMadeIsPrivate, Finished
<1>7. ASSUME NEW r \in Request, Files!Fill(r) PROVE FilesInv'
  BY <1>0, <1>7 DEF Files!Fill, Files!Go, Files!Whole, Files!TypeOK, Files!HalfMadeIsPrivate,
                    Finished
<1>8. ASSUME NEW r \in Request, Files!Link(r) PROVE FilesInv'
  <2> DEFINE f == request[r].file
  <2>1. Files!At(r, "link") /\ Files!Go(r, "drop", f) /\ UNCHANGED <<building, old, data, crashes>>
    BY <1>8 DEF Files!Link, Files!AfterLink
  <2>2. f \in File /\ path' \in {path, f}
    BY <1>0, <1>8, <2>1 DEF Files!Link, Files!LinkTo, Files!TypeOK
  <2>3. Files!TypeOK'
    BY <1>0, <2>1, <2>2, GoEffect DEF Files!TypeOK
  <2>4. \A q \in Request : request'[q].at \in {"transaction", "link"} => request'[q] = request[q]
    BY <1>0, <2>1, <2>2, GoEffect
  <2>5. data[f] # "half"
    BY <1>0, <2>1 DEF Finished, Files!Whole
  <2>6. Files!HalfMadeIsPrivate' /\ Finished'
    BY <1>0, <2>1, <2>2, <2>4, <2>5 DEF Files!HalfMadeIsPrivate, Finished
  <2> QED BY <2>3, <2>6
<1>9. ASSUME NEW r \in Request, Files!Drop(r) PROVE FilesInv'
  BY <1>0, <1>9 DEF Files!Drop, Files!Finish, Files!Idle, Files!TypeOK, Files!HalfMadeIsPrivate,
                    Finished
<1>10. ASSUME NEW r \in Request, Files!Check(r) PROVE FilesInv'
  BY <1>0, <1>10 DEF Files!Check, Files!Go, Files!Finish, Files!Idle, Files!TypeOK,
                     Files!HalfMadeIsPrivate, Finished
<1>11. ASSUME NEW r \in Request, Files!OpenRoom(r) PROVE FilesInv'
  BY <1>0, <1>11, ConnectEffect DEF Files!OpenRoom, Files!Go, Files!Finish, Files!Idle,
                                    Files!TypeOK, Files!HalfMadeIsPrivate, Finished
<1>12. ASSUME NEW r \in Request, Files!Look(r) PROVE FilesInv'
  BY <1>0, <1>12 DEF Files!Look, Files!Finish, Files!Idle, Files!TypeOK, Files!HalfMadeIsPrivate,
                     Finished
<1>13. ASSUME NEW r \in Request, Files!Write(r) PROVE FilesInv'
  BY <1>0, <1>13 DEF Files!Write, Files!Finish, Files!Idle, Files!Whole, Files!TypeOK,
                     Files!HalfMadeIsPrivate, Finished
<1>14. ASSUME NEW r \in Request, Files!End(r) PROVE FilesInv'
  <2> DEFINE f == request[r].file
  <2>1. /\ data' = [data EXCEPT ![f] = "ended"] \/ UNCHANGED data
        /\ UNCHANGED <<path, building, old, crashes>>
    BY <1>14 DEF Files!End
  <2>2. CASE Files!Go(r, "remove", None)
    BY <1>0, <2>1, <2>2, GoEffect DEF Files!Whole, Files!TypeOK, Files!HalfMadeIsPrivate, Finished
  <2>3. CASE Files!Finish(r)
    BY <1>0, <2>1, <2>3 DEF Files!Finish, Files!Idle, Files!Whole, Files!TypeOK,
                            Files!HalfMadeIsPrivate, Finished
  <2> QED BY <1>14, <2>2, <2>3 DEF Files!End
<1>15. ASSUME NEW f \in File, Files!Expire(f) PROVE FilesInv'
  BY <1>0, <1>15 DEF Files!Expire, Files!Whole, Files!TypeOK, Files!HalfMadeIsPrivate, Finished
<1>16. ASSUME NEW f \in File, Files!Age(f) PROVE FilesInv'
  BY <1>0, <1>16 DEF Files!Age, Files!TypeOK, Files!HalfMadeIsPrivate, Finished
<1>17. ASSUME NEW r \in Request, Files!Crash(r) PROVE FilesInv'
  BY <1>0, <1>17 DEF Files!Crash, Files!Finish, Files!Idle, Files!TypeOK,
                     Files!HalfMadeIsPrivate, Finished
<1>18. CASE UNCHANGED Files!vars
  BY <1>0, <1>18 DEF Files!vars, Files!TypeOK, Files!HalfMadeIsPrivate, Finished
<1> QED
  BY <1>1, <1>2, <1>3, <1>4, <1>5, <1>6, <1>7, <1>8, <1>9, <1>10, <1>11, <1>12, <1>13, <1>14,
     <1>15, <1>16, <1>17, <1>18 DEF Files!Next, Files!Serve

\* The shape of the directory and of every request is kept; in particular an
\* answered request holds on to nothing.
THEOREM FilesTyped ==
  ASSUME None \notin File, MaxCrashes \in Nat
  PROVE  Files!Spec => []Files!TypeOK
<1>1. FilesInv => Files!TypeOK
  BY DEF FilesInv
<1> QED BY <1>1, FilesInit, FilesNext, PTL DEF Files!Spec

\* However many requests build, open, end and clean up at once, nobody sees a
\* half-made room.
THEOREM NobodySeesHalfMade ==
  ASSUME None \notin File, MaxCrashes \in Nat
  PROVE  Files!Spec => []Files!HalfMadeIsPrivate
<1>1. FilesInv => Files!HalfMadeIsPrivate
  BY DEF FilesInv
<1> QED BY <1>1, FilesInit, FilesNext, PTL DEF Files!Spec

-----------------------------------------------------------------------------
(* What a failed builder leaves behind.  A private file may also be open   *)
(* in a transaction, once it is linked: its builder dies, and only when    *)
(* that transaction ends is it nobody's.  So what is counted is what no    *)
(* builder holds, whoever else does.                                       *)

Building == {"fill", "link", "drop"}

Abandoned == {f \in building : \A r \in Request : request[r].at \in Building => request[r].file # f}

LeftInv == IsFiniteSet(Abandoned) /\ Cardinality(Abandoned) <= crashes

\* A step that abandons no file keeps the count.
LEMMA FewerAbandoned ==
  ASSUME LeftInv, Abandoned' \subseteq Abandoned, crashes' = crashes, crashes \in Nat
  PROVE  LeftInv'
<1>1. IsFiniteSet(Abandoned') /\ Cardinality(Abandoned') <= Cardinality(Abandoned)
  BY FS_Subset DEF LeftInv
<1>2. Cardinality(Abandoned') \in Nat /\ Cardinality(Abandoned) \in Nat
  BY <1>1, FS_CardinalityType DEF LeftInv
<1> QED BY <1>1, <1>2 DEF LeftInv

\* A death abandons at most the file of the request that dies.
LEMMA OneMoreAbandoned ==
  ASSUME LeftInv, NEW f, Abandoned' \subseteq Abandoned \cup {f}, crashes' = crashes + 1,
         crashes \in Nat
  PROVE  LeftInv'
<1>1. /\ IsFiniteSet(Abandoned \cup {f})
      /\ Cardinality(Abandoned \cup {f}) <= Cardinality(Abandoned) + 1
  <2>1. IsFiniteSet(Abandoned)
    BY DEF LeftInv
  <2>2. Cardinality(Abandoned) \in Nat
    BY <2>1, FS_CardinalityType
  <2>3. /\ IsFiniteSet(Abandoned \cup {f})
        /\ Cardinality(Abandoned \cup {f})
             = IF f \in Abandoned THEN Cardinality(Abandoned) ELSE Cardinality(Abandoned) + 1
    BY <2>1, FS_AddElement
  <2> QED BY <2>2, <2>3
<1>2. /\ IsFiniteSet(Abandoned')
      /\ Cardinality(Abandoned') <= Cardinality(Abandoned \cup {f})
  BY <1>1, FS_Subset
<1>3. /\ Cardinality(Abandoned') \in Nat /\ Cardinality(Abandoned) \in Nat
      /\ Cardinality(Abandoned \cup {f}) \in Nat
  BY <1>1, <1>2, FS_CardinalityType DEF LeftInv
<1> QED BY <1>1, <1>2, <1>3 DEF LeftInv

\* A step that lets go of no builder's file, unless the file loses its private name.
LEMMA BuildersHoldOn ==
  ASSUME LeftInv, crashes \in Nat, crashes' = crashes, building' \subseteq building,
         \A q \in Request :
           request[q].at \in Building /\ request[q].file \in building'
             => request'[q].at \in Building /\ request'[q].file = request[q].file
  PROVE  LeftInv'
BY FewerAbandoned DEF Abandoned

LEMMA LeftNext ==
  ASSUME MaxCrashes \in Nat, Files!TypeOK, LeftInv, [Files!Next]_(Files!vars)
  PROVE  LeftInv'
<1> USE DEF Files!At
<1>0. /\ crashes \in Nat
      /\ request \in [Request -> [op : Files!Op, at : Files!Steps, file : File \cup {None}]]
  BY DEF Files!TypeOK
<1>1. ASSUME NEW r \in Request, Files!Exists(r) PROVE LeftInv'
  <2>1. CASE Files!Finish(r) /\ UNCHANGED <<path, building, data>>
    BY <1>0, <1>1, <2>1, BuildersHoldOn DEF Files!Exists, Files!Finish, Building
  <2>2. CASE Files!Free # {} /\ Files!Build(r) /\ Files!Go(r, "fill", Files!Fresh)
    <3>1. request'[r].at = "fill" /\ request'[r].file = Files!Fresh
      BY <1>0, <2>2 DEF Files!Go
    <3>2. \A q \in Request : q # r => request'[q] = request[q]
      BY <1>0, <2>2 DEF Files!Go
    <3>3. building' = building \cup {Files!Fresh} /\ crashes' = crashes /\ request[r].at = "exists"
      BY <1>1, <2>2 DEF Files!Exists, Files!Build
    <3>4. Abandoned' \subseteq Abandoned
      BY <3>1, <3>2, <3>3 DEF Abandoned, Building
    <3> QED BY <1>0, <3>3, <3>4, FewerAbandoned
  <2> QED BY <1>1, <2>1, <2>2 DEF Files!Exists
<1>2. ASSUME NEW r \in Request, Files!Fill(r) \/ Files!Link(r) PROVE LeftInv'
  <2>1. PICK step \in {"link", "drop"} : Files!Go(r, step, request[r].file)
    BY <1>2 DEF Files!Fill, Files!Link, Files!AfterLink
  <2>2. building' = building /\ crashes' = crashes
    BY <1>2 DEF Files!Fill, Files!Link
  <2> QED BY <1>0, <2>1, <2>2, BuildersHoldOn DEF Files!Go, Building
<1>3. ASSUME NEW r \in Request, Files!Drop(r) PROVE LeftInv'
  <2>1. building' = building \ {request[r].file} /\ crashes' = crashes
    BY <1>3 DEF Files!Drop
  <2>2. \A q \in Request : q # r => request'[q] = request[q]
    BY <1>0, <1>3 DEF Files!Drop, Files!Finish
  <2> QED BY <1>0, <2>1, <2>2, BuildersHoldOn
<1>4. ASSUME NEW r \in Request,
             Files!List(r) \/ Files!Inspect(r) \/ Files!Remove(r) \/ Files!Sweep(r)
               \/ Files!Check(r) \/ Files!OpenRoom(r) \/ Files!Look(r) \/ Files!Write(r) \/ Files!End(r)
               \/ \E op \in Files!Op : Files!Begin(r, op)
      PROVE LeftInv'
  <2>1. request[r].at \notin Building /\ building' \subseteq building /\ crashes' = crashes
    BY <1>4 DEF Files!List, Files!Inspect, Files!Remove, Files!Sweep, Files!Swept, Files!Check,
                Files!OpenRoom, Files!Look, Files!Write, Files!End, Files!Begin, Building
  <2>2. \A q \in Request : q # r => request'[q] = request[q]
    BY <1>0, <1>4 DEF Files!List, Files!Inspect, Files!Remove, Files!Sweep, Files!Check,
                      Files!OpenRoom, Files!Look, Files!Write, Files!End, Files!Begin, Files!Go,
                      Files!Finish
  <2> QED BY <1>0, <2>1, <2>2, BuildersHoldOn
<1>5. ASSUME NEW r \in Request, Files!Crash(r) PROVE LeftInv'
  <2>1. building' = building /\ crashes' = crashes + 1
    BY <1>5 DEF Files!Crash
  <2>2. \A q \in Request : q # r => request'[q] = request[q]
    BY <1>0, <1>5 DEF Files!Crash, Files!Finish
  <2>3. Abandoned' \subseteq Abandoned \cup {request[r].file}
    BY <2>1, <2>2 DEF Abandoned
  <2> QED BY <1>0, <2>1, <2>3, OneMoreAbandoned
<1>6. CASE (\E f \in File : Files!Expire(f) \/ Files!Age(f)) \/ UNCHANGED Files!vars
  BY <1>0, <1>6, BuildersHoldOn DEF Files!Expire, Files!Age, Files!vars
<1> QED BY <1>1, <1>2, <1>3, <1>4, <1>5, <1>6 DEF Files!Next, Files!Serve

LEMMA LeftInit == Files!Init => LeftInv
<1> SUFFICES ASSUME Files!Init PROVE LeftInv
  OBVIOUS
<1>1. Abandoned = {} /\ crashes = 0
  BY DEF Files!Init, Abandoned
<1> QED BY <1>1, FS_EmptySet DEF LeftInv

\* What nobody holds is held by no builder.
LEMMA LeftoversAreAbandoned ==
  ASSUME MaxCrashes \in Nat, Files!TypeOK, LeftInv
  PROVE  Files!NoLeftovers
<1> DEFINE left == building \ {request[r].file : r \in Request}
<1>1. left \subseteq Abandoned
  BY DEF Abandoned
<1>2. IsFiniteSet(left) /\ Cardinality(left) <= Cardinality(Abandoned)
  BY <1>1, FS_Subset DEF LeftInv
<1>3. Cardinality(left) \in Nat /\ Cardinality(Abandoned) \in Nat /\ crashes \in Nat
  BY <1>2, FS_CardinalityType DEF LeftInv, Files!TypeOK
<1>4. Cardinality(left) <= crashes
  BY <1>2, <1>3 DEF LeftInv
<1> QED BY <1>4 DEF Files!NoLeftovers, Files!Cardinality, Cardinality

\* Half-made rooms are private while they are built, and of those whose building failed
\* there are never more than builders that died.
THEOREM BuildsStayPrivate ==
  ASSUME None \notin File, MaxCrashes \in Nat
  PROVE  Files!Spec => []Files!BuildsArePrivate
<1>1. Files!Init => FilesInv /\ LeftInv
  BY FilesInit, LeftInit
<1>2. FilesInv /\ LeftInv /\ [Files!Next]_(Files!vars) => (FilesInv /\ LeftInv)'
  BY FilesNext, LeftNext DEF FilesInv
<1>3. FilesInv /\ LeftInv => Files!BuildsArePrivate
  BY LeftoversAreAbandoned DEF FilesInv, Files!BuildsArePrivate
<1> QED BY <1>1, <1>2, <1>3, PTL DEF Files!Spec

\* A room in place is never replaced by another.
THEOREM RoomsAreNotReplaced == Files!Spec => Files!NeverReplaced
<1>1. ASSUME Files!Next PROVE path # None => path' \in {path, None}
  <2>1. ASSUME NEW r \in Request, Files!Serve(r) PROVE path # None => path' \in {path, None}
    BY <2>1 DEF Files!Serve, Files!List, Files!Inspect, Files!Remove, Files!Sweep, Files!Exists,
                Files!Build, Files!Fill, Files!Link, Files!LinkTo, Files!Drop,
                Files!Check, Files!OpenRoom, Files!Look, Files!Write, Files!End, Files!Connect,
                Files!Named
  <2>2. ASSUME NEW r \in Request, Files!Crash(r) \/ (\E op \in Files!Op : Files!Begin(r, op))
        PROVE  path' = path
    BY <2>2 DEF Files!Crash, Files!Begin
  <2>3. ASSUME NEW f \in File, Files!Expire(f) \/ Files!Age(f) PROVE path' = path
    BY <2>3 DEF Files!Expire, Files!Age
  <2> QED BY <1>1, <2>1, <2>2, <2>3 DEF Files!Next
<1>2. [Files!Next]_(Files!vars) => [path # None => path' \in {path, None}]_path
  BY <1>1 DEF Files!vars
<1> QED BY <1>2, PTL DEF Files!Spec, Files!NeverReplaced
=============================================================================
