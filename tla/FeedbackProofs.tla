--------------------------- MODULE FeedbackProofs ---------------------------
(***************************************************************************)
(* Theorems about Feedback for any number of rounds, combinations and      *)
(* requests, any purges, and any times that the settings allow; where      *)
(* DynamoDB is used, with MarginAssumption.  That a vote never brings      *)
(* back a deleted round rests on that margin: a request that found a       *)
(* round still votable is over before DynamoDB may delete the round.  In   *)
(* SQLite nothing comes between a read and its write, whatever is purged   *)
(* and whenever.  That both stores implement one ledger is proved round    *)
(* by round, and the tallies as the sizes of sets of rounds, of which a    *)
(* step moves one.                                                         *)
(***************************************************************************)
EXTENDS Feedback, FiniteSetTheorems, TLAPS

\* A request under way is about a round, and not older than it may be...
InTime(p) ==
  request[p].pc \in {"asked", "read"} =>
    /\ request[p].round \in Round
    /\ request[p].since <= now /\ now <= request[p].since + Patience

\* ...it may still read...
MayStillRead(p) == request[p].pc = "asked" => request[p].attempt < Attempts

\* ...and what it read, in DynamoDB, is there, and was votable when it was asked for.
RoundIsThere(p) ==
  LET r == request[p].round
  IN  request[p].pc = "read" =>
        backend = "dynamo" /\ item[r] # None /\ item[r].born + Ttl >= request[p].since

RequestInv(p) == InTime(p) /\ MayStillRead(p) /\ RoundIsThere(p)

FeedbackInv ==
  /\ TypeOK
  /\ NothingIsKeptForever
  /\ \A p \in Request : RequestInv(p)

LEMMA ItemIsThere ==
  ASSUME FeedbackInv, NEW r \in Round, item[r] # None
  PROVE  item[r] \in Item /\ item[r].born \in 0..MaxTime /\ item[r].vote \in Vote
<1>1. item[r] \in Item
  BY DEF FeedbackInv, TypeOK
<1>2. item[r].born # Never
  BY DEF FeedbackInv, NothingIsKeptForever
<1> QED BY <1>1, <1>2 DEF Item

LEMMA FeedbackInit == Init => FeedbackInv
<1> SUFFICES ASSUME Init PROVE FeedbackInv
  OBVIOUS
<1>1. TypeOK
  <2>1. Quiet(None) \in RequestState
    BY TimesAssumption, AttemptsAssumption DEF Quiet, RequestState, Vote, Code
  <2>2. NoStats \in Stats
    BY DEF NoStats, Stats
  <2> QED BY <2>1, <2>2, TimesAssumption DEF Init, TypeOK
<1>2. NothingIsKeptForever
  BY DEF Init, NothingIsKeptForever
<1>3. \A p \in Request : RequestInv(p)
  BY DEF Init, Quiet, RequestInv, InTime, MayStillRead, RoundIsThere
<1> QED BY <1>1, <1>2, <1>3 DEF FeedbackInv

\* What an answered request looks like.
LEMMA AnsweredType ==
  ASSUME NEW code \in Code, NEW changed \in BOOLEAN, NEW p
  PROVE  Answered(p, code, changed) \in RequestState /\ Answered(p, code, changed).pc = "told"
<1>1. Quiet(None) \in RequestState
  BY TimesAssumption, AttemptsAssumption DEF Quiet, RequestState, Vote, Code
<1>2. Answered(p, code, changed) =
        [[[Quiet(None) EXCEPT !.pc = "told"] EXCEPT !.code = code] EXCEPT !.changed = changed]
  BY DEF Answered, Quiet
<1> QED BY <1>1, <1>2 DEF RequestState

\* Answering a request disturbs nothing of the others.
LEMMA AnswerKeeps ==
  ASSUME FeedbackInv, NEW p \in Request, NEW code \in Code, NEW changed \in BOOLEAN,
         Answer(p, code, changed), UNCHANGED <<backend, now>>,
         item' \in [Round -> Item \cup {None}],
         \A r \in Round : item[r] # None => item'[r] # None /\ item'[r].born = item[r].born
  PROVE  request' \in [Request -> RequestState] /\ \A q \in Request : RequestInv(q)'
<1>1. request \in [Request -> RequestState]
  BY DEF FeedbackInv, TypeOK
<1>2. request' = [request EXCEPT ![p] = Answered(p, code, changed)]
  BY DEF Answer
<1>3. request' \in [Request -> RequestState] /\ request'[p].pc = "told"
  BY <1>1, <1>2, AnsweredType
<1>4. ASSUME NEW q \in Request PROVE RequestInv(q)'
  <2>1. CASE q = p
    BY <1>3, <2>1 DEF RequestInv, InTime, MayStillRead, RoundIsThere
  <2>2. CASE q # p
    <3>1. request'[q] = request[q] /\ RequestInv(q)
      BY <1>1, <1>2, <2>2 DEF FeedbackInv
    <3>2. (InTime(q) /\ MayStillRead(q))'
      BY <3>1 DEF RequestInv, InTime, MayStillRead
    <3>3. RoundIsThere(q)'
      BY <3>1 DEF RequestInv, InTime, RoundIsThere
    <3> QED BY <3>2, <3>3 DEF RequestInv
  <2> QED BY <2>1, <2>2
<1> QED BY <1>3, <1>4

\* The counters stay counters.
LEMMA MovedType ==
  ASSUME TypeOK, NEW r \in Round, NEW old \in Vote, NEW want \in Vote
  PROVE  Moved(r, old, want) \in [Combo -> Stats]
<1>1. ComboOf[r] \in Combo
  BY ComboAssumption
<1>2. stats[ComboOf[r]] \in Stats
  BY <1>1 DEF TypeOK
<1> DEFINE c == ComboOf[r]
           ew == One(want = "enjoy")   eo == One(old = "enjoy")
           gw == One(want = "regret")  go == One(old = "regret")
<1>3. ew \in Int /\ eo \in Int /\ gw \in Int /\ go \in Int
  BY DEF One
<1> DEFINE first == [stats EXCEPT ![c].enjoy = @ + ew - eo]
<1>4. Moved(r, old, want) = [first EXCEPT ![c].regret = @ + gw - go]
  BY DEF Moved
<1> HIDE DEF c, ew, eo, gw, go
<1>5. first \in [Combo -> Stats]
  <2>1. stats[c] \in Stats /\ stats[c].enjoy + ew - eo \in Int
    BY <1>2, <1>3 DEF Stats, c
  <2>2. [stats[c] EXCEPT !.enjoy = @ + ew - eo] \in Stats
    BY <2>1 DEF Stats
  <2> QED BY <2>2 DEF TypeOK
<1> HIDE DEF first
<1>6. [first EXCEPT ![c].regret = @ + gw - go] \in [Combo -> Stats]
  <2>1. c \in Combo
    BY <1>1 DEF c
  <2>2. first[c] \in Stats /\ first[c].regret + gw - go \in Int
    BY <1>3, <1>5, <2>1 DEF Stats
  <2>3. [first[c] EXCEPT !.regret = @ + gw - go] \in Stats
    BY <2>2 DEF Stats
  <2> QED BY <1>5, <2>3
<1> QED BY <1>4, <1>6 DEF first

LEMMA RebuiltType ==
  ASSUME NEW rows
  PROVE  Rebuilt(rows) \in [Combo -> Stats]
<1> DEFINE Rows(c, votes) ==
      Cardinality({r \in Round : rows[r] # None /\ ComboOf[r] = c /\ rows[r].vote \in votes})
<1>1. ASSUME NEW c, NEW votes PROVE Rows(c, votes) \in Int
  <2>1. {r \in Round : rows[r] # None /\ ComboOf[r] = c /\ rows[r].vote \in votes} \in SUBSET Round
    OBVIOUS
  <2> QED BY <2>1, ComboAssumption, FS_Subset, FS_CardinalityType
<1> HIDE DEF Rows
<1>2. Rebuilt(rows) =
        [c \in Combo |-> [draws |-> Rows(c, Vote), enjoy |-> Rows(c, {"enjoy"}),
                          regret |-> Rows(c, {"regret"}), until |-> 0]]
  BY DEF Rebuilt, Rows
<1> QED BY <1>1, <1>2 DEF Stats

LEMMA DrawKeeps == ASSUME FeedbackInv, NEW r \in Round, Draw(r) PROVE FeedbackInv'
<1>1. PICK until \in Nat : Recorded(r, until)
  <2>1. now + Retention \in Nat
    BY TimesAssumption DEF FeedbackInv, TypeOK
  <2> QED BY <2>1 DEF Draw, SqliteRecordRound, DynamoRecordRound
<1> DEFINE new == [born |-> now, vote |-> "none"]
<1>2. /\ new \in Item /\ item' = [item EXCEPT ![r] = new]
      /\ now' = now /\ request' = request /\ backend' = backend
  BY <1>1 DEF Recorded, Draw, Item, Vote, FeedbackInv, TypeOK
<1>3. stats' \in [Combo -> Stats]
  <2>1. ComboOf[r] \in Combo /\ stats \in [Combo -> Stats]
    BY ComboAssumption DEF FeedbackInv, TypeOK
  <2>2. stats[ComboOf[r]] \in [draws : Int, enjoy : Int, regret : Int, until : Nat]
    BY <2>1 DEF Stats
  <2> QED BY <1>1, <2>1, <2>2 DEF Recorded, Stats
<1>4. TypeOK'
  BY <1>1, <1>2, <1>3 DEF Recorded, FeedbackInv, TypeOK
<1>5. NothingIsKeptForever'
  <2>1. new.born # Never
    BY DEF FeedbackInv, TypeOK, Never
  <2> QED BY <1>2, <2>1 DEF FeedbackInv, TypeOK, NothingIsKeptForever
<1>6. ASSUME NEW p \in Request PROVE RequestInv(p)'
  <2>1. RequestInv(p)
    BY DEF FeedbackInv
  <2>2. (InTime(p) /\ MayStillRead(p))'
    BY <1>2, <2>1 DEF RequestInv, InTime, MayStillRead
  <2>3. RoundIsThere(p)'
    <3> SUFFICES ASSUME request[p].pc = "read"
                 PROVE  LET q == request[p].round
                        IN  item'[q] # None /\ item'[q].born + Ttl >= request[p].since
      BY <1>2, <2>1 DEF RequestInv, RoundIsThere
    <3>1. request[p].round \in Round /\ request[p].since <= now
      BY <2>1 DEF RequestInv, InTime
    <3>2. now \in Nat /\ request[p].since \in Nat /\ Ttl \in Nat
      BY TimesAssumption DEF FeedbackInv, TypeOK, RequestState
    <3>3. CASE request[p].round = r
      <4>1. item'[r] = new /\ new # None
        BY <1>2, NoneAssumption DEF FeedbackInv, TypeOK
      <4> QED BY <3>1, <3>2, <3>3, <4>1
    <3>4. CASE request[p].round # r
      BY <1>2, <2>1, <3>1, <3>4 DEF RequestInv, RoundIsThere, FeedbackInv, TypeOK
    <3> QED BY <3>3, <3>4
  <2> QED BY <2>2, <2>3 DEF RequestInv
<1> QED BY <1>4, <1>5, <1>6 DEF FeedbackInv

\* A step of request p that answers nothing disturbs none of the others.
LEMMA OthersKeep ==
  ASSUME FeedbackInv, NEW p \in Request, NEW q \in Request, q # p, NEW new,
         request' = [request EXCEPT ![p] = new], UNCHANGED <<backend, now, item>>
  PROVE  RequestInv(q)'
<1>1. request'[q] = request[q] /\ RequestInv(q)
  BY DEF FeedbackInv, TypeOK
<1> QED BY <1>1 DEF RequestInv, InTime, MayStillRead, RoundIsThere

LEMMA AskKeeps ==
  ASSUME FeedbackInv, NEW p \in Request, NEW r \in Round, NEW v \in Vote, Ask(p, r, v)
  PROVE  FeedbackInv'
<1> DEFINE new == [Quiet(r) EXCEPT !.pc = "asked", !.want = v, !.since = now, !.inTime = Votable(r)]
<1>1. request' = [request EXCEPT ![p] = new] /\ UNCHANGED <<backend, now, item, stats, past>>
  BY DEF Ask
<1>2. /\ now \in 0..MaxTime /\ now <= now + Patience /\ 0 < Attempts
      /\ 0 \in 0..Attempts /\ 0 \in 0..MaxTime
  BY TimesAssumption, AttemptsAssumption DEF FeedbackInv, TypeOK
<1>3. Votable(r) \in BOOLEAN
  BY DEF Votable
<1>4. /\ new \in RequestState
      /\ new.pc = "asked" /\ new.round = r /\ new.since = now /\ new.attempt = 0
  BY <1>2, <1>3, Zenon DEF Quiet, RequestState, Vote, Code
<1> HIDE DEF new
<1>5. TypeOK' /\ request'[p] = new
  BY <1>1, <1>4 DEF FeedbackInv, TypeOK
<1>6. RequestInv(p)'
  BY <1>1, <1>2, <1>4, <1>5 DEF RequestInv, InTime, MayStillRead, RoundIsThere
<1>7. NothingIsKeptForever'
  BY <1>1 DEF FeedbackInv, NothingIsKeptForever
<1> QED BY <1>1, <1>5, <1>6, <1>7, OthersKeep DEF FeedbackInv

\* Requests that are answered without touching the store.
LEMMA UntouchedKeeps ==
  ASSUME FeedbackInv, NEW p \in Request, NEW code \in Code, NEW changed \in BOOLEAN,
         Answer(p, code, changed), UNCHANGED <<backend, now, item, stats, past>>
  PROVE  FeedbackInv'
<1>1. request' \in [Request -> RequestState] /\ \A q \in Request : RequestInv(q)'
  <2>1. item' \in [Round -> Item \cup {None}]
    BY DEF FeedbackInv, TypeOK
  <2> QED BY <2>1, AnswerKeeps
<1> QED BY <1>1 DEF FeedbackInv, TypeOK, NothingIsKeptForever

\* What a successful vote answers.
LEMMA OkAnswers ==
  ASSUME NEW p, NEW old, Ok(p, old)
  PROVE  \E code \in Code, changed \in BOOLEAN : Answer(p, code, changed)
<1>1. Success(request[p].want, old) \in Code
  BY DEF Success, Code
<1>2. (request[p].want # "none" /\ old # request[p].want) \in BOOLEAN
  OBVIOUS
<1> QED BY <1>1, <1>2 DEF Ok

\* A vote on a round that is there: both stores.
LEMMA VoteKeeps ==
  ASSUME FeedbackInv, NEW p \in Request, NEW r \in Round, item[r] # None,
         NEW old \in Vote, NEW want \in Vote, NEW code \in Code, NEW changed \in BOOLEAN,
         item' = [item EXCEPT ![r] = [born |-> item[r].born, vote |-> want]],
         stats' = stats \/ stats' = Moved(r, old, want),
         Answer(p, code, changed), UNCHANGED <<backend, now, past>>
  PROVE  FeedbackInv'
<1>1. item[r].born \in 0..MaxTime
  BY ItemIsThere
<1>2. [born |-> item[r].born, vote |-> want] \in Item
  BY <1>1 DEF Item
<1>3. /\ item' \in [Round -> Item \cup {None}]
      /\ \A q \in Round : item[q] # None => item'[q] # None /\ item'[q].born = item[q].born
      /\ \A q \in Round : item[q] = None => item'[q] = None
  BY <1>2, NoneAssumption DEF FeedbackInv, TypeOK
<1>4. request' \in [Request -> RequestState] /\ \A q \in Request : RequestInv(q)'
  BY <1>3, AnswerKeeps
<1>5. stats' \in [Combo -> Stats]
  BY MovedType DEF FeedbackInv, TypeOK
<1>6. NothingIsKeptForever'
  BY <1>3 DEF FeedbackInv, NothingIsKeptForever
<1> QED BY <1>3, <1>4, <1>5, <1>6 DEF FeedbackInv, TypeOK

LEMMA SqliteFeedbackKeeps ==
  ASSUME FeedbackInv, NEW p \in Request, SqliteFeedback(p) PROVE FeedbackInv'
<1> DEFINE r == request[p].round
<1>1. r \in Round /\ request[p].want \in Vote
  BY DEF FeedbackInv, RequestInv, InTime, SqliteFeedback, TypeOK, RequestState
<1>2. item[r] # None /\ item[r] \in Item /\ item[r].vote \in Vote
  BY <1>1, ItemIsThere DEF SqliteFeedback, Votable
<1>3. item' = [item EXCEPT ![r] = [born |-> item[r].born, vote |-> request[p].want]]
  <2>1. [item[r] EXCEPT !.vote = request[p].want] = [born |-> item[r].born, vote |-> request[p].want]
    BY <1>2 DEF Item
  <2>2. item' = [item EXCEPT ![r] = [item[r] EXCEPT !.vote = request[p].want]]
    BY <1>1 DEF SqliteFeedback, FeedbackInv, TypeOK
  <2> QED BY <2>1, <2>2
<1>4. PICK code \in Code, changed \in BOOLEAN : Answer(p, code, changed)
  BY OkAnswers DEF SqliteFeedback
<1>5. /\ stats' = stats \/ stats' = Moved(r, item[r].vote, request[p].want)
      /\ UNCHANGED <<backend, now, past>>
  BY DEF SqliteFeedback
<1> DEFINE old == item[r].vote
           want == request[p].want
<1>6. old \in Vote /\ want \in Vote /\ r \in Round /\ item[r] # None
  BY <1>1, <1>2
<1>7. /\ item' = [item EXCEPT ![r] = [born |-> item[r].born, vote |-> want]]
      /\ stats' = stats \/ stats' = Moved(r, old, want)
  BY <1>3, <1>5
<1> HIDE DEF r, old, want
<1> QED BY <1>4, <1>5, <1>6, <1>7, VoteKeeps

\* The round that was read is still there when the vote is written.
LEMMA DynamoWriteKeeps ==
  ASSUME FeedbackInv, NEW p \in Request, DynamoWrite(p) PROVE FeedbackInv'
<1> DEFINE r == request[p].round
<1>1. r \in Round /\ request[p].want \in Vote /\ request[p].old \in Vote
  BY DEF FeedbackInv, RequestInv, InTime, DynamoWrite, TypeOK, RequestState
<1>2. item[r] # None
  BY DEF FeedbackInv, RequestInv, RoundIsThere, DynamoWrite
<1>3. item' = [item EXCEPT ![r] = [born |-> item[r].born, vote |-> request[p].want]]
  BY <1>1, <1>2 DEF DynamoWrite, FeedbackInv, TypeOK
<1>4. PICK code \in Code, changed \in BOOLEAN : Answer(p, code, changed)
  BY OkAnswers DEF DynamoWrite, Code
<1> QED BY <1>1, <1>2, <1>3, <1>4, VoteKeeps DEF DynamoWrite

LEMMA DynamoReadKeeps ==
  ASSUME FeedbackInv, NEW p \in Request, DynamoRead(p) PROVE FeedbackInv'
<1> DEFINE r == request[p].round
           q == request[p]
<1>1. /\ q \in RequestState /\ q.pc = "asked" /\ r \in Round /\ q.since <= now /\ q.attempt < Attempts
      /\ UNCHANGED <<backend, now, item, stats, past>>
  BY DEF FeedbackInv, RequestInv, InTime, MayStillRead, DynamoRead, TypeOK
<1>2. item[r] # None /\ item[r].vote \in Vote /\ item[r].born + Ttl >= now /\ item[r].born \in 0..MaxTime
  BY <1>1, ItemIsThere DEF DynamoRead, Votable
<1>3. CASE item[r].vote = q.want
  <2>1. PICK code \in Code, changed \in BOOLEAN : Answer(p, code, changed)
    BY <1>3, OkAnswers DEF DynamoRead
  <2> QED BY <1>1, <2>1, UntouchedKeeps
<1>4. CASE item[r].vote # q.want
  <2> DEFINE new == [q EXCEPT !.pc = "read", !.old = item[r].vote, !.attempt = @ + 1]
  <2>1. request' = [request EXCEPT ![p] = new]
    BY <1>4 DEF DynamoRead, FeedbackInv, TypeOK
  <2>2. q.attempt + 1 \in 0..Attempts
    BY <1>1, AttemptsAssumption DEF RequestState
  <2>3. new \in RequestState /\ new.pc = "read" /\ new.round = r /\ new.since = q.since
    BY <1>1, <1>2, <2>2 DEF RequestState
  <2> HIDE DEF new
  <2>4. TypeOK' /\ request'[p] = new
    BY <1>1, <2>1, <2>3 DEF FeedbackInv, TypeOK
  <2>5. RequestInv(p)'
    <3>1. InTime(p)' /\ MayStillRead(p)'
      BY <1>1, <2>3, <2>4 DEF FeedbackInv, RequestInv, InTime, MayStillRead
    <3>2. RoundIsThere(p)'
      <4>1. item[r].born + Ttl >= q.since
        BY <1>1, <1>2, TimesAssumption DEF FeedbackInv, TypeOK, RequestState
      <4> QED BY <1>1, <1>2, <2>3, <2>4, <4>1 DEF RoundIsThere, DynamoRead
    <3> QED BY <3>1, <3>2 DEF RequestInv
  <2>6. NothingIsKeptForever'
    BY <1>1 DEF FeedbackInv, NothingIsKeptForever
  <2>7. ASSUME NEW o \in Request, o # p PROVE RequestInv(o)'
    BY <1>1, <2>1, <2>7, OthersKeep
  <2> QED BY <2>4, <2>5, <2>6, <2>7 DEF FeedbackInv
<1> QED BY <1>3, <1>4

LEMMA DynamoCancelledKeeps ==
  ASSUME FeedbackInv, NEW p \in Request, DynamoCancelled(p) PROVE FeedbackInv'
<1>1. /\ request[p] \in RequestState /\ request[p].pc = "read"
      /\ UNCHANGED <<backend, now, item, stats, past>>
  BY DEF FeedbackInv, DynamoCancelled, TypeOK
<1>2. CASE MayRead(p)
  <2> DEFINE new == [request[p] EXCEPT !.pc = "asked", !.old = "none"]
  <2>1. request' = [request EXCEPT ![p] = new]
    BY <1>2 DEF DynamoCancelled, FeedbackInv, TypeOK
  <2>2. /\ new \in RequestState /\ new.pc = "asked" /\ new.round = request[p].round
        /\ new.since = request[p].since /\ new.attempt = request[p].attempt
    BY <1>1 DEF RequestState, Vote
  <2> HIDE DEF new
  <2>3. TypeOK' /\ request'[p] = new
    BY <1>1, <2>1, <2>2 DEF FeedbackInv, TypeOK
  <2>4. RequestInv(p)'
    BY <1>1, <1>2, <2>2, <2>3 DEF FeedbackInv, RequestInv, InTime, MayStillRead, RoundIsThere, MayRead
  <2>5. NothingIsKeptForever'
    BY <1>1 DEF FeedbackInv, NothingIsKeptForever
  <2>6. ASSUME NEW o \in Request, o # p PROVE RequestInv(o)'
    BY <1>1, <2>1, <2>6, OthersKeep
  <2> QED BY <2>3, <2>4, <2>5, <2>6 DEF FeedbackInv
<1>3. CASE ~MayRead(p)
  <2>1. Answer(p, "unavailable", FALSE) /\ "unavailable" \in Code
    BY <1>3 DEF DynamoCancelled, Code
  <2> QED BY <1>1, <2>1, UntouchedKeeps
<1> QED BY <1>2, <1>3

LEMMA TickKeeps == ASSUME FeedbackInv, Tick PROVE FeedbackInv'
<1>1. now' = now + 1 /\ now' \in 0..MaxTime /\ UNCHANGED <<backend, item, stats, request, past>>
  BY TimesAssumption DEF Tick, FeedbackInv, TypeOK
<1>2. ASSUME NEW p \in Request PROVE RequestInv(p)'
  <2>1. RequestInv(p) /\ request[p] \in RequestState /\ now \in 0..MaxTime
    BY DEF FeedbackInv, TypeOK
  <2>2. InTime(p)'
    BY <1>1, <2>1, TimesAssumption DEF RequestInv, InTime, Tick, RequestState
  <2> QED BY <1>1, <2>1, <2>2 DEF RequestInv, MayStillRead, RoundIsThere
<1> QED BY <1>1, <1>2 DEF FeedbackInv, TypeOK, NothingIsKeptForever

\* What a purge or DynamoDB's retention removes is not being voted on.
LEMMA RemovedIsNotVotedOn ==
  ASSUME FeedbackInv, NEW r \in Round, item[r] # None,
         backend = "dynamo" => item[r].born + Retention < now,
         NEW p \in Request
  PROVE  ~(request[p].pc = "read" /\ request[p].round = r)
<1>1. item[r].born \in 0..MaxTime
  BY ItemIsThere
<1>2. RequestInv(p) /\ request[p].since \in 0..MaxTime /\ now \in 0..MaxTime
  BY DEF FeedbackInv, TypeOK, RequestState
<1>3. backend = "dynamo" => Ttl + Patience <= Retention
  BY MarginAssumption DEF FeedbackInv, TypeOK
<1> QED BY <1>1, <1>2, <1>3, TimesAssumption DEF RequestInv, InTime, RoundIsThere

\* Removing such rounds disturbs no request.
LEMMA RemovalKeeps ==
  ASSUME FeedbackInv, NEW gone \in SUBSET Round,
         \A r \in gone :
           item[r] # None /\ (backend = "dynamo" => item[r].born + Retention < now),
         item' = [r \in Round |-> IF r \in gone THEN None ELSE item[r]],
         stats' \in [Combo -> Stats],
         past' \in [Round -> Vote \cup {"undrawn", "stored", "forgotten"}],
         UNCHANGED <<backend, now, request>>
  PROVE  FeedbackInv'
<1>1. TypeOK'
  BY DEF FeedbackInv, TypeOK
<1>2. NothingIsKeptForever'
  BY DEF FeedbackInv, NothingIsKeptForever
<1>3. ASSUME NEW p \in Request PROVE RequestInv(p)'
  <2>1. RequestInv(p)
    BY DEF FeedbackInv
  <2>2. (InTime(p) /\ MayStillRead(p))'
    BY <2>1 DEF RequestInv, InTime, MayStillRead
  <2>3. RoundIsThere(p)'
    <3> SUFFICES ASSUME request[p].pc = "read"
                 PROVE  /\ item'[request[p].round] # None
                        /\ item'[request[p].round].born + Ttl >= request[p].since
      BY <2>1 DEF RequestInv, RoundIsThere
    <3>1. request[p].round \in Round /\ request[p].round \notin gone
      BY <2>1, RemovedIsNotVotedOn DEF RequestInv, InTime
    <3> QED BY <2>1, <3>1 DEF RequestInv, RoundIsThere
  <2> QED BY <2>2, <2>3 DEF RequestInv
<1> QED BY <1>1, <1>2, <1>3 DEF FeedbackInv

LEMMA PurgeKeeps == ASSUME FeedbackInv, NEW age, SqlitePurge(age) PROVE FeedbackInv'
<1> DEFINE gone == {r \in Round : item[r] # None /\ item[r].born < now - age}
           rows == [r \in Round |-> IF r \in gone THEN None ELSE item[r]]
<1>1. /\ item' = rows /\ stats' = Rebuilt(rows) /\ UNCHANGED <<backend, now, request>>
      /\ backend = "sqlite"
      /\ past' = [r \in Round |-> IF r \in gone THEN "forgotten" ELSE past[r]]
  BY DEF SqlitePurge
<1>2. \A r \in gone : item[r] # None /\ (backend = "dynamo" => item[r].born + Retention < now)
  BY <1>1
<1>3. stats' \in [Combo -> Stats]
  BY <1>1, RebuiltType
<1>4. past' \in [Round -> Vote \cup {"undrawn", "stored", "forgotten"}]
  BY <1>1 DEF FeedbackInv, TypeOK
<1> HIDE DEF gone
<1> QED BY <1>1, <1>2, <1>3, <1>4, RemovalKeeps DEF gone

LEMMA ExpireRoundKeeps ==
  ASSUME FeedbackInv, NEW r \in Round, DynamoExpireRound(r) PROVE FeedbackInv'
<1>1. item[r] # None /\ item[r].born + Retention < now /\ UNCHANGED <<backend, now, stats, request>>
  BY DEF DynamoExpireRound
<1>2. item' = [q \in Round |-> IF q \in {r} THEN None ELSE item[q]]
  BY DEF DynamoExpireRound, FeedbackInv, TypeOK
<1>3. past' \in [Round -> Vote \cup {"undrawn", "stored", "forgotten"}]
  <2>1. item[r].vote \in Vote
    BY <1>1, ItemIsThere
  <2> QED BY <2>1 DEF DynamoExpireRound, FeedbackInv, TypeOK
<1>4. stats' \in [Combo -> Stats]
  BY <1>1 DEF FeedbackInv, TypeOK
<1> DEFINE gone == {r}
<1>5. /\ gone \in SUBSET Round
      /\ \A q \in gone :
           item[q] # None /\ (backend = "dynamo" => item[q].born + Retention < now)
  BY <1>1
<1>6. item' = [q \in Round |-> IF q \in gone THEN None ELSE item[q]]
  BY <1>2
<1> HIDE DEF gone
<1> QED BY <1>1, <1>3, <1>4, <1>5, <1>6, RemovalKeeps

LEMMA ExpireStatsKeeps ==
  ASSUME FeedbackInv, NEW c \in Combo, DynamoExpireStats(c) PROVE FeedbackInv'
<1>1. UNCHANGED <<backend, now, item, request>>
  BY DEF DynamoExpireStats
<1>2. stats' \in [Combo -> Stats]
  BY DEF DynamoExpireStats, FeedbackInv, TypeOK, NoStats, Stats
<1>3. past' \in [Round -> Vote \cup {"undrawn", "stored", "forgotten"}]
  BY DEF DynamoExpireStats, FeedbackInv, TypeOK
<1>4. ASSUME NEW p \in Request PROVE RequestInv(p)'
  BY <1>1 DEF FeedbackInv, RequestInv, InTime, MayStillRead, RoundIsThere
<1>5. NothingIsKeptForever'
  BY <1>1 DEF FeedbackInv, NothingIsKeptForever
<1> QED BY <1>1, <1>2, <1>3, <1>4, <1>5 DEF FeedbackInv, TypeOK

LEMMA FeedbackNext == FeedbackInv /\ [Next]_vars => FeedbackInv'
<1> SUFFICES ASSUME FeedbackInv, [Next]_vars PROVE FeedbackInv'
  OBVIOUS
<1>1. ASSUME NEW r \in Round, Draw(r) PROVE FeedbackInv'
  BY <1>1, DrawKeeps
<1>2. ASSUME NEW p \in Request, NEW r \in Round, NEW v \in Vote, Ask(p, r, v) PROVE FeedbackInv'
  BY <1>2, AskKeeps
<1>3. ASSUME NEW p \in Request, Unavailable(p) PROVE FeedbackInv'
  <2>1. "unavailable" \in Code
    BY DEF Code
  <2> QED BY <1>3, <2>1, UntouchedKeeps DEF Unavailable
<1>4. ASSUME NEW p \in Request, Refused(p) PROVE FeedbackInv'
  <2>1. Refusal(request[p].round) \in Code
    BY DEF Refusal, Code
  <2> QED BY <1>4, <2>1, UntouchedKeeps DEF Refused
<1>5. ASSUME NEW p \in Request, SqliteFeedback(p) PROVE FeedbackInv'
  BY <1>5, SqliteFeedbackKeeps
<1>6. ASSUME NEW p \in Request, DynamoRead(p) PROVE FeedbackInv'
  BY <1>6, DynamoReadKeeps
<1>7. ASSUME NEW p \in Request, DynamoWrite(p) PROVE FeedbackInv'
  BY <1>7, DynamoWriteKeeps
<1>8. ASSUME NEW p \in Request, DynamoCancelled(p) PROVE FeedbackInv'
  BY <1>8, DynamoCancelledKeeps
<1>9. CASE Tick
  BY <1>9, TickKeeps
<1>10. ASSUME NEW age \in -1..MaxTime, SqlitePurge(age) PROVE FeedbackInv'
  BY <1>10, PurgeKeeps
<1>11. ASSUME NEW r \in Round, DynamoExpireRound(r) PROVE FeedbackInv'
  BY <1>11, ExpireRoundKeeps
<1>12. ASSUME NEW c \in Combo, DynamoExpireStats(c) PROVE FeedbackInv'
  BY <1>12, ExpireStatsKeeps
<1>13. CASE UNCHANGED vars
  BY <1>13 DEF vars, FeedbackInv, TypeOK, NothingIsKeptForever, RequestInv, InTime, MayStillRead,
               RoundIsThere
<1> QED
  BY <1>1, <1>2, <1>3, <1>4, <1>5, <1>6, <1>7, <1>8, <1>9, <1>10, <1>11, <1>12, <1>13 DEF Next

LEMMA FeedbackSound == Spec => []FeedbackInv
BY FeedbackInit, FeedbackNext, PTL DEF Spec

\* For any rounds, requests and times the stores keep their shape: no request reads
\* more often than it may, and a purge's recount gives counters (consequences.py,
\* aws_consequences.py:108).
THEOREM FeedbackTyped == Spec => []TypeOK
<1>1. FeedbackInv => TypeOK
  BY DEF FeedbackInv
<1> QED BY <1>1, FeedbackSound, PTL

\* A vote never brings back a round that was deleted between its read and its write,
\* whatever votes race it and whenever DynamoDB deletes (aws_consequences.py:125).
THEOREM NothingIsEverKeptForever == Spec => []NothingIsKeptForever
<1>1. FeedbackInv => NothingIsKeptForever
  BY DEF FeedbackInv
<1> QED BY <1>1, FeedbackSound, PTL

-----------------------------------------------------------------------------
(* The ledger.  Its variables are read off the store by these, so that a   *)
(* step of Books is a relation between them and their next values.         *)

Votes == [r \in Round |-> Standing(r)]

Open == {r \in Round : Votable(r)}

Tally ==
  [c \in Combo |-> [draws |-> stats[c].draws, enjoy |-> stats[c].enjoy,
                    regret |-> stats[c].regret]]

Replies == [p \in Request |-> AskedOrTold(p)]

LedgerStep == Books!Next \/ UNCHANGED <<backend, Votes, Open, Tally, Replies>>

\* A round on the books is in the store; what is in the store and off the books is
\* past its retention, in DynamoDB only; and a combination's counters outlast the
\* rounds they count.
OnRecord(r) ==
  /\ item[r] # None => item[r].born <= now /\ past[r] \in {"stored", "forgotten"}
  /\ past[r] = "stored" => item[r] # None
  /\ item[r] # None /\ past[r] = "forgotten"
       => backend = "dynamo" /\ item[r].born + Retention < now
  /\ past[r] = "stored" /\ backend = "dynamo"
       => stats[ComboOf[r]].until >= item[r].born + Retention
  /\ backend = "sqlite" => past[r] \notin Vote

Recounted ==
  \A c \in Combo :
    /\ stats[c].draws = Books!Counted(Votes, c, Vote)
    /\ stats[c].enjoy = Books!Counted(Votes, c, {"enjoy"})
    /\ stats[c].regret = Books!Counted(Votes, c, {"regret"})

\* A request is about a round that was dealt, and who finds it open asked in time.
AskedInTime(p) ==
  LET r == request[p].round
  IN  request[p].pc \in {"asked", "read"} =>
        /\ past[r] # "undrawn"
        /\ item[r] # None /\ item[r].born + Ttl >= request[p].since => request[p].inTime

LedgerInv ==
  /\ FeedbackInv
  /\ \A r \in Round : OnRecord(r)
  /\ Recounted
  /\ \A p \in Request : AskedInTime(p)

\* The ledger counts as the store does.
LEMMA SameCount ==
  ASSUME NEW S
  PROVE  Books!Cardinality(S) = Cardinality(S)
BY Zenon DEF Books!Cardinality, Cardinality

\* One vote more or less in a count.
LEMMA CountMoves ==
  ASSUME NEW votes, NEW r \in Round, NEW v, NEW old, old = votes[r], NEW new,
         new = [q \in Round |-> IF q = r THEN v ELSE votes[q]],
         NEW c, NEW values
  PROVE  /\ Books!Counted(votes, c, values) \in Nat
         /\ Books!Counted(new, c, values) =
              Books!Counted(votes, c, values)
                + (IF ComboOf[r] = c /\ v \in values THEN 1 ELSE 0)
                - (IF ComboOf[r] = c /\ old \in values THEN 1 ELSE 0)
<1> DEFINE A == {q \in Round : ComboOf[q] = c /\ votes[q] \in values}
           B == {q \in Round : ComboOf[q] = c /\ new[q] \in values}
           R == A \ {r}
<1>1. B \ {r} = R
  OBVIOUS
<1>2. r \in A <=> ComboOf[r] = c /\ old \in values
  OBVIOUS
<1>3. r \in B <=> ComboOf[r] = c /\ v \in values
  OBVIOUS
<1>4. A \subseteq Round /\ B \subseteq Round
  OBVIOUS
<1>5. Books!Counted(votes, c, values) = Cardinality(A) /\ Books!Counted(new, c, values) = Cardinality(B)
  BY SameCount DEF Books!Counted
<1> HIDE DEF A, B
<1>6. /\ IsFiniteSet(A) /\ IsFiniteSet(B) /\ IsFiniteSet(R)
      /\ Cardinality(A) \in Nat /\ Cardinality(R) \in Nat
  BY <1>4, ComboAssumption, FS_Subset, FS_CardinalityType
<1>7. ASSUME NEW S, IsFiniteSet(S), S \ {r} = R
      PROVE  Cardinality(S) = Cardinality(R) + (IF r \in S THEN 1 ELSE 0)
  <2>1. CASE r \in S
    <3>1. S = R \cup {r} /\ r \notin R
      BY <1>7, <2>1
    <3> QED BY <1>6, <2>1, <3>1, FS_AddElement
  <2>2. CASE r \notin S
    <3>1. S = R
      BY <1>7, <2>2
    <3> QED BY <1>6, <2>2, <3>1
  <2> QED BY <2>1, <2>2
<1>8. /\ Cardinality(A) = Cardinality(R) + (IF r \in A THEN 1 ELSE 0)
      /\ Cardinality(B) = Cardinality(R) + (IF r \in B THEN 1 ELSE 0)
  BY <1>1, <1>6, <1>7
<1> QED BY <1>2, <1>3, <1>5, <1>6, <1>8 DEF One

LEMMA MovedFields ==
  ASSUME TypeOK, NEW r \in Round, NEW old, NEW want, NEW c \in Combo
  PROVE  LET m == Moved(r, old, want)[c]
         IN  /\ m.draws = stats[c].draws /\ m.until = stats[c].until
             /\ m.enjoy = IF c = ComboOf[r]
                          THEN stats[c].enjoy + One(want = "enjoy") - One(old = "enjoy")
                          ELSE stats[c].enjoy
             /\ m.regret = IF c = ComboOf[r]
                           THEN stats[c].regret + One(want = "regret") - One(old = "regret")
                           ELSE stats[c].regret
<1>1. stats \in [Combo -> Stats] /\ ComboOf[r] \in Combo
  BY ComboAssumption DEF TypeOK
<1> DEFINE d == ComboOf[r]
           e == stats[d].enjoy + One(want = "enjoy") - One(old = "enjoy")
           g == stats[d].regret + One(want = "regret") - One(old = "regret")
           first == [stats EXCEPT ![d].enjoy = e]
<1>2. first[d].regret = stats[d].regret
  BY <1>1 DEF Stats
<1>3. Moved(r, old, want) = [first EXCEPT ![d].regret = g]
  BY <1>2 DEF Moved
<1> HIDE DEF e, g
<1>4. \A k \in Combo : /\ Moved(r, old, want)[k] = IF k = d THEN [first[d] EXCEPT !.regret = g] ELSE stats[k]
                       /\ first[d] = [stats[d] EXCEPT !.enjoy = e]
  BY <1>1, <1>3
<1>5. /\ [[stats[d] EXCEPT !.enjoy = e] EXCEPT !.regret = g].draws = stats[d].draws
      /\ [[stats[d] EXCEPT !.enjoy = e] EXCEPT !.regret = g].until = stats[d].until
      /\ [[stats[d] EXCEPT !.enjoy = e] EXCEPT !.regret = g].enjoy = e
      /\ [[stats[d] EXCEPT !.enjoy = e] EXCEPT !.regret = g].regret = g
  <2>1. stats[d] \in [draws : Int, enjoy : Int, regret : Int, until : Nat]
    BY <1>1 DEF Stats
  <2> QED BY <2>1
<1> HIDE DEF d, first
<1>6. CASE c = d
  <2>1. Moved(r, old, want)[c] = [[stats[d] EXCEPT !.enjoy = e] EXCEPT !.regret = g]
    BY <1>1, <1>4, <1>6 DEF d
  <2> QED BY <1>5, <1>6, <2>1 DEF d, e, g
<1>7. CASE c # d
  <2>1. Moved(r, old, want)[c] = stats[c]
    BY <1>4, <1>7
  <2> QED BY <1>7, <2>1 DEF d
<1> QED BY <1>6, <1>7

\* The counters are the tally of a ledger that recounts.
LEMMA RecountedTally ==
  ASSUME Recounted
  PROVE  Tally = Books!Recount(Votes)
BY DEF Recounted, Tally, Books!Recount, Books!Vote, Vote

LEMMA RecountedTallyPrime ==
  ASSUME Recounted'
  PROVE  Tally' = Books!Recount(Votes')
BY DEF Recounted, Tally, Books!Recount, Books!Vote, Vote

\* A ledger step that recounts is a step of Books.
LEMMA StepIsNext ==
  ASSUME Books!Step, Recounted', UNCHANGED backend
  PROVE  LedgerStep
<1>1. Tally' = Books!Recount(Votes')
  BY RecountedTallyPrime
<1> QED BY <1>1 DEF LedgerStep, Books!Next, Tally, Votes

\* The store is as it was: only requests moved on.
LEMMA StoreUntouched ==
  ASSUME LedgerInv, UNCHANGED <<backend, now, item, stats, past>>
  PROVE  /\ Votes' = Votes /\ Open' = Open /\ Tally' = Tally
         /\ Recounted' /\ \A r \in Round : OnRecord(r)'
<1>1. Votes' = Votes
  BY DEF Votes, Standing
<1>2. Open' = Open /\ Tally' = Tally
  BY DEF Open, Votable, Tally
<1>3. Recounted'
  BY <1>1 DEF LedgerInv, Recounted
<1>4. ASSUME NEW r \in Round PROVE OnRecord(r)'
  BY DEF LedgerInv, OnRecord
<1> QED BY <1>1, <1>2, <1>3, <1>4

\* One request moved on, and the store with it only where nobody else's is.
LEMMA OthersInTime ==
  ASSUME LedgerInv, NEW p \in Request, NEW new, request' = [request EXCEPT ![p] = new],
         new.pc = "told",
         \A r \in Round : /\ past'[r] = past[r]
                          /\ item'[r] = None <=> item[r] = None
                          /\ item[r] # None => item'[r].born = item[r].born
  PROVE  \A q \in Request : AskedInTime(q)'
<1> SUFFICES ASSUME NEW q \in Request PROVE AskedInTime(q)'
  OBVIOUS
<1>1. request \in [Request -> RequestState]
  BY DEF LedgerInv, FeedbackInv, TypeOK
<1>2. CASE q = p
  BY <1>1, <1>2 DEF AskedInTime
<1>3. CASE q # p
  <2>1. request'[q] = request[q] /\ AskedInTime(q) /\ InTime(q)
    BY <1>1, <1>3 DEF LedgerInv, FeedbackInv, RequestInv
  <2> QED BY <2>1 DEF AskedInTime, InTime
<1> QED BY <1>2, <1>3

\* What the ledger sees of a request that was answered.
LEMMA AnswerReplies ==
  ASSUME TypeOK, NEW p \in Request, NEW code, NEW changed, Answer(p, code, changed)
  PROVE  Replies' = [Replies EXCEPT ![p] = Books!Told(code, changed)]
<1> DEFINE new == Answered(p, code, changed)
<1>1. request' = [request EXCEPT ![p] = new] /\ request \in [Request -> RequestState]
  BY DEF Answer, TypeOK
<1>2. new.pc = "told" /\ new.code = code /\ new.changed = changed
  BY DEF Answered, Quiet
<1> HIDE DEF new
<1>3. AskedOrTold(p)' = [state |-> "told", code |-> code, changed |-> changed]
  BY <1>1, <1>2 DEF AskedOrTold
<1>4. \A q \in Request : q # p => AskedOrTold(q)' = AskedOrTold(q)
  BY <1>1 DEF AskedOrTold
<1> QED BY <1>3, <1>4 DEF Replies, Books!Told

LEMMA AnsweredPc ==
  ASSUME NEW p, NEW code, NEW changed
  PROVE  Answered(p, code, changed).pc = "told"
BY DEF Answered, Quiet

\* A request on its way is an asked one to the ledger.
LEMMA PendingReply ==
  ASSUME NEW p \in Request, request[p].pc \in {"asked", "read"}
  PROVE  /\ Replies[p] = Books!Asked(request[p].round, request[p].want, request[p].inTime)
         /\ Replies[p].state = "asked" /\ Replies[p].round = request[p].round
         /\ Replies[p].want = request[p].want /\ Replies[p].inTime = request[p].inTime
BY DEF Replies, AskedOrTold, Books!Asked

\* Refused or failed: the store is as it was.
LEMMA RefusedStep ==
  ASSUME LedgerInv, NEW p \in Request, request[p].pc \in {"asked", "read"},
         NEW code \in {"missing", "expired", "unavailable"},
         code # "unavailable" => request[p].round \notin Open,
         code = "missing" => item[request[p].round] = None,
         Answer(p, code, FALSE), UNCHANGED <<backend, now, item, stats, past>>
  PROVE  /\ Recounted' /\ \A r \in Round : OnRecord(r)'
         /\ \A q \in Request : AskedInTime(q)'
         /\ LedgerStep
<1>1. /\ Votes' = Votes /\ Open' = Open /\ Recounted' /\ \A r \in Round : OnRecord(r)'
  BY StoreUntouched
<1>2. \A q \in Request : AskedInTime(q)'
  BY OthersInTime, AnsweredPc DEF Answer
<1>3. Replies' = [Replies EXCEPT ![p] = Books!Told(code, FALSE)]
  <2>1. TypeOK
    BY DEF LedgerInv, FeedbackInv
  <2> QED BY <2>1, AnswerReplies
<1>4. Books!Refuse(p, code)
  <2> DEFINE r == request[p].round
  <2>1. r \in Round
    BY DEF LedgerInv, FeedbackInv, RequestInv, InTime
  <2>2. backend = "sqlite" /\ code = "missing" => Votes[r] \notin Books!Vote
    <3>1. OnRecord(r) /\ Votes[r] = Standing(r)
      BY <2>1 DEF LedgerInv, Votes
    <3> HIDE DEF r
    <3>2. backend = "sqlite" /\ item[r] = None => Votes[r] \notin Vote
      BY <3>1 DEF OnRecord, Standing
    <3> QED BY <3>2 DEF Books!Vote, Vote, r
  <2>3. Replies[p].state = "asked" /\ Replies[p].round = r
    BY PendingReply
  <2> HIDE DEF r
  <2>4. code # "unavailable" => r \notin Open
    BY DEF r
  <2> QED BY <1>1, <1>3, <2>2, <2>3, <2>4 DEF Books!Refuse, Votes, Open, Replies
<1>5. Books!Step
  BY <1>4 DEF Books!Step
<1> QED BY <1>1, <1>2, <1>5, StepIsNext

\* A vote cast on a round on the books, heard of or not.
LEMMA CastStep ==
  ASSUME LedgerInv, NEW p \in Request, NEW r \in Round, NEW old \in Vote, NEW want \in Vote,
         request[p].pc \in {"asked", "read"}, request[p].round = r, request[p].want = want,
         request[p].inTime, item[r] # None, past[r] = "stored", item[r].vote = old,
         item' = [item EXCEPT ![r] = [born |-> item[r].born, vote |-> want]],
         stats' = Moved(r, old, want) \/ (stats' = stats /\ old = want),
         NEW heard \in BOOLEAN,
         IF heard THEN Ok(p, old) ELSE Answer(p, "unavailable", FALSE),
         UNCHANGED <<backend, now, past>>
  PROVE  /\ Recounted' /\ \A q \in Round : OnRecord(q)'
         /\ \A q \in Request : AskedInTime(q)'
         /\ LedgerStep
<1>0. TypeOK
  BY DEF LedgerInv, FeedbackInv
<1>1. /\ item'[r].vote = want /\ item'[r].born = item[r].born /\ item'[r] # None
      /\ \A q \in Round : q # r => item'[q] = item[q]
  <2>1. item[r].born \in 0..MaxTime
    BY ItemIsThere DEF LedgerInv
  <2>2. [born |-> item[r].born, vote |-> want] \in Item
    BY <2>1 DEF Item
  <2> QED BY <1>0, <2>2, NoneAssumption DEF TypeOK
<1>2. Votes[r] = old /\ Votes' = [q \in Round |-> IF q = r THEN want ELSE Votes[q]]
  BY <1>1 DEF Votes, Standing
<1>3. Open' = Open
  BY <1>1 DEF Open, Votable
<1>4. \A c \in Combo : stats'[c].until = stats[c].until
  BY <1>0, MovedFields
<1>5. ASSUME NEW q \in Round PROVE OnRecord(q)'
  <2>1. OnRecord(q) /\ (item'[q] = None <=> item[q] = None)
        /\ (item[q] # None => item'[q].born = item[q].born) /\ past'[q] = past[q]
        /\ ComboOf[q] \in Combo
    BY <1>1, ComboAssumption DEF LedgerInv
  <2> QED BY <1>4, <2>1 DEF OnRecord
<1>6. Recounted'
  <2> SUFFICES ASSUME NEW c \in Combo
               PROVE  /\ stats'[c].draws = Books!Counted(Votes', c, Vote)
                      /\ stats'[c].enjoy = Books!Counted(Votes', c, {"enjoy"})
                      /\ stats'[c].regret = Books!Counted(Votes', c, {"regret"})
    BY DEF Recounted
  <2> DEFINE N(values) == Books!Counted(Votes, c, values)
             M(values) == Books!Counted(Votes', c, values)
  <2>1. stats[c].draws = N(Vote) /\ stats[c].enjoy = N({"enjoy"}) /\ stats[c].regret = N({"regret"})
    BY DEF LedgerInv, Recounted
  <2>2. ASSUME NEW values
        PROVE  /\ N(values) \in Nat
               /\ M(values) = N(values) + (IF ComboOf[r] = c /\ want \in values THEN 1 ELSE 0)
                                        - (IF ComboOf[r] = c /\ old \in values THEN 1 ELSE 0)
    <3>1. PICK new : new = Votes'
      OBVIOUS
    <3>2. new = [q \in Round |-> IF q = r THEN want ELSE Votes[q]] /\ old = Votes[r]
      BY <1>2, <3>1
    <3> HIDE DEF Votes
    <3>3. /\ Books!Counted(Votes, c, values) \in Nat
          /\ Books!Counted(new, c, values) =
               Books!Counted(Votes, c, values)
                 + (IF ComboOf[r] = c /\ want \in values THEN 1 ELSE 0)
                 - (IF ComboOf[r] = c /\ old \in values THEN 1 ELSE 0)
      BY <3>2, CountMoves
    <3> QED BY <3>1, <3>3
  <2>3. stats'[c].draws = stats[c].draws
    BY <1>0, MovedFields
  <2>4. /\ stats'[c].enjoy = IF c = ComboOf[r] THEN stats[c].enjoy + One(want = "enjoy") - One(old = "enjoy")
                             ELSE stats[c].enjoy
        /\ stats'[c].regret = IF c = ComboOf[r] THEN stats[c].regret + One(want = "regret") - One(old = "regret")
                              ELSE stats[c].regret
    <3>1. CASE stats' = Moved(r, old, want)
      BY <1>0, <3>1, MovedFields
    <3>2. CASE stats' = stats /\ old = want
      BY <2>1, <2>2, <3>2 DEF One
    <3> QED BY <3>1, <3>2
  <2> HIDE DEF N, M
  <2>5. M(Vote) = N(Vote) /\ N(Vote) \in Nat
    BY <2>2 DEF One
  <2>6. M({"enjoy"}) = IF c = ComboOf[r] THEN N({"enjoy"}) + One(want = "enjoy") - One(old = "enjoy")
                       ELSE N({"enjoy"})
    BY <2>2 DEF One
  <2>7. M({"regret"}) = IF c = ComboOf[r] THEN N({"regret"}) + One(want = "regret") - One(old = "regret")
                        ELSE N({"regret"})
    BY <2>2 DEF One
  <2> QED BY <2>1, <2>3, <2>4, <2>5, <2>6, <2>7 DEF M
<1>7. \A q \in Request : AskedInTime(q)'
  <2>1. PICK code, changed : Answer(p, code, changed)
    BY DEF Ok
  <2> DEFINE new == Answered(p, code, changed)
  <2>2. request' = [request EXCEPT ![p] = new] /\ new.pc = "told"
    BY <2>1, AnsweredPc DEF Answer
  <2> HIDE DEF new
  <2>3. \A q \in Round : /\ past'[q] = past[q]
                         /\ item'[q] = None <=> item[q] = None
                         /\ item[q] # None => item'[q].born = item[q].born
    BY <1>1
  <2> QED BY <2>2, <2>3, OthersInTime
<1>8. Books!Cast(p, heard)
  <2>1. Replies' = [Replies EXCEPT ![p] = IF heard THEN Books!Truth(old, want)
                                          ELSE Books!Told("unavailable", FALSE)]
    <3>1. CASE heard
      <4> DEFINE changed == want # "none" /\ old # want
      <4>1. Answer(p, Success(want, old), changed)
        BY <3>1 DEF Ok
      <4>2. Replies' = [Replies EXCEPT ![p] = Books!Told(Success(want, old), changed)]
        BY <1>0, <4>1, AnswerReplies
      <4>3. Books!Told(Success(want, old), changed) = Books!Truth(old, want)
        BY DEF Success, Books!Truth, Books!Told, Vote
      <4> QED BY <3>1, <4>2, <4>3
    <3>2. CASE ~heard
      BY <1>0, <3>2, AnswerReplies
    <3> QED BY <3>1, <3>2
  <2>2. /\ Replies[p].state = "asked" /\ Replies[p].inTime
        /\ Replies[p].round = r /\ Replies[p].want = want
    BY PendingReply
  <2>3. Votes[r] \in Books!Vote
    BY <1>2 DEF Books!Vote, Vote
  <2>4. Votes' = [Votes EXCEPT ![r] = want]
    BY <1>2 DEF Votes
  <2> QED
    BY <1>2, <1>3, <2>1, <2>2, <2>3, <2>4 DEF Books!Cast, Votes, Open, Replies
<1>9. Books!Step
  BY <1>8 DEF Books!Step
<1> QED BY <1>5, <1>6, <1>7, <1>9, StepIsNext

\* Who found the round votable asked in time, and the round is on the books: what
\* is stored and off them is past DynamoDB's retention.
LEMMA VotableIsOpen ==
  ASSUME LedgerInv, NEW p \in Request, request[p].pc \in {"asked", "read"},
         NEW r, r = request[p].round, item[r] # None, item[r].born + Ttl >= request[p].since
  PROVE  r \in Round /\ request[p].inTime /\ past[r] = "stored"
<1>1. /\ r \in Round /\ request[p].since <= now /\ now <= request[p].since + Patience
      /\ request[p].since \in 0..MaxTime /\ now \in 0..MaxTime
  BY DEF LedgerInv, FeedbackInv, RequestInv, InTime, TypeOK, RequestState
<1>2. request[p].inTime
  BY DEF LedgerInv, AskedInTime
<1>3. item[r].born \in 0..MaxTime
  BY <1>1, ItemIsThere DEF LedgerInv
<1>4. backend = "dynamo" => item[r].born + Retention >= now
  <2>1. backend = "dynamo" => Ttl + Patience <= Retention
    BY MarginAssumption DEF LedgerInv, FeedbackInv, TypeOK
  <2> QED BY <1>1, <1>3, <2>1, TimesAssumption
<1>5. past[r] # "forgotten"
  BY <1>1, <1>3, <1>4, TimesAssumption DEF LedgerInv, OnRecord
<1> QED BY <1>1, <1>2, <1>5 DEF LedgerInv, OnRecord

LEMMA SqliteFeedbackCasts ==
  ASSUME LedgerInv, NEW p \in Request, SqliteFeedback(p)
  PROVE  /\ Recounted' /\ \A q \in Round : OnRecord(q)'
         /\ \A q \in Request : AskedInTime(q)'
         /\ LedgerStep
<1> DEFINE r == request[p].round
           old == item[r].vote
           want == request[p].want
<1>1. request[p].pc = "asked" /\ item[r] # None /\ item[r].born + Ttl >= now
  BY DEF SqliteFeedback, Votable
<1>2. /\ r \in Round /\ want \in Vote /\ request[p].since <= now
      /\ request[p].since \in 0..MaxTime /\ now \in 0..MaxTime
  BY <1>1 DEF LedgerInv, FeedbackInv, RequestInv, InTime, TypeOK, RequestState
<1>3. item[r] \in Item /\ old \in Vote /\ item[r].born \in 0..MaxTime
  BY <1>1, <1>2, ItemIsThere DEF LedgerInv
<1>4. request[p].inTime /\ past[r] = "stored"
  <2>1. item[r].born + Ttl >= request[p].since
    BY <1>1, <1>2, <1>3, TimesAssumption
  <2> QED BY <1>1, <2>1, VotableIsOpen
<1>5. item' = [item EXCEPT ![r] = [born |-> item[r].born, vote |-> want]]
  <2>1. [item[r] EXCEPT !.vote = want] = [born |-> item[r].born, vote |-> want]
    BY <1>3 DEF Item
  <2>2. item' = [item EXCEPT ![r] = [item[r] EXCEPT !.vote = want]]
    BY <1>2 DEF SqliteFeedback, LedgerInv, FeedbackInv, TypeOK
  <2> QED BY <2>1, <2>2
<1>6. /\ stats' = Moved(r, old, want) \/ (stats' = stats /\ old = want)
      /\ UNCHANGED <<backend, now, past>> /\ Ok(p, old)
  BY DEF SqliteFeedback
<1>7. \E heard \in BOOLEAN : heard /\ IF heard THEN Ok(p, old) ELSE Answer(p, "unavailable", FALSE)
  BY <1>6
<1>8. old = item[r].vote /\ r = request[p].round /\ want = request[p].want
  OBVIOUS
<1> HIDE DEF r, old, want
<1> QED BY <1>1, <1>2, <1>3, <1>4, <1>5, <1>6, <1>7, <1>8, CastStep

LEMMA DynamoWriteCasts ==
  ASSUME LedgerInv, NEW p \in Request, DynamoWrite(p)
  PROVE  /\ Recounted' /\ \A q \in Round : OnRecord(q)'
         /\ \A q \in Request : AskedInTime(q)'
         /\ LedgerStep
<1> DEFINE r == request[p].round
           old == request[p].old
           want == request[p].want
<1>1. request[p].pc = "read" /\ item[r] # None /\ item[r].born + Ttl >= request[p].since
  BY DEF DynamoWrite, LedgerInv, FeedbackInv, RequestInv, RoundIsThere
<1>2. want \in Vote /\ old \in Vote
  BY DEF LedgerInv, FeedbackInv, TypeOK, RequestState
<1>3. r \in Round /\ request[p].inTime /\ past[r] = "stored"
  BY <1>1, VotableIsOpen
<1>4. item[r].vote = old
  BY <1>1 DEF DynamoWrite, Unchanged
<1>5. item' = [item EXCEPT ![r] = [born |-> item[r].born, vote |-> want]]
  BY <1>1, <1>3 DEF DynamoWrite, LedgerInv, FeedbackInv, TypeOK
<1>6. stats' = Moved(r, old, want) /\ UNCHANGED <<backend, now, past>>
  BY DEF DynamoWrite
<1>7. \E heard \in BOOLEAN : IF heard THEN Ok(p, old) ELSE Answer(p, "unavailable", FALSE)
  BY DEF DynamoWrite
<1>8. r = request[p].round /\ want = request[p].want
  OBVIOUS
<1> HIDE DEF r, old, want
<1> QED BY <1>1, <1>2, <1>3, <1>4, <1>5, <1>6, <1>7, <1>8, CastStep

\* A read that finds its vote there already, or one that goes on to write.
LEMMA DynamoReadStep ==
  ASSUME LedgerInv, NEW p \in Request, DynamoRead(p)
  PROVE  /\ Recounted' /\ \A q \in Round : OnRecord(q)'
         /\ \A q \in Request : AskedInTime(q)'
         /\ LedgerStep
<1> DEFINE r == request[p].round
           old == item[r].vote
           want == request[p].want
<1>0. TypeOK /\ request \in [Request -> RequestState]
  BY DEF LedgerInv, FeedbackInv, TypeOK
<1>1. /\ request[p].pc = "asked" /\ item[r] # None /\ item[r].born + Ttl >= now
      /\ UNCHANGED <<backend, now, item, stats, past>>
  BY DEF DynamoRead, Votable
<1>2. CASE old = want
  <2>1. /\ r \in Round /\ want \in Vote /\ request[p].since <= now
        /\ request[p].since \in 0..MaxTime /\ now \in 0..MaxTime
    BY <1>1 DEF LedgerInv, FeedbackInv, RequestInv, InTime, TypeOK, RequestState
  <2>2. item[r] \in Item /\ item[r].born \in 0..MaxTime
    BY <1>1, <2>1, ItemIsThere DEF LedgerInv
  <2>3. request[p].inTime /\ past[r] = "stored"
    <3>1. item[r].born + Ttl >= request[p].since
      BY <1>1, <2>1, <2>2, TimesAssumption
    <3> QED BY <1>1, <3>1, VotableIsOpen
  <2>4. item' = [item EXCEPT ![r] = [born |-> item[r].born, vote |-> want]]
    <3>1. item[r] = [born |-> item[r].born, vote |-> want]
      BY <1>2, <2>2 DEF Item
    <3>2. item' = [item EXCEPT ![r] = item[r]]
      BY <1>0, <1>1 DEF TypeOK
    <3> QED BY <3>1, <3>2
  <2>5. \E heard \in BOOLEAN : IF heard THEN Ok(p, old) ELSE Answer(p, "unavailable", FALSE)
    BY <1>2 DEF DynamoRead
  <2>6. old = item[r].vote /\ r = request[p].round /\ want = request[p].want
    OBVIOUS
  <2>7. /\ old \in Vote /\ request[p].pc \in {"asked", "read"} /\ item[r] # None
        /\ UNCHANGED <<backend, now, past>>
    BY <1>1, <1>2, <2>1
  <2>8. stats' = Moved(r, old, want) \/ (stats' = stats /\ old = want)
    BY <1>1, <1>2
  <2>9. r \in Round /\ want \in Vote
    BY <2>1
  <2> HIDE DEF r, old, want
  <2>10. PICK heard \in BOOLEAN : IF heard THEN Ok(p, old) ELSE Answer(p, "unavailable", FALSE)
    BY <2>5
  <2> QED BY <2>3, <2>4, <2>6, <2>7, <2>8, <2>9, <2>10, CastStep
<1>3. CASE old # want
  <2> DEFINE new == [request[p] EXCEPT !.pc = "read", !.old = old, !.attempt = @ + 1]
  <2>1. request' = [request EXCEPT ![p] = new]
    BY <1>0, <1>3 DEF DynamoRead
  <2>2. /\ new.pc = "read" /\ new.round = r /\ new.want = want
        /\ new.since = request[p].since /\ new.inTime = request[p].inTime
    BY <1>0 DEF RequestState
  <2> HIDE DEF new
  <2>3. Votes' = Votes /\ Open' = Open /\ Tally' = Tally /\ Recounted' /\ \A q \in Round : OnRecord(q)'
    BY <1>1, StoreUntouched
  <2>4. ASSUME NEW q \in Request PROVE AskedInTime(q)' /\ AskedOrTold(q)' = AskedOrTold(q)
    <3>1. CASE q = p
      <4>1. request'[q] = new /\ AskedInTime(q)
        BY <1>0, <2>1, <3>1 DEF LedgerInv
      <4> QED BY <1>1, <2>2, <3>1, <4>1 DEF AskedInTime, AskedOrTold
    <3>2. CASE q # p
      <4>1. request'[q] = request[q] /\ AskedInTime(q)
        BY <1>0, <2>1, <3>2 DEF LedgerInv
      <4> QED BY <1>1, <4>1 DEF AskedInTime, AskedOrTold
    <3> QED BY <3>1, <3>2
  <2>5. Replies' = Replies
    BY <2>4 DEF Replies
  <2> QED BY <1>1, <2>3, <2>4, <2>5 DEF LedgerStep
<1> QED BY <1>2, <1>3

LEMMA DynamoCancelledStep ==
  ASSUME LedgerInv, NEW p \in Request, DynamoCancelled(p)
  PROVE  /\ Recounted' /\ \A q \in Round : OnRecord(q)'
         /\ \A q \in Request : AskedInTime(q)'
         /\ LedgerStep
<1>0. request \in [Request -> RequestState]
  BY DEF LedgerInv, FeedbackInv, TypeOK
<1>1. request[p].pc = "read" /\ UNCHANGED <<backend, now, item, stats, past>>
  BY DEF DynamoCancelled
<1>2. CASE MayRead(p)
  <2> DEFINE new == [request[p] EXCEPT !.pc = "asked", !.old = "none"]
  <2>1. request' = [request EXCEPT ![p] = new]
    BY <1>0, <1>2 DEF DynamoCancelled
  <2>2. /\ new.pc = "asked" /\ new.round = request[p].round /\ new.want = request[p].want
        /\ new.since = request[p].since /\ new.inTime = request[p].inTime
    BY <1>0 DEF RequestState
  <2> HIDE DEF new
  <2>3. Votes' = Votes /\ Open' = Open /\ Tally' = Tally /\ Recounted' /\ \A q \in Round : OnRecord(q)'
    BY <1>1, StoreUntouched
  <2>4. ASSUME NEW q \in Request PROVE AskedInTime(q)' /\ AskedOrTold(q)' = AskedOrTold(q)
    <3>1. CASE q = p
      <4>1. request'[q] = new /\ AskedInTime(q)
        BY <1>0, <2>1, <3>1 DEF LedgerInv
      <4> QED BY <1>1, <2>2, <3>1, <4>1 DEF AskedInTime, AskedOrTold
    <3>2. CASE q # p
      <4>1. request'[q] = request[q] /\ AskedInTime(q)
        BY <1>0, <2>1, <3>2 DEF LedgerInv
      <4> QED BY <1>1, <4>1 DEF AskedInTime, AskedOrTold
    <3> QED BY <3>1, <3>2
  <2>5. Replies' = Replies
    BY <2>4 DEF Replies
  <2> QED BY <1>1, <2>3, <2>4, <2>5 DEF LedgerStep
<1>3. CASE ~MayRead(p)
  BY <1>1, <1>3, RefusedStep DEF DynamoCancelled
<1> QED BY <1>2, <1>3

LEMMA AskStep ==
  ASSUME LedgerInv, NEW p \in Request, NEW r \in Round, NEW v \in Vote, Ask(p, r, v)
  PROVE  /\ Recounted' /\ \A q \in Round : OnRecord(q)'
         /\ \A q \in Request : AskedInTime(q)'
         /\ LedgerStep
<1> DEFINE new == [Quiet(r) EXCEPT !.pc = "asked", !.want = v, !.since = now, !.inTime = Votable(r)]
<1>0. request \in [Request -> RequestState]
  BY DEF LedgerInv, FeedbackInv, TypeOK
<1>1. /\ request' = [request EXCEPT ![p] = new] /\ request[p].pc \in {"idle", "told"}
      /\ past[r] # "undrawn" /\ UNCHANGED <<backend, now, item, stats, past>>
  BY DEF Ask
<1>2. /\ new.pc = "asked" /\ new.round = r /\ new.want = v /\ new.since = now
      /\ new.inTime = Votable(r)
  BY DEF Quiet
<1> HIDE DEF new
<1>3. Votes' = Votes /\ Open' = Open /\ Recounted' /\ \A q \in Round : OnRecord(q)'
  BY <1>1, StoreUntouched
<1>4. request'[p] = new
  BY <1>0, <1>1
<1>5. \A q \in Request : q # p => request'[q] = request[q]
  BY <1>0, <1>1
<1>6. ASSUME NEW q \in Request PROVE AskedInTime(q)'
  <2>1. CASE q = p
    BY <1>1, <1>2, <1>4, <2>1 DEF AskedInTime, Votable
  <2>2. CASE q # p
    BY <1>1, <1>5, <2>2 DEF AskedInTime, LedgerInv
  <2> QED BY <2>1, <2>2
<1>7. Books!Ask(p, r, v)
  <2>1. Replies[p].state # "asked"
    BY <1>1 DEF Replies, AskedOrTold
  <2>2. AskedOrTold(p)' = Books!Asked(r, v, r \in Open)
    <3>1. (r \in Open) = Votable(r)
      BY DEF Open, Votable
    <3>2. AskedOrTold(p)' = [state |-> "asked", round |-> r, want |-> v, inTime |-> Votable(r)]
      BY <1>2, <1>4 DEF AskedOrTold
    <3> QED BY <3>1, <3>2 DEF Books!Asked
  <2>3. \A q \in Request : q # p => AskedOrTold(q)' = AskedOrTold(q)
    BY <1>5 DEF AskedOrTold
  <2>4. Replies' = [Replies EXCEPT ![p] = Books!Asked(r, v, r \in Open)]
    BY <2>2, <2>3 DEF Replies
  <2> QED BY <1>3, <2>1, <2>4 DEF Books!Ask, Votes, Open, Replies
<1>8. Books!Step
  BY <1>7 DEF Books!Step, Books!Vote, Vote
<1> QED BY <1>1, <1>3, <1>6, <1>8, StepIsNext

\* Requests see nothing of a step that leaves them and their rounds alone.
LEMMA RequestsUntouched ==
  ASSUME LedgerInv, UNCHANGED request,
         \A q \in Round : past[q] # "undrawn" =>
            past'[q] # "undrawn" /\ (item'[q] = item[q] \/ item'[q] = None)
  PROVE  Replies' = Replies /\ \A p \in Request : AskedInTime(p)'
<1>1. Replies' = Replies
  BY DEF Replies, AskedOrTold
<1>2. ASSUME NEW p \in Request PROVE AskedInTime(p)'
  <2>1. AskedInTime(p) /\ (request[p].pc \in {"asked", "read"} => request[p].round \in Round)
    BY DEF LedgerInv, FeedbackInv, RequestInv, InTime
  <2> QED BY <2>1 DEF AskedInTime
<1> QED BY <1>1, <1>2

LEMMA DrawStep ==
  ASSUME LedgerInv, NEW r \in Round, Draw(r)
  PROVE  /\ Recounted' /\ \A q \in Round : OnRecord(q)'
         /\ \A q \in Request : AskedInTime(q)'
         /\ LedgerStep
<1> DEFINE new == [born |-> now, vote |-> "none"]
           d == ComboOf[r]
<1>0. /\ TypeOK /\ d \in Combo /\ now \in Nat /\ Retention \in Nat
      /\ stats \in [Combo -> Stats] /\ past \in [Round -> Vote \cup {"undrawn", "stored", "forgotten"}]
      /\ item \in [Round -> Item \cup {None}]
  BY ComboAssumption, TimesAssumption DEF LedgerInv, FeedbackInv, TypeOK
<1>1. PICK until : Recorded(r, until) /\ (backend = "dynamo" => until = now + Retention)
  BY DEF Draw, SqliteRecordRound, DynamoRecordRound
<1>2. /\ past[r] = "undrawn" /\ item' = [item EXCEPT ![r] = new]
      /\ past' = [past EXCEPT ![r] = "stored"] /\ UNCHANGED <<backend, now, request>>
  BY <1>1 DEF Recorded, Draw
<1>3. new \in Item /\ new # None /\ new.born = now /\ new.vote = "none"
  BY <1>0, NoneAssumption DEF Item, Vote, LedgerInv, FeedbackInv, TypeOK
<1> HIDE DEF new
<1>4. item'[r] = new /\ past'[r] = "stored" /\ \A q \in Round : q # r => item'[q] = item[q] /\ past'[q] = past[q]
  BY <1>0, <1>2
<1>5. ASSUME NEW c \in Combo
      PROVE  /\ stats'[c].draws = IF c = d THEN stats[c].draws + 1 ELSE stats[c].draws
             /\ stats'[c].enjoy = stats[c].enjoy /\ stats'[c].regret = stats[c].regret
             /\ stats'[c].until = IF c = d THEN until ELSE stats[c].until
  <2>1. stats[c] \in [draws : Int, enjoy : Int, regret : Int, until : Nat]
    BY <1>0 DEF Stats
  <2>2. stats' = [stats EXCEPT ![d].draws = @ + 1, ![d].until = until]
    BY <1>1 DEF Recorded
  <2> QED BY <1>0, <2>1, <2>2
<1>6. ASSUME NEW q \in Round PROVE OnRecord(q)'
  <2>1. CASE q = r
    BY <1>0, <1>1, <1>2, <1>3, <1>4, <1>5, <2>1 DEF OnRecord, Vote
  <2>2. CASE q # r
    <3>1. OnRecord(q) /\ ComboOf[q] \in Combo /\ past'[q] = past[q] /\ item'[q] = item[q]
      BY <1>4, <2>2, ComboAssumption DEF LedgerInv
    <3>2. past[q] = "stored" => item[q] # None /\ item[q].born \in 0..MaxTime
      BY <3>1, ItemIsThere DEF OnRecord, LedgerInv
    <3>3. past[q] = "stored" /\ backend = "dynamo" => stats'[ComboOf[q]].until >= item[q].born + Retention
      <4>1. CASE ComboOf[q] = d
        BY <1>0, <1>1, <1>5, <3>1, <3>2, <4>1 DEF OnRecord
      <4>2. CASE ComboOf[q] # d
        BY <1>5, <3>1, <4>2 DEF OnRecord
      <4> QED BY <4>1, <4>2
    <3> QED BY <1>2, <3>1, <3>3 DEF OnRecord
  <2> QED BY <2>1, <2>2
<1>7. Votes[r] = "undrawn" /\ Votes' = [q \in Round |-> IF q = r THEN "none" ELSE Votes[q]]
  BY <1>2, <1>3, <1>4 DEF Votes, Standing
<1>8. Recounted'
  <2> SUFFICES ASSUME NEW c \in Combo
               PROVE  /\ stats'[c].draws = Books!Counted(Votes', c, Vote)
                      /\ stats'[c].enjoy = Books!Counted(Votes', c, {"enjoy"})
                      /\ stats'[c].regret = Books!Counted(Votes', c, {"regret"})
    BY DEF Recounted
  <2>1. PICK after : after = Votes'
    OBVIOUS
  <2>2. after = [q \in Round |-> IF q = r THEN "none" ELSE Votes[q]] /\ "undrawn" = Votes[r]
    BY <1>7, <2>1
  <2>3. /\ stats[c].draws = Books!Counted(Votes, c, Vote)
        /\ stats[c].enjoy = Books!Counted(Votes, c, {"enjoy"})
        /\ stats[c].regret = Books!Counted(Votes, c, {"regret"})
    BY DEF LedgerInv, Recounted
  <2> HIDE DEF Votes
  <2>4. ASSUME NEW values
        PROVE  /\ Books!Counted(Votes, c, values) \in Nat
               /\ Books!Counted(after, c, values) =
                    Books!Counted(Votes, c, values)
                      + (IF ComboOf[r] = c /\ "none" \in values THEN 1 ELSE 0)
                      - (IF ComboOf[r] = c /\ "undrawn" \in values THEN 1 ELSE 0)
    BY <2>2, CountMoves
  <2>5. /\ Books!Counted(after, c, Vote) = stats[c].draws + (IF c = d THEN 1 ELSE 0)
        /\ Books!Counted(after, c, {"enjoy"}) = stats[c].enjoy
        /\ Books!Counted(after, c, {"regret"}) = stats[c].regret
    BY <2>3, <2>4 DEF Vote
  <2>6. stats[c].draws \in Int
    BY <1>0 DEF Stats
  <2> QED BY <1>5, <2>1, <2>5, <2>6
<1>9. Replies' = Replies /\ \A p \in Request : AskedInTime(p)'
  BY <1>2, <1>4, RequestsUntouched
<1>10. Books!Draw(r)
  <2>1. Open' = Open \cup {r}
    <3>1. Votable(r)'
      BY <1>0, <1>2, <1>3, <1>4, TimesAssumption DEF Votable
    <3>2. \A q \in Round : q # r => (Votable(q)' <=> Votable(q))
      BY <1>2, <1>4 DEF Votable
    <3> QED BY <3>1, <3>2 DEF Open
  <2>2. Votes' = [Votes EXCEPT ![r] = "none"]
    BY <1>7 DEF Votes
  <2> QED BY <1>7, <1>9, <2>1, <2>2 DEF Books!Draw, Votes, Open, Replies
<1>11. Books!Step
  BY <1>10 DEF Books!Step
<1> QED BY <1>2, <1>6, <1>8, <1>9, <1>11, StepIsNext

LEMMA TickStep ==
  ASSUME LedgerInv, Tick
  PROVE  /\ Recounted' /\ \A q \in Round : OnRecord(q)'
         /\ \A q \in Request : AskedInTime(q)'
         /\ LedgerStep
<1>1. now' = now + 1 /\ now \in Nat /\ UNCHANGED <<backend, item, stats, request, past>>
  BY TimesAssumption DEF Tick, LedgerInv, FeedbackInv, TypeOK
<1>2. Votes' = Votes
  BY <1>1 DEF Votes, Standing
<1>3. Recounted'
  BY <1>1, <1>2 DEF LedgerInv, Recounted
<1>4. ASSUME NEW q \in Round PROVE OnRecord(q)'
  <2>1. OnRecord(q) /\ (item[q] # None => item[q].born \in 0..MaxTime)
    BY ItemIsThere DEF LedgerInv
  <2> QED BY <1>1, <2>1, TimesAssumption DEF OnRecord
<1>5. Replies' = Replies /\ \A p \in Request : AskedInTime(p)'
  BY <1>1, RequestsUntouched
<1>6. \E rounds \in SUBSET Round : Open' = Open \ rounds
  <2> DEFINE late == {q \in Round : ~Votable(q)'}
  <2>1. ASSUME NEW q \in Round, Votable(q)' PROVE Votable(q)
    <3>1. item[q] # None => item[q].born \in 0..MaxTime
      BY ItemIsThere DEF LedgerInv
    <3> QED BY <1>1, <2>1, <3>1, TimesAssumption DEF Votable
  <2>2. Open' = Open \ late
    BY <2>1 DEF Open
  <2>3. late \in SUBSET Round
    OBVIOUS
  <2> HIDE DEF late
  <2> QED BY <2>2, <2>3
<1>7. \E rounds \in SUBSET Round : Books!Close(rounds)
  BY <1>2, <1>5, <1>6 DEF Books!Close, Votes, Open, Replies
<1>8. Books!Step
  BY <1>7 DEF Books!Step
<1> QED BY <1>1, <1>3, <1>4, <1>5, <1>8, StepIsNext

\* A round past its retention is removed: the ledger knew it was closed.
LEMMA NotVotable ==
  ASSUME LedgerInv, NEW r \in Round, item[r] # None, item[r].born + Retention < now
  PROVE  ~Votable(r)
<1>1. item[r].born \in 0..MaxTime /\ now \in 0..MaxTime
  BY ItemIsThere DEF LedgerInv, FeedbackInv, TypeOK
<1> QED BY <1>1, TimesAssumption DEF Votable

LEMMA ExpireRoundStep ==
  ASSUME LedgerInv, NEW r \in Round, DynamoExpireRound(r)
  PROVE  /\ Recounted' /\ \A q \in Round : OnRecord(q)'
         /\ \A q \in Request : AskedInTime(q)'
         /\ LedgerStep
<1>1. /\ backend = "dynamo" /\ item[r] # None /\ item[r].born + Retention < now
      /\ UNCHANGED <<backend, now, stats, request>>
  BY DEF DynamoExpireRound
<1>2. /\ item[r].vote \in Vote /\ past \in [Round -> Vote \cup {"undrawn", "stored", "forgotten"}]
      /\ item \in [Round -> Item \cup {None}] /\ past[r] \in {"stored", "forgotten"}
  BY <1>1, ItemIsThere DEF LedgerInv, FeedbackInv, TypeOK, OnRecord
<1>3. /\ item'[r] = None /\ past'[r] = IF past[r] = "stored" THEN item[r].vote ELSE past[r]
      /\ \A q \in Round : q # r => item'[q] = item[q] /\ past'[q] = past[q]
  BY <1>2 DEF DynamoExpireRound
<1>4. Votes' = Votes
  <2>1. Standing(r)' = Standing(r)
    BY <1>2, <1>3 DEF Standing, Vote
  <2>2. \A q \in Round : q # r => Standing(q)' = Standing(q)
    BY <1>3 DEF Standing
  <2> QED BY <2>1, <2>2 DEF Votes
<1>5. Recounted'
  BY <1>1, <1>4 DEF LedgerInv, Recounted
<1>6. ASSUME NEW q \in Round PROVE OnRecord(q)'
  <2>1. CASE q = r
    BY <1>1, <1>2, <1>3, <2>1 DEF OnRecord, Vote
  <2>2. CASE q # r
    BY <1>1, <1>3, <2>2 DEF OnRecord, LedgerInv
  <2> QED BY <2>1, <2>2
<1>7. Replies' = Replies /\ \A p \in Request : AskedInTime(p)'
  <2>1. past'[r] # "undrawn"
    BY <1>2, <1>3 DEF Vote
  <2> QED BY <1>1, <1>3, <2>1, RequestsUntouched
<1>8. Open' = Open /\ Tally' = Tally
  <2>1. ~Votable(r) /\ ~Votable(r)'
    BY <1>1, <1>3, NotVotable DEF Votable
  <2>2. \A q \in Round : q # r => (Votable(q)' <=> Votable(q))
    BY <1>1, <1>3 DEF Votable
  <2> QED BY <1>1, <2>1, <2>2 DEF Open, Tally
<1> QED BY <1>1, <1>4, <1>5, <1>6, <1>7, <1>8 DEF LedgerStep

\* The counters of a combination go when none of its rounds can be voted on.
LEMMA ExpireStatsStep ==
  ASSUME LedgerInv, NEW c \in Combo, DynamoExpireStats(c)
  PROVE  /\ Recounted' /\ \A q \in Round : OnRecord(q)'
         /\ \A q \in Request : AskedInTime(q)'
         /\ LedgerStep
<1> DEFINE gone == {q \in Round : ComboOf[q] = c /\ past[q] # "undrawn"}
<1>0. /\ stats \in [Combo -> Stats] /\ now \in Nat
      /\ past \in [Round -> Vote \cup {"undrawn", "stored", "forgotten"}]
  BY DEF LedgerInv, FeedbackInv, TypeOK
<1>1. /\ backend = "dynamo" /\ stats[c].until < now /\ UNCHANGED <<backend, now, item, request>>
      /\ stats' = [stats EXCEPT ![c] = NoStats]
      /\ past' = [q \in Round |-> IF q \in gone THEN "forgotten" ELSE past[q]]
  BY DEF DynamoExpireStats
<1>2. ASSUME NEW q \in gone, item[q] # None PROVE item[q].born + Retention < now
  <2>1. /\ OnRecord(q) /\ item[q].born \in 0..MaxTime /\ ComboOf[q] = c
        /\ stats[c].until \in Nat
    BY <1>0, <1>2, ItemIsThere DEF LedgerInv, Stats
  <2> QED BY <1>0, <1>1, <1>2, <2>1, TimesAssumption DEF OnRecord
<1>3. Votes' = [q \in Round |-> IF q \in gone THEN "forgotten" ELSE Votes[q]]
  BY <1>1 DEF Votes, Standing
<1>4. ASSUME NEW q \in Round PROVE OnRecord(q)'
  <2>1. CASE q \in gone
    <3>1. past'[q] = "forgotten" /\ OnRecord(q)
      BY <1>1, <2>1 DEF LedgerInv
    <3> HIDE DEF gone
    <3> QED BY <1>1, <1>2, <2>1, <3>1 DEF OnRecord, Vote
  <2>2. CASE q \notin gone
    <3>1. past'[q] = past[q] /\ OnRecord(q) /\ ComboOf[q] \in Combo
      BY <1>1, <2>2, ComboAssumption DEF LedgerInv
    <3>2. past[q] = "stored" => ComboOf[q] # c
      BY <2>2
    <3>3. past[q] = "stored" => stats'[ComboOf[q]] = stats[ComboOf[q]]
      BY <1>0, <1>1, <3>1, <3>2
    <3> HIDE DEF gone
    <3> QED BY <1>1, <3>1, <3>3 DEF OnRecord
  <2> QED BY <2>1, <2>2
<1>5. Recounted'
  <2> SUFFICES ASSUME NEW d \in Combo
               PROVE  /\ stats'[d].draws = Books!Counted(Votes', d, Vote)
                      /\ stats'[d].enjoy = Books!Counted(Votes', d, {"enjoy"})
                      /\ stats'[d].regret = Books!Counted(Votes', d, {"regret"})
    BY DEF Recounted
  <2>1. CASE d = c
    <3>1. ASSUME NEW values \in SUBSET Vote
          PROVE  Books!Counted(Votes', d, values) = 0
      <4>1. \A q \in Round : ~(ComboOf[q] = d /\ Votes'[q] \in values)
        BY <1>3, <2>1 DEF Vote, Votes, Standing
      <4>2. {q \in Round : ComboOf[q] = d /\ Votes'[q] \in values} = {}
        BY <4>1
      <4>3. Books!Counted(Votes', d, values) = Cardinality({})
        BY <4>2, SameCount DEF Books!Counted
      <4> QED BY <4>3, FS_EmptySet
    <3>2. stats'[d] = NoStats
      BY <1>0, <1>1, <2>1
    <3>3. Vote \in SUBSET Vote /\ {"enjoy"} \in SUBSET Vote /\ {"regret"} \in SUBSET Vote
      BY DEF Vote
    <3> QED BY <3>1, <3>2, <3>3 DEF NoStats
  <2>2. CASE d # c
    <3>1. ASSUME NEW values PROVE Books!Counted(Votes', d, values) = Books!Counted(Votes, d, values)
      <4>1. {q \in Round : ComboOf[q] = d /\ Votes'[q] \in values}
              = {q \in Round : ComboOf[q] = d /\ Votes[q] \in values}
        BY <1>3, <2>2
      <4> QED BY <4>1 DEF Books!Counted
    <3>2. stats'[d] = stats[d]
      BY <1>0, <1>1, <2>2
    <3> QED BY <3>1, <3>2 DEF LedgerInv, Recounted
  <2> QED BY <2>1, <2>2
<1>6. Replies' = Replies /\ \A p \in Request : AskedInTime(p)'
  BY <1>1, RequestsUntouched
<1>7. Books!Forget(gone)
  <2>1. gone \cap Open = {}
    BY <1>2, NotVotable DEF Open, Votable
  <2>2. Open' = Open
    BY <1>1 DEF Open, Votable
  <2> HIDE DEF gone
  <2> QED BY <1>3, <1>6, <2>1, <2>2 DEF Books!Forget, Votes, Open, Replies
<1>8. gone \in SUBSET Round
  OBVIOUS
<1> HIDE DEF gone
<1>9. Books!Step
  BY <1>7, <1>8 DEF Books!Step
<1> QED BY <1>1, <1>4, <1>5, <1>6, <1>9, StepIsNext

\* A purge recounts the rows it leaves.
LEMMA PurgeStep ==
  ASSUME LedgerInv, NEW age, SqlitePurge(age)
  PROVE  /\ Recounted' /\ \A q \in Round : OnRecord(q)'
         /\ \A q \in Request : AskedInTime(q)'
         /\ LedgerStep
<1> DEFINE gone == {q \in Round : item[q] # None /\ item[q].born < now - age}
           rows == [q \in Round |-> IF q \in gone THEN None ELSE item[q]]
<1>1. /\ backend = "sqlite" /\ item' = rows /\ stats' = Rebuilt(rows)
      /\ past' = [q \in Round |-> IF q \in gone THEN "forgotten" ELSE past[q]]
      /\ UNCHANGED <<backend, now, request>>
  BY DEF SqlitePurge
<1>2. ASSUME NEW q \in gone
      PROVE  item[q] # None /\ past[q] = "stored"
  <2>1. item[q] # None /\ OnRecord(q)
    BY <1>2 DEF LedgerInv
  <2> QED BY <1>1, <2>1 DEF OnRecord
<1> HIDE DEF gone
<1>3. gone \in SUBSET Round
  BY DEF gone
<1>4. ASSUME NEW q \in Round PROVE OnRecord(q)'
  <2>1. OnRecord(q)
    BY DEF LedgerInv
  <2> QED BY <1>1, <1>2, <2>1 DEF OnRecord, Vote
<1>5. Votes' = [q \in Round |-> IF q \in gone THEN "forgotten" ELSE Votes[q]]
  BY <1>1 DEF Votes, Standing
<1>6. Recounted'
  <2> SUFFICES ASSUME NEW c \in Combo
               PROVE  /\ stats'[c].draws = Books!Counted(Votes', c, Vote)
                      /\ stats'[c].enjoy = Books!Counted(Votes', c, {"enjoy"})
                      /\ stats'[c].regret = Books!Counted(Votes', c, {"regret"})
    BY DEF Recounted
  <2> DEFINE Rows(values) ==
        Cardinality({q \in Round : rows[q] # None /\ ComboOf[q] = c /\ rows[q].vote \in values})
  <2>1. ASSUME NEW values \in SUBSET Vote
        PROVE  Rows(values) = Books!Counted(Votes', c, values)
    <3>1. ASSUME NEW q \in Round
          PROVE  rows[q] # None /\ rows[q].vote \in values <=> Votes'[q] \in values
      <4>1. /\ past[q] \in Vote \cup {"undrawn", "stored", "forgotten"} /\ OnRecord(q)
        BY DEF LedgerInv, FeedbackInv, TypeOK
      <4>2. CASE q \in gone
        BY <1>5, <4>2 DEF Vote
      <4>3. CASE q \notin gone /\ past[q] = "stored"
        BY <1>5, <4>1, <4>3 DEF Votes, Standing, OnRecord
      <4>4. CASE q \notin gone /\ past[q] # "stored"
        <5>1. past[q] \in {"undrawn", "forgotten"} /\ item[q] = None
          BY <1>1, <4>1, <4>4 DEF OnRecord
        <5> QED BY <1>5, <4>4, <5>1 DEF Votes, Standing, Vote
      <4> QED BY <4>2, <4>3, <4>4
    <3> HIDE DEF rows
    <3>2. {q \in Round : rows[q] # None /\ ComboOf[q] = c /\ rows[q].vote \in values}
            = {q \in Round : ComboOf[q] = c /\ Votes'[q] \in values}
      BY <3>1
    <3> QED BY <3>2, SameCount DEF Books!Counted
  <2>2. stats'[c] = [draws |-> Rows(Vote), enjoy |-> Rows({"enjoy"}), regret |-> Rows({"regret"}),
                     until |-> 0]
    BY <1>1 DEF Rebuilt
  <2>3. Vote \in SUBSET Vote /\ {"enjoy"} \in SUBSET Vote /\ {"regret"} \in SUBSET Vote
    BY DEF Vote
  <2> HIDE DEF Rows
  <2> QED BY <2>1, <2>2, <2>3
<1>7. Replies' = Replies /\ \A p \in Request : AskedInTime(p)'
  BY <1>1, RequestsUntouched
<1>8. Books!Purge(gone)
  <2>1. \A q \in gone : ~Votable(q)'
    BY <1>1, <1>3 DEF Votable
  <2>2. \A q \in Round : q \notin gone => (Votable(q)' <=> Votable(q))
    BY <1>1 DEF Votable
  <2>3. Open' = Open \ gone
    BY <2>1, <2>2 DEF Open
  <2> QED BY <1>1, <1>5, <1>7, <2>3 DEF Books!Purge, Votes, Open, Replies
<1>9. Books!Step
  BY <1>3, <1>8 DEF Books!Step
<1> QED BY <1>1, <1>4, <1>6, <1>7, <1>9, StepIsNext

LEMMA LedgerInit == Init => LedgerInv /\ Books!Init
<1> SUFFICES ASSUME Init PROVE LedgerInv /\ Books!Init
  OBVIOUS
<1>1. Votes = [r \in Round |-> "undrawn"]
  BY DEF Init, Votes, Standing
<1>2. Recounted
  <2>1. ASSUME NEW c, NEW values \in SUBSET Vote PROVE Books!Counted(Votes, c, values) = 0
    <3>1. {q \in Round : ComboOf[q] = c /\ Votes[q] \in values} = {}
      BY <1>1 DEF Vote
    <3>2. Books!Counted(Votes, c, values) = Cardinality({})
      BY <3>1, SameCount DEF Books!Counted
    <3> QED BY <3>2, FS_EmptySet
  <2>2. Vote \in SUBSET Vote /\ {"enjoy"} \in SUBSET Vote /\ {"regret"} \in SUBSET Vote
    BY DEF Vote
  <2> QED BY <2>1, <2>2 DEF Recounted, Init, NoStats
<1>3. LedgerInv
  <2>1. \A r \in Round : OnRecord(r)
    BY DEF Init, OnRecord, Vote
  <2>2. \A p \in Request : AskedInTime(p)
    BY DEF Init, AskedInTime, Quiet
  <2> QED BY <1>2, <2>1, <2>2, FeedbackInit DEF LedgerInv
<1>4. Open = {}
  BY DEF Init, Open, Votable
<1>5. Replies = [p \in Request |-> Books!Idle]
  BY DEF Init, Replies, AskedOrTold, Quiet, Books!Idle
<1>6. Tally = Books!Recount(Votes)
  BY <1>2, RecountedTally
<1>7. Books!Init
  BY <1>1, <1>4, <1>5, <1>6 DEF Books!Init, Votes, Open, Tally, Replies
<1> QED BY <1>3, <1>7

LEMMA LedgerNext ==
  ASSUME LedgerInv, [Next]_vars
  PROVE  LedgerInv' /\ LedgerStep
<1> DEFINE Done == /\ Recounted' /\ \A q \in Round : OnRecord(q)'
                   /\ \A q \in Request : AskedInTime(q)'
                   /\ LedgerStep
<1>1. ASSUME NEW r \in Round, Draw(r) PROVE Done
  BY <1>1, DrawStep
<1>2. ASSUME NEW p \in Request, NEW r \in Round, NEW v \in Vote, Ask(p, r, v) PROVE Done
  BY <1>2, AskStep
<1>3. ASSUME NEW p \in Request, Unavailable(p) PROVE Done
  BY <1>3, RefusedStep DEF Unavailable
<1>4. ASSUME NEW p \in Request, Refused(p) PROVE Done
  <2>1. /\ Refusal(request[p].round) \in {"missing", "expired"} /\ request[p].round \notin Open
        /\ Refusal(request[p].round) = "missing" => item[request[p].round] = None
    BY <1>4 DEF Refused, Refusal, Open
  <2> QED BY <1>4, <2>1, RefusedStep DEF Refused
<1>5. ASSUME NEW p \in Request, SqliteFeedback(p) PROVE Done
  BY <1>5, SqliteFeedbackCasts
<1>6. ASSUME NEW p \in Request, DynamoRead(p) PROVE Done
  BY <1>6, DynamoReadStep
<1>7. ASSUME NEW p \in Request, DynamoWrite(p) PROVE Done
  BY <1>7, DynamoWriteCasts
<1>8. ASSUME NEW p \in Request, DynamoCancelled(p) PROVE Done
  BY <1>8, DynamoCancelledStep
<1>9. ASSUME Tick PROVE Done
  BY <1>9, TickStep
<1>10. ASSUME NEW age \in -1..MaxTime, SqlitePurge(age) PROVE Done
  BY <1>10, PurgeStep
<1>11. ASSUME NEW r \in Round, DynamoExpireRound(r) PROVE Done
  BY <1>11, ExpireRoundStep
<1>12. ASSUME NEW c \in Combo, DynamoExpireStats(c) PROVE Done
  BY <1>12, ExpireStatsStep
<1>13. ASSUME UNCHANGED vars PROVE Done
  <2>1. /\ Votes' = Votes /\ Open' = Open /\ Tally' = Tally
        /\ Recounted' /\ \A r \in Round : OnRecord(r)'
    BY <1>13, StoreUntouched DEF vars
  <2>2. Replies' = Replies /\ \A p \in Request : AskedInTime(p)'
    BY <1>13, RequestsUntouched DEF vars
  <2> QED BY <1>13, <2>1, <2>2 DEF LedgerStep, vars
<1>14. FeedbackInv'
  BY FeedbackNext DEF LedgerInv
<1> HIDE DEF Done
<1>15. Done
  BY <1>1, <1>2, <1>3, <1>4, <1>5, <1>6, <1>7, <1>8, <1>9, <1>10, <1>11, <1>12, <1>13 DEF Next
<1> QED BY <1>14, <1>15 DEF LedgerInv, Done

\* Both stores keep the ledger, for any number of rounds, combinations and requests,
\* any purges and any times the settings allow (in DynamoDB with MarginAssumption):
\* a vote takes effect once and at once, however often it is sent; the counters are
\* the recount of the rounds on the books, which counting up and down must not lose
\* and no removal must break; and nobody is turned away while the round is open,
\* which in SQLite the owner's purge may end early (consequences.py:101-177,
\* aws_consequences.py:88-170).
THEOREM StoresKeepLedger == Spec => KeepsLedger
<1>1. Init => LedgerInv /\ Books!Init
  BY LedgerInit
<1>2. LedgerInv /\ [Next]_vars => LedgerInv'
  BY LedgerNext
<1>3. LedgerInv /\ [Next]_vars => [Books!Next]_(Books!ledgerVars)
  BY LedgerNext DEF LedgerStep, Books!ledgerVars, Votes, Open, Tally, Replies
<1> QED BY <1>1, <1>2, <1>3, PTL DEF Spec, KeepsLedger, Books!Spec
=============================================================================
