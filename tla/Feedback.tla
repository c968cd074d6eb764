------------------------------ MODULE Feedback ------------------------------
(***************************************************************************)
(* Consequences: votes on drawn rounds and the counters of their           *)
(* combinations.  The API (api.py, record_feedback and round_endpoint)     *)
(* keeps them in one of two stores, chosen when it starts:                 *)
(*                                                                         *)
(*   "sqlite"  consequences.py: every operation is one BEGIN IMMEDIATE     *)
(*             transaction; the owner's purge and rebuild recount.         *)
(*   "dynamo"  aws_consequences.py: feedback reads the round, then writes  *)
(*             the vote and the counters in a conditional transaction, up  *)
(*             to Attempts times; DynamoDB deletes items whose expires_at  *)
(*             has passed, each on its own and when it gets to it.         *)
(*                                                                         *)
(* The vote is a value of a small set, time is a clock of a few ticks and  *)
(* the voter always has the right token.                                   *)
(***************************************************************************)
EXTENDS Integers, FiniteSets

CONSTANTS
  Round,      \* rounds that may be drawn
  Combo,      \* combinations
  ComboOf,    \* ComboOf[r]: the combination that round r shows
  Request,    \* places for feedback requests in flight
  Backends,   \* stores the API may have been started with
  Attempts,   \* sends of one conditional transaction: 3
  Ttl,        \* feedback_ttl_seconds, in ticks
  Retention,  \* retention_days, in ticks
  Patience,   \* a request is over within this many ticks of being asked
  MaxTime,    \* bound: the clock stops here
  None        \* no item

ASSUME BackendsAssumption == Backends \subseteq {"sqlite", "dynamo"}

\* Settings refuses a time to vote longer than the retention (settings.py:89-90).
ASSUME TimesAssumption ==
  /\ Ttl \in Nat \ {0} /\ Retention \in Nat /\ Patience \in Nat \ {0} /\ MaxTime \in Nat
  /\ Ttl <= Retention

\* Not in the code, which allows Ttl = Retention: DynamoDB, which deletes by that
\* retention, is given a request's own time on top of the time to vote.  That is
\* seconds; by default 83 days lie between the two.
ASSUME MarginAssumption == "dynamo" \in Backends => Ttl + Patience <= Retention

ASSUME AttemptsAssumption == Attempts \in Nat \ {0}

ASSUME ComboAssumption == IsFiniteSet(Round) /\ ComboOf \in [Round -> Combo]

VARIABLES
  backend,   \* "sqlite" or "dynamo"
  now,       \* the clock
  item,      \* item[r]: the stored round, or None
  stats,     \* stats[c]: the stored counters of a combination
  request,   \* request[p]: a feedback request
  past       \* history: what became of rounds that are no longer stored

vars == <<backend, now, item, stats, request, past>>

Vote == {"none", "enjoy", "regret"}

Never == -1   \* born of an item that has no expires_at

Item == [born : {Never} \cup 0..MaxTime, vote : Vote]

ASSUME NoneAssumption == None \notin Item

Stats == [draws : Int, enjoy : Int, regret : Int, until : Nat]

NoStats == [draws |-> 0, enjoy |-> 0, regret |-> 0, until |-> 0]

Code == {"none", "created", "updated", "cleared", "missing", "expired", "unavailable"}

RequestState ==
  [pc : {"idle", "asked", "read", "told"}, round : Round \cup {None}, want : Vote, old : Vote,
   attempt : 0..Attempts, since : 0..MaxTime, inTime : BOOLEAN,
   code : Code, changed : BOOLEAN]

TypeOK ==
  /\ backend \in Backends
  /\ now \in 0..MaxTime
  /\ item \in [Round -> Item \cup {None}]
  /\ stats \in [Combo -> Stats]
  /\ request \in [Request -> RequestState]
  /\ past \in [Round -> Vote \cup {"undrawn", "stored", "forgotten"}]

Quiet(r) ==
  [pc |-> "idle", round |-> r, want |-> "none", old |-> "none", attempt |-> 0,
   since |-> 0, inTime |-> FALSE, code |-> "none", changed |-> FALSE]

Init ==
  /\ backend \in Backends
  /\ now = 0
  /\ item = [r \in Round |-> None]
  /\ stats = [c \in Combo |-> NoStats]
  /\ request = [p \in Request |-> Quiet(None)]
  /\ past = [r \in Round |-> "undrawn"]

-----------------------------------------------------------------------------
(* Drawing a round.                                                        *)

\* Both stores: the round, and one more draw of its combination.
Recorded(r, until) ==
  /\ past[r] = "undrawn"
  /\ item' = [item EXCEPT ![r] = [born |-> now, vote |-> "none"]]
  /\ stats' = [stats EXCEPT ![ComboOf[r]].draws = @ + 1, ![ComboOf[r]].until = until]
  /\ past' = [past EXCEPT ![r] = "stored"]

SqliteRecordRound(r) == backend = "sqlite" /\ Recorded(r, 0)

\* Each draw puts off the expiry of the counters.
DynamoRecordRound(r) == backend = "dynamo" /\ Recorded(r, now + Retention)

\* round_endpoint: a store that fails leaves the round dealt and not recorded.
Draw(r) ==
  /\ SqliteRecordRound(r) \/ DynamoRecordRound(r)
  /\ UNCHANGED <<backend, now, request>>

-----------------------------------------------------------------------------
(* Feedback: PUT and DELETE of /rounds/{round_id}/feedback.                *)

Votable_for_ever(r) == item[r] # None

\* A round may be voted on until its feedback_expires_at.
Votable(r) == item[r] # None /\ item[r].born + Ttl >= now

\* A vote ("none" clears it) on a round that was dealt.
Ask(p, r, v) ==
  /\ request[p].pc \in {"idle", "told"} /\ past[r] # "undrawn"
  /\ request' = [request EXCEPT ![p] =
       [Quiet(r) EXCEPT !.pc = "asked", !.want = v, !.since = now, !.inTime = Votable(r)]]
  /\ UNCHANGED <<backend, now, item, stats, past>>

\* An answered request keeps its answer only.
Answered(p, code, changed) ==
  [Quiet(None) EXCEPT !.pc = "told", !.code = code, !.changed = changed]

Answer(p, code, changed) == request' = [request EXCEPT ![p] = Answered(p, code, changed)]

\* feedback_response: 204, 201 or 200.
Success(want, old) ==
  CASE want = "none" -> "cleared"
    [] want # "none" /\ old = "none" -> "created"
    [] OTHER -> "updated"

Ok(p, old) ==
  LET want == request[p].want
  IN  Answer(p, Success(want, old), want # "none" /\ old # want)

\* The store failed, or the client is over its rate: nothing was done.
Unavailable(p) ==
  /\ request[p].pc \in {"asked", "read"}
  /\ Answer(p, "unavailable", FALSE)
  /\ UNCHANGED <<backend, now, item, stats, past>>

\* What a round that may not be voted on answers, in both stores.
Refusal(r) == IF item[r] = None THEN "missing" ELSE "expired"

Refused(p) ==
  /\ request[p].pc = "asked"
  /\ ~Votable(request[p].round)
  /\ Answer(p, Refusal(request[p].round), FALSE)
  /\ UNCHANGED <<backend, now, item, stats, past>>

One(b) == IF b THEN 1 ELSE 0

\* The counters of a round's combination, moved by a vote that replaces old.
Moved(r, old, want) ==
  [stats EXCEPT ![ComboOf[r]].enjoy  = @ + One(want = "enjoy") - One(old = "enjoy"),
                ![ComboOf[r]].regret = @ + One(want = "regret") - One(old = "regret")]

\* One transaction reads the old vote, writes the new one and moves the counters.
SqliteFeedback(p) ==
  LET r == request[p].round
      want == request[p].want
      old == item[r].vote
  IN  /\ backend = "sqlite" /\ request[p].pc = "asked" /\ Votable(r)
      /\ item' = [item EXCEPT ![r].vote = want]
      /\ stats' = IF old = want THEN stats ELSE Moved(r, old, want)
      /\ Ok(p, old)
      /\ UNCHANGED <<backend, now, past>>

\* DynamoDB: read the round; a vote that is there already is all that was asked...
DynamoRead(p) ==
  LET r == request[p].round
  IN  /\ backend = "dynamo" /\ request[p].pc = "asked" /\ Votable(r)
      /\ IF item[r].vote = request[p].want THEN Ok(p, item[r].vote)
         ELSE request' = [request EXCEPT ![p].pc = "read", ![p].old = item[r].vote,
                                         ![p].attempt = @ + 1]
      /\ UNCHANGED <<backend, now, item, stats, past>>

Unchanged_unconditional(p) == TRUE

\* ...the condition on the round: attribute_not_exists(vote), which a round that is
\* gone meets too, or vote=:old.
Unchanged(p) ==
  LET r == request[p].round
  IN  IF item[r] = None THEN request[p].old = "none" ELSE item[r].vote = request[p].old

\* ...and the transaction.  The answer to it may be lost; the library sends it
\* again under the same token, so that it applies once.
DynamoWrite(p) ==
  LET r == request[p].round
      want == request[p].want
      old == request[p].old
  IN  /\ request[p].pc = "read" /\ Unchanged(p)
      /\ item' = [item EXCEPT ![r] = [born |-> IF @ = None THEN Never ELSE @.born,
                                      vote |-> want]]
      /\ stats' = Moved(r, old, want)
      /\ Ok(p, old) \/ Answer(p, "unavailable", FALSE)
      /\ UNCHANGED <<backend, now, past>>

MayRead_once_more(p) == request[p].attempt <= Attempts

MayRead(p) == request[p].attempt < Attempts

\* TransactionCanceledException: the condition failed, or another vote's or draw's
\* transaction holds the counters; the request reads again or gives up.
DynamoCancelled(p) ==
  /\ request[p].pc = "read"
  /\ IF MayRead(p)
     THEN request' = [request EXCEPT ![p].pc = "asked", ![p].old = "none"]
     ELSE Answer(p, "unavailable", FALSE)
  /\ UNCHANGED <<backend, now, item, stats, past>>

-----------------------------------------------------------------------------
(* Time, and what it removes.                                              *)

Tick ==
  /\ now < MaxTime
  /\ \A p \in Request : request[p].pc \in {"asked", "read"} => now < request[p].since + Patience
  /\ now' = now + 1
  /\ UNCHANGED <<backend, item, stats, request, past>>

\* _rebuild: the counters are made again from the rounds in the database.
Rebuilt(rows) ==
  LET Rows(c, votes) ==
        Cardinality({r \in Round : rows[r] # None /\ ComboOf[r] = c /\ rows[r].vote \in votes})
  IN  [c \in Combo |-> [draws |-> Rows(c, Vote), enjoy |-> Rows(c, {"enjoy"}),
                        regret |-> Rows(c, {"regret"}), until |-> 0]]

\* bad-decisions consequences purge --retention-days: rounds of that age go with their
\* feedback, then a rebuild.  The age is the operator's and no setting bounds it, so
\* open rounds go too.  With nothing that old it is the command rebuild.
SqlitePurge(age) ==
  LET gone == {r \in Round : item[r] # None /\ item[r].born < now - age}
      rows == [r \in Round |-> IF r \in gone THEN None ELSE item[r]]
  IN  /\ backend = "sqlite"
      /\ item' = rows
      /\ stats' = Rebuilt(rows)
      /\ past' = [r \in Round |-> IF r \in gone THEN "forgotten" ELSE past[r]]
      /\ UNCHANGED <<backend, now, request>>

\* The table's time to live: a round...
DynamoExpireRound(r) ==
  /\ backend = "dynamo" /\ item[r] # None
  /\ item[r].born # Never /\ item[r].born + Retention < now
  /\ item' = [item EXCEPT ![r] = None]
  /\ past' = [past EXCEPT ![r] = IF @ = "stored" THEN item[r].vote ELSE @]
  /\ UNCHANGED <<backend, now, stats, request>>

\* ...and the counters of a combination that has long not been drawn.
DynamoExpireStats(c) ==
  /\ backend = "dynamo" /\ stats[c].draws > 0 /\ stats[c].until < now
  /\ stats' = [stats EXCEPT ![c] = NoStats]
  /\ past' = [r \in Round |-> IF ComboOf[r] = c /\ past[r] # "undrawn" THEN "forgotten"
                              ELSE past[r]]
  /\ UNCHANGED <<backend, now, item, request>>

Next ==
  \/ \E r \in Round : Draw(r)
  \/ \E p \in Request, r \in Round, v \in Vote : Ask(p, r, v)
  \/ \E p \in Request :
       \/ Unavailable(p) \/ Refused(p)
       \/ SqliteFeedback(p) \/ DynamoRead(p) \/ DynamoWrite(p) \/ DynamoCancelled(p)
  \/ Tick
  \/ \E age \in -1..MaxTime : SqlitePurge(age)
  \/ \E r \in Round : DynamoExpireRound(r)
  \/ \E c \in Combo : DynamoExpireStats(c)

Spec == Init /\ [][Next]_vars

-----------------------------------------------------------------------------
(* Properties.                                                             *)

Standing(r) == IF past[r] = "stored" THEN item[r].vote ELSE past[r]

AskedOrTold(p) ==
  LET q == request[p]
  IN  CASE q.pc = "idle" -> [state |-> "idle"]
        [] q.pc = "told" -> [state |-> "told", code |-> q.code, changed |-> q.changed]
        [] OTHER -> [state |-> "asked", round |-> q.round, want |-> q.want, inTime |-> q.inTime]

\* Both stores keep the Ledger: whatever requests race, fail, are sent again or come
\* late, whatever time removes, the counters are the recount of the rounds on the
\* books and the answers are true (consequences.py:101-120, aws_consequences.py:103-153).
\* In DynamoDB an open round stays; in SQLite only the owner's purge takes one.
Books ==
  INSTANCE Ledger WITH
    owned <- backend = "sqlite",
    vote  <- [r \in Round |-> Standing(r)],
    open  <- {r \in Round : Votable(r)},
    tally <- [c \in Combo |-> [draws |-> stats[c].draws, enjoy |-> stats[c].enjoy,
                               regret |-> stats[c].regret]],
    reply <- [p \in Request |-> AskedOrTold(p)]

KeepsLedger == Books!Spec

\* Nothing is stored that no retention will ever remove: a vote does not bring back
\* a round that was deleted between its read and its write (aws_consequences.py:125).
NothingIsKeptForever == \A r \in Round : item[r] # None => item[r].born # Never

=============================================================================
