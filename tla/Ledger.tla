------------------------------- MODULE Ledger -------------------------------
(***************************************************************************)
(* What Consequences promises of votes on drawn rounds: a vote takes       *)
(* effect once and at once, the public counters are always the recount of  *)
(* the rounds on the books, the voter is told the truth, and nobody is     *)
(* turned away as too late, or as unknown, while the round is open.  Time  *)
(* takes from the books only what is closed; where the store is a file,    *)
(* its owner may purge it, and a purge takes open rounds too.              *)
(***************************************************************************)
EXTENDS Integers, FiniteSets

CONSTANTS
  Round,     \* drawn rounds
  Combo,     \* combinations of a prompt and its answers
  ComboOf,   \* ComboOf[r]: the combination that round r shows
  Request    \* places for requests in flight

VARIABLES
  owned,   \* TRUE if an owner may purge the books
  vote,    \* vote[r]: "undrawn", a standing vote, or "forgotten"
  open,    \* rounds that may be voted on
  tally,   \* tally[c]: the counters of combination c
  reply    \* reply[p]: what request p asks for, and what it was answered

ledgerVars == <<owned, vote, open, tally, reply>>

Vote == {"none", "enjoy", "regret"}

Counted(votes, c, values) ==
  Cardinality({r \in Round : ComboOf[r] = c /\ votes[r] \in values})

Recount(votes) ==
  [c \in Combo |-> [draws  |-> Counted(votes, c, Vote),
                    enjoy  |-> Counted(votes, c, {"enjoy"}),
                    regret |-> Counted(votes, c, {"regret"})]]

Idle == [state |-> "idle"]
Asked(r, v, inTime) == [state |-> "asked", round |-> r, want |-> v, inTime |-> inTime]
Told(code, changed) == [state |-> "told", code |-> code, changed |-> changed]

\* The answer to a vote v that finds the vote old.
Truth(old, v) ==
  CASE v = "none" -> Told("cleared", FALSE)
    [] old = "none" /\ v # "none" -> Told("created", TRUE)
    [] OTHER -> Told("updated", old # v)

Init ==
  /\ owned \in BOOLEAN
  /\ vote = [r \in Round |-> "undrawn"]
  /\ open = {}
  /\ tally = Recount(vote)
  /\ reply = [p \in Request |-> Idle]

Draw(r) ==
  /\ vote[r] = "undrawn"
  /\ vote' = [vote EXCEPT ![r] = "none"]
  /\ open' = open \cup {r}
  /\ UNCHANGED reply

Ask(p, r, v) ==
  /\ reply[p].state # "asked"
  /\ reply' = [reply EXCEPT ![p] = Asked(r, v, r \in open)]
  /\ UNCHANGED <<vote, open>>

\* A vote asked for in time takes effect; the answer may be lost on its way.
Cast(p, heard) ==
  LET r == reply[p].round
      v == reply[p].want
  IN  /\ reply[p].state = "asked" /\ reply[p].inTime
      /\ vote[r] \in Vote
      /\ vote' = [vote EXCEPT ![r] = v]
      /\ reply' = [reply EXCEPT ![p] = IF heard THEN Truth(vote[r], v)
                                       ELSE Told("unavailable", FALSE)]
      /\ UNCHANGED open

Refuse(p, code) ==
  /\ reply[p].state = "asked"
  /\ code # "unavailable" => reply[p].round \notin open
  /\ owned /\ code = "missing" => vote[reply[p].round] \notin Vote
  /\ reply' = [reply EXCEPT ![p] = Told(code, FALSE)]
  /\ UNCHANGED <<vote, open>>

Close(rounds) ==
  /\ open' = open \ rounds
  /\ UNCHANGED <<vote, reply>>

\* In time, only what can no longer be voted on leaves the books...
Forget(rounds) ==
  /\ rounds \cap open = {}
  /\ vote' = [r \in Round |-> IF r \in rounds THEN "forgotten" ELSE vote[r]]
  /\ UNCHANGED <<open, reply>>

\* ...and an owner's purge takes what the owner says, at one stroke.
Purge(rounds) ==
  /\ owned
  /\ vote' = [r \in Round |-> IF r \in rounds THEN "forgotten" ELSE vote[r]]
  /\ open' = open \ rounds
  /\ UNCHANGED reply

Step ==
  \/ \E r \in Round : Draw(r)
  \/ \E p \in Request, r \in Round, v \in Vote : Ask(p, r, v)
  \/ \E p \in Request, heard \in BOOLEAN : Cast(p, heard)
  \/ \E p \in Request, code \in {"missing", "expired", "unavailable"} : Refuse(p, code)
  \/ \E rounds \in SUBSET Round : Close(rounds) \/ Forget(rounds) \/ Purge(rounds)

Next == Step /\ UNCHANGED owned /\ tally' = Recount(vote')

Spec == Init /\ [][Next]_ledgerVars
=============================================================================
