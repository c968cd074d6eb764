-------------------------------- MODULE Once --------------------------------
(***************************************************************************)
(* What docs/PEER_PRESSURE.md ("State and privacy model") promises of an   *)
(* action a player asks for: it takes effect at most once, however often   *)
(* it is sent, and the player is not told otherwise.  The revision that    *)
(* decides this is not visible here.                                       *)
(***************************************************************************)
CONSTANTS Intent, Attempt

VARIABLES
  applied,   \* <<i, a>>: intent i took effect through its request a
  told       \* told[i]: what the player was told of intent i

onceVars == <<applied, told>>

Done(i) == \E a \in Attempt : <<i, a>> \in applied

Init == applied = {} /\ told = [i \in Intent |-> "none"]

Ask(i) ==
  /\ told[i] = "none"
  /\ told' = [told EXCEPT ![i] = "pending"] /\ UNCHANGED applied

\* An intent takes effect once, and never after a refusal for staleness; it may
\* still do so after the player gave up on an answer.
Apply(i) ==
  /\ ~Done(i) /\ told[i] \notin {"none", "stale"}
  /\ \E a \in Attempt : applied' = applied \cup {<<i, a>>}
  /\ UNCHANGED told

\* "ok" is said of what took effect, "stale" of what did not and never will;
\* anything else leaves it open.
Tell(i, outcome) ==
  /\ told[i] = "pending"
  /\ outcome = "ok" => Done(i)
  /\ outcome = "stale" => ~Done(i)
  /\ told' = [told EXCEPT ![i] = outcome] /\ UNCHANGED applied

Outcome == {"ok", "ended", "stale", "refused", "gone", "unreachable"}

Next ==
  \E i \in Intent :
    Ask(i) \/ Apply(i) \/ \E outcome \in Outcome : Tell(i, outcome)

Spec == Init /\ [][Next]_onceVars
=============================================================================
