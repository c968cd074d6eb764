-------------------------------- MODULE Table --------------------------------
(***************************************************************************)
(* What a Peer Pressure table promises the people at it                    *)
(* (docs/PEER_PRESSURE.md, "How to play"): the phases of a round, who is   *)
(* its responsible adult, whose decisions are in, and the points given.    *)
(* One step is one request, so presence may change in any of them.         *)
(***************************************************************************)
EXTENDS Integers

CONSTANTS Player, None

VARIABLES
  phase,     \* WAITING, PLAYING, JUDGING, ROUND_RESULT or ENDED
  present,   \* players at the table
  adult,     \* the responsible adult, None in the lobby
  decided,   \* players with a decision in this round
  points,    \* points each player was given
  rounds     \* rounds opened so far

tableVars == <<phase, present, adult, decided, points, rounds>>

Init ==
  /\ phase = "WAITING" /\ present = {} /\ adult = None
  /\ decided = {} /\ points = [p \in Player |-> 0] /\ rounds = 0

\* The role leaves nobody who is still there.
RolePasses == adult' = adult \/ (adult \notin present' /\ adult' \in Player)

\* Nobody at the table but the adult is still deciding.
NobodyDeciding == present' \ {adult'} \subseteq decided'

\* Nothing but presence changes in the lobby and after the end.
Gather ==
  /\ phase \in {"WAITING", "ENDED"} /\ phase' = phase
  /\ UNCHANGED <<adult, decided, points, rounds>>

\* A round opens with no decisions and with an adult who is at the table.
Open ==
  /\ phase \in {"WAITING", "ROUND_RESULT"} /\ phase' = "PLAYING"
  /\ adult' \in present' /\ decided' = {} /\ rounds' = rounds + 1
  /\ UNCHANGED points

\* An open round: one decision may arrive and the role may pass.  Judging starts
\* only when nobody at the table is deciding, and must have started when in
\* addition one who decided is there.  Nothing is taken from a round being
\* judged while its adult stays.
Decide ==
  /\ phase \in {"PLAYING", "JUDGING"} /\ phase' \in {"PLAYING", "JUDGING"}
  /\ RolePasses
  /\ \E p \in Player : decided' \subseteq decided \cup {p}
  /\ adult' \notin decided'
  /\ phase' = "PLAYING" => ~(NobodyDeciding /\ present' \cap decided' # {})
  /\ phase' = "JUDGING" => decided' # {} /\ (phase = "PLAYING" => NobodyDeciding)
  /\ phase = "JUDGING" /\ adult' = adult => phase' = phase /\ decided' = decided
  /\ UNCHANGED <<points, rounds>>

\* The adult, who has no decision of their own, picks one and gives its player a
\* point.
Judge ==
  /\ phase = "JUDGING" /\ phase' = "ROUND_RESULT"
  /\ RolePasses /\ adult' \notin decided'
  /\ decided' \subseteq decided
  /\ \E w \in decided' : points' = [points EXCEPT ![w] = @ + 1]
  /\ UNCHANGED rounds

\* A judged round stays as it is until the next one; its adult may be replaced.
Linger ==
  /\ phase = "ROUND_RESULT" /\ phase' = phase
  /\ RolePasses /\ UNCHANGED <<decided, points, rounds>>

Close == phase' = "ENDED" /\ UNCHANGED <<points, rounds>>

Next == Gather \/ Open \/ Decide \/ Judge \/ Linger \/ Close

Spec == Init /\ [][Next]_tableVars
=============================================================================
