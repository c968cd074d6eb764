----------------------------- MODULE MCTerminal ------------------------------
(* Three courses of three revisions: a hand that changes, and then a judging *)
(* by somebody else; decisions that change, and then a hand; and a prompt    *)
(* for two answers, whose round ends without one of ours, and the next, with *)
(* the same hand, for one.                                                   *)
EXTENDS Terminal

CONSTANTS a, b

Hand(cards, slots) == [part |-> "answers", offer |-> cards, slots |-> slots]
Decisions(ids) == [part |-> "decisions", offer |-> ids, slots |-> 1]
Waiting == [part |-> "other", offer |-> {}, slots |-> 2]

ThreeCourses ==
  {<<Hand({a, b}, 1), Hand({b}, 1), Waiting>>,
   <<Decisions({a, b}), Decisions({b}), Hand({a}, 1)>>,
   <<Hand({a, b}, 2), Waiting, Hand({a, b}, 1)>>}
=============================================================================
