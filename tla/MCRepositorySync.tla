-------------------------- MODULE MCRepositorySync --------------------------
(***************************************************************************)
(* RepositorySync for TLC: a history of commits 1 -> 2 -> 3 -> 4 in which  *)
(* page a changes and changes back and b disappears and returns; a commit  *)
(* 5 on top of 2 in which a changes its kind, and a commit 6 on top of 1.  *)
(***************************************************************************)
EXTENDS RepositorySync, TLC

Feature(text)  == [kind |-> "feature", content |-> text]
Scenario(text) == [kind |-> "scenario", content |-> text]
Concept(text)  == [kind |-> "concept", content |-> text]

Tree == {<<c, d>> \in Commits \X Commits : c < d /\ (d = 5 => c <= 2) /\ (d = 6 => c = 1)}

Contents ==
  << [a |-> NoEntry,           b |-> NoEntry],
     [a |-> Feature("first"),  b |-> Scenario("one")],
     [a |-> Feature("second"), b |-> NoEntry],
     [a |-> Feature("first"),  b |-> Scenario("one")],
     [a |-> Concept("second"), b |-> Scenario("two")],
     [a |-> Feature("third"),  b |-> Scenario("one")] >>
=============================================================================
