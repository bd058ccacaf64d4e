------------------------------- MODULE MCTodos -------------------------------
(* Three requests over the two todos newRepo starts with; ids 1 to 3 are      *)
(* asked for, 3 being that of the first todo created.                         *)
EXTENDS Todos, TLC

MCSeeds == <<[id |-> 1, title |-> "groceries", done |-> FALSE, created |-> None],
             [id |-> 2, title |-> "docs", done |-> TRUE, created |-> None]>>
MCPatches == {<<>>, [done |-> TRUE]} \cup {[title |-> t] : t \in Titles}
Symmetry == Permutations(Req)
=============================================================================
