--------------------------- MODULE MCCopyOnWrite ----------------------------
(* Up to three completions, of one spawn or of several, on a small pool. *)
EXTENDS CopyOnWrite, TLC

(* The code only stores and compares tokens: any two texts may be swapped. *)
Symmetry == Permutations(Token)

(* No action reads the tokens of a cancelled completion, and no property but *)
(* for their types: states that differ in them alone are explored once.      *)
View ==
  <<allocator, spawning, created, table, cancelled, spawns,
    [h \in Live |-> tokens[h]]>>
=============================================================================
