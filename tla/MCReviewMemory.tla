--------------------------- MODULE MCReviewMemory ---------------------------
(* ReviewMemory for TLC.  One file with a symbol and module-level code: c1  *)
(* touches the symbol, c2 the rest of the file, c3 everything.              *)
EXTENDS ReviewMemory, TLC

CONSTANTS base, c1, c2, c3, load, top

Bodies == [c \in Commit \cup {BaseCommit} |->
             CASE c = base -> [u \in Unit |-> 0]
               [] c = c1   -> [u \in Unit |-> IF u = load THEN 1 ELSE 0]
               [] c = c2   -> [u \in Unit |-> 1]
               [] c = c3   -> [u \in Unit |-> 2]]
History == {<<c1, c2>>, <<c1, c3>>, <<c2, c3>>} \cap (Commit \X Commit)

OneFile == [u \in Unit |-> "file"]
Priority == [u \in Unit |-> IF u = load THEN 1 ELSE 2]
OneModel == [t \in Task |-> CHOOSE m \in Model : TRUE]
Symmetry == Permutations(Task)
=============================================================================
