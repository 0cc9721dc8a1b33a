----------------------------- MODULE MCExplorer -----------------------------
(* Explorer on small instances: at most one row to begin with, and a column  *)
(* "tag" that the editor may add to the table of one database.               *)
EXTENDS Explorer, TLC

Start == {{}, {1}}

Q(does, on, reads) ==
    [does |-> does, on |-> on, key |-> 1, col |-> "tag", reads |-> reads]

Editor ==
    {Q("use", d, FALSE) : d \in Db}
      \cup {Q("delete", None, FALSE), Q("delete", None, TRUE),
            Q("alter", CHOOSE d \in Db : TRUE, FALSE)}

Symm == Permutations(Req)
=============================================================================
