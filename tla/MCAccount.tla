----------------------------- MODULE MCAccount -----------------------------
(* Model-checking instance of Account: workers, users, names and field      *)
(* contents are interchangeable.  A request names one field and leaves the *)
(* other out, which is the case that the merge is for.                     *)
EXTENDS Account, TLC

OneField ==
    {u \in [Fields -> Values \cup {None}] : \E f \in Fields : {g \in Fields : u[g] # None} = {f}}

Symmetry ==
    Permutations(Workers) \cup Permutations(Users)
        \cup Permutations(Usernames) \cup Permutations(Values)

(* What was wanted for a user, and whether updates of it clashed, is       *)
(* history that no step reads, and no property once the user is marked.    *)
View == <<db, tx, db_mutex, using, sharing, call, clashed \ mixed, mixed,
          [u \in Users \ (clashed \cup mixed) |-> wanted[u]]>>
=============================================================================
