-------------------------- MODULE MCPageTransition --------------------------
(* Instances of PageTransition for TLC. *)
EXTENDS PageTransition, TLC

CONSTANTS a, b, ta, tb, \* two paths, and where their pages go when trashed
          toB, also, toA, bin, back \* two renames to b, one to a, a trash, a restore

MCCommand == [o \in Ops |-> CASE o = bin -> "trash" [] o = back -> "restore"
                               [] OTHER -> "rename"]

MCTarget == [o \in Ops |-> IF o = toA THEN a ELSE b]

MCTrashOf == (a :> ta) @@ (b :> tb)

MCRestoreOf == (ta :> a) @@ (tb :> b)

CONSTANTS d1, d2, d3, d4, d5, d6, x1, s1, Second, Third

\* The first delivery of each run carries the key `toB'.
MCKey == [d \in Deliveries |-> CASE d = d2 -> Second [] d = d3 -> Third
                                    [] d = d4 -> back [] d = d6 -> also [] OTHER -> toB]

\* Moves back and forth of a page with a history, one of them delivered twice beside its
\* undoing; a move delivered twice, its sweep and the deletion of the page, of which a
\* page without history sees three at a time; and two moves to one place, and the sweep.
MCStarts == [cast : {{d1, d2, d3, d4}, {d1, d5, x1, s1}, {d1, d6, s1}}, tracked : {TRUE}]
              \cup [cast : {{d1, d5, s1}, {d1, d5, x1}, {d1, x1, s1}, {d1, d6, s1}},
                    tracked : {FALSE}]

\* Everybody takes part.
MCAll == [cast : {Procs}, tracked : {TRUE}]
=============================================================================
