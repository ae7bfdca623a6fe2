-------------------------- MODULE MCHistoryOutbox --------------------------
(* Instances of HistoryOutbox for TLC. *)
EXTENDS HistoryOutbox, TLC

CONSTANTS r0, r1, r2, c1, c2, g1, g2, d1, s1, s2

\* One visibility command asks for the grant the others move away from.
MCTarget == [c \in Cmds |-> IF c = c1 THEN g1 ELSE g2]

\* Who takes part: two commands with the deletion or with a save, one with
\* both; two repairs with a save, one with a command.
MCCasts == {{c1, c2, d1}, {r2, c1, c2}, {r2, c1, d1}, {r2, s1, s2}}
             \cup {{c1, s} : s \in {s1, s2}}

\* Repairs may be permuted.
Symmetry == Permutations(Scans)

\* Everybody takes part.
MCAll == {Procs}

\* Two saves on a page that has no history yet, or one on any page; and a repair.
\* None of them looks at the status.
MCDraining == {{r1, r2, s1}, {r2, s1}}

MCFairInit ==
    /\ Init
    /\ page.status = "published"
    /\ pc[r1] # "done" => page.seq = 0 /\ page.slot = None /\ ~HasSequencedHistory

MCFairSpec == MCFairInit /\ [][Next]_vars /\ Fairness
=============================================================================
