---------------------------- MODULE MCHistoryRead ----------------------------
(* HistoryRead beside some of the casts of MCHistoryOutbox. *)
EXTENDS MCHistoryOutbox, HistoryRead

\* Two saves; a save and a command; two commands and the deletion; a repair and
\* a command.
MCWatched == {{r1, r2}, {r2, c1}, {c1, c2, d1}, {c1, s1}, {c1, s2}}

MCReadCasts == MCCasts \cup MCWatched

\* Commands alone look at the grant, and at the status only to publish.
MCInit ==
    /\ ReadInit
    /\ (\A c \in Cmds : pc[c] = "done") => page.grant = g1
    /\ Publishers = {} => page.status = "published"

MCSpec == MCInit /\ [][ReadNext]_allVars
===============================================================================
