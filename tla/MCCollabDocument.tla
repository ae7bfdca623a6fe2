-------------------------- MODULE MCCollabDocument --------------------------
(* Instances of CollabDocument for TLC. *)
EXTENDS CollabDocument, TLC

CONSTANTS u1, u2,  \* two tabs
          m1, m2,  \* two keystrokes
          s1, s2,  \* two save requests
          c1, c2,  \* two runs of the compactor
          x1, x2   \* an outside edit and a path move

\* Who takes part: tabs with runs of the compactor, a tab with two saves, and one with
\* a run or a save while the page is replaced or moved.
MCCasts == {{u1, m1, m2, c1, c2}, {u1, m1, s1, s2}, {u1, u2, m1, c1}}
             \cup {{u1, m1, p, x} : p \in {c1, s1}, x \in {x1, x2}}

MCEditCast == {{u1, u2, s1, x1}}
=============================================================================
