------------------------------ MODULE PageMoves ------------------------------
(***************************************************************************)
(* What the path-moving operations promise about ONE page.  A page is at a *)
(* place (its path and its status) and may be on its way to another one.   *)
(* Readers keep seeing the old place until it arrives; on a page with a    *)
(* history, arriving and journalling the move are one step, so the journal *)
(* is exactly the list of the moves, in order.                             *)
(***************************************************************************)
EXTENDS Sequences

CONSTANTS Places,   \* where a page can be
          Nowhere   \* no place

VARIABLES at,       \* where readers see the page
          moving,   \* the place it is on its way to, or Nowhere
          tracked,  \* whether moves are journalled
          journal,  \* the moves of the page: from one place to another
          gone      \* whether the page has been deleted

vars == <<at, moving, tracked, journal, gone>>

Init ==
    /\ at \in Places /\ moving = Nowhere
    /\ tracked \in BOOLEAN /\ journal = <<>> /\ gone = FALSE

Depart ==
    /\ ~gone /\ moving = Nowhere
    /\ moving' \in Places
    /\ UNCHANGED <<at, tracked, journal, gone>>

Arrive ==
    /\ ~gone /\ moving # Nowhere
    /\ at' = moving /\ moving' = Nowhere
    /\ journal' = IF tracked THEN Append(journal, [from |-> at, to |-> moving])
                             ELSE journal
    /\ UNCHANGED <<tracked, gone>>

\* A page gets its history: the first thing it journals is its next move.
Track ==
    /\ ~gone /\ ~tracked /\ tracked' = TRUE
    /\ UNCHANGED <<at, moving, journal, gone>>

Remove ==
    /\ ~gone /\ gone' = TRUE
    /\ UNCHANGED <<at, moving, tracked, journal>>

\* The journal of a deleted page is erased after it.
Erase ==
    /\ gone /\ journal' = <<>>
    /\ UNCHANGED <<at, moving, tracked, gone>>

Next == Depart \/ Arrive \/ Track \/ Remove \/ Erase

Spec == Init /\ [][Next]_vars
=============================================================================
