---------------------------- MODULE PageTimeline ----------------------------
(***************************************************************************)
(* What the page-history subsystem promises about ONE page, with none of   *)
(* the machinery that keeps the promise.  A page's timeline gives each     *)
(* item (a content Revision or the event of a command) at most one place,  *)
(* for ever; places are handed out in increasing order; and once the page  *)
(* is tracked, a change of its visible state and the event that records it *)
(* are one atomic step.                                                    *)
(*                                                                         *)
(* MongoDB gives the implementation single-document atomicity only, and a  *)
(* Revision, a PageHistoryEvent and the Page are three documents; module   *)
(* HistoryOutbox shows that the outbox protocol implements this module.    *)
(***************************************************************************)
EXTENDS Naturals

CONSTANTS Revs,     \* content Revisions of the page
          Cmds      \* commands whose event may be recorded

VARIABLES place,    \* the place of each item in the timeline, 0 for none
          last,     \* the highest place handed out by the page's counter
          open,     \* whether the page is tracked
          value,    \* the visible state the commands change
          gone      \* whether the page has been deleted

vars == <<place, last, open, value, gone>>

Items == Revs \cup Cmds

Placed == {i \in Items : place[i] # 0}

Init ==
    /\ place \in [Items -> Nat]
    /\ \A i, j \in Placed : place[i] = place[j] => i = j
    /\ last \in Nat
    /\ open \in BOOLEAN
    /\ open => \A i \in Items : place[i] <= last
    /\ gone = FALSE

\* The first content save of an untracked page starts its timeline at 1.
Open(r) ==
    /\ ~open /\ ~gone /\ Placed = {}
    /\ open' = TRUE
    /\ last' = 1
    /\ place' = [place EXCEPT ![r] = 1]
    /\ UNCHANGED <<value, gone>>

\* A page that lost its tracking mark gets it back, with a counter that
\* covers everything already placed.
Reopen ==
    /\ ~open /\ ~gone /\ Placed # {}
    /\ open' = TRUE
    /\ last' \in Nat /\ last' >= last
    /\ \A i \in Items : place[i] <= last'
    /\ UNCHANGED <<place, value, gone>>

Append(i) ==
    /\ open /\ ~gone /\ place[i] = 0
    /\ last' = last + 1
    /\ place' = [place EXCEPT ![i] = last + 1]
    /\ UNCHANGED <<open, gone>>

\* A Revision takes its place; nothing visible changes with it.
AppendContent(r) == Append(r) /\ UNCHANGED value

\* A command on a tracked page changes the visible state and records it.
Change(c) == Append(c) /\ value' # value

\* On an untracked page the visible state changes with no record.
Edit ==
    /\ ~open /\ ~gone
    /\ UNCHANGED <<place, last, open, gone>>

\* A deleted page has no timeline any more, and nothing follows.
Remove ==
    /\ ~gone /\ gone' = TRUE
    /\ place' = [i \in Items |-> 0]
    /\ UNCHANGED <<last, open, value>>

Next ==
    \/ \E r \in Revs : Open(r) \/ AppendContent(r)
    \/ \E c \in Cmds : Change(c)
    \/ Reopen
    \/ Edit
    \/ Remove

Spec == Init /\ [][Next]_vars
=============================================================================
