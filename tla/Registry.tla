------------------------------ MODULE Registry ------------------------------
(***************************************************************************)
(* What the state directory promises a user who runs one ssbx command at a *)
(* time: a register of sandboxes, each command changing it in one step.    *)
(* There are no files, no list order and no half-done command here; the    *)
(* one thing that can go wrong is that everything is lost at once.         *)
(***************************************************************************)
CONSTANTS Record, None

VARIABLES entries, last, lost

vars == <<entries, last, lost>>

NamesOf(S) == {r.name : r \in S}
IdsOf(S) == {r.id : r \in S}

Init == entries = {} /\ last = None /\ lost = FALSE

\* create: the name and the id are new, and the new sandbox is the last used.
Add(r) ==
    /\ r.name \notin NamesOf(entries) /\ r.id \notin IdsOf(entries)
    /\ entries' = entries \cup {r}
    /\ last' = r.name

\* rm: one sandbox goes; when it was the last used, another takes its place.
Drop(r) ==
    /\ entries' = entries \ {r}
    /\ IF last # r.name THEN last' = last
       ELSE last' \in IF entries' = {} THEN {None} ELSE NamesOf(entries')

\* exec and shell: a listed sandbox becomes the last used.
Use(r) ==
    /\ last' = r.name
    /\ UNCHANGED entries

\* policy set: the policy of one sandbox changes, its identity does not.
Amend(r, s) ==
    /\ s = [r EXCEPT !.policy_hash = s.policy_hash]
    /\ entries' = (entries \ {r}) \cup {s}
    /\ last' = r.name

Lose == entries' = {} /\ last' = None /\ lost' = TRUE

Next ==
    /\ ~lost
    /\ \/ Lose
       \/ /\ UNCHANGED lost
          /\ \/ \E r \in Record : Add(r)
             \/ \E r \in entries : Drop(r) \/ Use(r)
             \/ \E r \in entries, s \in Record : Amend(r, s)

Spec == Init /\ [][Next]_vars
=============================================================================
