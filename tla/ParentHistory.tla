--------------------------- MODULE ParentHistory ----------------------------
(***************************************************************************)
(* What a topology store promises its readers: for every entity and every  *)
(* epoch of the window, the frame of the entity's last row at or before    *)
(* that epoch.  Entities publish rows in the order of their epochs; the    *)
(* window's start may move forward, and what lies before it is forgotten.  *)
(***************************************************************************)
EXTENDS Integers

CONSTANTS
    Id, Epoch, None,
    Observations    \* the sets of rows an entity may publish at once

VARIABLES
    published,  \* every row ever published
    parentOf,   \* entity -> epoch -> the parent it had then, or None
    window      \* the first epoch still answered

Row == UNION Observations

TypeOK ==
    /\ published \subseteq Row
    /\ parentOf \in [Id -> [Epoch -> Id \cup {None}]]
    /\ window \in Epoch

LastBy(rows, c, x) ==
    LET past == {r \in rows : r.id = c /\ r.epoch <= x}
    IN  IF past = {} THEN None
        ELSE (CHOOSE r \in past : \A q \in past : q.epoch <= r.epoch).frame

Answers(rows, ws) ==
    [c \in Id |-> [x \in Epoch |-> IF x < ws THEN None ELSE LastBy(rows, c, x)]]

Init ==
    /\ published = {}
    /\ window = 0
    /\ parentOf = Answers(published, window)

Upcoming(rows) ==
    /\ \A r \in rows : \A p \in published : p.id = r.id => p.epoch < r.epoch
    /\ \A q, r \in rows : q.id = r.id /\ q.epoch = r.epoch => q = r

Publish(rows) ==
    /\ Upcoming(rows)
    /\ published' = published \cup rows
    /\ parentOf' = Answers(published', window)
    /\ UNCHANGED window

Forget(ws) ==
    /\ ws >= window
    /\ window' = ws
    /\ parentOf' = Answers(published, ws)
    /\ UNCHANGED published

Next ==
    \/ \E rows \in Observations : Publish(rows)
    \/ \E ws \in Epoch : Forget(ws)

Spec == Init /\ [][Next]_<<published, parentOf, window>>
=============================================================================
