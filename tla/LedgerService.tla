--------------------------- MODULE LedgerService ---------------------------
(***************************************************************************)
(* What the Flight server promises its clients about the ledger and the    *)
(* almanac it holds, without locks, threads or files: batches are added    *)
(* one at a time, kernels only accumulate, and the rows of a ledger go     *)
(* away only when the ledger is replaced by one that was saved whole, or   *)
(* when the server restarts, which finds such a ledger or none.            *)
(***************************************************************************)
CONSTANTS
    Token,      \* the batches clients may add, each addition told apart
    Kernel      \* the kernels clients may load

VARIABLES
    rows,       \* the batches the served ledger holds
    kernels,    \* the kernels the almanac holds
    saved       \* every set of batches that was ever saved whole

vars == <<rows, kernels, saved>>

Init ==
    /\ rows = {}
    /\ kernels = {}
    /\ saved = {}

Add(t) ==
    /\ t \notin rows
    /\ rows' = rows \cup {t}
    /\ UNCHANGED <<kernels, saved>>

Install(k) ==
    /\ kernels' = kernels \cup {k}
    /\ UNCHANGED <<rows, saved>>

\* An empty ledger is never saved.
Save ==
    /\ rows # {}
    /\ saved' = saved \cup {rows}
    /\ UNCHANGED <<rows, kernels>>

Replace(version) ==
    /\ rows' = version
    /\ UNCHANGED <<kernels, saved>>

Restart(version) ==
    /\ rows' = version
    /\ kernels' = {}
    /\ UNCHANGED saved

Next ==
    \/ \E t \in Token : Add(t)
    \/ \E k \in Kernel : Install(k)
    \/ Save
    \/ \E version \in saved : Replace(version)
    \/ \E version \in saved \cup {{}} : Restart(version)

Spec == Init /\ [][Next]_vars
=============================================================================
