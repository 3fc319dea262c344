------------------------------ MODULE MCServer ------------------------------
EXTENDS Server, TLC

CONSTANTS c1, c2, c3

OnPath == [store |-> "path", limit |-> "limit", hasId |-> TRUE]
OnUrl == [store |-> "url", limit |-> "limit", hasId |-> FALSE]
InMemory == [store |-> "none", limit |-> None, hasId |-> TRUE]

Setup(k1, k2, k3, conf) ==
    [kinds |-> (c1 :> k1) @@ (c2 :> k2) @@ (c3 :> k3), config |-> conf]

\* Every pair of kinds that meet at a lock or at a file, with a third that makes a
\* queue; a kind appears twice where two of it can collide.
MCSetups ==
    {Setup("exchange", "load_kernel", "append_snapshot", OnPath),
     Setup("exchange", "put", "load_kernel", InMemory),
     Setup("load_kernel", "load_kernel", "query_orbits", InMemory),
     Setup("put", "save_ledger", "load_ledger", OnPath),
     Setup("put", "save_ledger", "load_ledger", OnUrl),
     Setup("put", "save_ledger", "import_names", OnPath),
     Setup("put", "export_names", "import_topology", OnUrl),
     Setup("save_ledger", "save_ledger", "put", OnPath)}
=============================================================================
