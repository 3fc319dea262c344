------------------------------- MODULE Server -------------------------------
(***************************************************************************)
(* The Flight server: calls that run in parallel, each a sequence of steps *)
(* between which it holds nothing, or a read lock, or a write lock, on the *)
(* ledger and on the almanac; the files they save and load; and the life   *)
(* of the process around them (start, SIGTERM, drain, save, crash).        *)
(*                                                                         *)
(* A ledger is reduced to what the server's own steps can get wrong: which *)
(* batches it holds (`rows`, each addition a token <<call, number>>), which*)
(* imports (`names`, `peers`), and the memory limit it was given.  What a  *)
(* ledger does with them is the subject of Ledger; here it may accept or   *)
(* refuse any batch.                                                       *)
(***************************************************************************)
EXTENDS Integers, FiniteSets

CONSTANTS
    Call,           \* the calls clients may make, each made once
    Main,           \* the server's own task, which saves on shutdown
    Setups,         \* the kinds the calls may be of, with what the server is started with
    None,           \* Option::None, and no holder
    Torn,           \* an IPC file truncated and not written to its end
    MaxBatches,     \* bound: batches per stream
    MaxStarts       \* bound: how often the server is started

Proc == Call \cup {Main}

\* list_actions
Actions == {"export_topology", "import_topology", "save_ledger", "load_ledger", "load_kernel",
            "append_snapshot", "query_orbits", "export_names", "import_names"}

\* do_put, do_get or get_schema, do_exchange, an action, and persist_ledger on shutdown.  The
\* other methods of the protocol are answered as unimplemented.
Kinds == {"put", "get", "exchange"} \cup Actions \cup {"persist"}

Locks == {"ledger", "almanac"}
Token == Call \X (1..MaxBatches)

\* [storage] of config.toml: where the ledger lives, its limit, whether rows have ids.
Config == [store : {"path", "url", "none"}, limit : {None, "limit"}, hasId : BOOLEAN]

ASSUME ServerAssumption ==
    /\ Main \notin Call /\ None \notin Proc /\ Torn # None
    /\ \A S \in (SUBSET Token) \cup (SUBSET Call) : S # None /\ S # Torn
    /\ Setups \subseteq [kinds : [Call -> Kinds \ {"persist"}], config : Config]
    /\ MaxBatches \in Nat \ {0} /\ MaxStarts \in Nat

VARIABLES
    phase,      \* of the process: "down", "running", "draining" or "stopped"
    starts,     \* how often it was started
    config,     \* what it is started with; never changes
    kind,       \* of each call
    at,         \* where each call is: the lock it waits for, or a step's name
    count,      \* how many batches of its stream a call has been through
    carry,      \* what a call has read and still uses after giving up a lock
    lock,       \* the two RwLocks
    ledger,     \* the ledger being served, behind its lock
    almanac,    \* the kernels in the almanac, behind its lock
    limit,      \* ServerState::memory_limit, fixed at the start
    file,       \* the ledger's file and the names file beside it
    blob,       \* the object at the ledger's url
    saved       \* history: every set of rows that was saved whole

processVars == <<phase, starts, config, limit>>
callVars == <<kind, at, count, carry>>
storeVars == <<file, blob, saved>>
vars == <<phase, starts, config, kind, at, count, carry, lock, ledger, almanac, limit,
          file, blob, saved>>

Free == [readers |-> {}, writer |-> None, waiting |-> {}, poisoned |-> FALSE]
Empty == [rows |-> {}, names |-> {}, peers |-> {}, limit |-> None]

Ended == {"done", "failed", "lost"}
InFlight(p) == at[p] \notin Ended \cup {"idle"}

-----------------------------------------------------------------------------
(* std::sync::RwLock.  A writer that waits keeps new readers out. *)

Writes(p, l) ==
    \/ l = "ledger" /\ kind[p] \in {"put", "append_snapshot", "load_ledger", "import_names", "import_topology"}
    \/ l = "almanac" /\ kind[p] = "load_kernel"

\* What a call does once it has the lock it waited for.
Inside(p, l) ==
    CASE l = "almanac" -> IF kind[p] = "exchange" THEN "ledger"
                          ELSE IF kind[p] = "load_kernel" THEN "installing" ELSE "computing"
      [] l = "ledger" -> CASE kind[p] = "exchange" -> "transforming"
                           [] kind[p] \in {"put", "append_snapshot"} -> "appending"
                           [] kind[p] \in {"import_names", "import_topology"} -> "importing"
                           [] kind[p] = "load_ledger" -> "swapping"
                           [] kind[p] = "persist" /\ config.store = "url" -> "serializing"
                           [] kind[p] \in {"save_ledger", "persist"} -> "saving"
                           [] kind[p] \in {"get", "export_topology", "export_names"} -> "reading"

MayRead(l) == lock[l].writer = None /\ lock[l].waiting = {}
MayWrite(p, l) == p \in lock[l].waiting /\ lock[l].writer = None /\ lock[l].readers = {}
MayEnter(p, l) == IF Writes(p, l) THEN MayWrite(p, l) ELSE MayRead(l)

\* Every guard of p goes out of scope.
Released(p) ==
    [l \in Locks |-> [lock[l] EXCEPT !.readers = @ \ {p}, !.waiting = @ \ {p},
                                     !.writer = IF @ = p THEN None ELSE @]]

Goto(p, where) == at' = [at EXCEPT ![p] = where]

\* The handler returns or gives up a guard: no lock stays with it.
Leave(p, where) == Goto(p, where) /\ lock' = Released(p)

\* A writer that finds the lock taken is queued.
Queue(p, l) ==
    /\ at[p] = l
    /\ Writes(p, l) /\ p \notin lock[l].waiting
    /\ lock' = [lock EXCEPT ![l].waiting = @ \cup {p}]
    /\ UNCHANGED <<callVars, processVars, storeVars, ledger, almanac>>

\* `read` and `write` of service.rs.  The almanac's guard is kept while an exchange
\* takes the ledger's; `carry` records the almanac it holds.
Enter(p, l) ==
    /\ at[p] = l
    /\ MayEnter(p, l) /\ ~lock[l].poisoned
    /\ Goto(p, Inside(p, l))
    /\ lock' = IF Writes(p, l)
               THEN [lock EXCEPT ![l].writer = p, ![l].waiting = @ \ {p}]
               ELSE [lock EXCEPT ![l].readers = @ \cup {p}]
    /\ carry' = IF l = "almanac" THEN [carry EXCEPT ![p] = almanac] ELSE carry
    /\ UNCHANGED <<kind, count, processVars, storeVars, ledger, almanac>>

\* A poisoned lock is an internal error, and on shutdown no save.
EnterPoisoned(p, l) ==
    /\ at[p] = l
    /\ MayEnter(p, l) /\ lock[l].poisoned
    /\ Leave(p, "failed")
    /\ UNCHANGED <<kind, count, carry, processVars, storeVars, ledger, almanac>>

-----------------------------------------------------------------------------
(* The handlers. *)

FirstStep(k) ==
    CASE k \in {"put", "exchange"} -> "receiving"
      [] k \in {"get", "save_ledger"} -> "ledger"
      [] k \in {"import_names", "import_topology", "export_names", "export_topology"} -> "ledger"
      [] k \in {"append_snapshot", "query_orbits"} -> "almanac"
      [] k = "load_kernel" -> "downloading"
      [] k = "load_ledger" -> "opening"

\* A request arrives.  One that does not parse is answered with no step.
Begin(c) ==
    /\ phase = "running" /\ at[c] = "idle"
    /\ Goto(c, FirstStep(kind[c]))
    /\ UNCHANGED <<kind, count, carry, lock, processVars, storeVars, ledger, almanac>>

\* The client's turn in do_put and do_exchange: a batch, the end of the stream, or
\* something that cannot be decoded (in the first message: a missing descriptor).
Receive(c) ==
    /\ at[c] = "receiving"
    /\ \/ /\ count[c] < MaxBatches
          /\ Goto(c, IF kind[c] = "put" THEN "ledger" ELSE "almanac")
       \/ Goto(c, "done")
       \/ Goto(c, "failed")
    /\ UNCHANGED <<kind, count, carry, lock, processVars, storeVars, ledger, almanac>>

\* Bug: the write lock is taken once for the stream, and kept while the client is awaited.
AppendHolding(c) ==
    /\ at[c] = "appending"
    /\ \/ /\ ledger' = [ledger EXCEPT !.rows = @ \cup {<<c, count[c] + 1>>}]
          /\ count' = [count EXCEPT ![c] = @ + 1]
          /\ IF kind[c] = "put" THEN Goto(c, "receiving") /\ UNCHANGED lock ELSE Leave(c, "done")
       \/ Leave(c, "failed") /\ UNCHANGED <<ledger, count>>
    /\ UNCHANGED <<kind, carry, processVars, storeVars, almanac>>

\* Ledger::append under the write lock of do_put and append_snapshot.
Append(c) ==
    /\ at[c] = "appending"
    /\ \/ /\ ledger' = [ledger EXCEPT !.rows = @ \cup {<<c, count[c] + 1>>}]
          /\ count' = [count EXCEPT ![c] = @ + 1]
          /\ Leave(c, IF kind[c] = "put" THEN "receiving" ELSE "done")
       \/ Leave(c, "failed") /\ UNCHANGED <<ledger, count>>
    /\ UNCHANGED <<kind, carry, processVars, storeVars, almanac>>

\* import_topology and import_names under the write lock.
Import(c) ==
    /\ at[c] = "importing"
    /\ \/ /\ kind[c] = "import_names"
          /\ ledger' = [ledger EXCEPT !.names = @ \cup {c}]
          /\ Leave(c, "done")
       \/ /\ kind[c] = "import_topology"
          /\ ledger' = [ledger EXCEPT !.peers = @ \cup {c}]
          /\ Leave(c, "done")
       \/ Leave(c, "failed") /\ UNCHANGED ledger
    /\ UNCHANGED <<kind, count, carry, processVars, storeVars, almanac>>

\* do_get, get_schema and the exports: the whole query under one read lock.
Read(c) ==
    /\ at[c] = "reading"
    /\ carry' = [carry EXCEPT ![c] = ledger]
    /\ Leave(c, "done")
    /\ UNCHANGED <<kind, count, processVars, storeVars, ledger, almanac>>

\* transform_with_ledger_frames, both guards held; then the next batch.
Transform(c) ==
    /\ at[c] = "transforming"
    /\ \/ Leave(c, "receiving")
       \/ Leave(c, "failed")
    /\ count' = [count EXCEPT ![c] = @ + 1]
    /\ UNCHANGED <<kind, carry, processVars, storeVars, ledger, almanac>>

\* Bug: append_snapshot keeps the almanac's guard while it waits for the ledger.
ComputeKeeping(c) ==
    /\ at[c] = "computing"
    /\ \/ IF kind[c] = "append_snapshot" THEN Goto(c, "ledger") /\ UNCHANGED lock ELSE Leave(c, "done")
       \/ Leave(c, "failed")
    /\ UNCHANGED <<kind, count, carry, processVars, storeVars, ledger, almanac>>

\* celestial_snapshot and celestial_orbits under the almanac's read lock.  A snapshot
\* gives that lock up and goes on to append what it computed.
Compute(c) ==
    /\ at[c] = "computing"
    /\ \/ Leave(c, IF kind[c] = "append_snapshot" THEN "ledger" ELSE "done")
       \/ Leave(c, "failed")
    /\ UNCHANGED <<kind, count, carry, processVars, storeVars, ledger, almanac>>

\* load_kernel's download, on the blocking pool and under no lock.
Download(c) ==
    /\ at[c] = "downloading"
    /\ \/ Goto(c, "almanac")
       \/ Goto(c, "failed")
    /\ UNCHANGED <<kind, count, carry, lock, processVars, storeVars, ledger, almanac>>

\* Bug: the kernel is loaded into a fresh almanac, as load_almanac does on startup.
InstallAlone(c) ==
    /\ at[c] = "installing"
    /\ \/ almanac' = {c} /\ Leave(c, "done")
       \/ Leave(c, "failed") /\ UNCHANGED almanac
    /\ UNCHANGED <<kind, count, carry, processVars, storeVars, ledger>>

\* load_kernel under the write lock: clone, load into the clone, swap.
Install(c) ==
    /\ at[c] = "installing"
    /\ \/ almanac' = almanac \cup {c} /\ Leave(c, "done")
       \/ Leave(c, "failed") /\ UNCHANGED almanac
    /\ UNCHANGED <<kind, count, carry, processVars, storeVars, ledger>>

\* A panic under a write lock poisons it.
Panic(c) ==
    /\ at[c] \in {"appending", "importing", "installing"}
    /\ Goto(c, "failed")
    /\ lock' = [l \in Locks |-> [Released(c)[l] EXCEPT !.poisoned = @ \/ lock[l].writer = c]]
    /\ UNCHANGED <<kind, count, carry, processVars, storeVars, ledger, almanac>>

-----------------------------------------------------------------------------
(* Saving: save_ipc under the ledger's read lock, by save_ledger and, on    *)
(* shutdown, by persist_ledger.  File::create truncates before it writes.   *)

Savers(step) == {p \in Proc : at[p] = step}

\* Bug: the guard is dropped before the files are written.
OpenRowsUnlocked(p) ==
    /\ at[p] = "saving"
    /\ IF ledger.rows = {} THEN Leave(p, "failed") /\ UNCHANGED file
       ELSE Leave(p, "writing") /\ file' = [file EXCEPT !.rows = Torn]
    /\ UNCHANGED <<kind, count, carry, processVars, blob, saved, ledger, almanac>>

\* save_ipc refuses an empty ledger.
OpenRows(p) ==
    /\ at[p] = "saving"
    /\ IF ledger.rows = {} THEN Leave(p, "failed") /\ UNCHANGED file
       ELSE Goto(p, "writing") /\ file' = [file EXCEPT !.rows = Torn] /\ UNCHANGED lock
    /\ UNCHANGED <<kind, count, carry, processVars, blob, saved, ledger, almanac>>

\* What a write leaves while `others` rewrite the same file from its start: its own
\* content, or a hole that they have yet to fill.
Written(content, others) == IF others = {} THEN {content} ELSE {content, Torn}

WriteRows(p) ==
    /\ at[p] = "writing"
    /\ \/ /\ \E content \in Written(ledger.rows, Savers("writing") \ {p}) :
                /\ file' = [file EXCEPT !.rows = content]
                /\ saved' = IF content = Torn THEN saved ELSE saved \cup {content}
          /\ Goto(p, "naming") /\ UNCHANGED lock
       \/ Leave(p, "failed") /\ UNCHANGED <<file, saved>>
    /\ UNCHANGED <<kind, count, carry, processVars, blob, ledger, almanac>>

OpenNames(p) ==
    /\ at[p] = "naming"
    /\ Goto(p, "finishing")
    /\ file' = [file EXCEPT !.names = Torn]
    /\ UNCHANGED <<kind, count, carry, lock, processVars, blob, saved, ledger, almanac>>

WriteNames(p) ==
    /\ at[p] = "finishing"
    /\ \/ /\ \E content \in Written(ledger.names, Savers("finishing") \ {p}) :
                file' = [file EXCEPT !.names = content]
          /\ Leave(p, "done")
       \/ Leave(p, "failed") /\ UNCHANGED file
    /\ UNCHANGED <<kind, count, carry, processVars, blob, saved, ledger, almanac>>

\* save_ipc_to_bytes: the rows without the names, and nothing of an empty ledger.
SaveIpcToBytes == IF ledger.rows = {} THEN {} ELSE {ledger.rows}

\* persist_ledger to an object store: serialized under the lock, uploaded after it.
Serialize ==
    /\ at[Main] = "serializing"
    /\ \/ SaveIpcToBytes = {} /\ Leave(Main, "failed") /\ UNCHANGED carry
       \/ \E bytes \in SaveIpcToBytes :
             carry' = [carry EXCEPT ![Main] = bytes] /\ Leave(Main, "uploading")
    /\ UNCHANGED <<kind, count, processVars, storeVars, ledger, almanac>>

Upload ==
    /\ at[Main] = "uploading"
    /\ \/ /\ Goto(Main, "done")
          /\ blob' = carry[Main]
          /\ saved' = saved \cup {carry[Main]}
       \/ Goto(Main, "failed") /\ UNCHANGED <<blob, saved>>
    /\ UNCHANGED <<kind, count, carry, lock, processVars, file, ledger, almanac>>

-----------------------------------------------------------------------------
(* Loading. *)

\* Ledger::set_memory_limit refuses a limit when there is no id column.
LimitRefused(lim) == lim # None /\ ~config.hasId

\* Bug: the replaced ledger starts without a limit, as a loaded ledger does.
LoadedUnlimited(p) == [rows |-> carry[p].rows, names |-> carry[p].names, peers |-> {}, limit |-> None]

\* load_ledger reads both files before it takes the lock.
OpenSaved(c) ==
    /\ at[c] = "opening"
    /\ IF file.rows \in {None, Torn} THEN Goto(c, "failed") /\ UNCHANGED carry
       ELSE Goto(c, "reading_names") /\ carry' = [carry EXCEPT ![c] = [rows |-> file.rows, names |-> {}]]
    /\ UNCHANGED <<kind, count, lock, processVars, storeVars, ledger, almanac>>

\* A names file that is missing is no error; one that does not parse is.
OpenSavedNames(c) ==
    /\ at[c] = "reading_names"
    /\ IF file.names = Torn \/ LimitRefused(limit) THEN Goto(c, "failed") /\ UNCHANGED carry
       ELSE /\ Goto(c, "ledger")
            /\ carry' = IF file.names = None THEN carry ELSE [carry EXCEPT ![c].names = file.names]
    /\ UNCHANGED <<kind, count, lock, processVars, storeVars, ledger, almanac>>

LoadedLedger(p) == [rows |-> carry[p].rows, names |-> carry[p].names, peers |-> {}, limit |-> limit]

Swap(c) ==
    /\ at[c] = "swapping"
    /\ ledger' = LoadedLedger(c)
    /\ Leave(c, "done")
    /\ UNCHANGED <<kind, count, carry, processVars, storeVars, almanac>>

-----------------------------------------------------------------------------
(* The process.  Starting again loads what the last save left, or nothing. *)

LoadIpcFromBytes(bytes) == [rows |-> bytes, names |-> {}]
Failure == [rows |-> {}, names |-> {}]

\* object_store_download: the object, or a failure, also where there is one.
ObjectStoreDownload == {Failure} \cup {LoadIpcFromBytes(bytes) : bytes \in {blob} \ {None}}

\* load_ipc of the configured path
LoadIpc ==
    IF file.rows \in {None, Torn} \/ file.names = Torn THEN {Failure}
    ELSE {[rows |-> file.rows, names |-> IF file.names = None THEN {} ELSE file.names]}

\* ServerState::new.  A ledger that cannot be loaded is replaced by an empty one, with
\* a warning.  A refused limit is dropped.
Stored ==
    CASE config.store = "url" -> ObjectStoreDownload
      [] config.store = "path" -> LoadIpc
      [] config.store = "none" -> {Failure}

EffectiveLimit == IF LimitRefused(config.limit) THEN None ELSE config.limit

Start ==
    /\ phase \in {"down", "stopped"} /\ starts < MaxStarts
    /\ phase' = "running"
    /\ starts' = starts + 1
    /\ limit' = EffectiveLimit
    /\ \E s \in Stored :
          ledger' = [rows |-> s.rows, names |-> s.names, peers |-> {}, limit |-> EffectiveLimit]
    /\ almanac' = {}
    /\ lock' = [l \in Locks |-> Free]
    /\ at' = [at EXCEPT ![Main] = "idle"]
    /\ UNCHANGED <<config, kind, count, carry, storeVars>>

\* serve_with_shutdown: no new calls; those under way go on.
Sigterm ==
    /\ phase = "running"
    /\ phase' = "draining"
    /\ UNCHANGED <<starts, config, limit, callVars, lock, storeVars, ledger, almanac>>

\* Bug: the ledger is saved on SIGTERM, and not after the drain.
PersistAtOnce ==
    /\ phase = "draining" /\ at[Main] = "idle"
    /\ Goto(Main, IF config.store = "none" THEN "done" ELSE "ledger")
    /\ UNCHANGED <<kind, count, carry, lock, processVars, storeVars, ledger, almanac>>

\* All calls have ended: persist_ledger, if there is a url or a path.
Persist ==
    /\ phase = "draining" /\ at[Main] = "idle"
    /\ \A c \in Call : ~InFlight(c)
    /\ Goto(Main, IF config.store = "none" THEN "done" ELSE "ledger")
    /\ UNCHANGED <<kind, count, carry, lock, processVars, storeVars, ledger, almanac>>

\* Bug: the server only stops once its ledger is saved.
StopOnceSaved ==
    /\ phase = "draining" /\ at[Main] = "done"
    /\ phase' = "stopped"
    /\ UNCHANGED <<starts, config, limit, callVars, lock, storeVars, ledger, almanac>>

Stop ==
    /\ phase = "draining" /\ at[Main] \in Ended
    /\ phase' = "stopped"
    /\ UNCHANGED <<starts, config, limit, callVars, lock, storeVars, ledger, almanac>>

\* The process dies: what was in memory is gone, and the calls it was serving.
Crash ==
    /\ phase \in {"running", "draining"}
    /\ phase' = "down"
    /\ at' = [p \in Proc |-> IF InFlight(p) THEN "lost" ELSE at[p]]
    /\ lock' = [l \in Locks |-> Free]
    /\ ledger' = Empty
    /\ almanac' = {}
    /\ UNCHANGED <<starts, config, limit, kind, count, carry, storeVars>>

Init ==
    /\ phase = "down" /\ starts = 0
    /\ \E setup \in Setups :
          /\ config = setup.config
          /\ kind = [p \in Proc |-> IF p = Main THEN "persist" ELSE setup.kinds[p]]
    /\ at = [p \in Proc |-> "idle"]
    /\ count = [p \in Proc |-> 0]
    /\ carry = [p \in Proc |-> None]
    /\ lock = [l \in Locks |-> Free]
    /\ ledger = Empty
    /\ almanac = {}
    /\ limit = None
    /\ file = [rows |-> None, names |-> None]
    /\ blob = None
    /\ saved = {}

\* The steps of a call that the server takes on its own.
ServerStep(p) ==
    \/ \E l \in Locks : Queue(p, l) \/ Enter(p, l) \/ EnterPoisoned(p, l)
    \/ Append(p) \/ Import(p) \/ Read(p) \/ Transform(p) \/ Compute(p)
    \/ Download(p) \/ Install(p)
    \/ OpenRows(p) \/ WriteRows(p) \/ OpenNames(p) \/ WriteNames(p)
    \/ OpenSaved(p) \/ OpenSavedNames(p) \/ Swap(p)

MainStep == Persist \/ Serialize \/ Upload \/ Stop

Next ==
    \/ \E p \in Proc : ServerStep(p)
    \/ \E c \in Call : Begin(c) \/ Receive(c) \/ Panic(c)
    \/ MainStep
    \/ Start \/ Sigterm \/ Crash

\* Every call and the main task are run by the executor; the clients, the operator
\* and the faults owe nothing.
Fairness ==
    /\ \A p \in Proc : WF_vars(ServerStep(p))
    /\ WF_vars(MainStep)

Spec == Init /\ [][Next]_vars /\ Fairness

-----------------------------------------------------------------------------
(* Properties. *)

\* Nothing the locks, threads, files, crashes and restarts do shows: batches are added
\* one by one, no kernel that was installed is lost to a concurrent load_kernel, and a
\* load or a start serves what some save wrote whole, never a torn file.
Promise == INSTANCE LedgerService WITH
    Kernel <- Call, rows <- ledger.rows, kernels <- almanac
IsLedgerService == Promise!Spec

\* A reload never lifts the memory limit, nor re-applies one that was refused:
\* load_ledger builds a new ledger, that only knows the limit it is told.
LimitStaysInForce == phase = "running" => ledger.limit = EffectiveLimit

\* An orderly shutdown whose save succeeded loses neither rows nor names of a ledger
\* kept in a file: the next start serves the ledger that was drained.
OrderlyRestart ==
    phase = "stopped" /\ phase' = "running" /\ config.store = "path" /\ at[Main] = "done"
        => ledger'.rows = ledger.rows /\ ledger'.names = ledger.names
OrderlyRestartKeepsLedger == [][OrderlyRestart]_vars

\* What p holds where it is.
Holds(p) ==
    /\ at[p] \in {"appending", "importing", "swapping"} => lock["ledger"].writer = p
    /\ at[p] \in {"reading", "transforming", "serializing", "saving", "writing", "naming", "finishing"}
         => p \in lock["ledger"].readers
    /\ at[p] = "installing" => lock["almanac"].writer = p
    /\ at[p] \in {"computing", "transforming"} => p \in lock["almanac"].readers
    /\ at[p] = "transforming" => carry[p] = almanac
    /\ at[p] \in Ended \cup {"idle", "receiving", "downloading", "opening", "reading_names", "uploading"}
       \/ (at[p] = "ledger" /\ Writes(p, "ledger"))
         => \A l \in Locks : p # lock[l].writer /\ p \notin lock[l].readers

\* A guard never outlives the step that needs it: a call that waits for its client, for
\* a download, for an upload or for the ledger's write lock holds no lock, and one that
\* reads or changes the ledger or the almanac holds the lock that the access needs.  So
\* the almanac whose guard an exchange took first is still the current one when its batch
\* is transformed.
HoldsWhatItUses == \A p \in Proc : Holds(p)

\* No call waits for ever for a lock: whatever the mix of readers, writers, panics and
\* the shutdown, a call ends or waits for its own client.
CallsEnd ==
    \A p \in Proc : InFlight(p) ~> (~InFlight(p) \/ at[p] = "receiving")

\* After a SIGTERM the server stops, unless some client keeps its stream open: nothing
\* the server does keeps it from draining, and a save that fails does not either.
DrainEnds ==
    phase = "draining" ~> (phase # "draining" \/ \E c \in Call : at[c] = "receiving")

\* What a save writes is one ledger, with rows, that no writer left half-changed: while it is
\* under way no call changes the ledger (so rows and names belong together), a poisoned
\* ledger never reaches the disk or the object store, and the empty ledger that a failed
\* load leaves behind never replaces what could not be read.
SoundSave ==
    /\ Savers("writing") \cup Savers("naming") \cup Savers("finishing") # {}
          => ledger' = ledger \/ phase' = "down"
    /\ lock["ledger"].poisoned => file' = file /\ blob' = blob
    /\ {} \notin {file'.rows, blob'}
SavesAreSound == [][SoundSave]_vars
=============================================================================
