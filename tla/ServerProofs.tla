----------------------------- MODULE ServerProofs -----------------------------
(***************************************************************************)
(* Theorems about Server, for every set of calls of any kinds, every bound *)
(* on batches and starts, and every configuration: the locks are held as   *)
(* the accesses need, and so the server keeps LedgerService's promise.     *)
(***************************************************************************)
EXTENDS Server, TLAPS

-----------------------------------------------------------------------------
(* The inductive invariant. *)

Steps == {"idle", "receiving", "ledger", "almanac", "appending", "importing", "reading",
          "transforming", "computing", "downloading", "installing", "saving", "writing",
          "naming", "finishing", "serializing", "uploading", "opening", "reading_names",
          "swapping"} \cup Ended

Ledgers == [rows : SUBSET Token, names : SUBSET Call, peers : SUBSET Call, limit : {None, "limit"}]
RwLock == [readers : SUBSET Proc, writer : Proc \cup {None}, waiting : SUBSET Proc, poisoned : BOOLEAN]

TypeOK ==
    /\ phase \in {"down", "running", "draining", "stopped"}
    /\ starts \in 0..MaxStarts
    /\ config \in Config
    /\ kind \in [Proc -> Kinds]
    /\ at \in [Proc -> Steps]
    /\ count \in [Proc -> 0..MaxBatches]
    /\ carry = [p \in Proc |-> carry[p]]
    /\ lock \in [Locks -> RwLock]
    /\ ledger \in Ledgers
    /\ almanac \in SUBSET Call
    /\ limit \in {None, "limit"}
    /\ file \in [rows : (SUBSET Token) \cup {None, Torn}, names : (SUBSET Call) \cup {None, Torn}]
    /\ blob \in (SUBSET Token) \cup {None}
    /\ saved \in SUBSET SUBSET Token

\* The kinds of calls that come to a step.
Route(p) ==
    /\ kind[p] = "persist" <=> p = Main
    /\ at[p] = "receiving" => kind[p] \in {"put", "exchange"}
    /\ at[p] = "appending" => kind[p] \in {"put", "append_snapshot"}
    /\ at[p] = "reading" => kind[p] \in {"get", "export_topology", "export_names"}
    /\ at[p] = "importing" => kind[p] \in {"import_names", "import_topology"}
    /\ at[p] = "transforming" => kind[p] = "exchange"
    /\ at[p] = "computing" => kind[p] \in {"append_snapshot", "query_orbits"}
    /\ at[p] \in {"downloading", "installing"} => kind[p] = "load_kernel"
    /\ at[p] \in {"opening", "reading_names", "swapping"} => kind[p] = "load_ledger"
    /\ at[p] \in {"saving", "writing", "naming", "finishing"} => kind[p] \in {"save_ledger", "persist"}
    /\ at[p] \in {"serializing", "uploading"} => p = Main /\ config.store = "url"
    /\ at[p] = "almanac" => kind[p] \in {"exchange", "load_kernel", "append_snapshot", "query_orbits"}
    /\ at[p] = "ledger" => kind[p] \notin {"load_kernel", "query_orbits"}

\* A stream has room for the batch that a call is about to count.
Room(p) ==
    /\ at[p] \in {"almanac", "ledger", "appending", "transforming"} /\ kind[p] \in {"put", "exchange"}
         => count[p] < MaxBatches
    /\ kind[p] = "append_snapshot" /\ at[p] \notin Ended => count[p] = 0

RouteOK == \A p \in Proc : Route(p) /\ Room(p)

\* A writer is alone.
Exclusive == \A l \in Locks : lock[l].writer # None => lock[l].readers = {}

\* HoldsWhatItUses, and what makes it inductive: an exchange has the almanac's guard, and
\* the almanac it read, before it takes the ledger's.
LocksOK ==
    /\ Exclusive
    /\ HoldsWhatItUses
    /\ \A p \in Proc : at[p] = "ledger" /\ kind[p] = "exchange" =>
          p \in lock["almanac"].readers /\ carry[p] = almanac

\* The main task saves alone, and a process that is down or stopped serves nobody.
PhasesOK ==
    /\ phase = "running" => at[Main] = "idle"
    /\ at[Main] # "idle" => \A c \in Call : ~InFlight(c)
    /\ phase \in {"down", "stopped"} => \A p \in Proc : ~InFlight(p)

\* Who is about to write the ledger somewhere.
Persisting == {"saving", "writing", "naming", "finishing", "serializing", "uploading"}

\* Every row is a batch that its call has counted; whatever was saved has rows, and files
\* hold what was saved.
HistoryOK ==
    /\ \A t \in ledger.rows : t[2] <= count[t[1]]
    /\ \A S \in saved : S # {} /\ \A t \in S : t[2] <= count[t[1]]
    /\ file.rows \in saved \cup {None, Torn}
    /\ blob \in saved \cup {None}

\* What p knows of the ledger and of the files.  A poisoned ledger is not written.
Knows(p) ==
    /\ at[p] \in {"writing", "naming", "finishing"} => ledger.rows # {}
    /\ at[p] = "reading_names" \/ (at[p] \in {"ledger", "swapping"} /\ kind[p] = "load_ledger")
          => carry[p] \in [rows : saved, names : SUBSET Call]
    /\ at[p] = "uploading" => carry[p] = ledger.rows /\ ledger.rows # {}
    /\ at[p] \in Persisting => ~lock["ledger"].poisoned

StoresOK == HistoryOK /\ \A p \in Proc : Knows(p)

\* The limit in force since the start.
LimitOK == phase # "down" => limit = EffectiveLimit /\ ledger.limit = EffectiveLimit

\* What the main task has written of a ledger kept in a file.
PersistedOK ==
    config.store = "path" /\ phase # "down" =>
        /\ at[Main] \in {"naming", "finishing", "done"} => file.rows = ledger.rows
        /\ at[Main] = "done" => file.names = ledger.names

IInv == TypeOK /\ RouteOK /\ LocksOK /\ PhasesOK /\ StoresOK /\ LimitOK /\ PersistedOK

-----------------------------------------------------------------------------
(* A step of one call leaves the others where they are, with what they hold. *)

StepOf(p) ==
    /\ UNCHANGED <<kind, config>>
    /\ \A q \in Proc \ {p} : at'[q] = at[q] /\ count'[q] = count[q] /\ carry'[q] = carry[q]
    /\ \A q \in Proc \ {p} : \A l \in Locks :
          /\ q \in lock'[l].readers <=> q \in lock[l].readers
          /\ q = lock'[l].writer <=> q = lock[l].writer

\* The steps that belong to one call, or to the main task.
CallStep(p) ==
    \/ ServerStep(p)
    \/ p \in Call /\ (Begin(p) \/ Receive(p) \/ Panic(p))
    \/ p = Main /\ (Persist \/ Serialize \/ Upload)

\* Giving up every guard is a step of its holder.
LEMMA ReleasedIsLocal ==
    ASSUME TypeOK, NEW p \in Proc
    PROVE  /\ Released(p) \in [Locks -> RwLock]
           /\ \A l \in Locks : /\ p \notin Released(p)[l].readers
                               /\ p # Released(p)[l].writer
                               /\ Released(p)[l].poisoned = lock[l].poisoned
                               /\ Released(p)[l].readers \subseteq lock[l].readers
                               /\ Released(p)[l].writer \in {lock[l].writer, None}
           /\ \A q \in Proc \ {p} : \A l \in Locks :
                 /\ q \in Released(p)[l].readers <=> q \in lock[l].readers
                 /\ q = Released(p)[l].writer <=> q = lock[l].writer
<1>1. None \notin Proc
  BY ServerAssumption
<1>2. ASSUME NEW l \in Locks
      PROVE  /\ Released(p)[l] \in RwLock
             /\ Released(p)[l].readers = lock[l].readers \ {p}
             /\ Released(p)[l].writer = IF lock[l].writer = p THEN None ELSE lock[l].writer
             /\ Released(p)[l].poisoned = lock[l].poisoned
  <2>1. lock[l] \in RwLock
    BY <1>2 DEF TypeOK
  <2>2. Released(p)[l] = [lock[l] EXCEPT !.readers = @ \ {p}, !.waiting = @ \ {p},
                                         !.writer = IF @ = p THEN None ELSE @]
    BY <1>2 DEF Released
  <2> QED
    BY <2>1, <2>2 DEF RwLock
<1>3. Released(p) \in [Locks -> RwLock]
  BY <1>2 DEF Released
<1>4. ASSUME NEW l \in Locks
      PROVE  /\ p \notin Released(p)[l].readers
             /\ p # Released(p)[l].writer
             /\ Released(p)[l].readers \subseteq lock[l].readers
             /\ Released(p)[l].writer \in {lock[l].writer, None}
             /\ \A q \in Proc \ {p} : /\ q \in Released(p)[l].readers <=> q \in lock[l].readers
                                      /\ q = Released(p)[l].writer <=> q = lock[l].writer
  BY <1>1, <1>2, <1>4
<1> QED
  BY <1>2, <1>3, <1>4

\* Taking a lock is a step of the one who takes it.
LEMMA EnterIsLocal ==
    ASSUME TypeOK, NEW p \in Proc, NEW l \in Locks, Enter(p, l)
    PROVE  StepOf(p)
BY ServerAssumption DEF TypeOK, RwLock, Enter, Goto, StepOf, MayEnter, MayRead, MayWrite, processVars

LEMMA CallStepIsLocal ==
    ASSUME TypeOK, NEW p \in Proc, CallStep(p)
    PROVE  StepOf(p)
<1>1. CASE \E l \in Locks : Queue(p, l)
  BY <1>1 DEF TypeOK, RwLock, Queue, StepOf, callVars, processVars
<1>2. CASE \E l \in Locks : Enter(p, l)
  BY <1>2, EnterIsLocal
<1>3. CASE \E l \in Locks : EnterPoisoned(p, l)
  BY <1>3, ReleasedIsLocal DEF TypeOK, EnterPoisoned, Leave, Goto, StepOf, processVars
<1>4. CASE Append(p) \/ Import(p) \/ Read(p)
  BY <1>4, ReleasedIsLocal DEF TypeOK, Append, Import, Read, Leave, Goto, StepOf, processVars
<1>5. CASE Transform(p) \/ Compute(p) \/ Install(p)
  BY <1>5, ReleasedIsLocal DEF TypeOK, Transform, Compute, Install, Leave, Goto, StepOf, processVars
<1>6. CASE Download(p) \/ OpenNames(p) \/ OpenSaved(p) \/ OpenSavedNames(p)
  BY <1>6 DEF TypeOK, Download, OpenNames, OpenSaved, OpenSavedNames, Goto, StepOf, processVars
<1>7. CASE OpenRows(p) \/ WriteRows(p) \/ WriteNames(p) \/ Swap(p)
  BY <1>7, ReleasedIsLocal DEF TypeOK, OpenRows, WriteRows, WriteNames, Swap, Leave, Goto, StepOf, processVars
<1>8. CASE Begin(p) \/ Receive(p)
  BY <1>8 DEF TypeOK, Begin, Receive, Goto, StepOf, processVars
<1>9. CASE Panic(p)
  <2>1. \A l \in Locks : /\ lock'[l].readers = Released(p)[l].readers
                         /\ lock'[l].writer = Released(p)[l].writer
    BY <1>9, ReleasedIsLocal DEF RwLock, Panic
  <2>2. /\ UNCHANGED <<kind, config>>
        /\ \A q \in Proc \ {p} : at'[q] = at[q] /\ count'[q] = count[q] /\ carry'[q] = carry[q]
    BY <1>9 DEF TypeOK, Panic, Goto, processVars
  <2>3. \A q \in Proc \ {p} : \A l \in Locks :
           /\ q \in lock'[l].readers <=> q \in lock[l].readers
           /\ q = lock'[l].writer <=> q = lock[l].writer
    BY <2>1, ReleasedIsLocal
  <2> QED
    BY <2>2, <2>3 DEF StepOf
<1>10. CASE p = Main /\ (Persist \/ Serialize \/ Upload)
  BY <1>10, ReleasedIsLocal DEF TypeOK, Persist, Serialize, Upload, Leave, Goto, StepOf, processVars
<1> QED
  BY <1>1, <1>2, <1>3, <1>4, <1>5, <1>6, <1>7, <1>8, <1>9, <1>10 DEF CallStep, ServerStep


-----------------------------------------------------------------------------
(* Types. *)

LEMMA GotoTyped ==
    ASSUME TypeOK, NEW p \in Proc, NEW s \in Steps, Goto(p, s)
    PROVE  at' \in [Proc -> Steps]
BY DEF TypeOK, Goto

LEMMA LeaveTyped ==
    ASSUME TypeOK, NEW p \in Proc, NEW s \in Steps, Leave(p, s)
    PROVE  at' \in [Proc -> Steps] /\ lock' \in [Locks -> RwLock]
BY GotoTyped, ReleasedIsLocal DEF Leave

\* Every name a step is given is one.
LEMMA StepNames ==
    {"receiving", "ledger", "almanac", "computing", "writing", "naming", "finishing", "uploading",
     "reading_names", "done", "failed", "lost", "idle", "saving", "downloading", "opening"} \subseteq Steps
BY DEF Steps, Ended

\* Every call counts no more batches than its stream may have.
LEMMA CountTyped ==
    ASSUME TypeOK, RouteOK, NEW p \in Proc, at[p] \in {"appending", "transforming"}
    PROVE  count[p] + 1 \in 1..MaxBatches /\ count[p] + 1 \in 0..MaxBatches /\ p \in Call
<1>1. count[p] \in 0..MaxBatches
  BY DEF TypeOK
<1>2. kind[p] \in {"put", "append_snapshot", "exchange"}
  BY DEF RouteOK, Route
<1>3. count[p] < MaxBatches
  <2>1. CASE kind[p] = "append_snapshot"
    BY <2>1, ServerAssumption DEF RouteOK, Room, Ended
  <2>2. CASE kind[p] # "append_snapshot"
    BY <1>2, <2>2 DEF RouteOK, Room
  <2> QED
    BY <2>1, <2>2
<1>4. p \in Call
  BY <1>2 DEF RouteOK, Route, Proc
<1> QED
  BY <1>1, <1>3, <1>4, ServerAssumption

LEMMA TypeStep ==
    ASSUME TypeOK, RouteOK, StoresOK, [Next]_vars
    PROVE  TypeOK'
<1> DEFINE File == [rows : (SUBSET Token) \cup {None, Torn}, names : (SUBSET Call) \cup {None, Torn}]
<1>a. \A p \in Proc : p # Main => p \in Call
  BY DEF Proc
<1>1. ASSUME NEW p \in Proc, NEW l \in Locks, Queue(p, l) PROVE TypeOK'
  BY <1>1 DEF TypeOK, Queue, RwLock, callVars, processVars, storeVars
<1>2. ASSUME NEW p \in Proc, NEW l \in Locks, Enter(p, l) PROVE TypeOK'
  <2>1. Inside(p, l) \in Steps
    BY <1>2 DEF TypeOK, Enter, Inside, RouteOK, Route, Locks, Steps, Kinds, Actions
  <2>2. at' \in [Proc -> Steps]
    BY <1>2, <2>1, GotoTyped DEF Enter
  <2>3. lock' \in [Locks -> RwLock]
    <3>1. lock[l] \in RwLock
      BY DEF TypeOK
    <3>2. lock' = [lock EXCEPT ![l] = lock'[l]] /\ lock'[l] \in RwLock
      <4>1. CASE Writes(p, l)
        BY <1>2, <3>1, <4>1 DEF TypeOK, Enter, RwLock
      <4>2. CASE ~Writes(p, l)
        BY <1>2, <3>1, <4>2 DEF TypeOK, Enter, RwLock
      <4> QED
        BY <4>1, <4>2
    <3> QED
      BY <3>2 DEF TypeOK
  <2> QED
    BY <1>2, <2>2, <2>3 DEF TypeOK, Enter, processVars, storeVars
<1>3. ASSUME NEW p \in Proc, NEW l \in Locks, EnterPoisoned(p, l) PROVE TypeOK'
  BY <1>3, LeaveTyped, StepNames DEF TypeOK, EnterPoisoned, processVars, storeVars
<1>4. ASSUME NEW p \in Proc, Append(p) PROVE TypeOK'
  <2>1. at' \in [Proc -> Steps] /\ lock' \in [Locks -> RwLock]
    BY <1>4, LeaveTyped, StepNames DEF Append
  <2>2. /\ count[p] + 1 \in 0..MaxBatches
        /\ <<p, count[p] + 1>> \in Token
    BY <1>4, CountTyped DEF Append, Token
  <2>3. ledger' \in Ledgers /\ count' \in [Proc -> 0..MaxBatches]
    BY <1>4, <2>2 DEF TypeOK, Append, Ledgers
  <2> QED
    BY <1>4, <2>1, <2>3 DEF TypeOK, Append, processVars, storeVars
<1>5. ASSUME NEW p \in Proc, Import(p) PROVE TypeOK'
  <2>1. p \in Call
    BY <1>5, <1>a DEF Import, RouteOK, Route
  <2>2. at' \in [Proc -> Steps] /\ lock' \in [Locks -> RwLock]
    BY <1>5, LeaveTyped, StepNames DEF Import
  <2>3. ledger' \in Ledgers
    BY <1>5, <2>1 DEF TypeOK, Import, Ledgers
  <2> QED
    BY <1>5, <2>2, <2>3 DEF TypeOK, Import, processVars, storeVars
<1>6. ASSUME NEW p \in Proc, Read(p) \/ Compute(p) PROVE TypeOK'
  <2>1. at' \in [Proc -> Steps] /\ lock' \in [Locks -> RwLock]
    BY <1>6, LeaveTyped, StepNames DEF Read, Compute
  <2> QED
    BY <1>6, <2>1 DEF TypeOK, Read, Compute, processVars, storeVars
<1>7. ASSUME NEW p \in Proc, Transform(p) PROVE TypeOK'
  <2>1. at' \in [Proc -> Steps] /\ lock' \in [Locks -> RwLock]
    BY <1>7, LeaveTyped, StepNames DEF Transform
  <2>2. count' \in [Proc -> 0..MaxBatches]
    BY <1>7, CountTyped DEF TypeOK, Transform
  <2> QED
    BY <1>7, <2>1, <2>2 DEF TypeOK, Transform, processVars, storeVars
<1>8. ASSUME NEW p \in Proc, Download(p) \/ Receive(p) \/ (p \in Call /\ Begin(p)) PROVE TypeOK'
  <2>1. at' \in [Proc -> Steps]
    <3>1. CASE Download(p) \/ Receive(p)
      BY <3>1, GotoTyped, StepNames DEF Download, Receive
    <3>2. CASE p \in Call /\ Begin(p)
      <4>1. kind[p] \in Kinds /\ kind[p] # "persist"
        BY <3>2, ServerAssumption DEF TypeOK, RouteOK, Route
      <4>2. FirstStep(kind[p]) \in Steps
        BY <4>1, StepNames DEF FirstStep, Kinds, Actions
      <4> QED
        BY <3>2, <4>2, GotoTyped DEF Begin
    <3> QED
      BY <1>8, <3>1, <3>2
  <2> QED
    BY <1>8, <2>1 DEF TypeOK, Download, Begin, Receive, processVars, storeVars
<1>9. ASSUME NEW p \in Proc, Install(p) PROVE TypeOK'
  <2>1. at' \in [Proc -> Steps] /\ lock' \in [Locks -> RwLock]
    BY <1>9, LeaveTyped, StepNames DEF Install
  <2>2. p \in Call
    BY <1>9, <1>a DEF Install, RouteOK, Route
  <2> QED
    BY <1>9, <2>1, <2>2 DEF TypeOK, Install, processVars, storeVars
<1>10. ASSUME NEW p \in Proc, OpenRows(p) \/ OpenNames(p) PROVE TypeOK'
  <2>1. at' \in [Proc -> Steps] /\ lock' \in [Locks -> RwLock]
    BY <1>10, LeaveTyped, GotoTyped, StepNames DEF TypeOK, OpenRows, OpenNames
  <2>2. file' \in File
    BY <1>10 DEF TypeOK, OpenRows, OpenNames
  <2> QED
    BY <1>10, <2>1, <2>2 DEF TypeOK, OpenRows, OpenNames, processVars
<1>11. ASSUME NEW p \in Proc, WriteRows(p) PROVE TypeOK'
  <2>1. at' \in [Proc -> Steps] /\ lock' \in [Locks -> RwLock]
    BY <1>11, LeaveTyped, GotoTyped, StepNames DEF TypeOK, WriteRows
  <2>2. file' \in File /\ saved' \in SUBSET SUBSET Token
    BY <1>11, ServerAssumption DEF TypeOK, WriteRows, Written, Ledgers
  <2> QED
    BY <1>11, <2>1, <2>2 DEF TypeOK, WriteRows, processVars
<1>12. ASSUME NEW p \in Proc, WriteNames(p) PROVE TypeOK'
  <2>1. at' \in [Proc -> Steps] /\ lock' \in [Locks -> RwLock]
    BY <1>12, LeaveTyped, StepNames DEF WriteNames
  <2>2. file' \in File
    BY <1>12 DEF TypeOK, WriteNames, Written, Ledgers
  <2> QED
    BY <1>12, <2>1, <2>2 DEF TypeOK, WriteNames, processVars
<1>13. ASSUME NEW p \in Proc, OpenSaved(p) \/ OpenSavedNames(p) PROVE TypeOK'
  <2>1. at' \in [Proc -> Steps]
    BY <1>13, GotoTyped, StepNames DEF OpenSaved, OpenSavedNames
  <2>2. carry' = [q \in Proc |-> carry'[q]]
    BY <1>13 DEF TypeOK, OpenSaved, OpenSavedNames
  <2> QED
    BY <1>13, <2>1, <2>2 DEF TypeOK, OpenSaved, OpenSavedNames, processVars, storeVars
<1>14. ASSUME NEW p \in Proc, Swap(p) PROVE TypeOK'
  <2>1. at' \in [Proc -> Steps] /\ lock' \in [Locks -> RwLock]
    BY <1>14, LeaveTyped, StepNames DEF Swap
  <2>2. carry[p] \in [rows : saved, names : SUBSET Call]
    BY <1>14 DEF Swap, StoresOK, Knows, RouteOK, Route
  <2>3. ledger' \in Ledgers
    BY <1>14, <2>2 DEF TypeOK, Swap, LoadedLedger, Ledgers
  <2> QED
    BY <1>14, <2>1, <2>3 DEF TypeOK, Swap, processVars, storeVars
<1>15. ASSUME NEW p \in Proc, Panic(p) PROVE TypeOK'
  <2>1. at' \in [Proc -> Steps]
    BY <1>15, GotoTyped, StepNames DEF Panic
  <2>2. lock' \in [Locks -> RwLock]
    <3>1. \A l \in Locks : Released(p)[l] \in RwLock
      BY ReleasedIsLocal
    <3>2. \A l \in Locks : lock'[l] \in RwLock
      BY <1>15, <3>1 DEF Panic, RwLock
    <3> QED
      BY <1>15, <3>2 DEF Panic
  <2> QED
    BY <1>15, <2>1, <2>2 DEF TypeOK, Panic, processVars, storeVars
<1>16. ASSUME Persist \/ Serialize \/ Upload PROVE TypeOK'
  <2> Main \in Proc
    BY DEF Proc
  <2>1. at' \in [Proc -> Steps] /\ lock' \in [Locks -> RwLock]
    BY <1>16, LeaveTyped, GotoTyped, StepNames DEF TypeOK, Persist, Serialize, Upload
  <2>2. carry' = [q \in Proc |-> carry'[q]]
    BY <1>16 DEF TypeOK, Persist, Serialize, Upload
  <2>3. blob' \in (SUBSET Token) \cup {None} /\ saved' \in SUBSET SUBSET Token
    BY <1>16 DEF TypeOK, StoresOK, Knows, Ledgers, Persist, Serialize, Upload, storeVars
  <2> QED
    BY <1>16, <2>1, <2>2, <2>3 DEF TypeOK, Persist, Serialize, Upload, processVars, storeVars
<1>17. ASSUME Stop \/ Sigterm PROVE TypeOK'
  BY <1>17 DEF TypeOK, Stop, Sigterm, callVars, storeVars
<1>18. ASSUME Start PROVE TypeOK'
  <2>1. \A s \in Stored : s.rows \in SUBSET Token /\ s.names \in SUBSET Call
    <3>1. \A s \in LoadIpc : s.rows \in SUBSET Token /\ s.names \in SUBSET Call
      BY DEF TypeOK, LoadIpc, Failure
    <3>2. \A s \in ObjectStoreDownload : s.rows \in SUBSET Token /\ s.names \in SUBSET Call
      BY DEF TypeOK, ObjectStoreDownload, LoadIpcFromBytes, Failure
    <3>3. Failure.rows \in SUBSET Token /\ Failure.names \in SUBSET Call
      BY DEF Failure
    <3>4. config.store \in {"path", "url", "none"}
      BY DEF TypeOK, Config
    <3> QED
      BY <3>1, <3>2, <3>3, <3>4 DEF Stored
  <2>2. EffectiveLimit \in {None, "limit"}
    BY DEF TypeOK, EffectiveLimit, Config
  <2>3. ledger' \in Ledgers
    BY <1>18, <2>1, <2>2 DEF Start, Ledgers
  <2>4. at' \in [Proc -> Steps] /\ lock' \in [Locks -> RwLock]
    BY <1>18, StepNames DEF TypeOK, Start, Free, RwLock
  <2>5. starts' \in 0..MaxStarts
    BY <1>18, ServerAssumption DEF TypeOK, Start
  <2> QED
    BY <1>18, <2>2, <2>3, <2>4, <2>5 DEF TypeOK, Start, storeVars
<1>19. ASSUME Crash PROVE TypeOK'
  <2>1. at' \in [Proc -> Steps] /\ lock' \in [Locks -> RwLock]
    BY <1>19, StepNames DEF TypeOK, Crash, Free, RwLock
  <2> QED
    BY <1>19, <2>1 DEF TypeOK, Crash, Empty, Ledgers, storeVars
<1>20. ASSUME UNCHANGED vars PROVE TypeOK'
  BY <1>20 DEF TypeOK, vars
<1> QED
  BY <1>1, <1>2, <1>3, <1>4, <1>5, <1>6, <1>7, <1>8, <1>9, <1>10, <1>11, <1>12, <1>13, <1>14,
     <1>15, <1>16, <1>17, <1>18, <1>19, <1>20 DEF Next, ServerStep, MainStep, Proc


-----------------------------------------------------------------------------
(* Where calls are. *)

\* A call that stays on its route keeps all of them on theirs.
LEMMA RouteKept ==
    ASSUME RouteOK, NEW p \in Proc, StepOf(p), Route(p)', Room(p)'
    PROVE  RouteOK'
<1>1. ASSUME NEW q \in Proc, q # p
      PROVE  Route(q)' /\ Room(q)'
  BY <1>1 DEF RouteOK, Route, Room, StepOf
<1> QED
  BY <1>1 DEF RouteOK

LEMMA RouteStep ==
    ASSUME TypeOK, RouteOK, PhasesOK, [Next]_vars
    PROVE  RouteOK'
<1>a. ASSUME NEW p \in Proc, CallStep(p)
      PROVE  StepOf(p) /\ Route(p) /\ Room(p) /\ kind[p] \in Kinds
  BY <1>a, CallStepIsLocal DEF RouteOK, TypeOK
<1>b. ASSUME NEW p \in Proc, CallStep(p), Route(p)', Room(p)'
      PROVE  RouteOK'
  BY <1>a, <1>b, RouteKept
<1>1. ASSUME NEW p \in Proc, NEW l \in Locks, Queue(p, l) PROVE RouteOK'
  BY <1>1 DEF Queue, RouteOK, Route, Room, callVars, processVars
<1>2. ASSUME NEW p \in Proc, NEW l \in Locks, Enter(p, l) PROVE RouteOK'
  <2>1. CallStep(p)
    BY <1>2 DEF CallStep, ServerStep
  <2>2. at'[p] = Inside(p, l) /\ at[p] = l /\ UNCHANGED <<kind, count, config>>
    BY <1>2 DEF TypeOK, Enter, Goto, processVars
  <2>3. Route(p)' /\ Room(p)'
    <3>1. CASE l = "almanac"
      BY <1>a, <2>1, <2>2, <3>1 DEF Route, Room, Inside, Ended
    <3>2. CASE l = "ledger"
      BY <1>a, <2>1, <2>2, <3>2 DEF Route, Room, Inside, Ended, Kinds, Actions
    <3> QED
      BY <3>1, <3>2 DEF Locks
  <2> QED
    BY <1>b, <2>1, <2>3
\* Where the call goes next depends on nothing but its kind.
<1>3. ASSUME NEW p \in Proc,
             \/ \E l \in Locks : EnterPoisoned(p, l)
             \/ Import(p) \/ Read(p) \/ Install(p) \/ WriteNames(p) \/ Swap(p)
             \/ (p \in Call /\ Panic(p))
      PROVE  RouteOK'
  <2>1. CallStep(p)
    BY <1>3 DEF CallStep, ServerStep
  <2>2. at'[p] \in Ended /\ UNCHANGED <<kind, count, config>>
    BY <1>3 DEF TypeOK, EnterPoisoned, Import, Read, Install, WriteNames, Swap, Panic, Leave, Goto,
                Ended, processVars
  <2>3. Route(p)' /\ Room(p)'
    BY <1>a, <2>1, <2>2 DEF Route, Room, Ended
  <2> QED
    BY <1>b, <2>1, <2>3
<1>4. ASSUME NEW p \in Proc, Append(p) \/ Transform(p) PROVE RouteOK'
  <2>1. CallStep(p)
    BY <1>4 DEF CallStep, ServerStep
  <2>2. /\ at'[p] \in Ended \/ (at'[p] = "receiving" /\ kind[p] \in {"put", "exchange"})
        /\ UNCHANGED <<kind, config>>
    BY <1>4 DEF TypeOK, Append, Transform, Leave, Goto, Ended, processVars, RouteOK, Route
  <2>3. Route(p)' /\ Room(p)'
    BY <1>a, <2>1, <2>2 DEF Route, Room, Ended
  <2> QED
    BY <1>b, <2>1, <2>3
<1>5. ASSUME NEW p \in Proc,
             \/ Compute(p) \/ Download(p) \/ (p \in Call /\ Receive(p))
             \/ OpenRows(p) \/ WriteRows(p) \/ OpenNames(p) \/ OpenSaved(p) \/ OpenSavedNames(p)
      PROVE  RouteOK'
  <2>1. CallStep(p)
    BY <1>5 DEF CallStep, ServerStep
  <2>2. UNCHANGED <<kind, count, config>>
    BY <1>5 DEF Compute, Download, Receive, OpenRows, WriteRows, OpenNames, OpenSaved, OpenSavedNames,
                processVars
  <2>3. \/ at'[p] \in Ended
        \/ at[p] = "computing" /\ at'[p] = "ledger" /\ kind[p] = "append_snapshot"
        \/ at[p] = "downloading" /\ at'[p] = "almanac"
        \/ at[p] = "receiving" /\ count[p] < MaxBatches
             /\ at'[p] = (IF kind[p] = "put" THEN "ledger" ELSE "almanac")
        \/ at[p] = "saving" /\ at'[p] = "writing"
        \/ at[p] = "writing" /\ at'[p] = "naming"
        \/ at[p] = "naming" /\ at'[p] = "finishing"
        \/ at[p] = "opening" /\ at'[p] = "reading_names"
        \/ at[p] = "reading_names" /\ at'[p] = "ledger"
    BY <1>5 DEF TypeOK, Compute, Download, Receive, OpenRows, WriteRows, OpenNames, OpenSaved,
                OpenSavedNames, Leave, Goto, Ended
  <2>4. Route(p)' /\ Room(p)'
    BY <1>a, <2>1, <2>2, <2>3 DEF Route, Room, Ended
  <2> QED
    BY <1>b, <2>1, <2>4
<1>6. ASSUME NEW p \in Call, Begin(p) PROVE RouteOK'
  <2>1. CallStep(p) /\ p \in Proc
    BY <1>6 DEF CallStep, Proc
  <2>2. at[p] = "idle" /\ at'[p] = FirstStep(kind[p]) /\ UNCHANGED <<kind, count, config>>
    BY <1>6, <2>1 DEF TypeOK, Begin, Goto, processVars
  <2>3. Route(p)' /\ Room(p)'
    BY <1>a, <2>1, <2>2, ServerAssumption DEF Route, Room, FirstStep, Ended, Kinds, Actions
  <2> QED
    BY <1>b, <2>1, <2>3
<1>7. ASSUME Persist \/ Serialize \/ Upload PROVE RouteOK'
  <2> Main \in Proc
    BY DEF Proc
  <2>1. CallStep(Main)
    BY <1>7 DEF CallStep
  <2>2. /\ \/ at'[Main] \in {"ledger", "done", "failed"}
           \/ at'[Main] = "uploading" /\ at[Main] = "serializing"
        /\ UNCHANGED <<kind, count, config>>
    BY <1>7 DEF TypeOK, Persist, Serialize, Upload, Leave, Goto, processVars
  <2>3. Route(Main)' /\ Room(Main)'
    BY <1>a, <2>1, <2>2 DEF Route, Room, Ended
  <2> QED
    BY <1>b, <2>1, <2>3
<1>8. ASSUME Start PROVE RouteOK'
  <2>1. UNCHANGED <<kind, count, config>> /\ \A p \in Proc : at'[p] = at[p] \/ (p = Main /\ at'[p] = "idle")
    BY <1>8 DEF TypeOK, Start, storeVars
  <2> QED
    BY <2>1 DEF RouteOK, Route, Room
<1>9. ASSUME Crash PROVE RouteOK'
  <2>1. UNCHANGED <<kind, count, config>> /\ \A p \in Proc : at'[p] = at[p] \/ at'[p] = "lost"
    BY <1>9 DEF TypeOK, Crash
  <2> QED
    BY <2>1 DEF RouteOK, Route, Room, Ended
<1>10. ASSUME Stop \/ Sigterm \/ UNCHANGED vars PROVE RouteOK'
  BY <1>10 DEF RouteOK, Route, Room, Stop, Sigterm, vars, callVars
<1>11. ASSUME NEW p \in Proc, ServerStep(p) PROVE RouteOK'
  BY <1>1, <1>2, <1>3, <1>4, <1>5, <1>11 DEF ServerStep
<1>12. ASSUME NEW p \in Call, Begin(p) \/ Receive(p) \/ Panic(p) PROVE RouteOK'
  BY <1>3, <1>5, <1>6, <1>12 DEF Proc
<1> QED
  BY <1>7, <1>8, <1>9, <1>10, <1>11, <1>12 DEF Next, MainStep


-----------------------------------------------------------------------------
(* Locks. *)

\* What a step of p leaves to the others: their guards; so p has to see to its own, and to
\* the almanac only when nobody reads it.
LEMMA LocksKept ==
    ASSUME LocksOK, NEW p \in Proc, StepOf(p), Exclusive', Holds(p)',
           (at[p] = "ledger" /\ kind[p] = "exchange" =>
               p \in lock["almanac"].readers /\ carry[p] = almanac)',
           almanac' = almanac \/ \A q \in Proc \ {p} : q \notin lock["almanac"].readers
    PROVE  LocksOK'
<1>1. ASSUME NEW q \in Proc, q # p
      PROVE  Holds(q)' /\ (at[q] = "ledger" /\ kind[q] = "exchange" =>
                              q \in lock["almanac"].readers /\ carry[q] = almanac)'
  <2>1. Holds(q) /\ (at[q] = "ledger" /\ kind[q] = "exchange" =>
                       q \in lock["almanac"].readers /\ carry[q] = almanac)
    BY DEF LocksOK, HoldsWhatItUses
  <2>2. /\ at'[q] = at[q] /\ carry'[q] = carry[q] /\ kind' = kind
        /\ \A l \in Locks : /\ q \in lock'[l].readers <=> q \in lock[l].readers
                            /\ q = lock'[l].writer <=> q = lock[l].writer
        /\ "ledger" \in Locks /\ "almanac" \in Locks
    BY <1>1 DEF StepOf, Locks
  <2>3. almanac' = almanac \/ q \notin lock["almanac"].readers
    BY <1>1
  <2> QED
    BY <2>1, <2>2, <2>3 DEF Holds, Writes
<1> QED
  BY <1>1 DEF LocksOK, HoldsWhatItUses

\* A step that ends with no guard leaves the locks as they should be.
LEMMA LeaveKeepsLocks ==
    ASSUME TypeOK, LocksOK, NEW p \in Proc, StepOf(p), NEW s, Leave(p, s),
           s \in Ended \cup {"receiving", "uploading"} \/ (s = "ledger" /\ Writes(p, "ledger")),
           almanac' = almanac \/ \A q \in Proc \ {p} : q \notin lock["almanac"].readers
    PROVE  LocksOK'
<1>1. at'[p] = s /\ \A l \in Locks : /\ p # lock'[l].writer /\ p \notin lock'[l].readers
                                    /\ lock'[l].readers \subseteq lock[l].readers
                                    /\ lock'[l].writer \in {lock[l].writer, None}
  BY ReleasedIsLocal DEF TypeOK, Leave, Goto
<1>2. Exclusive'
  BY <1>1 DEF LocksOK, Exclusive
<1>3. Holds(p)'
  BY <1>1 DEF Holds, Ended
<1>4. ~(at'[p] = "ledger" /\ kind'[p] = "exchange")
  BY <1>1 DEF StepOf, Writes, Ended
<1> QED
  BY <1>2, <1>3, <1>4, LocksKept

\* So does one that takes or gives up no lock and moves on to a step that needs what the
\* last one needed.
LEMMA GotoKeepsLocks ==
    ASSUME TypeOK, LocksOK, NEW p \in Proc, StepOf(p), NEW s, Goto(p, s), UNCHANGED <<lock, almanac>>,
           \/ /\ at[p] \in {"idle", "receiving", "downloading", "opening", "reading_names", "uploading"}
              /\ \/ s \in {"receiving", "downloading", "opening", "reading_names", "almanac", "done", "failed"}
                 \/ s = "ledger" /\ kind[p] # "exchange"
           \/ at[p] \in {"saving", "writing", "naming"} /\ s \in {"writing", "naming", "finishing"}
    PROVE  LocksOK'
<1>1. at'[p] = s /\ kind' = kind
  BY DEF TypeOK, Goto, StepOf
<1>2. Holds(p)
  BY DEF LocksOK, HoldsWhatItUses
<1>3. Exclusive'
  BY DEF LocksOK, Exclusive
<1>4. Holds(p)'
  BY <1>1, <1>2 DEF Holds, Writes, Ended
<1>5. ~(at'[p] = "ledger" /\ kind'[p] = "exchange")
  BY <1>1
<1> QED
  BY <1>3, <1>4, <1>5, LocksKept

LEMMA LocksStep ==
    ASSUME TypeOK, RouteOK, LocksOK, PhasesOK, [Next]_vars
    PROVE  LocksOK'
<1>a. ASSUME NEW p \in Proc, CallStep(p)
      PROVE  StepOf(p) /\ Route(p) /\ Holds(p) /\ kind[p] \in Kinds
  BY <1>a, CallStepIsLocal DEF RouteOK, TypeOK, LocksOK, HoldsWhatItUses
<1>b. None \notin Proc /\ "ledger" \in Locks /\ "almanac" \in Locks
  BY ServerAssumption DEF Locks
<1>1. ASSUME NEW p \in Proc, NEW l \in Locks, Queue(p, l) PROVE LocksOK'
  <2>1. CallStep(p) /\ UNCHANGED <<at, kind, carry, almanac>>
    BY <1>1 DEF CallStep, ServerStep, Queue, callVars
  <2>2. \A k \in Locks : lock'[k].readers = lock[k].readers /\ lock'[k].writer = lock[k].writer
    BY <1>1 DEF TypeOK, RwLock, Queue
  <2> QED
    BY <1>b, <2>1, <2>2 DEF LocksOK, Exclusive, HoldsWhatItUses, Holds, Writes
<1>2. ASSUME NEW p \in Proc, NEW l \in Locks, Enter(p, l) PROVE LocksOK'
  <2>1. CallStep(p) /\ StepOf(p) /\ Route(p) /\ Holds(p) /\ kind[p] \in Kinds
    BY <1>2, <1>a DEF CallStep, ServerStep
  <2>2. at'[p] = Inside(p, l) /\ at[p] = l /\ UNCHANGED <<kind, almanac, config>>
    BY <1>2 DEF TypeOK, Enter, Goto, processVars
  <2>3. /\ \A k \in Locks \ {l} : lock'[k] = lock[k]
        /\ Writes(p, l) => /\ lock'[l].writer = p /\ lock'[l].readers = lock[l].readers
                           /\ lock[l].writer = None /\ lock[l].readers = {}
        /\ ~Writes(p, l) => /\ lock'[l].writer = None /\ lock[l].writer = None
                            /\ lock'[l].readers = lock[l].readers \cup {p}
    BY <1>2 DEF TypeOK, RwLock, Enter, MayEnter, MayRead, MayWrite
  <2>4. carry'[p] = IF l = "almanac" THEN almanac ELSE carry[p]
    BY <1>2 DEF TypeOK, Enter
  <2>5. Exclusive'
    BY <2>3 DEF LocksOK, Exclusive
  <2>6. Holds(p)'
    <3>1. CASE l = "almanac"
      BY <1>b, <2>1, <2>2, <2>3, <2>4, <3>1 DEF Holds, Route, Inside, Writes, Ended
    <3>2. CASE l = "ledger"
      BY <1>b, <2>1, <2>2, <2>3, <2>4, <3>2 DEF LocksOK, Holds, Route, Inside, Writes, Ended, Kinds, Actions
    <3> QED
      BY <3>1, <3>2 DEF Locks
  <2>7. (at[p] = "ledger" /\ kind[p] = "exchange" => p \in lock["almanac"].readers /\ carry[p] = almanac)'
    <3>1. CASE l = "almanac"
      BY <1>b, <2>1, <2>2, <2>3, <2>4, <3>1 DEF Writes
    <3>2. CASE l = "ledger"
      BY <2>1, <2>2, <3>2 DEF Inside, Route, Kinds, Actions
    <3> QED
      BY <3>1, <3>2 DEF Locks
  <2> QED
    BY <2>1, <2>2, <2>5, <2>6, <2>7, LocksKept
<1>3. ASSUME NEW p \in Proc,
             \/ \E l \in Locks : EnterPoisoned(p, l)
             \/ Append(p) \/ Import(p) \/ Read(p) \/ Transform(p) \/ Compute(p) \/ WriteNames(p) \/ Swap(p)
      PROVE  LocksOK'
  <2>1. CallStep(p)
    BY <1>3 DEF CallStep, ServerStep
  <2>2. almanac' = almanac
    BY <1>3 DEF EnterPoisoned, Append, Import, Read, Transform, Compute, WriteNames, Swap
  <2>3. \/ \E s \in Ended \cup {"receiving"} : Leave(p, s)
        \/ Leave(p, "ledger") /\ kind[p] = "append_snapshot"
    BY <1>3 DEF EnterPoisoned, Append, Import, Read, Transform, Compute, WriteNames, Swap, Ended
  <2> QED
    BY <1>a, <2>1, <2>2, <2>3, LeaveKeepsLocks DEF Writes
<1>4. ASSUME NEW p \in Proc, Install(p) PROVE LocksOK'
  <2>1. CallStep(p)
    BY <1>4 DEF CallStep, ServerStep
  <2>2. \A q \in Proc : q \notin lock["almanac"].readers
    BY <1>4, <1>a, <1>b, <2>1 DEF Install, Holds, LocksOK, Exclusive
  <2>3. \E s \in Ended : Leave(p, s)
    BY <1>4 DEF Install, Ended
  <2> QED
    BY <1>a, <2>1, <2>2, <2>3, LeaveKeepsLocks
<1>5. ASSUME NEW p \in Proc, Panic(p), p \in Call PROVE LocksOK'
  <2>1. CallStep(p)
    BY <1>5 DEF CallStep
  <2>2. \A l \in Locks : /\ lock'[l].readers = Released(p)[l].readers
                         /\ lock'[l].writer = Released(p)[l].writer
    BY <1>5, ReleasedIsLocal DEF RwLock, Panic
  <2>3. at'[p] = "failed" /\ almanac' = almanac
    BY <1>5 DEF TypeOK, Panic, Goto
  <2>4. Exclusive'
    BY <2>2, ReleasedIsLocal DEF LocksOK, Exclusive
  <2>5. Holds(p)'
    BY <2>2, <2>3, ReleasedIsLocal DEF Holds
  <2> QED
    BY <1>a, <2>1, <2>3, <2>4, <2>5, LocksKept
<1>6. ASSUME NEW p \in Proc, Download(p) \/ (p \in Call /\ (Begin(p) \/ Receive(p))) PROVE LocksOK'
  <2>1. CallStep(p)
    BY <1>6 DEF CallStep, ServerStep
  <2>2. UNCHANGED <<lock, almanac>>
    BY <1>6 DEF Download, Begin, Receive
  <2>3. PICK s : Goto(p, s) /\ at[p] \in {"idle", "receiving", "downloading"}
                 /\ \/ s \in {"receiving", "downloading", "opening", "almanac", "done", "failed"}
                    \/ s = "ledger" /\ kind[p] # "exchange"
    <3>1. CASE Download(p) \/ Receive(p)
      BY <3>1, <1>a, <2>1 DEF Download, Receive, Route
    <3>2. CASE Begin(p) /\ p \in Call
      BY <3>2, <1>a, <2>1, ServerAssumption DEF Begin, FirstStep, Route, Kinds, Actions
    <3> QED
      BY <1>6, <3>1, <3>2
  <2> QED
    BY <1>a, <2>1, <2>2, <2>3, GotoKeepsLocks
<1>7. ASSUME NEW p \in Proc, OpenRows(p) \/ WriteRows(p) \/ OpenNames(p) \/ OpenSaved(p) \/ OpenSavedNames(p)
      PROVE  LocksOK'
  <2>1. CallStep(p) /\ almanac' = almanac
    BY <1>7 DEF CallStep, ServerStep, OpenRows, WriteRows, OpenNames, OpenSaved, OpenSavedNames
  <2>2. \/ Leave(p, "failed")
        \/ /\ UNCHANGED lock
           /\ \/ at[p] = "saving" /\ Goto(p, "writing")
              \/ at[p] = "writing" /\ Goto(p, "naming")
              \/ at[p] = "naming" /\ Goto(p, "finishing")
              \/ at[p] = "opening" /\ (Goto(p, "reading_names") \/ Goto(p, "failed"))
              \/ at[p] = "reading_names" /\ kind[p] = "load_ledger" /\ (Goto(p, "ledger") \/ Goto(p, "failed"))
    BY <1>7, <1>a, <2>1 DEF OpenRows, WriteRows, OpenNames, OpenSaved, OpenSavedNames, Route
  <2>3. "failed" \in Ended
    BY DEF Ended
  <2> QED
    BY <1>a, <2>1, <2>2, <2>3, LeaveKeepsLocks, GotoKeepsLocks
<1>8. ASSUME Persist \/ Serialize \/ Upload PROVE LocksOK'
  <2> Main \in Proc
    BY DEF Proc
  <2>1. CallStep(Main) /\ almanac' = almanac
    BY <1>8 DEF CallStep, Persist, Serialize, Upload
  <2>2. \/ Leave(Main, "failed") \/ Leave(Main, "uploading")
        \/ /\ UNCHANGED lock
           /\ \/ at[Main] = "idle" /\ kind[Main] = "persist" /\ (Goto(Main, "ledger") \/ Goto(Main, "done"))
              \/ at[Main] = "uploading" /\ (Goto(Main, "done") \/ Goto(Main, "failed"))
    BY <1>8, <1>a, <2>1 DEF Persist, Serialize, Upload, Route
  <2>3. "failed" \in Ended
    BY DEF Ended
  <2> QED
    BY <1>a, <2>1, <2>2, <2>3, LeaveKeepsLocks, GotoKeepsLocks
\* Before a start, and after a crash, no call is under way.
<1>9. ASSUME Start \/ Crash PROVE LocksOK'
  <2>1. /\ UNCHANGED <<kind, carry>>
        /\ \A l \in Locks : lock'[l].writer = None /\ lock'[l].readers = {}
        /\ \A p \in Proc : at'[p] \in Ended \cup {"idle"}
    BY <1>9 DEF Start, Crash, TypeOK, PhasesOK, InFlight, Free, Ended
  <2> QED
    BY <1>b, <2>1 DEF LocksOK, Exclusive, HoldsWhatItUses, Holds, Ended
<1>10. ASSUME Stop \/ Sigterm \/ UNCHANGED vars PROVE LocksOK'
  BY <1>10 DEF LocksOK, Exclusive, HoldsWhatItUses, Holds, Writes, Stop, Sigterm, vars, callVars
<1>11. ASSUME NEW p \in Proc, ServerStep(p) PROVE LocksOK'
  BY <1>1, <1>2, <1>3, <1>4, <1>6, <1>7, <1>11 DEF ServerStep
<1>12. ASSUME NEW p \in Call, Begin(p) \/ Receive(p) \/ Panic(p) PROVE LocksOK'
  BY <1>5, <1>6, <1>12 DEF Proc
<1> QED
  BY <1>8, <1>9, <1>10, <1>11, <1>12 DEF Next, MainStep


-----------------------------------------------------------------------------
(* The process. *)

\* The server takes a call's steps only while the call is under way.
LEMMA StepsAreInFlight ==
    ASSUME TypeOK, NEW p \in Proc, ServerStep(p) \/ Receive(p) \/ Panic(p) \/ (p = Main /\ (Serialize \/ Upload))
    PROVE  InFlight(p) /\ UNCHANGED processVars
<1>1. CASE \E l \in Locks : Queue(p, l) \/ Enter(p, l) \/ EnterPoisoned(p, l)
  BY <1>1 DEF Queue, Enter, EnterPoisoned, Locks, InFlight, Ended
<1>2. CASE Append(p) \/ Import(p) \/ Read(p) \/ Transform(p) \/ Compute(p) \/ Download(p) \/ Install(p)
  BY <1>2 DEF Append, Import, Read, Transform, Compute, Download, Install, InFlight, Ended
<1>3. CASE OpenRows(p) \/ WriteRows(p) \/ OpenNames(p) \/ WriteNames(p)
  BY <1>3 DEF OpenRows, WriteRows, OpenNames, WriteNames, InFlight, Ended
<1>4. CASE OpenSaved(p) \/ OpenSavedNames(p) \/ Swap(p)
  BY <1>4 DEF OpenSaved, OpenSavedNames, Swap, InFlight, Ended
<1>5. CASE Receive(p) \/ Panic(p) \/ (p = Main /\ (Serialize \/ Upload))
  BY <1>5 DEF Receive, Panic, Serialize, Upload, InFlight, Ended
<1> QED
  BY <1>1, <1>2, <1>3, <1>4, <1>5 DEF ServerStep

\* While a call is under way the process lives, and the main task waits.
LEMMA InFlightMeans ==
    ASSUME TypeOK, PhasesOK, NEW p \in Proc, InFlight(p)
    PROVE  /\ phase \in {"running", "draining"}
           /\ p = Main => phase = "draining" /\ \A c \in Call : ~InFlight(c)
           /\ p # Main => p \in Call /\ at[Main] = "idle"
BY DEF TypeOK, PhasesOK, InFlight, Ended, Proc

LEMMA PhasesStep ==
    ASSUME TypeOK, PhasesOK, [Next]_vars
    PROVE  PhasesOK'
<1>a. Main \in Proc /\ (\A c \in Call : c \in Proc /\ c # Main)
  BY ServerAssumption DEF Proc
<1>1. ASSUME NEW p \in Proc, ServerStep(p) \/ (p \in Call /\ (Receive(p) \/ Panic(p)))
                             \/ (p = Main /\ (Serialize \/ Upload))
      PROVE  PhasesOK'
  <2>1. StepOf(p) /\ InFlight(p) /\ phase' = phase
    BY <1>1, CallStepIsLocal, StepsAreInFlight DEF CallStep, processVars
  <2>2. CASE p = Main
    BY <1>a, <2>1, <2>2, InFlightMeans DEF PhasesOK, StepOf, InFlight
  <2>3. CASE p # Main
    BY <1>a, <2>1, <2>3, InFlightMeans DEF PhasesOK, StepOf, InFlight
  <2> QED
    BY <2>2, <2>3
<1>2. ASSUME NEW c \in Call, Begin(c) PROVE PhasesOK'
  BY <1>2, <1>a DEF TypeOK, PhasesOK, Begin, Goto, InFlight, processVars
<1>3. ASSUME Persist PROVE PhasesOK'
  BY <1>3, <1>a DEF TypeOK, PhasesOK, Persist, Goto, InFlight, processVars
<1>4. ASSUME Stop PROVE PhasesOK'
  BY <1>4, <1>a DEF TypeOK, PhasesOK, Stop, InFlight, Ended, Proc, callVars
<1>5. ASSUME Start PROVE PhasesOK'
  BY <1>5, <1>a DEF TypeOK, PhasesOK, Start
<1>6. ASSUME Sigterm PROVE PhasesOK'
  BY <1>6 DEF PhasesOK, Sigterm, InFlight, callVars
<1>7. ASSUME Crash PROVE PhasesOK'
  <2>1. phase' = "down" /\ \A p \in Proc : at'[p] \in Ended \cup {"idle"}
    BY <1>7 DEF Crash, InFlight, Ended
  <2> QED
    BY <1>a, <2>1 DEF PhasesOK, InFlight
<1>8. ASSUME UNCHANGED vars PROVE PhasesOK'
  BY <1>8 DEF PhasesOK, InFlight, vars
<1> QED
  BY <1>1, <1>2, <1>3, <1>4, <1>5, <1>6, <1>7, <1>8, <1>a DEF Next, MainStep


-----------------------------------------------------------------------------
(* Files. *)

\* Rows come from a call's count or from a save, and files from a save.
LEMMA HistoryKept ==
    ASSUME TypeOK, HistoryOK,
           \A q \in Proc : count'[q] \in Nat /\ count[q] <= count'[q],
           \A t \in ledger'.rows : \/ t \in ledger.rows
                                   \/ \E S \in saved : t \in S
                                   \/ t[2] <= count'[t[1]],
           saved' = saved \/ (saved' = saved \cup {ledger.rows} /\ ledger.rows # {}),
           file'.rows \in saved' \cup {None, Torn}, blob' \in saved' \cup {None}
    PROVE  HistoryOK'
<1>1. ASSUME NEW t \in Token, t[2] <= count[t[1]] PROVE t[2] <= count'[t[1]]
  <2>1. t[1] \in Proc /\ t[2] \in Nat
    BY ServerAssumption DEF Token, Proc
  <2>2. count[t[1]] \in Nat /\ count'[t[1]] \in Nat /\ count[t[1]] <= count'[t[1]]
    BY <2>1, ServerAssumption DEF TypeOK
  <2> QED
    BY <1>1, <2>1, <2>2
<1>2. ledger.rows \in SUBSET Token /\ \A S \in saved : S \in SUBSET Token
  BY DEF TypeOK, Ledgers
<1>3. \A t \in ledger'.rows : t[2] <= count'[t[1]]
  BY <1>1, <1>2 DEF HistoryOK
<1>4. \A S \in saved' : S # {} /\ \A t \in S : t[2] <= count'[t[1]]
  BY <1>1, <1>2 DEF HistoryOK
<1> QED
  BY <1>3, <1>4 DEF HistoryOK

\* A step that leaves the ledger alone, or changes or poisons it as its only holder,
\* leaves the others what they know.
LEMMA KnownToOthers ==
    ASSUME TypeOK, RouteOK, LocksOK, PhasesOK, StoresOK, NEW p \in Proc, StepOf(p), saved \subseteq saved',
           \/ /\ ledger' = ledger
              /\ lock'["ledger"].poisoned = lock["ledger"].poisoned
           \/ lock["ledger"].writer = p /\ InFlight(p),
           Knows(p)'
    PROVE  \A q \in Proc : Knows(q)'
<1>1. SUFFICES ASSUME NEW q \in Proc, q # p PROVE Knows(q)'
  OBVIOUS
<1>2. at'[q] = at[q] /\ kind' = kind /\ carry'[q] = carry[q] /\ Knows(q)
  BY <1>1 DEF StepOf, StoresOK
<1>3. [rows : saved, names : SUBSET Call] \subseteq [rows : saved', names : SUBSET Call]
  OBVIOUS
<1>4. CASE ledger' = ledger /\ lock'["ledger"].poisoned = lock["ledger"].poisoned
  BY <1>2, <1>3, <1>4 DEF Knows
<1>5. CASE lock["ledger"].writer = p /\ InFlight(p)
  <2>1. q \notin lock["ledger"].readers
    BY <1>5, ServerAssumption DEF LocksOK, Exclusive, Locks
  <2>2. at[q] \notin {"serializing", "saving", "writing", "naming", "finishing"}
    BY <2>1 DEF LocksOK, HoldsWhatItUses, Holds
  <2>3. at[q] # "uploading"
    <3>1. SUFFICES ASSUME at[q] = "uploading" PROVE FALSE
      OBVIOUS
    <3>2. q = Main
      BY <3>1 DEF RouteOK, Route
    <3>3. InFlight(q)
      BY <3>1 DEF InFlight, Ended
    <3> QED
      BY <1>1, <1>5, <3>2, <3>3, InFlightMeans
  <2> QED
    BY <1>2, <1>3, <2>2, <2>3 DEF Knows, Persisting
<1> QED
  BY <1>4, <1>5

\* A step that writes nothing and counts no batch.
LEMMA StoresUntouched ==
    ASSUME TypeOK, RouteOK, LocksOK, PhasesOK, StoresOK, NEW p \in Proc, StepOf(p),
           UNCHANGED <<count, ledger, storeVars>>,
           lock'["ledger"].poisoned = lock["ledger"].poisoned, Knows(p)'
    PROVE  StoresOK'
<1>1. HistoryOK'
  BY DEF StoresOK, HistoryOK, storeVars
<1>2. \A q \in Proc : Knows(q)'
  BY KnownToOthers DEF storeVars
<1> QED
  BY <1>1, <1>2 DEF StoresOK

LEMMA StoresStep ==
    ASSUME TypeOK, TypeOK', RouteOK, LocksOK, PhasesOK, StoresOK, [Next]_vars
    PROVE  StoresOK'
<1>a. ASSUME NEW p \in Proc, CallStep(p)
      PROVE  /\ StepOf(p) /\ Route(p) /\ Holds(p) /\ Knows(p)
             /\ kind[p] \in Kinds /\ kind' = kind
  BY <1>a, CallStepIsLocal DEF RouteOK, TypeOK, LocksOK, HoldsWhatItUses, StoresOK, StepOf
<1>b. \A q \in Proc : count[q] \in Nat /\ count'[q] \in Nat
  BY ServerAssumption DEF TypeOK
<1>c. Main \in Proc /\ "ledger" \in Locks
  BY DEF Proc, Locks
<1>1. ASSUME NEW p \in Proc, NEW l \in Locks, Queue(p, l) PROVE StoresOK'
  <2>1. CallStep(p)
    BY <1>1 DEF CallStep, ServerStep
  <2>2. lock'["ledger"].poisoned = lock["ledger"].poisoned
    BY <1>1 DEF TypeOK, RwLock, Queue
  <2>3. UNCHANGED <<kind, at, count, carry, ledger, file, blob, saved>>
    BY <1>1 DEF Queue, callVars, storeVars
  <2> QED
    BY <1>a, <2>1, <2>2, <2>3, StoresUntouched DEF Knows, storeVars
<1>2. ASSUME NEW p \in Proc, NEW l \in Locks, Enter(p, l) PROVE StoresOK'
  <2>1. CallStep(p)
    BY <1>2 DEF CallStep, ServerStep
  <2>2. lock'["ledger"].poisoned = lock["ledger"].poisoned /\ ~lock[l].poisoned
    <3>1. lock[l] \in RwLock /\ lock["ledger"] \in RwLock
      BY <1>c DEF TypeOK
    <3>2. lock'[l].poisoned = lock[l].poisoned /\ (l # "ledger" => lock'["ledger"] = lock["ledger"])
      <4>1. CASE Writes(p, l)
        BY <1>2, <1>c, <3>1, <4>1 DEF TypeOK, Enter, RwLock
      <4>2. CASE ~Writes(p, l)
        BY <1>2, <1>c, <3>1, <4>2 DEF TypeOK, Enter, RwLock
      <4> QED
        BY <4>1, <4>2
    <3> QED
      BY <1>2, <3>2 DEF Enter
  <2>3. /\ at'[p] = Inside(p, l) /\ at[p] = l /\ UNCHANGED <<kind, count, ledger, storeVars>>
        /\ carry'[p] = IF l = "almanac" THEN almanac ELSE carry[p]
    BY <1>2 DEF TypeOK, Enter, Goto
  <2>4. Knows(p)'
    <3>1. CASE l = "almanac"
      BY <1>a, <2>1, <2>3, <3>1 DEF Knows, Inside, Route, Persisting
    <3>2. CASE l = "ledger"
      BY <1>a, <2>1, <2>2, <2>3, <3>2 DEF Knows, Inside, Route, Persisting, Kinds, Actions, storeVars
    <3> QED
      BY <3>1, <3>2 DEF Locks
  <2> QED
    BY <1>a, <2>1, <2>2, <2>3, <2>4, StoresUntouched
<1>3. ASSUME NEW p \in Proc,
             (\E l \in Locks : EnterPoisoned(p, l)) \/ Read(p) \/ Compute(p)
      PROVE  StoresOK'
  <2>1. CallStep(p)
    BY <1>3 DEF CallStep, ServerStep
  <2>2. UNCHANGED <<count, ledger, storeVars>>
    BY <1>3 DEF EnterPoisoned, Read, Compute
  <2>3. /\ lock'["ledger"].poisoned = lock["ledger"].poisoned
        /\ at'[p] \in Ended \/ (at'[p] = "ledger" /\ kind[p] = "append_snapshot")
    BY <1>3, <1>c, ReleasedIsLocal DEF TypeOK, EnterPoisoned, Read, Compute, Leave, Goto, Ended
  <2>4. Knows(p)'
    BY <1>a, <2>1, <2>3 DEF Knows, Ended, Persisting
  <2> QED
    BY <1>a, <2>1, <2>2, <2>3, <2>4, StoresUntouched
<1>4. ASSUME NEW p \in Proc, Download(p) \/ (p \in Call /\ (Begin(p) \/ Receive(p))) PROVE StoresOK'
  <2>1. CallStep(p)
    BY <1>4 DEF CallStep, ServerStep
  <2>2. UNCHANGED <<count, ledger, storeVars, lock>>
    BY <1>4 DEF Download, Begin, Receive
  <2>3. /\ at'[p] \in {"receiving", "downloading", "opening", "almanac", "ledger", "done", "failed"}
        /\ at'[p] = "ledger" => kind[p] # "load_ledger"
    <3>1. CASE Download(p) \/ Receive(p)
      BY <3>1, <1>a, <2>1 DEF TypeOK, Download, Receive, Goto, Route
    <3>2. CASE Begin(p) /\ p \in Call
      BY <3>2, <1>a, <2>1, ServerAssumption DEF TypeOK, Begin, Goto, FirstStep, Route, Kinds, Actions
    <3> QED
      BY <1>4, <3>1, <3>2
  <2>4. Knows(p)'
    BY <1>a, <2>1, <2>3 DEF Knows, Persisting
  <2> QED
    BY <1>a, <2>1, <2>2, <2>4, StoresUntouched
<1>5. ASSUME NEW p \in Proc, Append(p) PROVE StoresOK'
  <2>1. CallStep(p)
    BY <1>5 DEF CallStep, ServerStep
  <2>2. lock["ledger"].writer = p /\ InFlight(p)
    BY <1>5, <1>a, <2>1 DEF Append, Holds, InFlight, Ended
  <2>3. UNCHANGED storeVars /\ at'[p] \in Ended \cup {"receiving"}
    BY <1>5 DEF TypeOK, Append, Leave, Goto, Ended
  <2>4. Knows(p)'
    BY <2>3 DEF Knows, Ended, Persisting
  <2>5. \A q \in Proc : count[q] <= count'[q]
    BY <1>5, <1>b DEF TypeOK, Append
  <2>6. \A t \in ledger'.rows : t \in ledger.rows \/ t[2] <= count'[t[1]]
    <3>1. CASE UNCHANGED ledger
      BY <3>1
    <3>2. CASE ledger' = [ledger EXCEPT !.rows = @ \cup {<<p, count[p] + 1>>}] /\ count' = [count EXCEPT ![p] = @ + 1]
      <4>1. ledger'.rows = ledger.rows \cup {<<p, count[p] + 1>>}
        BY <3>2 DEF TypeOK, Ledgers
      <4>2. count'[p] = count[p] + 1
        BY <3>2 DEF TypeOK
      <4> QED
        BY <1>b, <4>1, <4>2
    <3> QED
      BY <1>5, <3>1, <3>2 DEF Append
  <2>7. HistoryOK'
    BY <1>b, <2>3, <2>5, <2>6, HistoryKept DEF StoresOK, HistoryOK, storeVars
  <2>8. \A q \in Proc : Knows(q)'
    BY <1>a, <2>1, <2>2, <2>3, <2>4, KnownToOthers DEF storeVars
  <2> QED
    BY <2>7, <2>8 DEF StoresOK
<1>6. ASSUME NEW p \in Proc, Import(p) PROVE StoresOK'
  <2>1. CallStep(p)
    BY <1>6 DEF CallStep, ServerStep
  <2>2. lock["ledger"].writer = p /\ InFlight(p)
    BY <1>6, <1>a, <2>1 DEF Import, Holds, InFlight, Ended
  <2>3. UNCHANGED <<count, storeVars>> /\ at'[p] \in Ended
    BY <1>6 DEF TypeOK, Import, Leave, Goto, Ended
  <2>4. Knows(p)'
    BY <2>3 DEF Knows, Ended, Persisting
  <2>5. ledger'.rows = ledger.rows
    BY <1>6 DEF TypeOK, Import, Ledgers
  <2>6. HistoryOK'
    BY <2>3, <2>5 DEF StoresOK, HistoryOK, storeVars
  <2>7. \A q \in Proc : Knows(q)'
    BY <1>a, <2>1, <2>2, <2>3, <2>4, KnownToOthers DEF storeVars
  <2> QED
    BY <2>6, <2>7 DEF StoresOK
<1>7. ASSUME NEW p \in Proc, Transform(p) PROVE StoresOK'
  <2>1. CallStep(p)
    BY <1>7 DEF CallStep, ServerStep
  <2>2. UNCHANGED <<ledger, storeVars>> /\ at'[p] \in Ended \cup {"receiving"}
    BY <1>7 DEF TypeOK, Transform, Leave, Goto, Ended
  <2>3. Knows(p)'
    BY <2>2 DEF Knows, Ended, Persisting
  <2>4. lock'["ledger"].poisoned = lock["ledger"].poisoned
    BY <1>7, <1>c, ReleasedIsLocal DEF Transform, Leave
  <2>5. \A q \in Proc : count[q] <= count'[q]
    BY <1>7, <1>b DEF TypeOK, Transform
  <2>6. HistoryOK'
    BY <1>b, <2>2, <2>5, HistoryKept DEF StoresOK, HistoryOK, storeVars
  <2>7. \A q \in Proc : Knows(q)'
    BY <1>a, <2>1, <2>2, <2>3, <2>4, KnownToOthers DEF storeVars
  <2> QED
    BY <2>6, <2>7 DEF StoresOK
<1>8. ASSUME NEW p \in Proc, Install(p) PROVE StoresOK'
  <2>1. CallStep(p)
    BY <1>8 DEF CallStep, ServerStep
  <2>2. UNCHANGED <<count, ledger, storeVars>> /\ at'[p] \in Ended
    BY <1>8 DEF TypeOK, Install, Leave, Goto, Ended
  <2>3. lock'["ledger"].poisoned = lock["ledger"].poisoned
    BY <1>8, <1>c, ReleasedIsLocal DEF Install, Leave
  <2>4. Knows(p)'
    BY <2>2 DEF Knows, Ended, Persisting
  <2> QED
    BY <1>a, <2>1, <2>2, <2>3, <2>4, StoresUntouched
<1>9. ASSUME NEW p \in Proc, p \in Call, Panic(p) PROVE StoresOK'
  <2>1. CallStep(p)
    BY <1>9 DEF CallStep
  <2>2. UNCHANGED <<count, ledger, storeVars>> /\ at'[p] \in Ended
    BY <1>9 DEF TypeOK, Panic, Goto, Ended
  <2>3. \/ lock'["ledger"].poisoned = lock["ledger"].poisoned
        \/ lock["ledger"].writer = p /\ InFlight(p)
    <3>1. InFlight(p) /\ lock'["ledger"].poisoned = (lock["ledger"].poisoned \/ lock["ledger"].writer = p)
      BY <1>9, <1>c, ReleasedIsLocal DEF Panic, InFlight, Ended, RwLock
    <3>2. lock["ledger"].poisoned \in BOOLEAN
      BY <1>c DEF TypeOK, RwLock
    <3>3. CASE lock["ledger"].writer = p
      BY <3>1, <3>3
    <3>4. CASE lock["ledger"].writer # p
      BY <3>1, <3>2, <3>4
    <3> QED
      BY <3>3, <3>4
  <2>4. Knows(p)'
    BY <2>2 DEF Knows, Ended, Persisting
  <2>5. HistoryOK'
    BY <2>2 DEF StoresOK, HistoryOK, storeVars
  <2>6. \A q \in Proc : Knows(q)'
    BY <1>a, <2>1, <2>2, <2>3, <2>4, KnownToOthers DEF storeVars
  <2> QED
    BY <2>5, <2>6 DEF StoresOK
<1>10. ASSUME NEW p \in Proc, OpenRows(p) \/ OpenNames(p) PROVE StoresOK'
  <2>1. CallStep(p)
    BY <1>10 DEF CallStep, ServerStep
  <2>2. UNCHANGED <<count, ledger, blob, saved>>
    BY <1>10 DEF OpenRows, OpenNames
  <2>3. file'.rows \in {file.rows, Torn}
    BY <1>10 DEF TypeOK, OpenRows, OpenNames
  <2>4. lock'["ledger"].poisoned = lock["ledger"].poisoned
    BY <1>10, <1>c, ReleasedIsLocal DEF OpenRows, OpenNames, Leave
  <2>5. at'[p] \in Ended \/ (at'[p] \in {"writing", "finishing"} /\ ledger.rows # {} /\ at[p] \in Persisting)
    BY <1>10, <1>a, <2>1 DEF TypeOK, OpenRows, OpenNames, Leave, Goto, Ended, Knows, Persisting
  <2>6. Knows(p)'
    BY <1>a, <2>1, <2>2, <2>4, <2>5 DEF Knows, Ended, Persisting
  <2>7. HistoryOK'
    BY <2>2, <2>3 DEF StoresOK, HistoryOK
  <2>8. \A q \in Proc : Knows(q)'
    BY <1>a, <2>1, <2>2, <2>4, <2>6, KnownToOthers
  <2> QED
    BY <2>7, <2>8 DEF StoresOK
<1>11. ASSUME NEW p \in Proc, WriteRows(p) \/ WriteNames(p) PROVE StoresOK'
  <2>1. CallStep(p)
    BY <1>11 DEF CallStep, ServerStep
  <2>2. UNCHANGED <<count, ledger, blob>> /\ ledger.rows # {} /\ at[p] \in Persisting
    BY <1>11, <1>a, <2>1 DEF WriteRows, WriteNames, Knows, Persisting
  <2>3. /\ saved' = saved \/ saved' = saved \cup {ledger.rows}
        /\ file'.rows \in saved' \cup {None, Torn}
    <3>1. CASE WriteRows(p)
      BY <3>1 DEF TypeOK, StoresOK, HistoryOK, WriteRows, Written
    <3>2. CASE WriteNames(p)
      BY <3>2 DEF TypeOK, StoresOK, HistoryOK, WriteNames
    <3> QED
      BY <1>11, <3>1, <3>2
  <2>4. lock'["ledger"].poisoned = lock["ledger"].poisoned
    BY <1>11, <1>c, ReleasedIsLocal DEF WriteRows, WriteNames, Leave
  <2>5. at'[p] \in Ended \cup {"naming"}
    BY <1>11 DEF TypeOK, WriteRows, WriteNames, Leave, Goto, Ended
  <2>6. Knows(p)'
    BY <1>a, <2>1, <2>2, <2>4, <2>5 DEF Knows, Ended, Persisting
  <2>7. HistoryOK'
    BY <1>b, <2>2, <2>3, HistoryKept DEF StoresOK, HistoryOK
  <2>8. \A q \in Proc : Knows(q)'
    BY <1>a, <2>1, <2>2, <2>3, <2>4, <2>6, KnownToOthers
  <2> QED
    BY <2>7, <2>8 DEF StoresOK
<1>12. ASSUME NEW p \in Proc, OpenSaved(p) \/ OpenSavedNames(p) PROVE StoresOK'
  <2>1. CallStep(p)
    BY <1>12 DEF CallStep, ServerStep
  <2>2. UNCHANGED <<count, ledger, storeVars, lock>>
    BY <1>12 DEF OpenSaved, OpenSavedNames
  <2>3. /\ at'[p] \in {"failed", "reading_names", "ledger"}
        /\ at'[p] # "failed" => carry'[p] \in [rows : saved, names : SUBSET Call]
    <3>1. CASE OpenSaved(p)
      BY <3>1 DEF TypeOK, StoresOK, HistoryOK, OpenSaved, Goto
    <3>2. CASE OpenSavedNames(p)
      <4>1. carry[p] \in [rows : saved, names : SUBSET Call]
        BY <1>a, <2>1, <3>2 DEF Knows, OpenSavedNames
      <4>2. carry'[p] = carry[p] \/ (carry'[p] = [carry[p] EXCEPT !.names = file.names] /\ file.names \in SUBSET Call)
                                 \/ at'[p] = "failed"
        BY <3>2 DEF TypeOK, OpenSavedNames, Goto
      <4> QED
        BY <3>2, <4>1, <4>2 DEF TypeOK, OpenSavedNames, Goto
    <3> QED
      BY <1>12, <3>1, <3>2
  <2>4. Knows(p)'
    BY <2>2, <2>3 DEF Knows, Persisting, storeVars
  <2> QED
    BY <1>a, <2>1, <2>2, <2>4, StoresUntouched
<1>13. ASSUME NEW p \in Proc, Swap(p) PROVE StoresOK'
  <2>1. CallStep(p)
    BY <1>13 DEF CallStep, ServerStep
  <2>2. lock["ledger"].writer = p /\ InFlight(p)
    BY <1>13, <1>a, <2>1 DEF Swap, Holds, InFlight, Ended
  <2>3. UNCHANGED <<count, storeVars>> /\ at'[p] \in Ended
    BY <1>13 DEF TypeOK, Swap, Leave, Goto, Ended
  <2>4. ledger'.rows \in saved
    BY <1>13, <1>a, <2>1 DEF Swap, LoadedLedger, Knows, Route
  <2>5. Knows(p)'
    BY <2>3 DEF Knows, Ended, Persisting
  <2>6. HistoryOK'
    BY <2>3, <2>4 DEF StoresOK, HistoryOK, storeVars
  <2>7. \A q \in Proc : Knows(q)'
    BY <1>a, <2>1, <2>2, <2>3, <2>5, KnownToOthers DEF storeVars
  <2> QED
    BY <2>6, <2>7 DEF StoresOK
<1>14. ASSUME Persist PROVE StoresOK'
  <2>1. CallStep(Main)
    BY <1>14 DEF CallStep
  <2>2. UNCHANGED <<count, ledger, storeVars, lock>> /\ at'[Main] \in {"done", "ledger"}
    BY <1>14, <1>c DEF TypeOK, Persist, Goto
  <2>3. Knows(Main)'
    BY <1>a, <1>c, <2>1, <2>2 DEF Knows, Persisting, Route
  <2> QED
    BY <1>a, <1>c, <2>1, <2>2, <2>3, StoresUntouched
<1>15. ASSUME Serialize PROVE StoresOK'
  <2>1. CallStep(Main)
    BY <1>15 DEF CallStep
  <2>2. UNCHANGED <<count, ledger, storeVars>> /\ at[Main] \in Persisting
    BY <1>15 DEF Serialize, Persisting
  <2>3. at'[Main] \in Ended \/ (at'[Main] = "uploading" /\ carry'[Main] = ledger.rows /\ ledger.rows # {})
    BY <1>15, <1>c DEF TypeOK, Serialize, SaveIpcToBytes, Leave, Goto, Ended
  <2>4. lock'["ledger"].poisoned = lock["ledger"].poisoned
    BY <1>15, <1>c, ReleasedIsLocal DEF Serialize, Leave
  <2>5. Knows(Main)'
    BY <1>a, <1>c, <2>1, <2>2, <2>3, <2>4 DEF Knows, Persisting, Ended
  <2> QED
    BY <1>a, <1>c, <2>1, <2>2, <2>4, <2>5, StoresUntouched
<1>16. ASSUME Upload PROVE StoresOK'
  <2>1. CallStep(Main) /\ at[Main] = "uploading" /\ at'[Main] \in Ended
    BY <1>16, <1>c DEF CallStep, TypeOK, Upload, Goto, Ended
  <2>2. UNCHANGED <<count, ledger, file, lock>> /\ carry[Main] = ledger.rows /\ ledger.rows # {}
    BY <1>16, <1>a, <1>c, <2>1 DEF Upload, Knows
  <2>3. (UNCHANGED <<blob, saved>>) \/ (blob' = ledger.rows /\ saved' = saved \cup {ledger.rows})
    BY <1>16, <2>2 DEF Upload
  <2>4. Knows(Main)'
    BY <2>1 DEF Knows, Ended, Persisting
  <2>5. HistoryOK'
    BY <1>b, <2>2, <2>3, HistoryKept DEF StoresOK, HistoryOK
  <2>6. \A q \in Proc : Knows(q)'
    BY <1>a, <1>c, <2>1, <2>2, <2>3, <2>4, KnownToOthers
  <2> QED
    BY <2>5, <2>6 DEF StoresOK
\* Nobody knows anything of the ledger that a start loads, or that a crash loses.
<1>17. ASSUME Start \/ Crash PROVE StoresOK'
  <2>1. \A p \in Proc : at'[p] \in Ended \cup {"idle"}
    BY <1>17 DEF Start, Crash, TypeOK, PhasesOK, InFlight, Ended
  <2>2. UNCHANGED <<count, storeVars>>
    BY <1>17 DEF Start, Crash
  <2>3. ledger'.rows = {} \/ ledger'.rows \in saved
    <3>1. CASE Crash
      BY <3>1 DEF Crash, Empty
    <3>2. CASE Start
      <4>1. \A s \in LoadIpc \cup ObjectStoreDownload \cup {Failure} : s.rows = {} \/ s.rows \in saved
        BY DEF StoresOK, HistoryOK, LoadIpc, ObjectStoreDownload, LoadIpcFromBytes, Failure
      <4>2. config.store \in {"path", "url", "none"}
        BY DEF TypeOK, Config
      <4>3. Stored \subseteq LoadIpc \cup ObjectStoreDownload \cup {Failure}
        BY <4>2 DEF Stored
      <4> QED
        BY <3>2, <4>1, <4>3 DEF Start
    <3> QED
      BY <1>17, <3>1, <3>2
  <2>4. HistoryOK'
    BY <2>2, <2>3 DEF StoresOK, HistoryOK, storeVars
  <2>5. \A p \in Proc : Knows(p)'
    BY <2>1 DEF Knows, Ended, Persisting
  <2> QED
    BY <2>4, <2>5 DEF StoresOK
<1>18. ASSUME Stop \/ Sigterm \/ UNCHANGED vars PROVE StoresOK'
  BY <1>18 DEF StoresOK, HistoryOK, Knows, Stop, Sigterm, vars, callVars, storeVars
<1>19. ASSUME NEW p \in Proc, ServerStep(p) PROVE StoresOK'
  BY <1>1, <1>2, <1>3, <1>4, <1>5, <1>6, <1>7, <1>8, <1>10, <1>11, <1>12, <1>13, <1>19 DEF ServerStep
<1>20. ASSUME NEW p \in Call, Begin(p) \/ Receive(p) \/ Panic(p) PROVE StoresOK'
  BY <1>4, <1>9, <1>20 DEF Proc
<1> QED
  BY <1>14, <1>15, <1>16, <1>17, <1>18, <1>19, <1>20 DEF Next, MainStep


-----------------------------------------------------------------------------
(* The limit and the last save. *)

LEMMA LimitStep ==
    ASSUME TypeOK, PhasesOK, LimitOK, [Next]_vars
    PROVE  LimitOK'
<1>1. ASSUME NEW p \in Proc, Append(p) \/ Import(p) PROVE LimitOK'
  BY <1>1 DEF TypeOK, Ledgers, LimitOK, EffectiveLimit, LimitRefused, Append, Import, processVars
<1>2. ASSUME NEW p \in Proc, Swap(p) PROVE LimitOK'
  BY <1>2 DEF LimitOK, EffectiveLimit, LimitRefused, Swap, LoadedLedger, processVars
<1>3. ASSUME NEW p \in Proc, ServerStep(p) \/ Begin(p) \/ Receive(p) \/ Panic(p),
             ~Append(p), ~Import(p), ~Swap(p)
      PROVE  LimitOK'
  <2>1. UNCHANGED <<phase, config, limit, ledger>>
    BY <1>3 DEF ServerStep, Queue, Enter, EnterPoisoned, Read, Transform, Compute, Download, Install,
                OpenRows, WriteRows, OpenNames, WriteNames, OpenSaved, OpenSavedNames,
                Begin, Receive, Panic, processVars
  <2> QED
    BY <2>1 DEF LimitOK, EffectiveLimit, LimitRefused
<1>4. ASSUME Persist \/ Serialize \/ Upload PROVE LimitOK'
  BY <1>4 DEF LimitOK, EffectiveLimit, LimitRefused, Persist, Serialize, Upload, processVars
<1>5. ASSUME Start PROVE LimitOK'
  BY <1>5 DEF LimitOK, EffectiveLimit, LimitRefused, Start
<1>6. ASSUME Stop \/ Sigterm PROVE LimitOK'
  BY <1>6 DEF LimitOK, EffectiveLimit, LimitRefused, Stop, Sigterm
<1>7. ASSUME Crash PROVE LimitOK'
  BY <1>7 DEF LimitOK, Crash
<1>8. ASSUME UNCHANGED vars PROVE LimitOK'
  BY <1>8 DEF LimitOK, EffectiveLimit, LimitRefused, vars
<1> QED
  BY <1>1, <1>2, <1>3, <1>4, <1>5, <1>6, <1>7, <1>8 DEF Next, MainStep, Proc

\* The steps by which the main task saves: it is alone, so what it writes is whole.
LEMMA PersistedStep ==
    ASSUME TypeOK, RouteOK, PhasesOK, PersistedOK, [Next]_vars
    PROVE  PersistedOK'
<1>a. Main \in Proc /\ Main \notin Call
  BY ServerAssumption DEF Proc
\* The main task has not begun to save while a call is under way.
<1>b. ASSUME NEW p \in Proc, p # Main, StepOf(p), at[Main] = "idle" PROVE PersistedOK'
  BY <1>a, <1>b DEF PersistedOK, StepOf
<1>1. ASSUME NEW p \in Proc, p # Main, ServerStep(p) \/ (p \in Call /\ (Receive(p) \/ Panic(p)))
      PROVE  PersistedOK'
  <2>1. StepOf(p) /\ InFlight(p)
    BY <1>1, CallStepIsLocal, StepsAreInFlight DEF CallStep
  <2> QED
    BY <1>1, <1>b, <2>1, InFlightMeans
<1>2. ASSUME NEW c \in Call, Begin(c) PROVE PersistedOK'
  <2>1. StepOf(c) /\ c \in Proc
    BY <1>2, CallStepIsLocal DEF CallStep, Proc
  <2>2. at[Main] = "idle"
    BY <1>2 DEF Begin, PhasesOK
  <2> QED
    BY <1>a, <1>b, <2>1, <2>2
<1>3. ASSUME ServerStep(Main) PROVE PersistedOK'
  <2>1. /\ InFlight(Main) /\ UNCHANGED processVars /\ Route(Main)
        /\ \A c \in Call : ~InFlight(c)
    BY <1>3, <1>a, StepsAreInFlight, InFlightMeans DEF RouteOK
  <2>2. CASE OpenNames(Main)
    BY <1>a, <2>1, <2>2 DEF TypeOK, PersistedOK, OpenNames, Goto, processVars
  <2>3. CASE WriteRows(Main)
    <3>1. Savers("writing") \ {Main} = {}
      BY <2>1 DEF Savers, Proc, InFlight, Ended
    <3>2. at'[Main] = "failed" \/ (at'[Main] = "naming" /\ file'.rows = ledger.rows /\ ledger' = ledger)
      BY <1>a, <2>3, <3>1 DEF TypeOK, WriteRows, Written, Leave, Goto
    <3> QED
      BY <3>2 DEF PersistedOK
  <2>4. CASE WriteNames(Main)
    <3>1. Savers("finishing") \ {Main} = {}
      BY <2>1 DEF Savers, Proc, InFlight, Ended
    <3>2. /\ at'[Main] = "failed" \/ (at'[Main] = "done" /\ file'.names = ledger.names)
          /\ file'.rows = file.rows /\ ledger' = ledger /\ at[Main] = "finishing"
      BY <1>a, <2>4, <3>1 DEF TypeOK, WriteNames, Written, Leave, Goto
    <3> QED
      BY <2>1, <3>2 DEF PersistedOK, processVars
  <2>5. CASE OpenRows(Main)
    BY <1>a, <2>5 DEF TypeOK, PersistedOK, OpenRows, Leave, Goto
  <2>6. ASSUME NEW l \in Locks, Enter(Main, l) PROVE PersistedOK'
    <3>1. l = "ledger" /\ kind[Main] = "persist" /\ at'[Main] = Inside(Main, l)
      BY <1>a, <2>1, <2>6 DEF TypeOK, Enter, Goto, Route, Locks
    <3> QED
      BY <3>1 DEF PersistedOK, Inside
  <2>7. ASSUME NEW l \in Locks, EnterPoisoned(Main, l) PROVE PersistedOK'
    BY <1>a, <2>7 DEF TypeOK, PersistedOK, EnterPoisoned, Leave, Goto
  <2>8. ASSUME NEW l \in Locks, Queue(Main, l) PROVE FALSE
    BY <2>1, <2>8 DEF Queue, Writes, Route
  <2>9. ~Append(Main) /\ ~Import(Main) /\ ~Transform(Main) /\ ~Compute(Main) /\ ~Download(Main)
        /\ ~Install(Main) /\ ~Read(Main) /\ ~OpenSaved(Main) /\ ~OpenSavedNames(Main) /\ ~Swap(Main)
    BY <2>1 DEF Route, Append, Import, Read, Transform, Compute, Download, Install, OpenSaved, OpenSavedNames, Swap
  <2> QED
    BY <1>3, <2>2, <2>3, <2>4, <2>5, <2>6, <2>7, <2>8, <2>9 DEF ServerStep
<1>4. ASSUME Persist PROVE PersistedOK'
  BY <1>4, <1>a DEF TypeOK, PersistedOK, Persist, Goto, processVars
<1>5. ASSUME Serialize \/ Upload PROVE PersistedOK'
  <2>1. config'.store = "url"
    BY <1>5, <1>a DEF RouteOK, Route, Serialize, Upload, processVars
  <2> QED
    BY <2>1 DEF PersistedOK
<1>6. ASSUME Stop \/ Sigterm PROVE PersistedOK'
  BY <1>6 DEF PersistedOK, Stop, Sigterm, callVars, storeVars
<1>7. ASSUME Start PROVE PersistedOK'
  BY <1>7, <1>a DEF TypeOK, PersistedOK, Start
<1>8. ASSUME Crash PROVE PersistedOK'
  BY <1>8 DEF PersistedOK, Crash
<1>9. ASSUME UNCHANGED vars PROVE PersistedOK'
  BY <1>9 DEF PersistedOK, vars
<1> QED
  BY <1>a, <1>1, <1>2, <1>3, <1>4, <1>5, <1>6, <1>7, <1>8, <1>9 DEF Next, MainStep, Proc

-----------------------------------------------------------------------------
(* The invariant, and what follows from it. *)

LEMMA InitOK ==
    ASSUME Init
    PROVE  IInv
<1>a. Main \notin Call /\ None \notin Proc /\ Main \in Proc /\ MaxBatches \in Nat /\ MaxStarts \in Nat
  BY ServerAssumption DEF Proc
<1>b. PICK setup \in Setups :
         config = setup.config /\ kind = [p \in Proc |-> IF p = Main THEN "persist" ELSE setup.kinds[p]]
  BY DEF Init
<1>c. setup.config \in Config /\ setup.kinds \in [Call -> Kinds \ {"persist"}]
  BY ServerAssumption
<1>1. TypeOK
  <2>1. kind \in [Proc -> Kinds] /\ config \in Config
    BY <1>a, <1>b, <1>c DEF Proc, Kinds
  <2>2. at \in [Proc -> Steps] /\ count \in [Proc -> 0..MaxBatches] /\ lock \in [Locks -> RwLock]
    BY <1>a DEF Init, Steps, Free, RwLock
  <2>3. ledger \in Ledgers
    BY DEF Init, Empty, Ledgers
  <2>4. carry = [p \in Proc |-> carry[p]]
    BY DEF Init
  <2> QED
    BY <1>a, <2>1, <2>2, <2>3, <2>4 DEF Init, TypeOK
<1>2. RouteOK
  <2>1. \A p \in Proc : at[p] = "idle" /\ count[p] = 0 /\ (kind[p] = "persist" <=> p = Main)
    BY <1>a, <1>b, <1>c DEF Init, Proc
  <2> QED
    BY <2>1 DEF RouteOK, Route, Room
<1>3. LocksOK
  BY <1>a DEF Init, Free, LocksOK, Exclusive, HoldsWhatItUses, Holds
<1>4. PhasesOK /\ LimitOK /\ PersistedOK
  BY <1>a DEF Init, PhasesOK, LimitOK, PersistedOK, InFlight, Proc
<1>5. StoresOK
  BY DEF Init, Empty, StoresOK, HistoryOK, Knows, Persisting
<1> QED
  BY <1>1, <1>2, <1>3, <1>4, <1>5 DEF IInv

\* Whatever the calls, the schedule, the panics, the crashes and the restarts: every
\* variable stays within its type, calls stay on their routes, and IInv holds.
THEOREM Invariance == Spec => []IInv
<1>1. ASSUME IInv, [Next]_vars PROVE IInv'
  BY <1>1, TypeStep, RouteStep, LocksStep, PhasesStep, StoresStep, LimitStep, PersistedStep DEF IInv
<1> QED
  BY <1>1, InitOK, PTL DEF Spec

\* Every step of the server is taken under the locks that it needs, and no guard outlives
\* the step that needs it.
THEOREM LocksAreHeld == Spec => []HoldsWhatItUses
<1>1. IInv => HoldsWhatItUses
  BY DEF IInv, LocksOK
<1> QED
  BY <1>1, Invariance, PTL

\* No load, crash or restart leaves the served ledger with a limit other than the one the
\* configuration gives it.
THEOREM LimitHolds == Spec => []LimitStaysInForce
<1>1. IInv => LimitStaysInForce
  BY DEF IInv, LimitOK, LimitStaysInForce
<1> QED
  BY <1>1, Invariance, PTL


\* A save writes one ledger, with rows and unpoisoned, that no call changes meanwhile:
\* writers and savers exclude each other by the ledger's lock, and a save starts only
\* from a lock that is not poisoned and from a ledger that is not empty.
THEOREM SavesHold == Spec => SavesAreSound
<1>1. ASSUME IInv, IInv', [Next]_vars PROVE SoundSave
  <2>a. Main \in Proc
    BY DEF Proc
  <2>1. ASSUME NEW q \in Proc, at[q] \in {"writing", "naming", "finishing"}
        PROVE  ledger' = ledger \/ phase' = "down"
    <3>1. q \in lock["ledger"].readers /\ InFlight(q)
      BY <1>1, <2>1 DEF IInv, LocksOK, HoldsWhatItUses, Holds, InFlight, Ended
    <3>2. \A p \in Proc : lock["ledger"].writer # p
      BY <1>1, <3>1, ServerAssumption DEF IInv, LocksOK, Exclusive, Locks
    <3>3. \A p \in Proc : at[p] \notin {"appending", "importing", "swapping"}
      BY <1>1, <3>2 DEF IInv, LocksOK, HoldsWhatItUses, Holds
    <3>4. ~Start
      BY <1>1, <3>1 DEF IInv, PhasesOK, Start
    <3> QED
      BY <1>1, <3>3, <3>4, ZenonT(40)
      DEF Next, MainStep, ServerStep, Queue, Enter, EnterPoisoned, Append, Import, Swap, Read,
          Transform, Compute, Download, Install, OpenRows, WriteRows, OpenNames, WriteNames, OpenSaved,
          OpenSavedNames, Begin, Receive, Panic, Persist, Serialize, Upload, Stop, Sigterm, Crash, vars
  <2>2. ASSUME lock["ledger"].poisoned
        PROVE  file' = file /\ blob' = blob
    <3>1. \A p \in Proc : at[p] \notin Persisting
      BY <1>1, <2>2 DEF IInv, StoresOK, Knows
    <3>2. \A p \in Proc : ~OpenRows(p) /\ ~WriteRows(p) /\ ~OpenNames(p) /\ ~WriteNames(p)
      BY <3>1 DEF Persisting, OpenRows, WriteRows, OpenNames, WriteNames
    <3>3. ~Upload
      BY <2>a, <3>1 DEF Persisting, Upload
    <3> QED
      BY <1>1, <3>2, <3>3, ZenonT(40)
      DEF Next, MainStep, ServerStep, Queue, Enter, EnterPoisoned, Append, Import, Swap, Read,
          Transform, Compute, Download, Install, OpenSaved, OpenSavedNames, Begin, Receive, Panic,
          Persist, Serialize, Stop, Start, Sigterm, Crash, vars, storeVars
  <2>3. {} \notin {file'.rows, blob'}
    <3>1. {} # None /\ {} # Torn
      BY ServerAssumption
    <3> QED
      BY <1>1, <3>1 DEF IInv, StoresOK, HistoryOK
  <2> QED
    BY <2>1, <2>2, <2>3 DEF SoundSave, Savers
<1> QED
  BY <1>1, Invariance, PTL DEF Spec, SavesAreSound

\* A ledger kept in a file survives an orderly shutdown and start with its rows and its
\* names, if the save succeeded: the main task writes alone, so neither file is torn.
THEOREM RestartKeeps == Spec => OrderlyRestartKeepsLedger
<1>1. ASSUME IInv, [Next]_vars PROVE OrderlyRestart
  <2>1. SUFFICES ASSUME phase = "stopped", phase' = "running", config.store = "path", at[Main] = "done"
                 PROVE  ledger'.rows = ledger.rows /\ ledger'.names = ledger.names
    BY DEF OrderlyRestart
  <2>2. file.rows = ledger.rows /\ file.names = ledger.names
    BY <1>1, <2>1 DEF IInv, PersistedOK
  <2>3. file.rows \notin {None, Torn} /\ file.names \notin {None, Torn}
    BY <1>1, <2>2, ServerAssumption DEF IInv, TypeOK, Ledgers
  <2>4. Stored = {[rows |-> file.rows, names |-> file.names]}
    BY <2>1, <2>3 DEF Stored, LoadIpc
  <2>5. \A p \in Proc : ~ServerStep(p)
    BY <1>1, <2>1, StepsAreInFlight, InFlightMeans DEF IInv
  <2>6. Start
    BY <1>1, <2>1, <2>5
    DEF Next, MainStep, Begin, Receive, Panic, Persist, Serialize, Upload, Stop, Sigterm, Crash, vars,
        processVars
  <2> QED
    BY <2>2, <2>4, <2>6 DEF Start
<1> QED
  BY <1>1, Invariance, PTL DEF Spec, OrderlyRestartKeepsLedger

\* The server with its locks, threads, files, panics, crashes and restarts keeps the
\* promise of LedgerService: a batch is added once, by the call whose token it is; what a
\* load or a start serves was saved whole; and kernels only accumulate.
THEOREM Implements == Spec => IsLedgerService
<1>1. ASSUME Init PROVE Promise!Init
  BY <1>1 DEF Init, Empty, Promise!Init
<1>2. ASSUME IInv, [Next]_vars PROVE [Promise!Next]_(Promise!vars)
  <2>a. Main \in Proc
    BY DEF Proc
  <2>b. ASSUME UNCHANGED <<ledger, almanac, saved>> PROVE [Promise!Next]_(Promise!vars)
    BY <2>b DEF Promise!vars
  <2>1. ASSUME NEW p \in Proc, Append(p) PROVE [Promise!Next]_(Promise!vars)
    <3>1. CASE UNCHANGED ledger
      BY <2>1, <2>b, <3>1 DEF Append, storeVars
    <3>2. CASE ledger' = [ledger EXCEPT !.rows = @ \cup {<<p, count[p] + 1>>}]
      <4>1. <<p, count[p] + 1>> \in Token
        BY <1>2, <2>1, CountTyped DEF IInv, Append, Token
      <4>2. <<p, count[p] + 1>> \notin ledger.rows
        <5>1. count[p] \in Nat
          BY <1>2, ServerAssumption DEF IInv, TypeOK
        <5> QED
          BY <1>2, <5>1 DEF IInv, StoresOK, HistoryOK
      <4>3. ledger'.rows = ledger.rows \cup {<<p, count[p] + 1>>}
        BY <1>2, <3>2 DEF IInv, TypeOK, Ledgers
      <4> QED
        BY <2>1, <4>1, <4>2, <4>3 DEF Append, storeVars, Promise!Next, Promise!Add
    <3> QED
      BY <2>1, <3>1, <3>2 DEF Append
  <2>2. ASSUME NEW p \in Proc, Import(p) PROVE [Promise!Next]_(Promise!vars)
    <3>1. ledger'.rows = ledger.rows
      BY <1>2, <2>2 DEF IInv, TypeOK, Ledgers, Import
    <3> QED
      BY <2>2, <3>1 DEF Import, storeVars, Promise!vars
  <2>3. ASSUME NEW p \in Proc, Install(p) PROVE [Promise!Next]_(Promise!vars)
    <3>1. p \in Call
      BY <1>2, <2>3 DEF IInv, RouteOK, Route, Install, Proc
    <3> QED
      BY <2>3, <3>1 DEF Install, storeVars, Promise!vars, Promise!Next, Promise!Install
  <2>4. ASSUME NEW p \in Proc, WriteRows(p) PROVE [Promise!Next]_(Promise!vars)
    <3>1. ledger.rows # {}
      BY <1>2, <2>4 DEF IInv, StoresOK, Knows, WriteRows
    <3>2. UNCHANGED <<ledger, almanac>> /\ (saved' = saved \/ saved' = saved \cup {ledger.rows})
      BY <2>4 DEF WriteRows, Written
    <3> QED
      BY <3>1, <3>2 DEF Promise!vars, Promise!Next, Promise!Save
  <2>5. ASSUME Upload PROVE [Promise!Next]_(Promise!vars)
    <3>1. carry[Main] = ledger.rows /\ ledger.rows # {}
      BY <1>2, <2>5, <2>a DEF IInv, StoresOK, Knows, Upload
    <3>2. UNCHANGED <<ledger, almanac>> /\ (saved' = saved \/ saved' = saved \cup {ledger.rows})
      BY <2>5, <3>1 DEF Upload
    <3> QED
      BY <3>1, <3>2 DEF Promise!vars, Promise!Next, Promise!Save
  <2>6. ASSUME NEW p \in Proc, Swap(p) PROVE [Promise!Next]_(Promise!vars)
    <3>1. ledger'.rows \in saved
      BY <1>2, <2>6 DEF IInv, RouteOK, Route, StoresOK, Knows, Swap, LoadedLedger
    <3> QED
      BY <2>6, <3>1 DEF Swap, storeVars, Promise!Next, Promise!Replace
  <2>7. ASSUME Start \/ Crash PROVE [Promise!Next]_(Promise!vars)
    <3>1. ledger'.rows \in saved \cup {{}} /\ almanac' = {} /\ saved' = saved
      <4>1. CASE Crash
        BY <4>1 DEF Crash, Empty, storeVars
      <4>2. CASE Start
        <5>1. \A s \in LoadIpc \cup ObjectStoreDownload \cup {Failure} : s.rows \in saved \cup {{}}
          BY <1>2 DEF IInv, StoresOK, HistoryOK, LoadIpc, ObjectStoreDownload, LoadIpcFromBytes, Failure
        <5>2. config.store \in {"path", "url", "none"}
          BY <1>2 DEF IInv, TypeOK, Config
        <5>3. Stored \subseteq LoadIpc \cup ObjectStoreDownload \cup {Failure}
          BY <5>2 DEF Stored
        <5> QED
          BY <4>2, <5>1, <5>3 DEF Start, storeVars
      <4> QED
        BY <2>7, <4>1, <4>2
    <3> QED
      BY <3>1 DEF Promise!Next, Promise!Restart
  <2>8. ASSUME NEW p \in Proc, ServerStep(p),
               ~Append(p), ~Import(p), ~Install(p), ~WriteRows(p), ~Swap(p)
        PROVE  [Promise!Next]_(Promise!vars)
    <3>1. UNCHANGED <<ledger, almanac, saved>>
      BY <2>8 DEF ServerStep, Queue, Enter, EnterPoisoned, Read, Transform, Compute, Download, OpenRows,
                  OpenNames, WriteNames, OpenSaved, OpenSavedNames, storeVars
    <3> QED
      BY <2>b, <3>1
  <2>9. ASSUME NEW c \in Call, Begin(c) \/ Receive(c) \/ Panic(c)
        PROVE  [Promise!Next]_(Promise!vars)
    BY <2>b, <2>9 DEF Begin, Receive, Panic, storeVars
  <2>10. ASSUME Persist \/ Serialize \/ Stop \/ Sigterm \/ UNCHANGED vars
         PROVE  [Promise!Next]_(Promise!vars)
    BY <2>b, <2>10 DEF Persist, Serialize, Stop, Sigterm, storeVars, vars
  <2> QED
    BY <1>2, <2>1, <2>2, <2>3, <2>4, <2>5, <2>6, <2>7, <2>8, <2>9, <2>10 DEF Next, MainStep
<1> QED
  BY <1>1, <1>2, Invariance, PTL DEF Spec, IsLedgerService, Promise!Spec
=============================================================================
