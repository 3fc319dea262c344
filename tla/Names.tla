-------------------------------- MODULE Names --------------------------------
(***************************************************************************)
(* Prescribed ids and the registries that name them (identity.rs), on      *)
(* ledgers that exchange their registries and on payloads from anywhere.   *)
(*                                                                         *)
(* An id is its kind nibble and what its other bytes hold: for an          *)
(* astronomical frame the pair it embeds, otherwise the fields that were   *)
(* hashed (SHA-256 is taken to be injective).  A function that may refuse  *)
(* returns the set of its result, empty when it refuses.                   *)
(***************************************************************************)
EXTENDS Frames, FiniteSets, SequencesExt

CONSTANTS
    Text,           \* authorities and common names
    Lower,          \* to_ascii_lowercase
    Unusable,       \* the texts that are empty or hold a NUL byte
    Registrar,      \* the ledgers
    Claims,         \* the ids and names that producers ask to register
    Forged,         \* payloads that no registry exported
    MaxPayloads     \* bound: exports under way at a time

KindAstro == 0
KindSoloc == 1
KindAbstract == 2

\* A decoded payload: batches of rows.
IsPayload(payload) ==
    /\ Len(payload) \in Nat /\ DOMAIN payload = 1..Len(payload)
    /\ \A i \in DOMAIN payload :
        /\ Len(payload[i]) \in Nat /\ DOMAIN payload[i] = 1..Len(payload[i])
        /\ \A j \in DOMAIN payload[i] : payload[i][j].authority \in Text

ASSUME NamesAssumption ==
    /\ Lower \in [Text -> Text]
    /\ \A t \in Text : Lower[Lower[t]] = Lower[t]
    /\ \A t \in Text : Lower[t] \in Unusable <=> t \in Unusable
    /\ \A c \in Claims : c.authority \in Text
    /\ \A payload \in Forged : IsPayload(payload)
    /\ MaxPayloads \in Nat

\* PrescribedId::astronomical
Astronomical(pair) == IF Recognised(pair) THEN {[kind |-> KindAstro, body |-> pair]} ELSE {}

\* PrescribedId::astronomical_from_name
AstronomicalFromName(name) == IF name \in FrameNames THEN Astronomical(FramePair(name)) ELSE {}

\* PrescribedId::mint: `new` with KIND_SOLOC, `abstract_source` with KIND_ABSTRACT.
Mint(kind, authority, name) ==
    IF authority \in Unusable \/ name \in Unusable THEN {}
    ELSE {[kind |-> kind, body |-> [authority |-> Lower[authority], name |-> name]]}

\* from_bytes checks the version and the variant, and nothing of the other bytes.
FromBytes(raw) == IF raw.wellFormed THEN {raw.id} ELSE {}

\* The pair an id embeds, whatever its filler bytes are.
AstroFrame(id) == [eph |-> id.body.eph, orient |-> id.body.orient]

-----------------------------------------------------------------------------
VARIABLES
    names,      \* of each ledger: the registered ids -> authority and name
    payloads,   \* registries under way: sequences of batches of rows
    learned     \* the answer to the last import, or none: a number, or nothing when it was refused

namesVars == <<names, payloads, learned>>

ExpectedBindingId(kind, authority, name) ==
    IF kind = KindAstro THEN AstronomicalFromName(name) ELSE Mint(kind, authority, name)

\* A row of registry_schema; its id is bytes that may or may not be one.
RegistryRow(id, authority, name, kind) ==
    [raw |-> [wellFormed |-> TRUE, id |-> id], authority |-> authority, name |-> name, kind |-> kind]

\* One row of verify_registry_batch.
Verified(row) ==
    /\ FromBytes(row.raw) = {row.raw.id}
    /\ row.kind = row.raw.id.kind
    /\ ExpectedBindingId(row.raw.id.kind, row.authority, row.name) = {row.raw.id}

VerifiedBatch(batch) == \A i \in DOMAIN batch : Verified(batch[i])

\* The places of the rows of a payload, batch after batch.
Places(payload) == UNION {{i} \X DOMAIN payload[i] : i \in DOMAIN payload}
RowAt(payload, place) == payload[place[1]][place[2]]
ComesBefore(p, q) == p[1] < q[1] \/ (p[1] = q[1] /\ p[2] < q[2])

PlacesOf(payload, id) == {p \in Places(payload) : RowAt(payload, p).raw.id = id}
IdsOf(payload) == {RowAt(payload, p).raw.id : p \in Places(payload)}
LastRowOf(payload, id) ==
    RowAt(payload, CHOOSE p \in PlacesOf(payload, id) :
                       \A q \in PlacesOf(payload, id) : q = p \/ ComesBefore(q, p))

\* Bug: the authority is kept as it is spelled.
BoundAsSpelled(authority, name) == [authority |-> authority, name |-> name]

Bound(authority, name) == [authority |-> Lower[authority], name |-> name]

\* apply_verified: every row is inserted, the last one of an id stays.
Applied(registry, payload) ==
    [id \in DOMAIN registry \cup IdsOf(payload) |->
        IF id \in IdsOf(payload)
        THEN Bound(LastRowOf(payload, id).authority, LastRowOf(payload, id).name)
        ELSE registry[id]]

CountLearned(registry, payload) == Cardinality(IdsOf(payload) \ DOMAIN registry)

\* Bug: batch after batch is verified and applied.
MergedByBatch(registry, payload) ==
    LET good == {k \in 0..Len(payload) : \A i \in 1..k : VerifiedBatch(payload[i])}
        k == CHOOSE k \in good : \A j \in good : j <= k
        valid == SubSeq(payload, 1, k)
    IN  [names |-> Applied(registry, valid),
         learned |-> IF k < Len(payload) THEN {} ELSE {CountLearned(registry, valid)}]

\* merge_batches
Merged(registry, payload) ==
    IF \A i \in DOMAIN payload : VerifiedBatch(payload[i])
    THEN [names |-> Applied(registry, payload), learned |-> {CountLearned(registry, payload)}]
    ELSE [names |-> registry, learned |-> {}]

\* to_batch
ToBatch(registry) ==
    LET ids == SetToSeq(DOMAIN registry)
    IN  [i \in DOMAIN ids |->
            RegistryRow(ids[i], registry[ids[i]].authority, registry[ids[i]].name, ids[i].kind)]

\* Bug: a registered name hides the frame's own.
DisplayRegistered(registry, id) ==
    IF id \in DOMAIN registry THEN registry[id].name
    ELSE IF id.kind = KindAstro /\ Recognised(AstroFrame(id)) THEN FrameName(AstroFrame(id))
    ELSE "hyphenated"

\* NameRegistry::display
Display(registry, id) ==
    IF id.kind = KindAstro /\ Recognised(AstroFrame(id)) THEN FrameName(AstroFrame(id))
    ELSE IF id \in DOMAIN registry THEN registry[id].name
    ELSE "hyphenated"

-----------------------------------------------------------------------------
\* register_name. A claim that does not mint the id is refused.
RegisterName(l, id, authority, name) ==
    /\ ExpectedBindingId(id.kind, authority, name) = {id}
    /\ names' = [names EXCEPT ![l] =
                    [i \in DOMAIN @ \cup {id} |-> IF i = id THEN Bound(authority, name) ELSE @[i]]]
    /\ UNCHANGED <<payloads, learned>>

\* names_to_ipc_bytes
ExportNames(l) ==
    /\ Cardinality(payloads) < MaxPayloads
    /\ payloads' = payloads \cup {<<ToBatch(names[l])>>}
    /\ UNCHANGED <<names, learned>>

\* merge_names_from_ipc_bytes, of an export (again, or late) or of what was forged.
ImportNames(l, payload) ==
    /\ names' = [names EXCEPT ![l] = Merged(@, payload).names]
    /\ learned' = Merged(names[l], payload).learned
    /\ UNCHANGED payloads

NamesInit ==
    /\ names = [l \in Registrar |-> <<>>]
    /\ payloads = {}
    /\ learned = {}

NamesNext ==
    \E l \in Registrar :
        \/ \E c \in Claims : RegisterName(l, c.id, c.authority, c.name)
        \/ ExportNames(l)
        \/ \E payload \in payloads \cup Forged : ImportNames(l, payload)

NamesSpec == NamesInit /\ [][NamesNext]_namesVars

-----------------------------------------------------------------------------
(* Properties. *)

\* A registry binds ids to names that mint them, under an authority in lower case: a
\* forged binding never enters, by whatever way names come in.
BindingsMint ==
    \A l \in Registrar : \A id \in DOMAIN names[l] :
        /\ ExpectedBindingId(id.kind, names[l][id].authority, names[l][id].name) = {id}
        /\ Lower[names[l][id].authority] = names[l][id].authority

\* Two ledgers that can both name an id show the same name for it, although they may
\* have learned an astronomical frame under different aliases.
DisplaysAgree ==
    \A k, l \in Registrar : \A id \in DOMAIN names[k] \cap DOMAIN names[l] :
        Display(names[k], id) = Display(names[l], id)

\* An import that is answered binds every id of its payload and counts those that the
\* ledger could not name before, once each; one that is refused changes nothing: a forged
\* row in the last batch takes the batches before it along.
ImportIsAllOrNothing ==
    [][\A l \in Registrar, payload \in payloads \cup Forged :
          ImportNames(l, payload) =>
              IF learned' = {} THEN names' = names
              ELSE /\ IdsOf(payload) \subseteq DOMAIN names'[l]
                   /\ learned' = {Cardinality(DOMAIN names'[l]) - Cardinality(DOMAIN names[l])}]_namesVars
=============================================================================
