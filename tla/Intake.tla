------------------------------- MODULE Intake -------------------------------
(***************************************************************************)
(* What a batch goes through on its way into a ledger and out of it again: *)
(* its schema is held against the ledger's (schema.rs, ledger.rs), its     *)
(* values against the vocabularies (validation.rs), its epochs are put on  *)
(* TAI (transforms.rs), the segment is measured, and a query reads it      *)
(* (query.rs).  A file of batches enters through from_loaded instead,      *)
(* which only measures them.                                               *)
(*                                                                         *)
(* Columns are stored by position and read by name (see Schemas).          *)
(***************************************************************************)
EXTENDS FiniteSets, Schemas

CONSTANTS
    SchemaFiles,        \* what schema_path may lead to: [state |-> "none", "torn" or "read", schema]
    IntakeBatches,      \* batches that arrive, [schema, rows]
    Measured,           \* sequences of measurements a producer sends through EntityBuilder
    Files,              \* saved files that did not come through append
    IdColumn,           \* storage.id_column, "" for none
    IdKind,             \* of each id value: "soloc", "astro", "abstract", or "broken"
    TaiOf(_, _),        \* hifitime: the offset from J2000 TAI of a reading of a time scale, saturating
    CenturyLength,      \* nanoseconds per century
    MaxCenturies,       \* i16::MAX; i16::MIN is below its negative
    J2000,              \* J2000 TAI, from hifitime's own reference epoch
    TimeRanges,         \* of do_get tickets: {} or {<<start, end>>}
    Origins, Radii,     \* of do_get tickets: {} or a position, {} or a length
    MaxIntake           \* bound: batches a ledger holds

\* Duration::MAX and Duration::MIN
MaxDuration == (MaxCenturies + 1) * CenturyLength
MinDuration == -MaxDuration
Durations == MinDuration..MaxDuration

\* Arrow: a schema is a list of fields, a batch a list of rows with a value for each column of
\* its schema and each child of a struct, and a column of an integer type holds integers.
IsSchema(schema) == IsList(schema) /\ \A i \in DOMAIN schema : IsList(schema[i].fields)
FitsSchema(batch) ==
    /\ batch = [schema |-> batch.schema, rows |-> batch.rows]
    /\ IsSchema(batch.schema)
    /\ IsList(batch.rows)
    /\ \A r \in DOMAIN batch.rows :
          /\ IsList(batch.rows[r]) /\ DOMAIN batch.rows[r] = DOMAIN batch.schema
          /\ \A i \in DOMAIN batch.schema : batch.schema[i].kind = "struct" =>
                /\ IsList(batch.rows[r][i]) /\ DOMAIN batch.rows[r][i] = DOMAIN batch.schema[i].fields
                /\ \A j \in DOMAIN batch.schema[i].fields :
                      batch.schema[i].fields[j].kind \in {"u8", "i16", "u64"} => batch.rows[r][i][j] \in Int
IsMeasurement(m) ==
    /\ DOMAIN m = StsColumns \cup EntityColumns
    /\ m.position_covariance = "null" /\ m.orientation_covariance = "null"
    /\ m.units_pos \in ToSet(LengthUnit) \ {"-"}
    /\ m.timescale_id \in ToSet(TimeScaleCode) \ {"-"}
    /\ m.estimate_type \in ToSet(EstimateType) \ {"-"}
    /\ m.duration_centuries \in Int /\ m.duration_ns \in Int

ASSUME IntakeAssumption ==
    /\ CenturyLength \in Nat \ {0} /\ MaxCenturies \in Nat /\ J2000 \in Nat /\ MaxIntake \in Nat
    /\ \A scale \in ToSet(TimeScaleCode), d \in Durations : TaiOf(scale, d) \in Durations
    /\ \A d \in Durations : TaiOf("TAI", d) = d
    /\ \A range \in UNION TimeRanges : range[1] \in Int /\ range[2] \in Int
    /\ \A file \in SchemaFiles : file.state = "read" => IsSchema(file.schema)
    /\ \A batch \in IntakeBatches : FitsSchema(batch)
    /\ \A file \in Files :
          /\ IsSchema(file.schema) /\ IsList(file.batches)
          /\ \A i \in DOMAIN file.batches : FitsSchema([schema |-> file.schema, rows |-> file.batches[i]])
    /\ \A ms \in Measured : IsList(ms) /\ \A i \in DOMAIN ms : IsMeasurement(ms[i])

Refused == [refused |-> TRUE]

-----------------------------------------------------------------------------
(* Schemas. *)

SameType(f, g) == f.kind = g.kind /\ f.fields = g.fields

\* validate_sts_schema
ValidateStsSchema(schema) ==
    /\ Has(schema, "spacetimestamp")
    /\ FieldOf(schema, "spacetimestamp").kind = "struct"
    /\ \A i \in DOMAIN StsSchema :
          LET fields == FieldOf(schema, "spacetimestamp").fields
              expected == StsSchema[i]
          IN  Has(fields, expected.name) /\ SameType(FieldOf(fields, expected.name), expected)

\* Ledger::validate_schema
ValidateSchema(schema) ==
    /\ ValidateStsSchema(schema)
    /\ IdColumn # "" => Has(schema, IdColumn) /\ FieldOf(schema, IdColumn).kind = "id"

\* same_but_metadata.  A struct has one level of children here, a leaf has none.
SameButMetadata(f, g) ==
    LET alike(x, y) == x.name = y.name /\ x.nullable = y.nullable /\ x.kind = y.kind
    IN  /\ alike(f, g)
        /\ Len(f.fields) = Len(g.fields)
        /\ \A i \in DOMAIN f.fields : alike(f.fields[i], g.fields[i])

Conforms(found, schema) ==
    /\ Len(found) = Len(schema)
    /\ \A i \in DOMAIN found : SameButMetadata(found[i], schema[i])

\* conform_to_schema: the columns stay, the schema is replaced.
ConformToSchema(batch, schema) ==
    IF Conforms(batch.schema, schema) THEN [batch EXCEPT !.schema = schema] ELSE Refused

-----------------------------------------------------------------------------
EntityAt(batch, r) == Value(batch, r, IdColumn)

\* id_at: what kind of id a value is, none for a null and for bytes that are not an id.
IdAt(value) == {IdKind[value]} \ {"broken"}
NamesAFrame(value) == \E kind \in IdAt(value) : kind \in {"soloc", "astro"}

\* validate_vocabulary: no nulls (a null is below every code), then the lowest and the highest.
ValidateVocabulary(batch, name, vocabulary) ==
    LET codes == {Sts(batch, r, name) : r \in DOMAIN batch.rows}
    IN  \A c \in codes :
            ((\A d \in codes : c <= d) \/ (\A d \in codes : d <= c)) => Decodes(vocabulary, c)

\* validate_spacetimestamp_batch.  A null frame passes.
ValidateBatch(batch) ==
    /\ ValidateVocabulary(batch, "units_pos", LengthUnit)
    /\ ValidateVocabulary(batch, "timescale_id", TimeScaleCode)
    /\ ValidateVocabulary(batch, "estimate_type", EstimateType)
    /\ \A r \in DOMAIN batch.rows :
          LET frame == Sts(batch, r, "frame_id")
          IN  frame = "null" \/ NamesAFrame(frame)

\* The rows TransformTree::ingest_batch can read: without an id column it reads none.  Its
\* cycle check is modelled in Ledger.
TopologyReads(batch) ==
    IdColumn # "" =>
        \A r \in DOMAIN batch.rows :
            NamesAFrame(EntityAt(batch, r)) /\ NamesAFrame(Sts(batch, r, "frame_id"))

-----------------------------------------------------------------------------
(* Epochs. *)

Clamp(d) == IF d > MaxDuration THEN MaxDuration ELSE IF d < MinDuration THEN MinDuration ELSE d

\* Duration::from_parts and to_parts.  Duration::MAX is a full century after the last one.
FromParts(centuries, ns) == Clamp(centuries * CenturyLength + ns)
ToParts(d) == IF d = MaxDuration THEN <<MaxCenturies, CenturyLength>>
              ELSE <<d \div CenturyLength, d % CenturyLength>>

\* epoch_from_parts, on the TAI time line; and `epoch - j2000_tai()`.
EpochFromParts(centuries, ns, scale) == Clamp(J2000 + TaiOf(HifitimeScale(scale), FromParts(centuries, ns)))
SinceJ2000(epoch) == Clamp(epoch - J2000)
EpochToParts(epoch) == ToParts(SinceJ2000(epoch))

EpochAt(batch, r) ==
    EpochFromParts(Sts(batch, r, "duration_centuries"), Sts(batch, r, "duration_ns"),
                   Sts(batch, r, "timescale_id"))

Put(row, schema, name, value) ==
    LET at == IndexOf(schema, "spacetimestamp")
    IN  [row EXCEPT ![at][IndexOf(schema[at].fields, name)] = value]

OnTai(row, schema, parts) ==
    Put(Put(Put(row, schema, "timescale_id", TAI),
            schema, "duration_centuries", parts[1]), schema, "duration_ns", parts[2])

\* Bug: the batch is taken to be on the timescale of its first row.
NormalizeByFirst(batch) ==
    [batch EXCEPT !.rows = [r \in DOMAIN @ |->
        IF Sts(batch, 1, "timescale_id") = TAI THEN @[r]
        ELSE OnTai(@[r], batch.schema,
                   EpochToParts(EpochFromParts(Sts(batch, r, "duration_centuries"),
                                               Sts(batch, r, "duration_ns"),
                                               Sts(batch, 1, "timescale_id"))))]]

\* normalize_batch_to_tai: row by row, a row on TAI keeps its parts as they are.
NormalizeToTai(batch) ==
    [batch EXCEPT !.rows = [r \in DOMAIN @ |->
        IF Sts(batch, r, "timescale_id") = TAI THEN @[r]
        ELSE OnTai(@[r], batch.schema, EpochToParts(EpochAt(batch, r)))]]

\* The epoch Segment::new measures a row by.
MeasuredEpoch(batch, r) ==
    IF Sts(batch, r, "timescale_id") = TAI
    THEN FromParts(Sts(batch, r, "duration_centuries"), Sts(batch, r, "duration_ns"))
    ELSE SinceJ2000(EpochAt(batch, r))

\* Segment::new.  A timescale that does not decode refuses the batch.
Segment(batch) ==
    LET epochs == {MeasuredEpoch(batch, r) : r \in DOMAIN batch.rows}
    IN  IF \E r \in DOMAIN batch.rows : ~Decodes(TimeScaleCode, Sts(batch, r, "timescale_id"))
        THEN Refused
        ELSE [batch |-> batch,
              min |-> CHOOSE m \in epochs \cup {MaxDuration} : \A e \in epochs : m <= e,
              max |-> CHOOSE m \in epochs \cup {MinDuration} : \A e \in epochs : m >= e]

-----------------------------------------------------------------------------
VARIABLES
    ledgerSchema,   \* the schema of the ledger
    stored,         \* its segments in order
    origin          \* history: of each segment, the batch as it arrived, whether from a file,
                    \* and the measurements it was built of

intakeVars == <<ledgerSchema, stored, origin>>

\* Ledger::append
AppendBatch(batch, measured) ==
    LET conformed == ConformToSchema(batch, ledgerSchema)
    IN  /\ Len(stored) < MaxIntake
        /\ conformed # Refused
        /\ ValidateBatch(conformed)
        /\ LET segment == Segment(NormalizeToTai(conformed))
           IN  /\ segment # Refused
               /\ TopologyReads(segment.batch)
               /\ stored' = Append(stored, segment)
        /\ origin' = Append(origin, [batch |-> batch, loaded |-> FALSE, measured |-> measured])
        /\ UNCHANGED ledgerSchema

\* from_loaded: the file's schema and, as they stand, its batches.
LoadFile(file) ==
    LET segments == [i \in DOMAIN file.batches |-> Segment([schema |-> file.schema, rows |-> file.batches[i]])]
    IN  /\ ValidateSchema(file.schema)
        /\ file.batches # <<>>
        /\ \A i \in DOMAIN segments : segments[i] # Refused /\ TopologyReads(segments[i].batch)
        /\ ledgerSchema' = file.schema
        /\ stored' = segments
        /\ origin' = [i \in DOMAIN segments |-> [batch |-> segments[i].batch, loaded |-> TRUE, measured |-> <<>>]]

\* write_file and read_file: the ledger's own file.
SavedFile == [schema |-> ledgerSchema, batches |-> [i \in DOMAIN stored |-> stored[i].batch.rows]]

\* load_schema_ipc: the schema alone, of a file with or without batches.
LoadSchema(file) ==
    IF file.state = "read" /\ ValidateSchema(file.schema) THEN file.schema ELSE Refused

\* new_empty_ledger: schema_path if it leads to a schema that will do, else the entity schema.
FreshSchema(file) == IF LoadSchema(file) = Refused THEN EntitySchema ELSE file.schema

\* Ledger::new.  Where the entity schema does not fit the id column, the server does not start.
IntakeInit ==
    /\ ledgerSchema \in {schema \in {FreshSchema(file) : file \in SchemaFiles} : ValidateSchema(schema)}
    /\ stored = <<>>
    /\ origin = <<>>

IntakeNext ==
    \/ \E batch \in IntakeBatches : AppendBatch(batch, <<>>)
    \/ \E measured \in Measured : AppendBatch(Built(measured), measured)
    \/ \E file \in Files \cup {SavedFile} : LoadFile(file)

IntakeSpec == IntakeInit /\ [][IntakeNext]_intakeVars

-----------------------------------------------------------------------------
(* Queries.  What a ticket or a filter may leave out is a set of at most one; positions lie *)
(* on a line.                                                                               *)

GetTicket == [timeRange : TimeRanges, origin : Origins, radius : Radii]

\* SpatiotemporalFilter::new and its builders
NoFilter == [timeRange |-> {}, origin |-> {}, radius |-> {}]
WithTimeRange(filter, ranges) == [filter EXCEPT !.timeRange = ranges]
WithSpatial(filter, origins, radii) == [filter EXCEPT !.origin = origins, !.radius = radii]

\* The filter do_get makes of a ticket: a place only where both parts of it are given.
FilterOf(ticket) ==
    LET timed == WithTimeRange(NoFilter, ticket.timeRange)
    IN  IF ticket.origin # {} /\ ticket.radius # {}
        THEN WithSpatial(timed, ticket.origin, ticket.radius) ELSE timed

\* Bug: only segments that lie wholly in the range are read.
OverlapsInside(segment, start, end) == segment.min >= start /\ segment.max <= end

Overlaps(segment, start, end) == segment.min <= end /\ segment.max >= start

\* Arrow's filter, apply_boolean_mask: the elements a mask keeps, in their order.
Masked(seq, mask) == FlattenSeq([i \in DOMAIN seq |-> IF mask[i] THEN <<seq[i]>> ELSE <<>>])

MayHoldSome(segment, filter) ==
    \A range \in filter.timeRange : Overlaps(segment, SinceJ2000(range[1]), SinceJ2000(range[2]))

BatchesFor(filter) == Masked(stored, [k \in DOMAIN stored |-> MayHoldSome(stored[k], filter)])

InRange(batch, r, filter) ==
    \A range \in filter.timeRange : EpochAt(batch, r) >= range[1] /\ EpochAt(batch, r) <= range[2]

InSphere(batch, r, filter) ==
    \A centre \in filter.origin, radius \in filter.radius :
        LET d == Sts(batch, r, "position") - centre
        IN  d * d <= radius * radius

\* check_frame_uniformity: a null frame is passed over, one that is not an id refused (frame_at).
FramesIn(batch) == {Sts(batch, r, "frame_id") : r \in DOMAIN batch.rows} \ {"null"}

UniformFrames(batch) ==
    /\ \A f \in FramesIn(batch) : IdAt(f) # {}
    /\ \A f, g \in FramesIn(batch) : f = g

\* filter_batch
FilterBatch(batch, filter) ==
    IF filter.origin # {} /\ ~UniformFrames(batch) THEN Refused
    ELSE [refused |-> FALSE,
          rows |-> Masked(batch.rows, [r \in DOMAIN batch.rows |->
                                          InRange(batch, r, filter) /\ InSphere(batch, r, filter)])]

\* stream_query: the rows kept of each segment that may hold some.
StreamQuery(filter) ==
    LET segments == BatchesFor(filter)
    IN  [k \in DOMAIN segments |-> FilterBatch(segments[k].batch, filter)]

\* Ledger::query: an empty ledger refuses, and so does the first segment that does.
Query(filter) ==
    LET parts == StreamQuery(filter)
    IN  IF stored = <<>> \/ \E k \in DOMAIN parts : parts[k].refused THEN Refused
        ELSE [refused |-> FALSE, rows |-> FlattenSeq([k \in DOMAIN parts |-> parts[k].rows])]

\* do_get: a segment that refuses is left out.
DoGet(ticket) ==
    LET parts == StreamQuery(FilterOf(ticket))
    IN  FlattenSeq([k \in DOMAIN parts |-> IF parts[k].refused THEN <<>> ELSE parts[k].rows])

-----------------------------------------------------------------------------
(* Properties. *)

\* Every stored batch has exactly the ledger's schema, metadata included: otherwise a later
\* concat (current_state, save_ipc, query) would fail for the whole ledger.
StoredCarriesSchema == \A k \in DOMAIN stored : stored[k].batch.schema = ledgerSchema

\* What is read from a stored row by name is what the producer wrote under that name, for
\* every column but the three that normalisation rewrites: columns of one type that were
\* swapped do not slip in.
ColumnsKeepTheirMeaning ==
    \A k \in DOMAIN stored : \A r \in DOMAIN stored[k].batch.rows : \A i \in DOMAIN StsSchema :
        LET name == StsSchema[i].name
        IN  name \notin {"timescale_id", "duration_centuries", "duration_ns"} =>
                Sts(stored[k].batch, r, name) = Sts(origin[k].batch, r, name)

\* A row that was appended is on TAI and at the moment it was measured, whatever timescales
\* its batch mixes.
StoredIsTheMomentSent ==
    \A k \in DOMAIN stored : \A r \in DOMAIN stored[k].batch.rows :
        /\ ~origin[k].loaded => Sts(stored[k].batch, r, "timescale_id") = TAI
        /\ EpochAt(stored[k].batch, r) = EpochAt(origin[k].batch, r)

\* Every code and frame that was appended can be read back: no accessor that the reads,
\* the transforms and current_state use can fail on it.  (A null frame gets in only where
\* there is no id column.)
StoredDecodes ==
    \A k \in DOMAIN stored : \A r \in DOMAIN stored[k].batch.rows :
        ~origin[k].loaded =>
            /\ Decodes(LengthUnit, Sts(stored[k].batch, r, "units_pos"))
            /\ Decodes(TimeScaleCode, Sts(stored[k].batch, r, "timescale_id"))
            /\ Decodes(EstimateType, Sts(stored[k].batch, r, "estimate_type"))
            /\ \/ NamesAFrame(Sts(stored[k].batch, r, "frame_id"))
               \/ IdColumn = "" /\ Sts(stored[k].batch, r, "frame_id") = "null"

\* What a producer measured is what is read back by name: EntityBuilder takes the arguments in
\* another order than its columns have, and puts the columns together by position, nested or at
\* the top level.
MeasuredIsStored ==
    \A k \in DOMAIN stored : \A r \in DOMAIN origin[k].measured :
        LET m == origin[k].measured[r]
            batch == stored[k].batch
        IN  /\ \A column \in EntityColumns : Value(batch, r, column) = m[column]
            /\ \A column \in {"frame_id", "source_id", "position", "quaternion"} :
                  Sts(batch, r, column) = m[column]
            /\ LengthUnit[Sts(batch, r, "units_pos") + 1] = m.units_pos
            /\ EstimateType[Sts(batch, r, "estimate_type") + 1] = m.estimate_type
            /\ EpochAt(batch, r) = Clamp(J2000 + TaiOf(m.timescale_id,
                                                      FromParts(m.duration_centuries, m.duration_ns)))
            /\ \A i \in DOMAIN StsSchema :
                  LET name == StsSchema[i].name
                  IN  Sts(BuiltSts(origin[k].measured), r, name) = Sts(origin[k].batch, r, name)

\* The rows of a stored batch that a filter is about.
Wanted(batch, filter) ==
    FlattenSeq([r \in DOMAIN batch.rows |->
        IF InRange(batch, r, filter) /\ InSphere(batch, r, filter) THEN <<batch.rows[r]>> ELSE <<>>])

AllWanted(filter) == FlattenSeq([k \in DOMAIN stored |-> Wanted(stored[k].batch, filter)])

\* Positions that no distance is between: in two frames, or in what is none.
Incomparable(batch) == Cardinality(FramesIn(batch)) > 1 \/ \E f \in FramesIn(batch) : IdAt(f) = {}

\* The tickets whose range ends before time does.  At the end of time an epoch saturates, and so
\* does the row's in filter_batch, while its segment was measured without J2000: a row within
\* J2000 of the end is then missed.
TicketsWithinTime == {ticket \in GetTicket : \A range \in ticket.timeRange : range[2] < MaxDuration}

\* A query by time gives exactly the rows of that time, in stored order: the epoch range of
\* a segment never hides one, also where a loaded file was never put on TAI.
QueryIsExact ==
    \A ticket \in TicketsWithinTime :
        LET filter == FilterOf(ticket)
        IN  stored # <<>> /\ filter.origin = {} => Query(filter).rows = AllWanted(filter)

\* A query by place gives exactly the rows inside, or none at all: it is refused only where
\* some segment mixes frames or names one that does not decode, and such a segment never
\* contributes to an answer, however few of its rows are asked for.
PlacesAreComparedInOneFrame ==
    \A ticket \in TicketsWithinTime :
        LET filter == FilterOf(ticket)
            answer == Query(filter)
        IN  filter.origin # {} =>
                IF answer.refused THEN stored = <<>> \/ \E k \in DOMAIN stored : Incomparable(stored[k].batch)
                ELSE /\ answer.rows = AllWanted(filter)
                     /\ \A k \in DOMAIN stored :
                           Incomparable(stored[k].batch) => Wanted(stored[k].batch, filter) = <<>>

\* do_get drops the segments that cannot answer and says nothing: what it drops is only ever
\* those segments, and only for a ticket that gives a whole place.
OnlyIncomparableGoMissing ==
    \A ticket \in TicketsWithinTime :
        LET place == ticket.origin # {} /\ ticket.radius # {}
            filter == IF place THEN ticket ELSE [ticket EXCEPT !.origin = {}, !.radius = {}]
        IN  DoGet(ticket) = FlattenSeq([k \in DOMAIN stored |->
                IF place /\ Incomparable(stored[k].batch) THEN <<>> ELSE Wanted(stored[k].batch, filter)])

\* From the producer's values, through the builders, the wire, conformance, normalisation,
\* save and load: a stored row says what was measured, and can be read.
StoredIsWhatWasSent ==
    /\ StoredCarriesSchema /\ ColumnsKeepTheirMeaning /\ StoredIsTheMomentSent
    /\ StoredDecodes /\ MeasuredIsStored

\* Every query that ends before time does answers with the stored rows it is about and no
\* others, however they are cut into segments, and what a ticket's filter drops without a word
\* is only what cannot be compared.
QueriesAreExact == QueryIsExact /\ PlacesAreComparedInOneFrame /\ OnlyIncomparableGoMissing
=============================================================================
