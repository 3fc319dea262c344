------------------------------ MODULE Schemas -------------------------------
(***************************************************************************)
(* The columns of a row and the codes in them (schema.rs, entity.rs,       *)
(* vocabulary.rs, identity.rs), and how a producer fills them: the         *)
(* builders take a measurement argument by argument, keep one sequence per *)
(* column and put the columns together by position.                        *)
(*                                                                         *)
(* A field is [name, nullable, meta, kind, fields], `fields` its children; *)
(* a row is the sequence of its columns, a struct column the sequence of   *)
(* its fields.                                                             *)
(***************************************************************************)
EXTENDS Integers, SequencesExt

IsList(s) == Len(s) \in Nat /\ s = [i \in 1..Len(s) |-> s[i]]

(* Vocabularies: the token of each code, from 0, the reserved placeholder. *)

LengthUnit == <<"-", "km", "m", "cm", "mm", "au", "in", "ft", "mi", "nmi">>
TimeScaleCode == <<"-", "TAI", "TT", "ET", "TDB", "UTC", "GPST", "GST", "BDT", "QZSST",
                   "TCG", "TCB", "TL", "TCL">>
EstimateType == <<"-", "MEASURED", "ESTIMATED", "SIMULATED">>

MaxCode(vocabulary) == Len(vocabulary) - 1
Code(vocabulary, token) == (CHOOSE i \in DOMAIN vocabulary : vocabulary[i] = token) - 1

\* from_code: `wrapping_sub` sends the reserved 0 out of range.
Decodes(vocabulary, code) == code \in 1..MaxCode(vocabulary)

\* TimeScaleCode to hifitime's TimeScale, member by member.
HifitimeScale(code) == TimeScaleCode[code + 1]

TAI == Code(TimeScaleCode, "TAI")

-----------------------------------------------------------------------------
(* Fields and schemas. *)

Field(name, kind, nullable) ==
    [name |-> name, nullable |-> nullable, meta |-> <<>>, kind |-> kind, fields |-> <<>>]

IdField(name) == [Field(name, "id", FALSE) EXCEPT !.meta = <<"arrow.uuid">>]
VocabularyField(name, vocabulary) == [Field(name, "u8", FALSE) EXCEPT !.meta = vocabulary]

\* sts_schema
StsSchema == <<
    IdField("frame_id"), VocabularyField("units_pos", LengthUnit),
    VocabularyField("timescale_id", TimeScaleCode), IdField("source_id"),
    VocabularyField("estimate_type", EstimateType), Field("position", "f64[3]", FALSE),
    Field("quaternion", "f64[4]", FALSE), Field("duration_centuries", "i16", FALSE),
    Field("duration_ns", "u64", FALSE), Field("position_covariance", "f64[6]", TRUE),
    Field("orientation_covariance", "f64[6]", TRUE)>>

\* entity_schema
EntitySchema == <<
    IdField("entity_id"),
    [Field("spacetimestamp", "struct", FALSE) EXCEPT !.fields = StsSchema],
    Field("velocity", "f64[3]", TRUE), Field("angular_velocity", "f64[3]", TRUE),
    Field("acceleration", "f64[3]", TRUE), Field("mass_kg", "f64", TRUE),
    Field("state_covariance", "f64[21]", TRUE), Field("dimensions", "f64[3]", TRUE)>>

-----------------------------------------------------------------------------
(* Builders. *)

StsColumns ==
    {"frame_id", "units_pos", "timescale_id", "source_id", "estimate_type", "position", "quaternion",
     "duration_centuries", "duration_ns", "position_covariance", "orientation_covariance"}
EntityColumns ==
    {"entity_id", "velocity", "angular_velocity", "acceleration", "mass_kg", "state_covariance", "dimensions"}

\* SpaceTimestampBuilder::new and EntityBuilder::new
NoStsRows == [column \in StsColumns |-> <<>>]
NoEntityRows == [sts |-> NoStsRows, own |-> [column \in EntityColumns |-> <<>>]]

\* append_spacetimestamp: vocabularies are stored as their codes.
StsValue(m, column) ==
    CASE column = "units_pos" -> Code(LengthUnit, m.units_pos)
      [] column = "timescale_id" -> Code(TimeScaleCode, m.timescale_id)
      [] column = "estimate_type" -> Code(EstimateType, m.estimate_type)
      [] OTHER -> m[column]

AppendSts(built, m) == [column \in StsColumns |-> Append(built[column], StsValue(m, column))]

\* append_entity: an entity has no pose covariances.
WithoutCovariances(m) ==
    LET covariances == {"position_covariance", "orientation_covariance"}
    IN  [column \in DOMAIN m \cup covariances |-> IF column \in covariances THEN "null" ELSE m[column]]

AppendEntity(built, m) ==
    [sts |-> AppendSts(built.sts, WithoutCovariances(m)),
     own |-> [column \in EntityColumns |-> Append(built.own[column], m[column])]]

\* Rows of columns that stand side by side.
Zipped(columns) == [r \in DOMAIN columns[1] |-> [i \in DOMAIN columns |-> columns[i][r]]]

\* finish_as_struct
FinishAsStruct(built) == Zipped(<<
    built.frame_id, built.units_pos, built.timescale_id, built.source_id, built.estimate_type,
    built.position, built.quaternion, built.duration_centuries, built.duration_ns,
    built.position_covariance, built.orientation_covariance>>)

\* EntityBuilder::flush
FlushEntity(built) ==
    [schema |-> EntitySchema,
     rows |-> Zipped(<<
        built.own.entity_id, FinishAsStruct(built.sts), built.own.velocity,
        built.own.angular_velocity, built.own.acceleration, built.own.mass_kg,
        built.own.state_covariance, built.own.dimensions>>)]

\* What a producer sends of its measurements.
Built(measured) ==
    LET built[n \in 0..Len(measured)] ==
            IF n = 0 THEN NoEntityRows ELSE AppendEntity(built[n - 1], measured[n])
    IN  FlushEntity(built[Len(measured)])

\* SpaceTimestampBuilder::flush: the same columns at the top level.
FlushSts(built) == [schema |-> StsSchema, rows |-> FinishAsStruct(built)]
BuiltSts(measured) ==
    LET built[n \in 0..Len(measured)] ==
            IF n = 0 THEN NoStsRows ELSE AppendSts(built[n - 1], measured[n])
    IN  FlushSts(built[Len(measured)])

-----------------------------------------------------------------------------
(* Reading a batch [schema, rows] by name; StsColumns finds its columns nested or at the    *)
(* top level.                                                                               *)

Has(fields, name) == \E i \in DOMAIN fields : fields[i].name = name
IndexOf(fields, name) == CHOOSE i \in DOMAIN fields :
                            fields[i].name = name /\ \A j \in 1..(i - 1) : fields[j].name # name
FieldOf(fields, name) == fields[IndexOf(fields, name)]

Value(batch, r, name) == batch.rows[r][IndexOf(batch.schema, name)]

Sts(batch, r, name) ==
    IF Has(batch.schema, "spacetimestamp")
    THEN LET at == IndexOf(batch.schema, "spacetimestamp")
         IN  batch.rows[r][at][IndexOf(batch.schema[at].fields, name)]
    ELSE Value(batch, r, name)
=============================================================================
