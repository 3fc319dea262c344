---------------------------- MODULE IntakeProofs ----------------------------
(***************************************************************************)
(* Theorems about Intake, for any schemas, batches, measurements, files    *)
(* and tickets, and any lengths of a century and of time: what is stored   *)
(* is what was sent, and a query answers with the rows it is about.        *)
(***************************************************************************)
EXTENDS Intake, SequenceProofs

-----------------------------------------------------------------------------
(* Lists. *)

LEMMA ListIs ==
    ASSUME NEW s, IsList(s)
    PROVE  /\ Len(s) \in Nat /\ DOMAIN s = 1..Len(s)
           /\ s = [i \in 1..Len(s) |-> s[i]]
<1>1. DOMAIN s = 1..Len(s)
  BY DEF IsList
<1> QED
  BY <1>1 DEF IsList

LEMMA ListIsSeq ==
    ASSUME NEW s, IsList(s)
    PROVE  s \in Seq(ToSet(s))
<1>1. Len(s) \in Nat /\ s = [i \in 1..Len(s) |-> s[i]] /\ \A i \in 1..Len(s) : s[i] \in ToSet(s)
  BY ListIs DEF ToSet
<1> QED
  BY <1>1, TabulatedSeq

LEMMA Tabulated ==
    ASSUME NEW n \in Nat, NEW f, f = [i \in 1..n |-> f[i]]
    PROVE  IsList(f) /\ Len(f) = n
<1>1. \A i \in 1..n : f[i] \in ToSet(f)
  BY DEF ToSet
<1>2. Len(f) = n
  BY <1>1, TabulatedSeq
<1> QED
  BY <1>2 DEF IsList

LEMMA ListOfSeq ==
    ASSUME NEW S, NEW s \in Seq(S)
    PROVE  IsList(s)
<1>1. Len(s) \in Nat /\ s = [i \in 1..Len(s) |-> s[i]]
  <2>1. s \in [1..Len(s) -> S] /\ Len(s) \in Nat
    BY LenProperties
  <2> QED
    BY <2>1
<1> QED
  BY <1>1, Tabulated

-----------------------------------------------------------------------------
(* Columns by name. *)

LEMMA HasLeast ==
    ASSUME NEW n \in Nat, NEW S \in SUBSET (1..n), S # {}
    PROVE  \E m \in S : \A s \in S : m <= s
<1>1. S \in SUBSET Nat
  OBVIOUS
<1>2. PICK m \in S : \A s \in S : ~(<<s, m>> \in OpToRel(<, Nat))
  BY <1>1, NatLessThanWellFounded, WFMin
<1>3. \A s \in S : ~(s < m)
  BY <1>1, <1>2 DEF OpToRel
<1> QED
  BY <1>1, <1>3

LEMMA IndexIs ==
    ASSUME NEW fields, IsList(fields), NEW name, Has(fields, name)
    PROVE  /\ IndexOf(fields, name) \in DOMAIN fields
           /\ fields[IndexOf(fields, name)].name = name
           /\ \A j \in 1..(IndexOf(fields, name) - 1) : fields[j].name # name
<1> DEFINE S == {i \in DOMAIN fields : fields[i].name = name}
<1>1. Len(fields) \in Nat /\ DOMAIN fields = 1..Len(fields)
  BY ListIs
<1>2. PICK i \in S : \A s \in S : i <= s
  BY <1>1, HasLeast DEF Has
<1>3. i \in DOMAIN fields /\ fields[i].name = name
  OBVIOUS
<1>4. ASSUME NEW j \in 1..(i - 1) PROVE fields[j].name # name
  <2>1. j \in DOMAIN fields /\ ~(i <= j)
    BY <1>1, <1>3
  <2> QED
    BY <1>2, <2>1
<1> QED
  BY <1>3, <1>4 DEF IndexOf

LEMMA IndexUnique ==
    ASSUME NEW fields, IsList(fields), NEW name, NEW i \in DOMAIN fields, fields[i].name = name,
           \A j \in 1..(i - 1) : fields[j].name # name
    PROVE  IndexOf(fields, name) = i
<1> DEFINE k == IndexOf(fields, name)
<1>1. Len(fields) \in Nat /\ DOMAIN fields = 1..Len(fields)
  BY ListIs
<1>2. k \in DOMAIN fields /\ fields[k].name = name /\ \A j \in 1..(k - 1) : fields[j].name # name
  BY IndexIs DEF Has
<1> HIDE DEF k
<1>3. ~(k < i)
  <2>1. k < i => k \in 1..(i - 1)
    BY <1>1, <1>2
  <2> QED
    BY <1>2, <2>1
<1>4. ~(i < k)
  <2>1. i < k => i \in 1..(k - 1)
    BY <1>1, <1>2
  <2> QED
    BY <1>2, <2>1
<1>5. k = i
  BY <1>1, <1>2, <1>3, <1>4
<1> QED
  BY <1>5 DEF k

\* Lists with the same names have them at the same places.
LEMMA SameNamesSameIndex ==
    ASSUME NEW f, IsList(f), NEW g, IsList(g), DOMAIN f = DOMAIN g,
           \A i \in DOMAIN f : f[i].name = g[i].name, NEW name, Has(g, name)
    PROVE  Has(f, name) /\ IndexOf(f, name) = IndexOf(g, name)
<1> DEFINE k == IndexOf(g, name)
<1>1. k \in DOMAIN g /\ g[k].name = name /\ \A j \in 1..(k - 1) : g[j].name # name
  BY IndexIs
<1>2. Len(g) \in Nat /\ DOMAIN g = 1..Len(g)
  BY ListIs
<1> HIDE DEF k
<1>3. \A j \in 1..(k - 1) : f[j].name # name
  <2>1. \A j \in 1..(k - 1) : j \in DOMAIN g
    BY <1>1, <1>2
  <2> QED
    BY <1>1, <2>1
<1>4. k \in DOMAIN f /\ f[k].name = name
  BY <1>1
<1>5. IndexOf(f, name) = k
  BY <1>3, <1>4, IndexUnique
<1>6. Has(f, name)
  BY <1>4 DEF Has
<1> QED
  BY <1>5, <1>6 DEF k

\* The columns that hold integers.
IntColumns == {"units_pos", "timescale_id", "estimate_type", "duration_centuries", "duration_ns"}

LEMMA StsFields ==
    /\ DOMAIN StsSchema = 1..11
    /\ \A i \in 1..11 : StsSchema[i].name \in StsColumns
    /\ \A name \in StsColumns : \E i \in 1..11 : StsSchema[i].name = name
    /\ \A i \in 1..11 : StsSchema[i].name \in IntColumns => StsSchema[i].kind \in {"u8", "i16", "u64"}
    /\ IntColumns \subseteq StsColumns
<1>1. DOMAIN StsSchema = 1..11
  BY DEF StsSchema
<1>2. /\ StsSchema[1].name = "frame_id" /\ StsSchema[4].name = "source_id"
      /\ StsSchema[6].name = "position" /\ StsSchema[7].name = "quaternion"
      /\ StsSchema[10].name = "position_covariance" /\ StsSchema[11].name = "orientation_covariance"
  BY DEF StsSchema, IdField, Field
<1>3. /\ StsSchema[2].name = "units_pos" /\ StsSchema[3].name = "timescale_id"
      /\ StsSchema[5].name = "estimate_type"
      /\ StsSchema[2].kind = "u8" /\ StsSchema[3].kind = "u8" /\ StsSchema[5].kind = "u8"
  BY DEF StsSchema, VocabularyField, Field
<1>4. /\ StsSchema[8].name = "duration_centuries" /\ StsSchema[9].name = "duration_ns"
      /\ StsSchema[8].kind = "i16" /\ StsSchema[9].kind = "u64"
  BY DEF StsSchema, Field
<1>5. \A i \in 1..11 : i \in {1, 2, 3, 4, 5, 6, 7, 8, 9, 10, 11}
  OBVIOUS
<1> HIDE DEF StsSchema
<1>6. \A i \in 1..11 : StsSchema[i].name \in StsColumns
  BY <1>2, <1>3, <1>4, <1>5 DEF StsColumns
<1>7. \A name \in StsColumns : \E i \in 1..11 : StsSchema[i].name = name
  <2>1. 1 \in 1..11 /\ 2 \in 1..11 /\ 3 \in 1..11 /\ 4 \in 1..11 /\ 5 \in 1..11 /\ 6 \in 1..11
        /\ 7 \in 1..11 /\ 8 \in 1..11 /\ 9 \in 1..11 /\ 10 \in 1..11 /\ 11 \in 1..11
    OBVIOUS
  <2> QED
    BY <1>2, <1>3, <1>4, <2>1 DEF StsColumns
<1>8. \A i \in 1..11 : StsSchema[i].name \in IntColumns => StsSchema[i].kind \in {"u8", "i16", "u64"}
  BY <1>2, <1>3, <1>4, <1>5 DEF IntColumns
<1> QED
  BY <1>1, <1>6, <1>7, <1>8 DEF IntColumns, StsColumns

\* A schema a batch can be read by.
Layout(schema) == IsSchema(schema) /\ ValidateStsSchema(schema)
At(schema) == IndexOf(schema, "spacetimestamp")
Col(schema, name) == IndexOf(schema[At(schema)].fields, name)

LEMMA LayoutReads ==
    ASSUME NEW schema, Layout(schema)
    PROVE  /\ Has(schema, "spacetimestamp")
           /\ At(schema) \in DOMAIN schema
           /\ schema[At(schema)].kind = "struct"
           /\ IsList(schema[At(schema)].fields)
           /\ \A name \in StsColumns :
                /\ Has(schema[At(schema)].fields, name)
                /\ Col(schema, name) \in DOMAIN schema[At(schema)].fields
                /\ schema[At(schema)].fields[Col(schema, name)].name = name
           /\ \A name \in IntColumns :
                schema[At(schema)].fields[Col(schema, name)].kind \in {"u8", "i16", "u64"}
<1> DEFINE a == At(schema)
           fields == schema[a].fields
<1>1. Has(schema, "spacetimestamp") /\ IsList(schema)
  BY DEF Layout, ValidateStsSchema, IsSchema
<1>2. a \in DOMAIN schema
  BY <1>1, IndexIs DEF At
<1>3. schema[a].kind = "struct"
  BY DEF Layout, ValidateStsSchema, FieldOf, At
<1>4. IsList(fields)
  BY <1>2 DEF Layout, IsSchema
<1>5. \A i \in DOMAIN StsSchema :
        /\ Has(fields, StsSchema[i].name)
        /\ fields[IndexOf(fields, StsSchema[i].name)].kind = StsSchema[i].kind
  BY DEF Layout, ValidateStsSchema, FieldOf, At, SameType
<1> HIDE DEF fields
<1>6. ASSUME NEW name \in StsColumns
      PROVE  /\ Has(fields, name)
             /\ IndexOf(fields, name) \in DOMAIN fields
             /\ fields[IndexOf(fields, name)].name = name
             /\ name \in IntColumns => fields[IndexOf(fields, name)].kind \in {"u8", "i16", "u64"}
  <2>1. PICK i \in 1..11 : StsSchema[i].name = name
    BY StsFields
  <2>2. Has(fields, name) /\ fields[IndexOf(fields, name)].kind = StsSchema[i].kind
    BY <1>5, <2>1, StsFields
  <2>3. name \in IntColumns => StsSchema[i].kind \in {"u8", "i16", "u64"}
    BY <2>1, StsFields
  <2> QED
    BY <1>4, <2>2, <2>3, IndexIs
<1>7. \A name \in IntColumns : name \in StsColumns
  BY StsFields
<1> USE DEF fields
<1> QED
  BY <1>1, <1>2, <1>3, <1>4, <1>6, <1>7 DEF Col

LEMMA StsReads ==
    ASSUME NEW batch, Layout(batch.schema), NEW r, NEW name
    PROVE  Sts(batch, r, name) = batch.rows[r][At(batch.schema)][Col(batch.schema, name)]
  BY LayoutReads DEF Sts, At, Col

LEMMA IntColumnsAreInt ==
    ASSUME NEW batch, Layout(batch.schema), FitsSchema(batch), NEW r \in DOMAIN batch.rows,
           NEW name \in IntColumns
    PROVE  Sts(batch, r, name) \in Int
<1> DEFINE a == At(batch.schema)
           c == Col(batch.schema, name)
<1>1. name \in StsColumns
  BY StsFields
<1>2. /\ a \in DOMAIN batch.schema /\ batch.schema[a].kind = "struct"
      /\ c \in DOMAIN batch.schema[a].fields
      /\ batch.schema[a].fields[c].kind \in {"u8", "i16", "u64"}
  BY <1>1, LayoutReads
<1> HIDE DEF a, c
<1>3. batch.rows[r][a][c] \in Int
  BY <1>2 DEF FitsSchema
<1>4. Sts(batch, r, name) = batch.rows[r][a][c]
  BY StsReads DEF a, c
<1> QED
  BY <1>3, <1>4

-----------------------------------------------------------------------------
(* Conforming to the ledger's schema moves no column. *)

LEMMA ConformReads ==
    ASSUME NEW found, IsSchema(found), NEW schema, Layout(schema), Conforms(found, schema)
    PROVE  /\ Has(found, "spacetimestamp") /\ At(found) = At(schema)
           /\ DOMAIN found = DOMAIN schema
           /\ \A i \in DOMAIN found : /\ found[i].kind = schema[i].kind
                                      /\ DOMAIN found[i].fields = DOMAIN schema[i].fields
                                      /\ \A j \in DOMAIN found[i].fields :
                                            found[i].fields[j].kind = schema[i].fields[j].kind
           /\ \A name \in StsColumns : Col(found, name) = Col(schema, name)
<1>1. IsList(found) /\ IsList(schema) /\ DOMAIN found = DOMAIN schema
  BY ListIs DEF IsSchema, Layout, Conforms
<1>2. \A i \in DOMAIN found :
        /\ found[i].name = schema[i].name
        /\ found[i].kind = schema[i].kind
        /\ Len(found[i].fields) = Len(schema[i].fields)
        /\ \A j \in DOMAIN found[i].fields :
              /\ found[i].fields[j].name = schema[i].fields[j].name
              /\ found[i].fields[j].kind = schema[i].fields[j].kind
  BY DEF Conforms, SameButMetadata
<1>3. \A i \in DOMAIN found : IsList(found[i].fields) /\ IsList(schema[i].fields)
  BY <1>1 DEF IsSchema, Layout
<1>4. \A i \in DOMAIN found : DOMAIN found[i].fields = DOMAIN schema[i].fields
  BY <1>2, <1>3, ListIs
<1>5. Has(schema, "spacetimestamp")
  BY LayoutReads
<1>6. Has(found, "spacetimestamp") /\ At(found) = At(schema)
  BY <1>1, <1>2, <1>5, SameNamesSameIndex DEF At
<1>7. ASSUME NEW name \in StsColumns PROVE Col(found, name) = Col(schema, name)
  <2> DEFINE a == At(schema)
             f == found[a].fields
             g == schema[a].fields
  <2>1. a \in DOMAIN found /\ Has(g, name)
    BY <1>1, LayoutReads
  <2>2. IsList(f) /\ IsList(g) /\ DOMAIN f = DOMAIN g /\ \A j \in DOMAIN f : f[j].name = g[j].name
    BY <1>2, <1>3, <1>4, <2>1
  <2> HIDE DEF f, g
  <2>3. IndexOf(f, name) = IndexOf(g, name)
    BY <2>1, <2>2, SameNamesSameIndex
  <2> QED
    BY <1>6, <2>3 DEF Col, f, g
<1> QED
  BY <1>1, <1>2, <1>4, <1>6, <1>7

LEMMA ConformKeepsReads ==
    ASSUME NEW batch, FitsSchema(batch), NEW schema, Layout(schema),
           ConformToSchema(batch, schema) # Refused
    PROVE  LET conformed == ConformToSchema(batch, schema)
           IN  /\ conformed.schema = schema /\ conformed.rows = batch.rows
               /\ FitsSchema(conformed)
               /\ \A r, name : name \in StsColumns => Sts(conformed, r, name) = Sts(batch, r, name)
<1> DEFINE conformed == ConformToSchema(batch, schema)
           found == batch.schema
<1>1. Conforms(found, schema) /\ conformed = [batch EXCEPT !.schema = schema]
  BY DEF ConformToSchema, conformed
<1>2. IsSchema(found) /\ IsList(batch.rows)
  BY DEF FitsSchema
<1>3. conformed.schema = schema /\ conformed.rows = batch.rows
  BY <1>1
<1> HIDE DEF conformed
<1>4. /\ Has(found, "spacetimestamp") /\ At(found) = At(schema) /\ DOMAIN found = DOMAIN schema
      /\ \A i \in DOMAIN found : /\ found[i].kind = schema[i].kind
                                 /\ DOMAIN found[i].fields = DOMAIN schema[i].fields
                                 /\ \A j \in DOMAIN found[i].fields :
                                       found[i].fields[j].kind = schema[i].fields[j].kind
      /\ \A name \in StsColumns : Col(found, name) = Col(schema, name)
  BY <1>1, <1>2, ConformReads
<1>5. FitsSchema(conformed)
  <2>1. IsSchema(schema)
    BY DEF Layout
  <2>2. conformed = [schema |-> conformed.schema, rows |-> conformed.rows]
    <3>1. batch = [schema |-> batch.schema, rows |-> batch.rows]
      BY DEF FitsSchema
    <3>2. conformed = [schema |-> schema, rows |-> batch.rows]
      BY <1>1, <3>1 DEF conformed
    <3> QED
      BY <1>3, <3>2
  <2> QED
    BY <1>2, <1>3, <1>4, <2>1, <2>2 DEF FitsSchema
<1>6. ASSUME NEW r, NEW name \in StsColumns PROVE Sts(conformed, r, name) = Sts(batch, r, name)
  <2>1. Sts(conformed, r, name) = batch.rows[r][At(schema)][Col(schema, name)]
    BY <1>3, StsReads
  <2>2. Sts(batch, r, name) = batch.rows[r][At(found)][Col(found, name)]
    BY <1>4 DEF Sts, At, Col
  <2> QED
    BY <1>4, <2>1, <2>2
<1> QED
  BY <1>3, <1>5, <1>6 DEF conformed

-----------------------------------------------------------------------------
(* Durations. *)

LEMMA DurationRange == MaxDuration \in Nat /\ MaxDuration > 0 /\ MinDuration = -MaxDuration
<1>1. CenturyLength \in Nat /\ CenturyLength > 0 /\ MaxCenturies \in Nat
  BY IntakeAssumption
<1>2. (MaxCenturies + 1) * CenturyLength \in Nat /\ (MaxCenturies + 1) * CenturyLength > 0
  BY <1>1
<1> QED
  BY <1>2 DEF MaxDuration, MinDuration

LEMMA ClampFits ==
    /\ \A x \in Int : Clamp(x) \in Durations
    /\ \A d \in Durations : Clamp(d) = d /\ d \in Int
    /\ \A x, y \in Int : x <= y => Clamp(x) <= Clamp(y)
  BY DurationRange DEF Clamp, Durations

LEMMA PartsOfDuration ==
    ASSUME NEW d \in Durations
    PROVE  /\ ToParts(d)[1] \in Int /\ ToParts(d)[2] \in Int
           /\ FromParts(ToParts(d)[1], ToParts(d)[2]) = d
<1>1. CenturyLength \in Nat /\ CenturyLength > 0 /\ MaxCenturies \in Nat
  BY IntakeAssumption
<1>2. d \in Int /\ Clamp(d) = d
  BY ClampFits
<1>3. CASE d = MaxDuration
  <2>1. ToParts(d)[1] = MaxCenturies /\ ToParts(d)[2] = CenturyLength
    BY <1>3 DEF ToParts
  <2>2. MaxCenturies * CenturyLength + CenturyLength = MaxDuration
    BY <1>1 DEF MaxDuration
  <2> QED
    BY <1>1, <1>2, <1>3, <2>1, <2>2 DEF FromParts
<1>4. CASE d # MaxDuration
  <2>1. ToParts(d)[1] = d \div CenturyLength /\ ToParts(d)[2] = d % CenturyLength
    BY <1>4 DEF ToParts
  <2>2. d \div CenturyLength \in Int /\ d % CenturyLength \in Int
    BY <1>1, <1>2
  <2>3. (d \div CenturyLength) * CenturyLength + (d % CenturyLength) = d
    BY <1>1, <1>2
  <2> QED
    BY <1>2, <2>1, <2>2, <2>3 DEF FromParts
<1> QED
  BY <1>3, <1>4

LEMMA FromPartsFits ==
    ASSUME NEW c \in Int, NEW n \in Int
    PROVE  FromParts(c, n) \in Durations
<1>1. c * CenturyLength + n \in Int
  BY IntakeAssumption
<1> QED
  BY <1>1, ClampFits DEF FromParts

\* The scale of a code that decodes is one hifitime knows.
LEMMA ScaleOfCode ==
    ASSUME NEW code, Decodes(TimeScaleCode, code)
    PROVE  code \in Int /\ HifitimeScale(code) \in ToSet(TimeScaleCode)
<1>1. Len(TimeScaleCode) = 14 /\ DOMAIN TimeScaleCode = 1..14
  BY DEF TimeScaleCode
<1>2. code \in 1..13 /\ code + 1 \in 1..14
  BY <1>1 DEF Decodes, MaxCode
<1> HIDE DEF TimeScaleCode
<1> QED
  BY <1>1, <1>2 DEF HifitimeScale, ToSet

LEMMA CodeOfTAI == TAI = 1 /\ HifitimeScale(TAI) = "TAI" /\ Decodes(TimeScaleCode, TAI)
<1>1. /\ Len(TimeScaleCode) = 14 /\ DOMAIN TimeScaleCode = 1..14 /\ TimeScaleCode[2] = "TAI"
      /\ \A i \in 1..14 : TimeScaleCode[i] = "TAI" => i = 2
  BY DEF TimeScaleCode
<1> HIDE DEF TimeScaleCode
<1>2. (CHOOSE i \in DOMAIN TimeScaleCode : TimeScaleCode[i] = "TAI") = 2
  <2>1. 2 \in DOMAIN TimeScaleCode
    BY <1>1
  <2> QED
    BY <1>1, <2>1
<1>3. TAI = 1
  BY <1>2 DEF TAI, Code
<1> QED
  BY <1>1, <1>3 DEF HifitimeScale, Decodes, MaxCode

LEMMA EpochFits ==
    ASSUME NEW c \in Int, NEW n \in Int, NEW code, Decodes(TimeScaleCode, code)
    PROVE  LET t == TaiOf(HifitimeScale(code), FromParts(c, n))
           IN  /\ t \in Durations
               /\ code = TAI => t = FromParts(c, n)
               /\ EpochFromParts(c, n, code) = Clamp(J2000 + t)
               /\ EpochFromParts(c, n, code) \in Durations
<1> DEFINE d == FromParts(c, n)
           t == TaiOf(HifitimeScale(code), d)
<1>1. d \in Durations
  BY FromPartsFits
<1> HIDE DEF d
<1>2. t \in Durations
  BY <1>1, ScaleOfCode, IntakeAssumption
<1>3. code = TAI => t = d
  BY <1>1, CodeOfTAI, IntakeAssumption
<1> HIDE DEF t
<1>4. J2000 + t \in Int
  BY <1>2, ClampFits, IntakeAssumption
<1>5. EpochFromParts(c, n, code) = Clamp(J2000 + t)
  BY DEF EpochFromParts, t, d
<1> QED
  BY <1>2, <1>3, <1>4, <1>5, ClampFits DEF t, d

\* An epoch written on TAI is read back: J2000 goes off and on again.
LEMMA EpochOnTai ==
    ASSUME NEW t \in Durations
    PROVE  LET epoch == Clamp(J2000 + t)
               parts == EpochToParts(epoch)
           IN  /\ parts[1] \in Int /\ parts[2] \in Int
               /\ EpochFromParts(parts[1], parts[2], TAI) = epoch
<1> DEFINE epoch == Clamp(J2000 + t)
           since == SinceJ2000(epoch)
           parts == EpochToParts(epoch)
<1>1. J2000 \in Nat /\ t \in Int /\ MinDuration <= t /\ t <= MaxDuration /\ MaxDuration \in Nat /\ MinDuration \in Int
  BY DurationRange, IntakeAssumption DEF Durations
<1>2. epoch \in Durations /\ epoch \in Int /\ since \in Durations /\ since \in Int
  <2>1. J2000 + t \in Int
    BY <1>1
  <2>2. epoch \in Durations /\ epoch \in Int
    BY <2>1, ClampFits
  <2>3. epoch - J2000 \in Int
    BY <1>1, <2>2
  <2> QED
    BY <2>2, <2>3, ClampFits DEF SinceJ2000
<1>3. Clamp(J2000 + since) = epoch
  BY <1>1, DurationRange DEF SinceJ2000, Clamp
<1>4. parts = ToParts(since)
  BY DEF EpochToParts
<1> HIDE DEF epoch, since, parts
<1>5. /\ parts[1] \in Int /\ parts[2] \in Int /\ FromParts(parts[1], parts[2]) = since
  BY <1>2, <1>4, PartsOfDuration
<1>6. EpochFromParts(parts[1], parts[2], TAI) = Clamp(J2000 + since)
  BY <1>5, CodeOfTAI, EpochFits
<1> QED
  BY <1>3, <1>5, <1>6 DEF epoch, parts

-----------------------------------------------------------------------------
(* A row that is put on TAI. *)

Shaped(row, schema) ==
    /\ row = [i \in DOMAIN schema |-> row[i]]
    /\ row[At(schema)] = [j \in DOMAIN schema[At(schema)].fields |-> row[At(schema)][j]]

Reads(row, schema, name) == row[At(schema)][Col(schema, name)]

LEMMA PutReads ==
    ASSUME NEW schema, Layout(schema), NEW row, Shaped(row, schema), NEW name \in StsColumns, NEW value
    PROVE  LET p == Put(row, schema, name, value)
           IN  /\ Shaped(p, schema)
               /\ Reads(p, schema, name) = value
               /\ \A other \in StsColumns \ {name} : Reads(p, schema, other) = Reads(row, schema, other)
               /\ \A i \in DOMAIN schema \ {At(schema)} : p[i] = row[i]
               /\ \A j \in DOMAIN schema[At(schema)].fields \ {Col(schema, name)} :
                     p[At(schema)][j] = row[At(schema)][j]
<1> DEFINE a == At(schema)
           fields == schema[a].fields
           c == Col(schema, name)
           p == Put(row, schema, name, value)
<1>1. a \in DOMAIN schema /\ c \in DOMAIN fields
  BY LayoutReads
<1>2. p = [row EXCEPT ![a][c] = value]
  BY DEF Put, At, Col
<1>3. row = [i \in DOMAIN schema |-> row[i]] /\ row[a] = [j \in DOMAIN fields |-> row[a][j]]
  BY DEF Shaped
<1>4. ASSUME NEW other \in StsColumns, other # name
      PROVE  Col(schema, other) \in DOMAIN fields /\ Col(schema, other) # c
  BY <1>4, LayoutReads
<1> HIDE DEF a, c, fields, p
<1>5. p = [i \in DOMAIN schema |-> IF i = a THEN [row[a] EXCEPT ![c] = value] ELSE row[i]]
  BY <1>1, <1>2, <1>3
<1>6. p[a] = [j \in DOMAIN fields |-> IF j = c THEN value ELSE row[a][j]]
  BY <1>1, <1>3, <1>5
<1>7. \A i \in DOMAIN schema \ {a} : p[i] = row[i]
  BY <1>5
<1>8. /\ p[a] = [j \in DOMAIN fields |-> p[a][j]] /\ p[a][c] = value
      /\ \A j \in DOMAIN fields \ {c} : p[a][j] = row[a][j]
  BY <1>1, <1>6
<1>9. p = [i \in DOMAIN schema |-> p[i]]
  BY <1>5
<1>10. \A other \in StsColumns \ {name} : p[a][Col(schema, other)] = row[a][Col(schema, other)]
  BY <1>4, <1>8
<1> QED
  BY <1>7, <1>8, <1>9, <1>10 DEF Shaped, Reads, a, c, fields, p

\* A row of another, with the parts of an epoch on TAI for its own.
Turned(p, row, schema, parts) ==
    /\ Shaped(p, schema)
    /\ Reads(p, schema, "timescale_id") = TAI
    /\ Reads(p, schema, "duration_centuries") = parts[1]
    /\ Reads(p, schema, "duration_ns") = parts[2]
    /\ \A other \in StsColumns \ {"timescale_id", "duration_centuries", "duration_ns"} :
          Reads(p, schema, other) = Reads(row, schema, other)
    /\ \A i \in DOMAIN schema \ {At(schema)} : p[i] = row[i]
    /\ \A j \in DOMAIN schema[At(schema)].fields \
                  {Col(schema, "timescale_id"), Col(schema, "duration_centuries"), Col(schema, "duration_ns")} :
          p[At(schema)][j] = row[At(schema)][j]

LEMMA OnTaiTurns ==
    ASSUME NEW schema, Layout(schema), NEW row, Shaped(row, schema), NEW parts
    PROVE  Turned(OnTai(row, schema, parts), row, schema, parts)
<1> DEFINE x == Put(row, schema, "timescale_id", TAI)
           y == Put(x, schema, "duration_centuries", parts[1])
           z == Put(y, schema, "duration_ns", parts[2])
<1>1. /\ "timescale_id" \in StsColumns /\ "duration_centuries" \in StsColumns /\ "duration_ns" \in StsColumns
      /\ "timescale_id" # "duration_centuries" /\ "timescale_id" # "duration_ns"
      /\ "duration_centuries" # "duration_ns"
  BY DEF StsColumns
<1> DEFINE Moved(p, q, name) ==
              /\ Shaped(q, schema)
              /\ \A other \in StsColumns \ {name} : Reads(q, schema, other) = Reads(p, schema, other)
              /\ \A i \in DOMAIN schema \ {At(schema)} : q[i] = p[i]
              /\ \A j \in DOMAIN schema[At(schema)].fields \ {Col(schema, name)} :
                    q[At(schema)][j] = p[At(schema)][j]
<1>2. Moved(row, x, "timescale_id") /\ Reads(x, schema, "timescale_id") = TAI
  BY <1>1, PutReads
<1> HIDE DEF x
<1>3. Moved(x, y, "duration_centuries") /\ Reads(y, schema, "duration_centuries") = parts[1]
  BY <1>1, <1>2, PutReads
<1> HIDE DEF y
<1>4. Moved(y, z, "duration_ns") /\ Reads(z, schema, "duration_ns") = parts[2]
  BY <1>1, <1>3, PutReads
<1> HIDE DEF z
<1>5. OnTai(row, schema, parts) = z
  BY DEF OnTai, x, y, z
<1>6. /\ Shaped(z, schema)
      /\ Reads(z, schema, "timescale_id") = TAI
      /\ Reads(z, schema, "duration_centuries") = parts[1]
      /\ Reads(z, schema, "duration_ns") = parts[2]
  BY <1>1, <1>2, <1>3, <1>4
<1>7. \A other \in StsColumns \ {"timescale_id", "duration_centuries", "duration_ns"} :
          Reads(z, schema, other) = Reads(row, schema, other)
  BY <1>2, <1>3, <1>4
<1>8. \A i \in DOMAIN schema \ {At(schema)} : z[i] = row[i]
  BY <1>2, <1>3, <1>4
<1>9. \A j \in DOMAIN schema[At(schema)].fields \
                 {Col(schema, "timescale_id"), Col(schema, "duration_centuries"), Col(schema, "duration_ns")} :
          z[At(schema)][j] = row[At(schema)][j]
  BY <1>2, <1>3, <1>4
<1> QED
  BY <1>5, <1>6, <1>7, <1>8, <1>9 DEF Turned

-----------------------------------------------------------------------------
(* A batch that is put on TAI. *)

Readable(batch) == Layout(batch.schema) /\ FitsSchema(batch)
ScalesDecode(batch) == \A r \in DOMAIN batch.rows : Decodes(TimeScaleCode, Sts(batch, r, "timescale_id"))

LEMMA RowsAreShaped ==
    ASSUME NEW batch, Readable(batch), NEW r \in DOMAIN batch.rows
    PROVE  /\ Shaped(batch.rows[r], batch.schema)
           /\ \A name : Sts(batch, r, name) = Reads(batch.rows[r], batch.schema, name)
<1> DEFINE a == At(batch.schema)
<1>1. a \in DOMAIN batch.schema /\ batch.schema[a].kind = "struct"
  BY LayoutReads DEF Readable
<1> HIDE DEF a
<1>2. /\ IsList(batch.rows[r]) /\ DOMAIN batch.rows[r] = DOMAIN batch.schema
      /\ IsList(batch.rows[r][a]) /\ DOMAIN batch.rows[r][a] = DOMAIN batch.schema[a].fields
  BY <1>1 DEF Readable, FitsSchema
<1>3. batch.rows[r] = [i \in DOMAIN batch.rows[r] |-> batch.rows[r][i]]
  BY <1>2, ListIs
<1>4. batch.rows[r][a] = [i \in DOMAIN batch.rows[r][a] |-> batch.rows[r][a][i]]
  BY <1>2, ListIs
<1>5. Shaped(batch.rows[r], batch.schema)
  BY <1>2, <1>3, <1>4 DEF Shaped, a
<1> QED
  BY <1>5, StsReads DEF Readable, Reads

\* Rows of the same shape under the same schema are a batch of it.
LEMMA ReshapedFits ==
    ASSUME NEW batch, Readable(batch), NEW after, after.schema = batch.schema,
           after = [schema |-> after.schema, rows |-> after.rows],
           IsList(after.rows), DOMAIN after.rows = DOMAIN batch.rows,
           \A r \in DOMAIN batch.rows :
              /\ Shaped(after.rows[r], batch.schema)
              /\ \A i \in DOMAIN batch.schema \ {At(batch.schema)} : after.rows[r][i] = batch.rows[r][i]
              /\ \A j \in DOMAIN batch.schema[At(batch.schema)].fields :
                    \/ after.rows[r][At(batch.schema)][j] = batch.rows[r][At(batch.schema)][j]
                    \/ after.rows[r][At(batch.schema)][j] \in Int
    PROVE  FitsSchema(after)
<1> DEFINE schema == batch.schema
           a == At(schema)
<1>1. /\ IsSchema(schema) /\ IsList(schema) /\ a \in DOMAIN schema
      /\ \A i \in DOMAIN schema : IsList(schema[i].fields)
  BY LayoutReads DEF Readable, FitsSchema, IsSchema
<1>2. SUFFICES ASSUME NEW r \in DOMAIN batch.rows
               PROVE  /\ IsList(after.rows[r]) /\ DOMAIN after.rows[r] = DOMAIN schema
                      /\ \A i \in DOMAIN schema : schema[i].kind = "struct" =>
                            /\ IsList(after.rows[r][i]) /\ DOMAIN after.rows[r][i] = DOMAIN schema[i].fields
                            /\ \A j \in DOMAIN schema[i].fields :
                                  schema[i].fields[j].kind \in {"u8", "i16", "u64"} => after.rows[r][i][j] \in Int
  BY <1>1 DEF FitsSchema
<1> DEFINE row == after.rows[r]
           before == batch.rows[r]
<1>3. /\ row = [i \in DOMAIN schema |-> row[i]]
      /\ row[a] = [j \in DOMAIN schema[a].fields |-> row[a][j]]
      /\ \A i \in DOMAIN schema \ {a} : row[i] = before[i]
  BY DEF Shaped
<1>4. \A i \in DOMAIN schema : schema[i].kind = "struct" =>
          /\ IsList(before[i]) /\ DOMAIN before[i] = DOMAIN schema[i].fields
          /\ \A j \in DOMAIN schema[i].fields :
                schema[i].fields[j].kind \in {"u8", "i16", "u64"} => before[i][j] \in Int
  BY DEF Readable, FitsSchema
<1>5. \A j \in DOMAIN schema[a].fields : row[a][j] = before[a][j] \/ row[a][j] \in Int
  OBVIOUS
<1> HIDE DEF schema, a, row, before
<1>6. IsList(row) /\ DOMAIN row = DOMAIN schema
  <2>1. Len(schema) \in Nat /\ DOMAIN schema = 1..Len(schema)
    BY <1>1, ListIs
  <2>2. row = [i \in 1..Len(schema) |-> row[i]]
    BY <1>3, <2>1
  <2>3. IsList(row)
    BY <2>1, <2>2, Tabulated
  <2> QED
    BY <1>3, <2>3
<1>7. IsList(row[a]) /\ DOMAIN row[a] = DOMAIN schema[a].fields
  <2> DEFINE fields == schema[a].fields
             x == row[a]
  <2>1. Len(fields) \in Nat /\ DOMAIN fields = 1..Len(fields)
    BY <1>1, ListIs
  <2>2. x = [j \in DOMAIN fields |-> x[j]]
    BY <1>3
  <2> HIDE DEF fields, x
  <2>3. x = [j \in 1..Len(fields) |-> x[j]]
    BY <2>1, <2>2
  <2>4. IsList(x)
    BY <2>1, <2>3, Tabulated
  <2>5. DOMAIN x = DOMAIN fields
    BY <2>2
  <2> QED
    BY <2>4, <2>5 DEF x, fields
<1>8. ASSUME NEW i \in DOMAIN schema, schema[i].kind = "struct"
      PROVE  /\ IsList(row[i]) /\ DOMAIN row[i] = DOMAIN schema[i].fields
             /\ \A j \in DOMAIN schema[i].fields :
                   schema[i].fields[j].kind \in {"u8", "i16", "u64"} => row[i][j] \in Int
  <2>1. CASE i = a
    BY <1>4, <1>5, <1>7, <1>8, <2>1
  <2>2. CASE i # a
    BY <1>3, <1>4, <1>8, <2>2
  <2> QED
    BY <2>1, <2>2
<1> QED
  BY <1>6, <1>8 DEF schema, row

LEMMA NormalizeKeeps ==
    ASSUME NEW batch, Readable(batch), ScalesDecode(batch)
    PROVE  LET after == NormalizeToTai(batch)
           IN  /\ Readable(after) /\ after.schema = batch.schema
               /\ DOMAIN after.rows = DOMAIN batch.rows
               /\ \A r \in DOMAIN batch.rows :
                     /\ Sts(after, r, "timescale_id") = TAI
                     /\ EpochAt(after, r) = EpochAt(batch, r)
                     /\ \A name \in StsColumns \ {"timescale_id", "duration_centuries", "duration_ns"} :
                           Sts(after, r, name) = Sts(batch, r, name)
                     /\ \A i \in DOMAIN batch.schema \ {At(batch.schema)} :
                           after.rows[r][i] = batch.rows[r][i]
<1> DEFINE after == NormalizeToTai(batch)
           schema == batch.schema
           a == At(schema)
           rows == batch.rows
           turned(r) == OnTai(rows[r], schema, EpochToParts(EpochAt(batch, r)))
<1>1. /\ batch = [schema |-> schema, rows |-> rows] /\ Layout(schema) /\ IsList(rows)
      /\ Len(rows) \in Nat /\ DOMAIN rows = 1..Len(rows)
  BY ListIs DEF Readable, FitsSchema
<1>2. after = [schema |-> schema,
               rows |-> [r \in DOMAIN rows |->
                            IF Sts(batch, r, "timescale_id") = TAI THEN rows[r] ELSE turned(r)]]
  BY <1>1 DEF NormalizeToTai
<1>3. /\ after = [schema |-> after.schema, rows |-> after.rows]
      /\ after.schema = schema /\ DOMAIN after.rows = DOMAIN rows
      /\ after.rows = [r \in 1..Len(rows) |-> after.rows[r]]
      /\ \A r \in DOMAIN rows :
            after.rows[r] = IF Sts(batch, r, "timescale_id") = TAI THEN rows[r] ELSE turned(r)
  BY <1>1, <1>2
<1> HIDE DEF after
<1>4. IsList(after.rows)
  BY <1>1, <1>3, Tabulated
<1>5. /\ {"timescale_id", "duration_centuries", "duration_ns"} \subseteq IntColumns
      /\ IntColumns \subseteq StsColumns
  BY StsFields DEF IntColumns
<1>6. ASSUME NEW r \in DOMAIN rows
      PROVE  /\ Shaped(after.rows[r], schema)
             /\ \A i \in DOMAIN schema \ {a} : after.rows[r][i] = rows[r][i]
             /\ \A j \in DOMAIN schema[a].fields : after.rows[r][a][j] = rows[r][a][j] \/ after.rows[r][a][j] \in Int
             /\ Reads(after.rows[r], schema, "timescale_id") = TAI
             /\ EpochFromParts(Reads(after.rows[r], schema, "duration_centuries"),
                               Reads(after.rows[r], schema, "duration_ns"), TAI) = EpochAt(batch, r)
             /\ \A name \in StsColumns \ {"timescale_id", "duration_centuries", "duration_ns"} :
                   Reads(after.rows[r], schema, name) = Reads(rows[r], schema, name)
  <2> DEFINE c == Sts(batch, r, "duration_centuries")
             n == Sts(batch, r, "duration_ns")
             code == Sts(batch, r, "timescale_id")
  <2>1. Shaped(rows[r], schema) /\ \A name : Sts(batch, r, name) = Reads(rows[r], schema, name)
    BY RowsAreShaped
  <2>2. c \in Int /\ n \in Int /\ Decodes(TimeScaleCode, code)
    BY <1>5, IntColumnsAreInt DEF Readable, ScalesDecode
  <2>3. EpochAt(batch, r) = EpochFromParts(c, n, code)
    BY DEF EpochAt
  <2>4. CASE code = TAI
    <3>1. after.rows[r] = rows[r]
      BY <1>3, <2>4
    <3> QED
      BY <2>1, <2>3, <2>4, <3>1
  <2>5. CASE code # TAI
    <3> DEFINE parts == EpochToParts(EpochAt(batch, r))
               row == after.rows[r]
               t == TaiOf(HifitimeScale(code), FromParts(c, n))
    <3>1. row = OnTai(rows[r], schema, parts)
      BY <1>3, <2>5
    <3>2. t \in Durations /\ EpochAt(batch, r) = Clamp(J2000 + t)
      <4> HIDE DEF c, n, code, t
      <4>1. t \in Durations /\ EpochFromParts(c, n, code) = Clamp(J2000 + t)
        BY <2>2, EpochFits DEF t
      <4> QED
        BY <2>3, <4>1
    <3> HIDE DEF t, c, n, code
    <3>3. parts[1] \in Int /\ parts[2] \in Int /\ EpochFromParts(parts[1], parts[2], TAI) = EpochAt(batch, r)
      BY <3>2, EpochOnTai
    <3> HIDE DEF parts
    <3>4. Turned(row, rows[r], schema, parts)
      BY <1>1, <2>1, <3>1, OnTaiTurns
    <3> HIDE DEF row
    <3>5. TAI \in Int
      BY CodeOfTAI
    <3>6. \A j \in DOMAIN schema[a].fields : row[a][j] = rows[r][a][j] \/ row[a][j] \in Int
      BY <3>3, <3>4, <3>5 DEF Reads, Turned
    <3> QED
      BY <3>3, <3>4, <3>6 DEF row, Turned
  <2> QED
    BY <2>4, <2>5
<1>7. FitsSchema(after)
  BY <1>3, <1>4, <1>6, ReshapedFits
<1>8. Readable(after)
  BY <1>1, <1>3, <1>7 DEF Readable
<1>9. ASSUME NEW r \in DOMAIN rows
      PROVE  /\ Sts(after, r, "timescale_id") = TAI
             /\ EpochAt(after, r) = EpochAt(batch, r)
             /\ \A name \in StsColumns \ {"timescale_id", "duration_centuries", "duration_ns"} :
                   Sts(after, r, name) = Sts(batch, r, name)
  <2>1. \A name : Sts(after, r, name) = Reads(after.rows[r], schema, name)
    BY <1>3, <1>8, RowsAreShaped
  <2>2. \A name : Sts(batch, r, name) = Reads(rows[r], schema, name)
    BY RowsAreShaped
  <2> QED
    BY <1>6, <2>1, <2>2 DEF EpochAt
<1> QED
  BY <1>3, <1>6, <1>8, <1>9 DEF after

-----------------------------------------------------------------------------
(* The vocabularies of a batch, and the measure of a segment. *)

LEMMA ListHasEnds ==
    ASSUME NEW n \in Nat, n # 0, NEW f \in [1..n -> Int]
    PROVE  /\ \E i \in 1..n : \A j \in 1..n : f[i] <= f[j]
           /\ \E i \in 1..n : \A j \in 1..n : f[j] <= f[i]
<1> DEFINE Ends(m) == /\ \E i \in 1..m : \A j \in 1..m : f[i] <= f[j]
                      /\ \E i \in 1..m : \A j \in 1..m : f[j] <= f[i]
           T == {m \in Nat : m \in 1..n => Ends(m)}
<1>1. 0 \in T
  OBVIOUS
<1>2. ASSUME NEW m \in T PROVE m + 1 \in T
  <2>1. m \in Nat /\ (m \in 1..n => Ends(m))
    OBVIOUS
  <2>2. SUFFICES ASSUME m + 1 \in 1..n PROVE Ends(m + 1)
    BY <2>1
  <2> HIDE DEF T
  <2>3. \A j \in 1..(m + 1) : (j \in 1..m \/ j = m + 1) /\ f[j] \in Int
    BY <2>1, <2>2
  <2>4. CASE m = 0
    <3>1. 1 \in 1..(m + 1) /\ \A j \in 1..(m + 1) : j = 1
      BY <2>4
    <3> QED
      BY <2>3, <3>1
  <2>5. CASE m # 0
    <3>1. m \in 1..n /\ m + 1 \in 1..(m + 1) /\ \A j \in 1..m : j \in 1..(m + 1)
      BY <2>1, <2>2, <2>5
    <3>2. PICK i \in 1..m : \A j \in 1..m : f[i] <= f[j]
      BY <2>1, <3>1
    <3>3. PICK k \in 1..m : \A j \in 1..m : f[j] <= f[k]
      BY <2>1, <3>1
    <3>4. \E l \in 1..(m + 1) : \A j \in 1..(m + 1) : f[l] <= f[j]
      <4>1. CASE f[i] <= f[m + 1]
        BY <2>3, <3>1, <3>2, <4>1
      <4>2. CASE ~(f[i] <= f[m + 1])
        <5>1. f[m + 1] \in Int /\ f[i] \in Int /\ f[m + 1] <= f[m + 1]
          BY <2>3, <3>1
        <5>2. \A j \in 1..m : f[j] \in Int /\ f[m + 1] <= f[j]
          BY <2>3, <3>1, <3>2, <4>2, <5>1
        <5>3. \A j \in 1..(m + 1) : f[m + 1] <= f[j]
          BY <2>3, <5>1, <5>2
        <5> QED
          BY <3>1, <5>3
      <4> QED
        BY <4>1, <4>2
    <3>5. \E l \in 1..(m + 1) : \A j \in 1..(m + 1) : f[j] <= f[l]
      <4>1. CASE f[m + 1] <= f[k]
        BY <2>3, <3>1, <3>3, <4>1
      <4>2. CASE ~(f[m + 1] <= f[k])
        <5>1. f[m + 1] \in Int /\ f[k] \in Int /\ f[m + 1] <= f[m + 1]
          BY <2>3, <3>1
        <5>2. \A j \in 1..m : f[j] \in Int /\ f[j] <= f[m + 1]
          BY <2>3, <3>1, <3>3, <4>2, <5>1
        <5>3. \A j \in 1..(m + 1) : f[j] <= f[m + 1]
          BY <2>3, <5>1, <5>2
        <5> QED
          BY <3>1, <5>3
      <4> QED
        BY <4>1, <4>2
    <3> QED
      BY <3>4, <3>5
  <2> QED
    BY <2>4, <2>5
<1> HIDE DEF T
<1>3. T = Nat
  <2>1. T \in SUBSET Nat
    BY DEF T
  <2> QED
    BY <1>1, <1>2, <2>1, NaturalsByStep
<1>4. n \in 1..n
  OBVIOUS
<1> QED
  BY <1>3, <1>4 DEF T

\* Only the lowest and the highest code are looked at, and so all of them are.
LEMMA VocabularyIsWhole ==
    ASSUME NEW batch, Readable(batch), NEW name \in IntColumns, NEW vocabulary,
           MaxCode(vocabulary) \in Int, ValidateVocabulary(batch, name, vocabulary)
    PROVE  \A r \in DOMAIN batch.rows : Decodes(vocabulary, Sts(batch, r, name))
<1> SUFFICES ASSUME NEW r \in DOMAIN batch.rows PROVE Decodes(vocabulary, Sts(batch, r, name))
  OBVIOUS
<1> DEFINE n == Len(batch.rows)
           f == [i \in 1..n |-> Sts(batch, i, name)]
<1>1. n \in Nat /\ DOMAIN batch.rows = 1..n
  BY ListIs DEF Readable, FitsSchema
<1>2. \A i \in 1..n : Sts(batch, i, name) \in Int
  BY <1>1, IntColumnsAreInt DEF Readable
<1>3. /\ f \in [1..n -> Int] /\ n # 0 /\ r \in 1..n
      /\ \A i \in 1..n : f[i] = Sts(batch, i, name)
      /\ {Sts(batch, i, name) : i \in DOMAIN batch.rows} = {f[i] : i \in 1..n}
  <2>1. r \in 1..n
    BY <1>1
  <2> HIDE DEF n
  <2>2. n # 0
    BY <1>1, <2>1
  <2>3. f \in [1..n -> Int] /\ \A i \in 1..n : f[i] = Sts(batch, i, name)
    BY <1>2
  <2> HIDE DEF f
  <2>4. {Sts(batch, i, name) : i \in DOMAIN batch.rows} = {f[i] : i \in 1..n}
    BY <1>1, <2>3
  <2> QED
    BY <2>1, <2>2, <2>3, <2>4
<1> HIDE DEF f, n
<1>4. \A c \in {f[i] : i \in 1..n} :
        ((\A d \in {f[i] : i \in 1..n} : c <= d) \/ (\A d \in {f[i] : i \in 1..n} : d <= c))
            => Decodes(vocabulary, c)
  BY <1>3 DEF ValidateVocabulary
<1>5. PICK i \in 1..n : \A j \in 1..n : f[i] <= f[j]
  BY <1>1, <1>3, ListHasEnds
<1>6. PICK k \in 1..n : \A j \in 1..n : f[j] <= f[k]
  BY <1>1, <1>3, ListHasEnds
<1>7. Decodes(vocabulary, f[i]) /\ Decodes(vocabulary, f[k])
  BY <1>4, <1>5, <1>6
<1>8. f[r] \in Int /\ f[i] <= f[r] /\ f[r] <= f[k]
  BY <1>3, <1>5, <1>6
<1>9. Decodes(vocabulary, f[r])
  BY <1>7, <1>8 DEF Decodes
<1> QED
  BY <1>3, <1>9

LEMMA ValidatedDecodes ==
    ASSUME NEW batch, Readable(batch), ValidateBatch(batch)
    PROVE  \A r \in DOMAIN batch.rows :
              /\ Decodes(LengthUnit, Sts(batch, r, "units_pos"))
              /\ Decodes(TimeScaleCode, Sts(batch, r, "timescale_id"))
              /\ Decodes(EstimateType, Sts(batch, r, "estimate_type"))
              /\ Sts(batch, r, "frame_id") = "null" \/ NamesAFrame(Sts(batch, r, "frame_id"))
<1>1. /\ MaxCode(LengthUnit) \in Int /\ MaxCode(TimeScaleCode) \in Int /\ MaxCode(EstimateType) \in Int
  BY DEF MaxCode, LengthUnit, TimeScaleCode, EstimateType
<1>2. /\ "units_pos" \in IntColumns /\ "timescale_id" \in IntColumns /\ "estimate_type" \in IntColumns
  BY DEF IntColumns
<1>3. /\ ValidateVocabulary(batch, "units_pos", LengthUnit)
      /\ ValidateVocabulary(batch, "timescale_id", TimeScaleCode)
      /\ ValidateVocabulary(batch, "estimate_type", EstimateType)
      /\ \A r \in DOMAIN batch.rows :
            Sts(batch, r, "frame_id") = "null" \/ NamesAFrame(Sts(batch, r, "frame_id"))
  BY DEF ValidateBatch
<1>4. \A r \in DOMAIN batch.rows : Decodes(LengthUnit, Sts(batch, r, "units_pos"))
  BY <1>1, <1>2, <1>3, VocabularyIsWhole
<1>5. \A r \in DOMAIN batch.rows : Decodes(TimeScaleCode, Sts(batch, r, "timescale_id"))
  BY <1>1, <1>2, <1>3, VocabularyIsWhole
<1>6. \A r \in DOMAIN batch.rows : Decodes(EstimateType, Sts(batch, r, "estimate_type"))
  BY <1>1, <1>2, <1>3, VocabularyIsWhole
<1> QED
  BY <1>3, <1>4, <1>5, <1>6

\* What a segment is measured by bounds its rows.
MeasuredSegment(s) ==
    /\ Readable(s.batch) /\ ScalesDecode(s.batch)
    /\ s.min \in Int /\ s.max \in Int
    /\ \A r \in DOMAIN s.batch.rows :
          /\ MeasuredEpoch(s.batch, r) \in Int
          /\ s.min <= MeasuredEpoch(s.batch, r) /\ MeasuredEpoch(s.batch, r) <= s.max

LEMMA EpochsOfBatch ==
    ASSUME NEW batch, Readable(batch), ScalesDecode(batch), NEW r \in DOMAIN batch.rows
    PROVE  /\ EpochAt(batch, r) \in Durations /\ EpochAt(batch, r) \in Int
           /\ MeasuredEpoch(batch, r) \in Durations
           /\ MeasuredEpoch(batch, r) = SinceJ2000(EpochAt(batch, r))
                \/ EpochAt(batch, r) = Clamp(J2000 + MeasuredEpoch(batch, r))
<1> DEFINE c == Sts(batch, r, "duration_centuries")
           n == Sts(batch, r, "duration_ns")
           code == Sts(batch, r, "timescale_id")
           t == TaiOf(HifitimeScale(code), FromParts(c, n))
<1>1. c \in Int /\ n \in Int /\ Decodes(TimeScaleCode, code)
  <2>1. "duration_centuries" \in IntColumns /\ "duration_ns" \in IntColumns
    BY DEF IntColumns
  <2> QED
    BY <2>1, IntColumnsAreInt DEF Readable, ScalesDecode
<1>2. /\ EpochAt(batch, r) = EpochFromParts(c, n, code)
      /\ MeasuredEpoch(batch, r) = IF code = TAI THEN FromParts(c, n) ELSE SinceJ2000(EpochAt(batch, r))
  BY DEF EpochAt, MeasuredEpoch
<1> HIDE DEF c, n, code
<1>3. /\ t \in Durations /\ (code = TAI => t = FromParts(c, n))
      /\ EpochFromParts(c, n, code) = Clamp(J2000 + t) /\ EpochFromParts(c, n, code) \in Durations
  BY <1>1, EpochFits
<1> HIDE DEF t
<1>4. EpochAt(batch, r) \in Durations /\ EpochAt(batch, r) \in Int
  BY <1>2, <1>3, ClampFits
<1>5. EpochAt(batch, r) - J2000 \in Int
  BY <1>4, IntakeAssumption
<1>6. SinceJ2000(EpochAt(batch, r)) \in Durations
  BY <1>5, ClampFits DEF SinceJ2000
<1>7. MeasuredEpoch(batch, r) \in Durations
  BY <1>1, <1>2, <1>6, FromPartsFits
<1> QED
  BY <1>2, <1>3, <1>4, <1>7

LEMMA SegmentMeasures ==
    ASSUME NEW batch, Readable(batch), Segment(batch) # Refused
    PROVE  Segment(batch).batch = batch /\ MeasuredSegment(Segment(batch))
<1> DEFINE epochs == {MeasuredEpoch(batch, r) : r \in DOMAIN batch.rows}
           n == Len(batch.rows)
           f == [i \in 1..n |-> MeasuredEpoch(batch, i)]
           s == Segment(batch)
<1>1. ScalesDecode(batch)
  BY DEF Segment, ScalesDecode
<1>2. /\ s.batch = batch
      /\ s.min = CHOOSE m \in epochs \cup {MaxDuration} : \A e \in epochs : m <= e
      /\ s.max = CHOOSE m \in epochs \cup {MinDuration} : \A e \in epochs : m >= e
  BY DEF Segment
<1>3. n \in Nat /\ DOMAIN batch.rows = 1..n
  BY ListIs DEF Readable, FitsSchema
<1>4. \A r \in DOMAIN batch.rows : MeasuredEpoch(batch, r) \in Durations /\ MeasuredEpoch(batch, r) \in Int
  BY <1>1, EpochsOfBatch, ClampFits
<1>5. MaxDuration \in Int /\ MinDuration \in Int
  BY DurationRange
<1>6. epochs = {f[i] : i \in 1..n} /\ f \in [1..n -> Int]
  BY <1>3, <1>4
<1>7. /\ \E m \in epochs \cup {MaxDuration} : \A e \in epochs : m <= e
      /\ \E m \in epochs \cup {MinDuration} : \A e \in epochs : m >= e
  <2>1. CASE n = 0
    <3>1. epochs = {}
      BY <1>3, <2>1
    <3> QED
      BY <3>1
  <2>2. CASE n # 0
    <3> HIDE DEF epochs, f, n
    <3>1. PICK i \in 1..n : \A j \in 1..n : f[i] <= f[j]
      BY <1>3, <1>6, <2>2, ListHasEnds
    <3>2. PICK k \in 1..n : \A j \in 1..n : f[j] <= f[k]
      BY <1>3, <1>6, <2>2, ListHasEnds
    <3>3. f[i] \in epochs /\ f[k] \in epochs /\ f[k] \in Int /\ \A e \in epochs : e \in Int
      BY <1>6
    <3>4. \A e \in epochs : f[i] <= e /\ f[k] >= e
      BY <1>6, <3>1, <3>2, <3>3
    <3> QED
      BY <3>3, <3>4
  <2> QED
    BY <2>1, <2>2
<1>8. \A e \in epochs : e \in Int
  BY <1>4
<1> HIDE DEF epochs, f, n, s
<1>9. /\ s.min \in epochs \cup {MaxDuration} /\ \A e \in epochs : s.min <= e
      /\ s.max \in epochs \cup {MinDuration} /\ \A e \in epochs : s.max >= e
  BY <1>2, <1>7
<1>10. s.min \in Int /\ s.max \in Int
  BY <1>5, <1>8, <1>9
<1>11. ASSUME NEW r \in DOMAIN batch.rows
       PROVE  /\ MeasuredEpoch(batch, r) \in Int
              /\ s.min <= MeasuredEpoch(batch, r) /\ MeasuredEpoch(batch, r) <= s.max
  <2>1. MeasuredEpoch(batch, r) \in epochs
    BY DEF epochs
  <2>2. s.max >= MeasuredEpoch(batch, r) /\ s.min <= MeasuredEpoch(batch, r) /\ MeasuredEpoch(batch, r) \in Int
    BY <1>8, <1>9, <2>1
  <2> QED
    BY <1>10, <2>2
<1> QED
  BY <1>1, <1>2, <1>10, <1>11 DEF MeasuredSegment, s

-----------------------------------------------------------------------------
(* What the builders make of measurements. *)

LEMMA AppendTabulated ==
    ASSUME NEW n \in Nat, NEW f, f = [r \in 1..(n + 1) |-> f[r]]
    PROVE  Append([r \in 1..n |-> f[r]], f[n + 1]) = f
<1> DEFINE S == ToSet(f)
           g == [r \in 1..n |-> f[r]]
           a == Append(g, f[n + 1])
<1>1. \A r \in 1..(n + 1) : f[r] \in S
  BY DEF ToSet
<1>2. f \in Seq(S) /\ Len(f) = n + 1
  BY <1>1, TabulatedSeq
<1>3. n + 1 \in 1..(n + 1) /\ \A i \in 1..n : i \in 1..(n + 1)
  OBVIOUS
<1>4. g = [r \in 1..n |-> g[r]] /\ \A i \in 1..n : g[i] = f[i]
  OBVIOUS
<1> HIDE DEF S, g
<1>5. \A i \in 1..n : g[i] \in S
  BY <1>1, <1>3, <1>4
<1>6. g \in Seq(S) /\ Len(g) = n
  BY <1>4, <1>5, TabulatedSeq
<1>7. f[n + 1] \in S
  BY <1>1, <1>3
<1>8. a \in Seq(S) /\ Len(a) = n + 1 /\ a[n + 1] = f[n + 1] /\ \A i \in 1..n : a[i] = g[i]
  BY <1>6, <1>7, AppendProperties
<1> HIDE DEF a
<1>9. \A i \in 1..(n + 1) : i \in 1..n \/ i = n + 1
  OBVIOUS
<1>10. \A i \in 1..Len(a) : a[i] = f[i]
  BY <1>4, <1>8, <1>9
<1>11. a = f
  BY <1>2, <1>8, <1>10, SeqEqual
<1> QED
  BY <1>11 DEF a, g

\* What append_entity writes of a measurement into a column of the pose.
Covariances == {"position_covariance", "orientation_covariance"}
PoseValue(m, column) == IF column \in Covariances THEN "null" ELSE StsValue(m, column)

IsMeasured(m) == StsColumns \ Covariances \subseteq DOMAIN m

StsFilled(ms, n) == [column \in StsColumns |-> [r \in 1..n |-> StsValue(ms[r], column)]]
PoseFilled(ms, n) == [column \in StsColumns |-> [r \in 1..n |-> PoseValue(ms[r], column)]]
OwnFilled(ms, n) == [column \in EntityColumns |-> [r \in 1..n |-> ms[r][column]]]
Filled(ms, n) == [sts |-> PoseFilled(ms, n), own |-> OwnFilled(ms, n)]

LEMMA PoseOfEntity ==
    ASSUME NEW m, IsMeasured(m), NEW column \in StsColumns
    PROVE  StsValue(WithoutCovariances(m), column) = PoseValue(m, column)
<1> DEFINE w == WithoutCovariances(m)
<1>1. \A c \in DOMAIN m \cup Covariances : w[c] = IF c \in Covariances THEN "null" ELSE m[c]
  BY DEF WithoutCovariances, Covariances
<1>2. /\ "units_pos" \in DOMAIN m /\ "timescale_id" \in DOMAIN m /\ "estimate_type" \in DOMAIN m
      /\ "units_pos" \notin Covariances /\ "timescale_id" \notin Covariances
      /\ "estimate_type" \notin Covariances
  BY DEF IsMeasured, StsColumns, Covariances
<1>3. column \notin Covariances => column \in DOMAIN m
  BY DEF IsMeasured
<1> HIDE DEF w
<1>4. w.units_pos = m.units_pos /\ w.timescale_id = m.timescale_id /\ w.estimate_type = m.estimate_type
  BY <1>1, <1>2
<1>5. CASE column \in Covariances
  <2>1. w[column] = "null"
    BY <1>1, <1>5
  <2>2. column # "units_pos" /\ column # "timescale_id" /\ column # "estimate_type"
    BY <1>2, <1>5
  <2> QED
    BY <1>5, <2>1, <2>2 DEF StsValue, PoseValue, w
<1>6. CASE column \notin Covariances
  <2>1. w[column] = m[column]
    BY <1>1, <1>3, <1>6
  <2>2. PoseValue(m, column) = StsValue(m, column)
    BY <1>6 DEF PoseValue
  <2> QED
    BY <1>4, <2>1, <2>2 DEF StsValue, w
<1> QED
  BY <1>5, <1>6

LEMMA FilledStep ==
    ASSUME NEW n \in Nat, NEW ms, IsMeasured(ms[n + 1])
    PROVE  AppendEntity(Filled(ms, n), ms[n + 1]) = Filled(ms, n + 1)
<1> DEFINE m == ms[n + 1]
<1>1. ASSUME NEW column \in StsColumns
      PROVE  Append([r \in 1..n |-> PoseValue(ms[r], column)], PoseValue(m, column))
                = [r \in 1..(n + 1) |-> PoseValue(ms[r], column)]
  <2> DEFINE f == [r \in 1..(n + 1) |-> PoseValue(ms[r], column)]
  <2>1. f = [r \in 1..(n + 1) |-> f[r]] /\ f[n + 1] = PoseValue(m, column)
        /\ [r \in 1..n |-> f[r]] = [r \in 1..n |-> PoseValue(ms[r], column)]
    OBVIOUS
  <2> HIDE DEF f
  <2>2. Append([r \in 1..n |-> f[r]], f[n + 1]) = f
    BY <2>1, AppendTabulated
  <2> QED
    BY <2>1, <2>2 DEF f
<1>2. ASSUME NEW column \in EntityColumns
      PROVE  Append([r \in 1..n |-> ms[r][column]], m[column]) = [r \in 1..(n + 1) |-> ms[r][column]]
  <2> DEFINE f == [r \in 1..(n + 1) |-> ms[r][column]]
  <2>1. f = [r \in 1..(n + 1) |-> f[r]] /\ f[n + 1] = m[column]
        /\ [r \in 1..n |-> f[r]] = [r \in 1..n |-> ms[r][column]]
    OBVIOUS
  <2> HIDE DEF f
  <2>2. Append([r \in 1..n |-> f[r]], f[n + 1]) = f
    BY <2>1, AppendTabulated
  <2> QED
    BY <2>1, <2>2 DEF f
<1>3. AppendSts(PoseFilled(ms, n), WithoutCovariances(m)) = PoseFilled(ms, n + 1)
  <2>1. \A column \in StsColumns :
            Append(PoseFilled(ms, n)[column], StsValue(WithoutCovariances(m), column))
                = [r \in 1..(n + 1) |-> PoseValue(ms[r], column)]
    <3>1. TAKE column \in StsColumns
    <3>2. StsValue(WithoutCovariances(m), column) = PoseValue(m, column)
      BY PoseOfEntity
    <3>3. PoseFilled(ms, n)[column] = [r \in 1..n |-> PoseValue(ms[r], column)]
      BY DEF PoseFilled
    <3> QED
      BY <1>1, <3>2, <3>3
  <2> QED
    BY <2>1 DEF AppendSts, PoseFilled
<1>4. [column \in EntityColumns |-> Append(OwnFilled(ms, n)[column], m[column])] = OwnFilled(ms, n + 1)
  <2>1. \A column \in EntityColumns :
            Append(OwnFilled(ms, n)[column], m[column]) = [r \in 1..(n + 1) |-> ms[r][column]]
    <3>1. TAKE column \in EntityColumns
    <3>2. OwnFilled(ms, n)[column] = [r \in 1..n |-> ms[r][column]]
      BY DEF OwnFilled
    <3> QED
      BY <1>2, <3>2
  <2> QED
    BY <2>1 DEF OwnFilled
<1>5. Filled(ms, n).sts = PoseFilled(ms, n) /\ Filled(ms, n).own = OwnFilled(ms, n)
  BY DEF Filled
<1> HIDE DEF m
<1>6. AppendEntity(Filled(ms, n), m) =
          [sts |-> AppendSts(PoseFilled(ms, n), WithoutCovariances(m)),
           own |-> [column \in EntityColumns |-> Append(OwnFilled(ms, n)[column], m[column])]]
  BY <1>5 DEF AppendEntity
<1>7. AppendEntity(Filled(ms, n), m) = [sts |-> PoseFilled(ms, n + 1), own |-> OwnFilled(ms, n + 1)]
  BY <1>3, <1>4, <1>6
<1> QED
  BY <1>7 DEF Filled, m

LEMMA BuiltIsFilled ==
    ASSUME NEW ms, IsList(ms), \A r \in DOMAIN ms : IsMeasured(ms[r])
    PROVE  Built(ms) = FlushEntity(Filled(ms, Len(ms)))
<1> DEFINE N == Len(ms)
           Builds(b) == b = [n \in 0..N |-> IF n = 0 THEN NoEntityRows ELSE AppendEntity(b[n - 1], ms[n])]
           whole == [n \in 0..N |-> Filled(ms, n)]
           built == CHOOSE b : Builds(b)
<1>1. N \in Nat /\ DOMAIN ms = 1..N
  BY ListIs
<1>2. Filled(ms, 0) = NoEntityRows
  <2>1. 1..0 = {}
    OBVIOUS
  <2>2. \A column \in StsColumns : [r \in 1..0 |-> PoseValue(ms[r], column)] = <<>>
    BY <2>1
  <2>3. \A column \in EntityColumns : [r \in 1..0 |-> ms[r][column]] = <<>>
    BY <2>1
  <2>4. PoseFilled(ms, 0) = NoStsRows
    BY <2>2 DEF PoseFilled, NoStsRows
  <2>5. OwnFilled(ms, 0) = [column \in EntityColumns |-> <<>>]
    BY <2>3 DEF OwnFilled
  <2> QED
    BY <2>4, <2>5 DEF Filled, NoEntityRows
<1>3. \A n \in 1..N : n - 1 \in 0..N /\ n - 1 \in Nat /\ (n - 1) + 1 = n /\ n # 0
  BY <1>1
<1>4. ASSUME NEW n \in 1..N PROVE AppendEntity(Filled(ms, n - 1), ms[n]) = Filled(ms, n)
  <2> DEFINE k == n - 1
  <2>1. k \in Nat /\ k + 1 = n /\ IsMeasured(ms[n])
    BY <1>1, <1>3
  <2> HIDE DEF k
  <2>2. IsMeasured(ms[k + 1])
    BY <2>1
  <2>3. AppendEntity(Filled(ms, k), ms[k + 1]) = Filled(ms, k + 1)
    BY <2>1, <2>2, FilledStep
  <2>4. AppendEntity(Filled(ms, k), ms[n]) = Filled(ms, n)
    BY <2>1, <2>3
  <2> QED
    BY <2>4 DEF k
<1> HIDE DEF N
<1>5. Builds(whole)
  <2>1. \A n \in 0..N : n = 0 \/ n \in 1..N
    BY <1>1
  <2>2. \A n \in 0..N : whole[n] = IF n = 0 THEN NoEntityRows ELSE AppendEntity(whole[n - 1], ms[n])
    <3>1. TAKE n \in 0..N
    <3>2. CASE n = 0
      BY <1>2, <3>2
    <3>3. CASE n # 0
      <4>1. n \in 1..N
        BY <2>1, <3>3
      <4>2. whole[n - 1] = Filled(ms, n - 1) /\ whole[n] = Filled(ms, n)
        BY <1>3, <4>1
      <4> QED
        BY <1>4, <3>3, <4>1, <4>2
    <3> QED
      BY <3>2, <3>3
  <2>3. whole = [n \in 0..N |-> whole[n]]
    OBVIOUS
  <2> HIDE DEF whole
  <2> QED
    BY <2>2, <2>3
<1> HIDE DEF whole
<1>6. Builds(built)
  BY <1>5
<1>7. Built(ms) = FlushEntity(built[N])
  BY DEF Built, N
<1>8. built[N] = Filled(ms, N)
  <2> HIDE DEF built
  <2> DEFINE T == {n \in Nat : n \in 0..N => built[n] = Filled(ms, n)}
  <2>1. 0 \in T
    BY <1>1, <1>2, <1>6
  <2>2. ASSUME NEW n \in T PROVE n + 1 \in T
    <3>1. n \in Nat /\ (n \in 0..N => built[n] = Filled(ms, n))
      OBVIOUS
    <3>2. SUFFICES ASSUME n + 1 \in 0..N PROVE built[n + 1] = Filled(ms, n + 1)
      BY <3>1
    <3> HIDE DEF T
    <3>3. n \in 0..N /\ n + 1 \in 1..N /\ n + 1 # 0 /\ (n + 1) - 1 = n
      BY <1>1, <3>1, <3>2
    <3>4. built[n + 1] = AppendEntity(built[(n + 1) - 1], ms[n + 1])
      BY <1>6, <3>2, <3>3
    <3>5. AppendEntity(Filled(ms, (n + 1) - 1), ms[n + 1]) = Filled(ms, n + 1)
      BY <1>4, <3>3
    <3> QED
      BY <3>1, <3>3, <3>4, <3>5
  <2> HIDE DEF T
  <2>3. T = Nat
    <3>1. T \in SUBSET Nat
      BY DEF T
    <3> QED
      BY <2>1, <2>2, <3>1, NaturalsByStep
  <2>4. N \in 0..N
    BY <1>1
  <2> QED
    BY <1>1, <2>3, <2>4 DEF T
<1> QED
  BY <1>7, <1>8 DEF N

\* Where the schemas have their columns.
LEMMA StsPlaces ==
    /\ IsList(StsSchema) /\ DOMAIN StsSchema = 1..11
    /\ \A i \in 1..11 : IndexOf(StsSchema, StsSchema[i].name) = i
    /\ \A i \in 1..11 : StsSchema[i].fields = <<>>
    /\ StsSchema[1].name = "frame_id" /\ StsSchema[2].name = "units_pos"
    /\ StsSchema[3].name = "timescale_id" /\ StsSchema[4].name = "source_id"
    /\ StsSchema[5].name = "estimate_type" /\ StsSchema[6].name = "position"
    /\ StsSchema[7].name = "quaternion" /\ StsSchema[8].name = "duration_centuries"
    /\ StsSchema[9].name = "duration_ns" /\ StsSchema[10].name = "position_covariance"
    /\ StsSchema[11].name = "orientation_covariance"
<1>1. DOMAIN StsSchema = 1..11 /\ Len(StsSchema) = 11 /\ StsSchema = [i \in 1..11 |-> StsSchema[i]]
  BY DEF StsSchema
<1>2. IsList(StsSchema)
  BY <1>1 DEF IsList
<1>3. /\ StsSchema[1].name = "frame_id" /\ StsSchema[2].name = "units_pos"
      /\ StsSchema[3].name = "timescale_id" /\ StsSchema[4].name = "source_id"
      /\ StsSchema[5].name = "estimate_type"
  BY DEF StsSchema, IdField, VocabularyField, Field
<1>4. /\ StsSchema[6].name = "position"
      /\ StsSchema[7].name = "quaternion" /\ StsSchema[8].name = "duration_centuries"
      /\ StsSchema[9].name = "duration_ns" /\ StsSchema[10].name = "position_covariance"
      /\ StsSchema[11].name = "orientation_covariance"
  BY DEF StsSchema, Field
<1>5. \A i \in 1..11 : i \in {1, 2, 3, 4, 5, 6, 7, 8, 9, 10, 11}
  OBVIOUS
<1>6. /\ StsSchema[1].fields = <<>> /\ StsSchema[2].fields = <<>> /\ StsSchema[3].fields = <<>>
      /\ StsSchema[4].fields = <<>> /\ StsSchema[5].fields = <<>>
  BY DEF StsSchema, IdField, VocabularyField, Field
<1>7. /\ StsSchema[6].fields = <<>> /\ StsSchema[7].fields = <<>> /\ StsSchema[8].fields = <<>>
      /\ StsSchema[9].fields = <<>> /\ StsSchema[10].fields = <<>> /\ StsSchema[11].fields = <<>>
  BY DEF StsSchema, Field
<1> HIDE DEF StsSchema
<1>8. \A i \in 1..11 : StsSchema[i].fields = <<>>
  BY <1>5, <1>6, <1>7
<1>9. \A i, j \in 1..11 : StsSchema[i].name = StsSchema[j].name => i = j
  BY <1>3, <1>4, <1>5
<1>10. ASSUME NEW i \in 1..11 PROVE IndexOf(StsSchema, StsSchema[i].name) = i
  <2>1. \A j \in 1..(i - 1) : j \in 1..11 /\ j # i
    OBVIOUS
  <2>2. \A j \in 1..(i - 1) : StsSchema[j].name # StsSchema[i].name
    BY <1>9, <2>1
  <2> QED
    BY <1>1, <1>2, <2>2, IndexUnique
<1> QED
  BY <1>1, <1>2, <1>3, <1>4, <1>8, <1>10

LEMMA EntityPlaces ==
    /\ IsList(EntitySchema) /\ DOMAIN EntitySchema = 1..8
    /\ At(EntitySchema) = 2 /\ EntitySchema[2].fields = StsSchema /\ EntitySchema[2].kind = "struct"
    /\ \A i \in 1..8 : i # 2 => EntitySchema[i].fields = <<>> /\ EntitySchema[i].kind # "struct"
    /\ IndexOf(EntitySchema, "entity_id") = 1 /\ IndexOf(EntitySchema, "velocity") = 3
    /\ IndexOf(EntitySchema, "angular_velocity") = 4 /\ IndexOf(EntitySchema, "acceleration") = 5
    /\ IndexOf(EntitySchema, "mass_kg") = 6 /\ IndexOf(EntitySchema, "state_covariance") = 7
    /\ IndexOf(EntitySchema, "dimensions") = 8
    /\ EntitySchema[2].name = "spacetimestamp"
<1>1. /\ DOMAIN EntitySchema = 1..8 /\ Len(EntitySchema) = 8
      /\ EntitySchema = [i \in 1..8 |-> EntitySchema[i]]
  BY DEF EntitySchema
<1>2. IsList(EntitySchema)
  BY <1>1 DEF IsList
<1>3. /\ EntitySchema[1].name = "entity_id" /\ EntitySchema[2].name = "spacetimestamp"
      /\ EntitySchema[3].name = "velocity" /\ EntitySchema[4].name = "angular_velocity"
  BY DEF EntitySchema, IdField, Field
<1>4. /\ EntitySchema[5].name = "acceleration" /\ EntitySchema[6].name = "mass_kg"
      /\ EntitySchema[7].name = "state_covariance" /\ EntitySchema[8].name = "dimensions"
  BY DEF EntitySchema, Field
<1>5. EntitySchema[2].fields = StsSchema /\ EntitySchema[2].kind = "struct"
  BY DEF EntitySchema, Field
<1>6. /\ EntitySchema[1].fields = <<>> /\ EntitySchema[3].fields = <<>> /\ EntitySchema[4].fields = <<>>
      /\ EntitySchema[5].fields = <<>> /\ EntitySchema[6].fields = <<>> /\ EntitySchema[7].fields = <<>>
      /\ EntitySchema[8].fields = <<>>
  BY DEF EntitySchema, IdField, Field
<1>7. /\ EntitySchema[1].kind # "struct" /\ EntitySchema[3].kind # "struct" /\ EntitySchema[4].kind # "struct"
      /\ EntitySchema[5].kind # "struct" /\ EntitySchema[6].kind # "struct" /\ EntitySchema[7].kind # "struct"
      /\ EntitySchema[8].kind # "struct"
  BY DEF EntitySchema, IdField, Field
<1>8. \A i \in 1..8 : i \in {1, 2, 3, 4, 5, 6, 7, 8}
  OBVIOUS
<1> HIDE DEF EntitySchema
<1>9. \A i \in 1..8 : i # 2 => EntitySchema[i].fields = <<>> /\ EntitySchema[i].kind # "struct"
  BY <1>6, <1>7, <1>8
<1>10. \A i, j \in 1..8 : EntitySchema[i].name = EntitySchema[j].name => i = j
  BY <1>3, <1>4, <1>8
<1>11. ASSUME NEW i \in 1..8 PROVE IndexOf(EntitySchema, EntitySchema[i].name) = i
  <2>1. \A j \in 1..(i - 1) : j \in 1..8 /\ j # i
    OBVIOUS
  <2>2. \A j \in 1..(i - 1) : EntitySchema[j].name # EntitySchema[i].name
    BY <1>10, <2>1
  <2> QED
    BY <1>1, <1>2, <2>2, IndexUnique
<1>12. /\ 1 \in 1..8 /\ 2 \in 1..8 /\ 3 \in 1..8 /\ 4 \in 1..8 /\ 5 \in 1..8 /\ 6 \in 1..8 /\ 7 \in 1..8
       /\ 8 \in 1..8
  OBVIOUS
<1>13. /\ At(EntitySchema) = 2
       /\ IndexOf(EntitySchema, "entity_id") = 1 /\ IndexOf(EntitySchema, "velocity") = 3
       /\ IndexOf(EntitySchema, "angular_velocity") = 4
  BY <1>3, <1>11, <1>12 DEF At
<1>14. /\ IndexOf(EntitySchema, "acceleration") = 5 /\ IndexOf(EntitySchema, "mass_kg") = 6
       /\ IndexOf(EntitySchema, "state_covariance") = 7 /\ IndexOf(EntitySchema, "dimensions") = 8
  BY <1>4, <1>11, <1>12
<1> QED
  BY <1>1, <1>2, <1>3, <1>5, <1>9, <1>13, <1>14

LEMMA EmptyIsList == IsList(<<>>)
  BY DEF IsList

LEMMA EntityLayout == Layout(EntitySchema)
<1>1. \A i \in 1..8 : IsList(EntitySchema[i].fields)
  BY EntityPlaces, StsPlaces, EmptyIsList
<1>2. IsSchema(EntitySchema)
  BY <1>1, EntityPlaces DEF IsSchema
<1>3. Has(EntitySchema, "spacetimestamp")
  <2>1. 2 \in 1..8
    OBVIOUS
  <2> QED
    BY <2>1, EntityPlaces DEF Has
<1>4. FieldOf(EntitySchema, "spacetimestamp") = EntitySchema[2]
  BY EntityPlaces DEF FieldOf, At
<1>5. ASSUME NEW i \in 1..11
      PROVE  /\ Has(StsSchema, StsSchema[i].name)
             /\ FieldOf(StsSchema, StsSchema[i].name) = StsSchema[i]
  BY StsPlaces DEF FieldOf, Has
<1>6. \A i \in 1..11 : SameType(FieldOf(StsSchema, StsSchema[i].name), StsSchema[i])
  BY <1>5 DEF SameType
<1>7. FieldOf(EntitySchema, "spacetimestamp").fields = StsSchema
      /\ FieldOf(EntitySchema, "spacetimestamp").kind = "struct"
  BY <1>4, EntityPlaces
<1> HIDE DEF EntitySchema, StsSchema
<1>8. ValidateStsSchema(EntitySchema)
  BY <1>3, <1>5, <1>6, <1>7, StsPlaces DEF ValidateStsSchema
<1> QED
  BY <1>2, <1>8 DEF Layout

\* finish_as_struct puts every column where the schema has it.
HoldColumns(rows, built, n) ==
    /\ rows = [r \in 1..n |-> rows[r]]
    /\ \A r \in 1..n :
         /\ rows[r] = [i \in 1..11 |-> rows[r][i]]
         /\ \A column \in StsColumns : rows[r][IndexOf(StsSchema, column)] = built[column][r]

LEMMA FinishReads ==
    ASSUME NEW n \in Nat, NEW built, \A column \in StsColumns : DOMAIN built[column] = 1..n
    PROVE  HoldColumns(FinishAsStruct(built), built, n)
<1> DEFINE columns == <<
              built.frame_id, built.units_pos, built.timescale_id, built.source_id, built.estimate_type,
              built.position, built.quaternion, built.duration_centuries, built.duration_ns,
              built.position_covariance, built.orientation_covariance>>
           rows == FinishAsStruct(built)
<1>1. /\ DOMAIN columns = 1..11
      /\ columns[1] = built["frame_id"] /\ columns[2] = built["units_pos"]
      /\ columns[3] = built["timescale_id"] /\ columns[4] = built["source_id"]
      /\ columns[5] = built["estimate_type"] /\ columns[6] = built["position"]
      /\ columns[7] = built["quaternion"] /\ columns[8] = built["duration_centuries"]
      /\ columns[9] = built["duration_ns"] /\ columns[10] = built["position_covariance"]
      /\ columns[11] = built["orientation_covariance"]
  OBVIOUS
<1>2. rows = Zipped(columns)
  BY DEF FinishAsStruct
<1> HIDE DEF columns, rows
<1>3. \A i \in 1..11 : columns[i] = built[StsSchema[i].name]
  <2>1. \A i \in 1..11 : i \in {1, 2, 3, 4, 5, 6, 7, 8, 9, 10, 11}
    OBVIOUS
  <2> QED
    BY <1>1, <2>1, StsPlaces
<1>4. DOMAIN columns[1] = 1..n
  BY <1>1 DEF StsColumns
<1>5. rows = [r \in 1..n |-> [i \in 1..11 |-> columns[i][r]]]
  BY <1>1, <1>2, <1>4 DEF Zipped
<1>6. ASSUME NEW r \in 1..n, NEW column \in StsColumns
      PROVE  rows[r][IndexOf(StsSchema, column)] = built[column][r]
  <2>1. PICK i \in 1..11 : StsSchema[i].name = column
    BY StsFields
  <2>2. IndexOf(StsSchema, column) = i
    BY <2>1, StsPlaces
  <2>3. rows[r][i] = columns[i][r]
    BY <1>5
  <2> QED
    BY <1>3, <2>1, <2>2, <2>3
<1>7. /\ rows = [r \in 1..n |-> rows[r]]
      /\ \A r \in 1..n : rows[r] = [i \in 1..11 |-> rows[r][i]]
  BY <1>5
<1> QED
  BY <1>6, <1>7 DEF rows, HoldColumns

LEMMA BuiltReads ==
    ASSUME NEW ms, IsList(ms), \A r \in DOMAIN ms : IsMeasured(ms[r])
    PROVE  LET batch == Built(ms)
           IN  /\ batch.schema = EntitySchema /\ batch = [schema |-> batch.schema, rows |-> batch.rows]
               /\ IsList(batch.rows) /\ DOMAIN batch.rows = DOMAIN ms
               /\ \A r \in DOMAIN ms :
                    /\ batch.rows[r] = [i \in 1..8 |-> batch.rows[r][i]]
                    /\ batch.rows[r][2] = [i \in 1..11 |-> batch.rows[r][2][i]]
                    /\ \A column \in EntityColumns : Value(batch, r, column) = ms[r][column]
                    /\ \A column \in StsColumns : Sts(batch, r, column) = PoseValue(ms[r], column)
<1> DEFINE n == Len(ms)
           filled == Filled(ms, n)
           own == filled.own
           inner == FinishAsStruct(filled.sts)
           columns == <<own.entity_id, inner, own.velocity, own.angular_velocity, own.acceleration,
                        own.mass_kg, own.state_covariance, own.dimensions>>
           batch == Built(ms)
<1>1. n \in Nat /\ DOMAIN ms = 1..n
  BY ListIs
<1>2. batch = [schema |-> EntitySchema, rows |-> Zipped(columns)]
  <2>1. batch = FlushEntity(filled)
    BY BuiltIsFilled
  <2> HIDE DEF filled
  <2> QED
    BY <2>1 DEF FlushEntity
<1>3. filled.sts = PoseFilled(ms, n) /\ filled.own = OwnFilled(ms, n)
  BY DEF Filled
<1> HIDE DEF filled
<1>4. /\ \A column \in StsColumns : filled.sts[column] = [r \in 1..n |-> PoseValue(ms[r], column)]
      /\ \A column \in EntityColumns : own[column] = [r \in 1..n |-> ms[r][column]]
  BY <1>3 DEF PoseFilled, OwnFilled
<1>5. \A column \in StsColumns : DOMAIN filled.sts[column] = 1..n
  BY <1>4
<1>6. /\ inner = [r \in 1..n |-> inner[r]]
      /\ \A r \in 1..n :
           /\ inner[r] = [i \in 1..11 |-> inner[r][i]]
           /\ \A column \in StsColumns : inner[r][IndexOf(StsSchema, column)] = filled.sts[column][r]
  <2> DEFINE b == filled.sts
  <2> HIDE DEF b, n
  <2>1. n \in Nat /\ \A column \in StsColumns : DOMAIN b[column] = 1..n
    BY <1>1, <1>5 DEF b
  <2>2. HoldColumns(FinishAsStruct(b), b, n)
    BY <2>1, FinishReads
  <2> QED
    BY <2>2 DEF b, HoldColumns
<1>7. /\ DOMAIN columns = 1..8 /\ columns[1] = own["entity_id"] /\ columns[2] = inner
      /\ columns[3] = own["velocity"] /\ columns[4] = own["angular_velocity"]
      /\ columns[5] = own["acceleration"] /\ columns[6] = own["mass_kg"]
      /\ columns[7] = own["state_covariance"] /\ columns[8] = own["dimensions"]
  OBVIOUS
<1> HIDE DEF columns, inner, own, n, batch
<1>8. DOMAIN columns[1] = 1..n
  BY <1>4, <1>7 DEF EntityColumns
<1>9. Zipped(columns) = [r \in 1..n |-> [i \in 1..8 |-> columns[i][r]]]
  BY <1>7, <1>8 DEF Zipped
<1>10. /\ batch.schema = EntitySchema /\ batch = [schema |-> batch.schema, rows |-> batch.rows]
       /\ batch.rows = [r \in 1..n |-> [i \in 1..8 |-> columns[i][r]]]
  BY <1>2, <1>9
<1>11. /\ batch.rows = [r \in 1..n |-> batch.rows[r]] /\ DOMAIN batch.rows = 1..n
       /\ \A r \in 1..n : /\ batch.rows[r] = [i \in 1..8 |-> batch.rows[r][i]]
                          /\ \A i \in 1..8 : batch.rows[r][i] = columns[i][r]
  BY <1>10
<1>12. IsList(batch.rows)
  BY <1>1, <1>11, Tabulated
<1>13. ASSUME NEW r \in 1..n
       PROVE  /\ batch.rows[r][2] = [i \in 1..11 |-> batch.rows[r][2][i]]
              /\ \A column \in EntityColumns : Value(batch, r, column) = ms[r][column]
              /\ \A column \in StsColumns : Sts(batch, r, column) = PoseValue(ms[r], column)
  <2>1. /\ 1 \in 1..8 /\ 2 \in 1..8 /\ 3 \in 1..8 /\ 4 \in 1..8 /\ 5 \in 1..8 /\ 6 \in 1..8 /\ 7 \in 1..8
        /\ 8 \in 1..8
    OBVIOUS
  <2>2. batch.rows[r][2] = inner[r]
    BY <1>7, <1>11, <2>1
  <2>3. \A column \in EntityColumns : Value(batch, r, column) = own[column][r]
    BY <1>7, <1>10, <1>11, <2>1, EntityPlaces DEF EntityColumns, Value
  <2>4. ASSUME NEW column \in StsColumns PROVE Sts(batch, r, column) = PoseValue(ms[r], column)
    <3>1. Layout(batch.schema) /\ At(batch.schema) = 2
      BY <1>10, EntityLayout, EntityPlaces
    <3>2. Col(batch.schema, column) = IndexOf(StsSchema, column)
      BY <1>10, EntityPlaces, <3>1 DEF Col
    <3>3. Sts(batch, r, column) = batch.rows[r][2][IndexOf(StsSchema, column)]
      BY <3>1, <3>2, StsReads
    <3>4. inner[r][IndexOf(StsSchema, column)] = filled.sts[column][r]
      BY <1>6
    <3>5. filled.sts[column][r] = PoseValue(ms[r], column)
      BY <1>4
    <3> QED
      BY <2>2, <3>3, <3>4, <3>5
  <2>5. inner[r] = [i \in 1..11 |-> inner[r][i]]
    BY <1>6
  <2>6. \A column \in EntityColumns : own[column][r] = ms[r][column]
    BY <1>4
  <2> QED
    BY <2>2, <2>3, <2>4, <2>5, <2>6
<1> QED
  BY <1>1, <1>10, <1>11, <1>12, <1>13 DEF batch

LEMMA BuiltRow ==
    ASSUME NEW ms, IsList(ms), \A q \in DOMAIN ms : IsMeasured(ms[q]), NEW r \in DOMAIN ms
    PROVE  /\ Built(ms).schema = EntitySchema /\ DOMAIN Built(ms).rows = DOMAIN ms
           /\ \A column \in EntityColumns : Value(Built(ms), r, column) = ms[r][column]
           /\ \A column \in StsColumns : Sts(Built(ms), r, column) = PoseValue(ms[r], column)
<1> DEFINE batch == Built(ms)
<1>1. /\ batch.schema = EntitySchema /\ batch = [schema |-> batch.schema, rows |-> batch.rows]
      /\ IsList(batch.rows) /\ DOMAIN batch.rows = DOMAIN ms
      /\ \A q \in DOMAIN ms :
           /\ batch.rows[q] = [i \in 1..8 |-> batch.rows[q][i]]
           /\ batch.rows[q][2] = [i \in 1..11 |-> batch.rows[q][2][i]]
           /\ \A column \in EntityColumns : Value(batch, q, column) = ms[q][column]
           /\ \A column \in StsColumns : Sts(batch, q, column) = PoseValue(ms[q], column)
  BY BuiltReads
<1> HIDE DEF batch
<1>2. /\ batch.schema = EntitySchema /\ DOMAIN batch.rows = DOMAIN ms
      /\ \A column \in EntityColumns : Value(batch, r, column) = ms[r][column]
      /\ \A column \in StsColumns : Sts(batch, r, column) = PoseValue(ms[r], column)
  BY <1>1
<1> QED
  BY <1>2 DEF batch

LEMMA CodeReads ==
    ASSUME NEW vocabulary, IsList(vocabulary), NEW token \in ToSet(vocabulary)
    PROVE  /\ Code(vocabulary, token) \in Int
           /\ vocabulary[Code(vocabulary, token) + 1] = token
<1> DEFINE i == CHOOSE k \in DOMAIN vocabulary : vocabulary[k] = token
<1>1. i \in DOMAIN vocabulary /\ vocabulary[i] = token
  BY DEF ToSet
<1>2. i \in Int
  BY <1>1, ListIs
<1>3. Code(vocabulary, token) = i - 1
  BY DEF Code
<1> HIDE DEF i
<1>4. (i - 1) + 1 = i
  BY <1>2
<1> QED
  BY <1>1, <1>2, <1>3, <1>4

LEMMA VocabulariesAreLists == IsList(LengthUnit) /\ IsList(TimeScaleCode) /\ IsList(EstimateType)
<1>1. Len(LengthUnit) = 10 /\ LengthUnit = [i \in 1..10 |-> LengthUnit[i]]
  BY DEF LengthUnit
<1>2. Len(TimeScaleCode) = 14 /\ TimeScaleCode = [i \in 1..14 |-> TimeScaleCode[i]]
  BY DEF TimeScaleCode
<1>3. Len(EstimateType) = 4 /\ EstimateType = [i \in 1..4 |-> EstimateType[i]]
  BY DEF EstimateType
<1> QED
  BY <1>1, <1>2, <1>3 DEF IsList

\* Codes and parts of a measurement are integers, and the codes are those of its tokens.
LEMMA MeasurementCodes ==
    ASSUME NEW m, IsMeasurement(m)
    PROVE  /\ IsMeasured(m)
           /\ \A column \in StsColumns : PoseValue(m, column) = StsValue(m, column)
           /\ \A column \in IntColumns : StsValue(m, column) \in Int
           /\ LengthUnit[StsValue(m, "units_pos") + 1] = m.units_pos
           /\ TimeScaleCode[StsValue(m, "timescale_id") + 1] = m.timescale_id
           /\ EstimateType[StsValue(m, "estimate_type") + 1] = m.estimate_type
<1>1. /\ m.units_pos \in ToSet(LengthUnit) /\ m.timescale_id \in ToSet(TimeScaleCode)
      /\ m.estimate_type \in ToSet(EstimateType)
      /\ m["duration_centuries"] \in Int /\ m["duration_ns"] \in Int
      /\ m["position_covariance"] = "null" /\ m["orientation_covariance"] = "null"
  BY DEF IsMeasurement
<1>2. StsValue(m, "units_pos") \in Int /\ LengthUnit[StsValue(m, "units_pos") + 1] = m.units_pos
  BY <1>1, CodeReads, VocabulariesAreLists DEF StsValue
<1>3. StsValue(m, "timescale_id") \in Int /\ TimeScaleCode[StsValue(m, "timescale_id") + 1] = m.timescale_id
  BY <1>1, CodeReads, VocabulariesAreLists DEF StsValue
<1>4. StsValue(m, "estimate_type") \in Int /\ EstimateType[StsValue(m, "estimate_type") + 1] = m.estimate_type
  BY <1>1, CodeReads, VocabulariesAreLists DEF StsValue
<1>5. /\ StsValue(m, "duration_centuries") = m["duration_centuries"]
      /\ StsValue(m, "duration_ns") = m["duration_ns"]
      /\ StsValue(m, "position_covariance") = m["position_covariance"]
      /\ StsValue(m, "orientation_covariance") = m["orientation_covariance"]
  BY DEF StsValue
<1>6. \A column \in StsColumns : PoseValue(m, column) = StsValue(m, column)
  BY <1>1, <1>5 DEF PoseValue, Covariances
<1>7. \A column \in IntColumns : StsValue(m, column) \in Int
  BY <1>1, <1>2, <1>3, <1>4, <1>5 DEF IntColumns
<1>8. IsMeasured(m)
  BY DEF IsMeasured, IsMeasurement
<1> QED
  BY <1>2, <1>3, <1>4, <1>6, <1>7, <1>8

LEMMA BuiltFits ==
    ASSUME NEW ms, IsList(ms), \A r \in DOMAIN ms : IsMeasurement(ms[r])
    PROVE  FitsSchema(Built(ms))
<1> DEFINE batch == Built(ms)
<1>1. \A r \in DOMAIN ms : IsMeasured(ms[r])
  BY MeasurementCodes
<1>2. /\ batch.schema = EntitySchema /\ batch = [schema |-> batch.schema, rows |-> batch.rows]
      /\ IsList(batch.rows) /\ DOMAIN batch.rows = DOMAIN ms
      /\ \A r \in DOMAIN ms :
           /\ batch.rows[r] = [i \in 1..8 |-> batch.rows[r][i]]
           /\ batch.rows[r][2] = [i \in 1..11 |-> batch.rows[r][2][i]]
           /\ \A column \in StsColumns : Sts(batch, r, column) = PoseValue(ms[r], column)
  BY <1>1, BuiltReads
<1> HIDE DEF batch
<1>3. IsSchema(EntitySchema) /\ Layout(batch.schema)
  BY <1>2, EntityLayout DEF Layout
<1>4. \A j \in 1..11 : StsSchema[j].kind \in {"u8", "i16", "u64"} => StsSchema[j].name \in IntColumns
  <2>1. \A j \in 1..11 : j \in {1, 2, 3, 4, 5, 6, 7, 8, 9, 10, 11}
    OBVIOUS
  <2>2. /\ StsSchema[1].kind = "id" /\ StsSchema[4].kind = "id" /\ StsSchema[6].kind = "f64[3]"
        /\ StsSchema[7].kind = "f64[4]" /\ StsSchema[10].kind = "f64[6]" /\ StsSchema[11].kind = "f64[6]"
    BY DEF StsSchema, IdField, Field
  <2> QED
    BY <2>1, <2>2, StsPlaces DEF IntColumns
<1>5. ASSUME NEW r \in DOMAIN batch.rows
      PROVE  /\ IsList(batch.rows[r]) /\ DOMAIN batch.rows[r] = DOMAIN EntitySchema
             /\ \A i \in DOMAIN EntitySchema : EntitySchema[i].kind = "struct" =>
                   /\ IsList(batch.rows[r][i])
                   /\ DOMAIN batch.rows[r][i] = DOMAIN EntitySchema[i].fields
                   /\ \A j \in DOMAIN EntitySchema[i].fields :
                         EntitySchema[i].fields[j].kind \in {"u8", "i16", "u64"} => batch.rows[r][i][j] \in Int
  <2> DEFINE row == batch.rows[r]
             inner == row[2]
  <2>1. row = [i \in 1..8 |-> row[i]] /\ inner = [i \in 1..11 |-> inner[i]] /\ r \in DOMAIN ms
    BY <1>2
  <2>2. ASSUME NEW j \in 1..11, StsSchema[j].kind \in {"u8", "i16", "u64"} PROVE inner[j] \in Int
    <3> DEFINE name == StsSchema[j].name
    <3>1. name \in IntColumns /\ name \in StsColumns /\ IndexOf(StsSchema, name) = j
      BY <1>4, <2>2, StsFields, StsPlaces
    <3> HIDE DEF name
    <3>2. Sts(batch, r, name) = inner[j]
      <4>1. At(batch.schema) = 2 /\ Col(batch.schema, name) = j
        BY <1>2, <3>1, EntityPlaces DEF Col
      <4> QED
        BY <1>3, <4>1, StsReads
    <3>3. Sts(batch, r, name) = StsValue(ms[r], name)
      BY <1>2, <2>1, <3>1, MeasurementCodes
    <3>4. StsValue(ms[r], name) \in Int
      BY <2>1, <3>1, MeasurementCodes
    <3> QED
      BY <3>2, <3>3, <3>4
  <2> HIDE DEF row, inner
  <2>3. IsList(row) /\ DOMAIN row = 1..8 /\ IsList(inner) /\ DOMAIN inner = 1..11
    <3>1. 8 \in Nat /\ 11 \in Nat
      OBVIOUS
    <3>2. IsList(row) /\ IsList(inner)
      BY <2>1, <3>1, Tabulated
    <3> QED
      BY <2>1, <3>2
  <2>4. \A i \in 1..8 : EntitySchema[i].kind = "struct" => i = 2
    BY EntityPlaces
  <2>5. EntitySchema[2].fields = StsSchema /\ DOMAIN StsSchema = 1..11 /\ DOMAIN EntitySchema = 1..8
    BY EntityPlaces, StsPlaces
  <2> QED
    BY <2>2, <2>3, <2>4, <2>5 DEF row, inner
<1>6. FitsSchema(batch)
  BY <1>2, <1>3, <1>5 DEF FitsSchema
<1> QED
  BY <1>6 DEF batch

LEMMA StsFilledStep ==
    ASSUME NEW n \in Nat, NEW ms
    PROVE  AppendSts(StsFilled(ms, n), ms[n + 1]) = StsFilled(ms, n + 1)
<1>1. ASSUME NEW column \in StsColumns
      PROVE  Append(StsFilled(ms, n)[column], StsValue(ms[n + 1], column))
                = [r \in 1..(n + 1) |-> StsValue(ms[r], column)]
  <2> DEFINE f == [r \in 1..(n + 1) |-> StsValue(ms[r], column)]
  <2>1. f = [r \in 1..(n + 1) |-> f[r]] /\ f[n + 1] = StsValue(ms[n + 1], column)
        /\ [r \in 1..n |-> f[r]] = [r \in 1..n |-> StsValue(ms[r], column)]
    OBVIOUS
  <2> HIDE DEF f
  <2>2. Append([r \in 1..n |-> f[r]], f[n + 1]) = f
    BY <2>1, AppendTabulated
  <2>3. StsFilled(ms, n)[column] = [r \in 1..n |-> f[r]]
    BY <2>1 DEF StsFilled
  <2> QED
    BY <2>1, <2>2, <2>3 DEF f
<1> QED
  BY <1>1 DEF AppendSts, StsFilled

LEMMA BuiltStsIsFilled ==
    ASSUME NEW ms, IsList(ms)
    PROVE  BuiltSts(ms) = FlushSts(StsFilled(ms, Len(ms)))
<1> DEFINE N == Len(ms)
           Builds(b) == b = [n \in 0..N |-> IF n = 0 THEN NoStsRows ELSE AppendSts(b[n - 1], ms[n])]
           whole == [n \in 0..N |-> StsFilled(ms, n)]
           built == CHOOSE b : Builds(b)
<1>1. N \in Nat
  BY ListIs
<1>2. StsFilled(ms, 0) = NoStsRows
  <2>1. 1..0 = {}
    OBVIOUS
  <2>2. \A column \in StsColumns : [r \in 1..0 |-> StsValue(ms[r], column)] = <<>>
    BY <2>1
  <2> QED
    BY <2>2 DEF StsFilled, NoStsRows
<1>3. \A n \in 1..N : n - 1 \in 0..N /\ n - 1 \in Nat /\ (n - 1) + 1 = n /\ n # 0
  BY <1>1
<1>4. ASSUME NEW n \in 1..N PROVE AppendSts(StsFilled(ms, n - 1), ms[n]) = StsFilled(ms, n)
  <2> DEFINE k == n - 1
  <2>1. k \in Nat /\ k + 1 = n
    BY <1>3
  <2> HIDE DEF k
  <2>2. AppendSts(StsFilled(ms, k), ms[k + 1]) = StsFilled(ms, k + 1)
    BY <2>1, StsFilledStep
  <2>3. AppendSts(StsFilled(ms, k), ms[n]) = StsFilled(ms, n)
    BY <2>1, <2>2
  <2> QED
    BY <2>3 DEF k
<1> HIDE DEF N
<1>5. Builds(whole)
  <2>1. \A n \in 0..N : n = 0 \/ n \in 1..N
    BY <1>1
  <2>2. \A n \in 0..N : whole[n] = IF n = 0 THEN NoStsRows ELSE AppendSts(whole[n - 1], ms[n])
    <3>1. TAKE n \in 0..N
    <3>2. CASE n = 0
      BY <1>2, <3>2
    <3>3. CASE n # 0
      <4>1. n \in 1..N
        BY <2>1, <3>3
      <4>2. whole[n - 1] = StsFilled(ms, n - 1) /\ whole[n] = StsFilled(ms, n)
        BY <1>3, <4>1
      <4> QED
        BY <1>4, <3>3, <4>1, <4>2
    <3> QED
      BY <3>2, <3>3
  <2>3. whole = [n \in 0..N |-> whole[n]]
    OBVIOUS
  <2> HIDE DEF whole
  <2> QED
    BY <2>2, <2>3
<1> HIDE DEF whole
<1>6. Builds(built)
  BY <1>5
<1>7. BuiltSts(ms) = FlushSts(built[N])
  BY DEF BuiltSts, N
<1>8. built[N] = StsFilled(ms, N)
  <2> HIDE DEF built
  <2> DEFINE T == {n \in Nat : n \in 0..N => built[n] = StsFilled(ms, n)}
  <2>1. 0 \in T
    BY <1>1, <1>2, <1>6
  <2>2. ASSUME NEW n \in T PROVE n + 1 \in T
    <3>1. n \in Nat /\ (n \in 0..N => built[n] = StsFilled(ms, n))
      OBVIOUS
    <3>2. SUFFICES ASSUME n + 1 \in 0..N PROVE built[n + 1] = StsFilled(ms, n + 1)
      BY <3>1
    <3> HIDE DEF T
    <3>3. n \in 0..N /\ n + 1 \in 1..N /\ n + 1 # 0 /\ (n + 1) - 1 = n
      BY <1>1, <3>1, <3>2
    <3>4. built[n + 1] = AppendSts(built[(n + 1) - 1], ms[n + 1])
      BY <1>6, <3>2, <3>3
    <3>5. AppendSts(StsFilled(ms, (n + 1) - 1), ms[n + 1]) = StsFilled(ms, n + 1)
      BY <1>4, <3>3
    <3> QED
      BY <3>1, <3>3, <3>4, <3>5
  <2> HIDE DEF T
  <2>3. T = Nat
    <3>1. T \in SUBSET Nat
      BY DEF T
    <3> QED
      BY <2>1, <2>2, <3>1, NaturalsByStep
  <2>4. N \in 0..N
    BY <1>1
  <2> QED
    BY <1>1, <2>3, <2>4 DEF T
<1> QED
  BY <1>7, <1>8 DEF N

\* The columns read the same at the top level.
LEMMA BuiltStsReads ==
    ASSUME NEW ms, IsList(ms), NEW r \in DOMAIN ms, NEW name \in StsColumns
    PROVE  Sts(BuiltSts(ms), r, name) = StsValue(ms[r], name)
<1> DEFINE n == Len(ms)
           filled == StsFilled(ms, n)
           batch == BuiltSts(ms)
<1>1. n \in Nat /\ r \in 1..n
  BY ListIs
<1>2. batch.schema = StsSchema /\ batch.rows = FinishAsStruct(filled)
  <2>1. batch = FlushSts(filled)
    BY BuiltStsIsFilled
  <2> HIDE DEF filled, batch
  <2> QED
    BY <2>1 DEF FlushSts
<1>3. \A column \in StsColumns : filled[column] = [q \in 1..n |-> StsValue(ms[q], column)]
  BY DEF StsFilled
<1> HIDE DEF n, filled, batch
<1>4. \A column \in StsColumns : DOMAIN filled[column] = 1..n
  BY <1>3
<1>5. batch.rows[r][IndexOf(StsSchema, name)] = filled[name][r]
  <2>1. HoldColumns(FinishAsStruct(filled), filled, n)
    BY <1>1, <1>4, FinishReads
  <2>2. \A column \in StsColumns :
            FinishAsStruct(filled)[r][IndexOf(StsSchema, column)] = filled[column][r]
    BY <1>1, <2>1 DEF HoldColumns
  <2> QED
    BY <1>2, <2>2
<1>6. ~Has(batch.schema, "spacetimestamp")
  <2>1. \A i \in 1..11 : StsSchema[i].name # "spacetimestamp"
    BY StsFields DEF StsColumns
  <2> QED
    BY <1>2, <2>1, StsPlaces DEF Has
<1>7. Sts(batch, r, name) = batch.rows[r][IndexOf(StsSchema, name)]
  BY <1>2, <1>6 DEF Sts, Value
<1>8. filled[name][r] = StsValue(ms[r], name)
  BY <1>1, <1>3
<1> QED
  BY <1>5, <1>7, <1>8 DEF batch

-----------------------------------------------------------------------------
(* A stored batch against the batch it came from. *)

Rewritten == {"timescale_id", "duration_centuries", "duration_ns"}

ColumnsKept(batch, from) ==
    \A r \in DOMAIN batch.rows : \A name \in StsColumns \ Rewritten : Sts(batch, r, name) = Sts(from.batch, r, name)

MomentsKept(batch, from) ==
    \A r \in DOMAIN batch.rows :
        /\ ~from.loaded => Sts(batch, r, "timescale_id") = TAI
        /\ EpochAt(batch, r) = EpochAt(from.batch, r)

RowsDecode(batch, from) ==
    \A r \in DOMAIN batch.rows :
        ~from.loaded =>
            /\ Decodes(LengthUnit, Sts(batch, r, "units_pos"))
            /\ Decodes(TimeScaleCode, Sts(batch, r, "timescale_id"))
            /\ Decodes(EstimateType, Sts(batch, r, "estimate_type"))
            /\ \/ NamesAFrame(Sts(batch, r, "frame_id"))
               \/ IdColumn = "" /\ Sts(batch, r, "frame_id") = "null"

SaysWhatWasMeasured(batch, r, m) ==
    /\ \A column \in EntityColumns : Value(batch, r, column) = m[column]
    /\ \A column \in {"frame_id", "source_id", "position", "quaternion"} : Sts(batch, r, column) = m[column]
    /\ LengthUnit[Sts(batch, r, "units_pos") + 1] = m.units_pos
    /\ EstimateType[Sts(batch, r, "estimate_type") + 1] = m.estimate_type
    /\ EpochAt(batch, r) = Clamp(J2000 + TaiOf(m.timescale_id, FromParts(m.duration_centuries, m.duration_ns)))

BuildersAgree(from) ==
    \A r \in DOMAIN from.measured : \A name \in StsColumns :
        Sts(BuiltSts(from.measured), r, name) = Sts(from.batch, r, name)

MeasuredKept(batch, from) ==
    /\ \A r \in DOMAIN from.measured : SaysWhatWasMeasured(batch, r, from.measured[r])
    /\ BuildersAgree(from)

Faithful(batch, from) ==
    ColumnsKept(batch, from) /\ MomentsKept(batch, from) /\ RowsDecode(batch, from) /\ MeasuredKept(batch, from)

\* Reads that agree give the same epoch.
LEMMA EpochReads ==
    ASSUME NEW a, NEW b, NEW r,
           \A name \in StsColumns : Sts(a, r, name) = Sts(b, r, name)
    PROVE  EpochAt(a, r) = EpochAt(b, r)
<1>1. "duration_centuries" \in StsColumns /\ "duration_ns" \in StsColumns /\ "timescale_id" \in StsColumns
  BY DEF StsColumns
<1>2. /\ Sts(a, r, "duration_centuries") = Sts(b, r, "duration_centuries")
      /\ Sts(a, r, "duration_ns") = Sts(b, r, "duration_ns")
      /\ Sts(a, r, "timescale_id") = Sts(b, r, "timescale_id")
  BY <1>1
<1> QED
  BY <1>2 DEF EpochAt

\* What append makes of a batch, up to the segment.
Arrived(batch, schema) == NormalizeToTai(ConformToSchema(batch, schema))
Accepted(batch, schema) ==
    /\ ConformToSchema(batch, schema) # Refused
    /\ ValidateBatch(ConformToSchema(batch, schema))
    /\ Segment(Arrived(batch, schema)) # Refused
    /\ TopologyReads(Arrived(batch, schema))

LEMMA AcceptedKeeps ==
    ASSUME NEW batch, FitsSchema(batch), NEW schema, Layout(schema), Accepted(batch, schema)
    PROVE  LET after == Arrived(batch, schema)
           IN  /\ Readable(after) /\ after.schema = schema /\ DOMAIN after.rows = DOMAIN batch.rows
               /\ \A r \in DOMAIN batch.rows :
                    /\ Sts(after, r, "timescale_id") = TAI
                    /\ EpochAt(after, r) = EpochAt(batch, r)
                    /\ \A name \in StsColumns \ Rewritten : Sts(after, r, name) = Sts(batch, r, name)
                    /\ \A i \in DOMAIN schema \ {At(schema)} : after.rows[r][i] = batch.rows[r][i]
                    /\ Decodes(LengthUnit, Sts(batch, r, "units_pos"))
                    /\ Decodes(TimeScaleCode, Sts(batch, r, "timescale_id"))
                    /\ Decodes(EstimateType, Sts(batch, r, "estimate_type"))
                    /\ Sts(batch, r, "frame_id") = "null" \/ NamesAFrame(Sts(batch, r, "frame_id"))
<1> DEFINE conformed == ConformToSchema(batch, schema)
           after == NormalizeToTai(conformed)
<1>1. conformed # Refused /\ ValidateBatch(conformed)
  BY DEF Accepted
<1>2. /\ conformed.schema = schema /\ conformed.rows = batch.rows /\ FitsSchema(conformed)
      /\ \A r, name : name \in StsColumns => Sts(conformed, r, name) = Sts(batch, r, name)
  BY <1>1, ConformKeepsReads
<1> HIDE DEF conformed
<1>3. Readable(conformed)
  BY <1>2 DEF Readable
<1>4. \A r \in DOMAIN conformed.rows :
              /\ Decodes(LengthUnit, Sts(conformed, r, "units_pos"))
              /\ Decodes(TimeScaleCode, Sts(conformed, r, "timescale_id"))
              /\ Decodes(EstimateType, Sts(conformed, r, "estimate_type"))
              /\ Sts(conformed, r, "frame_id") = "null" \/ NamesAFrame(Sts(conformed, r, "frame_id"))
  BY <1>1, <1>3, ValidatedDecodes
<1>5. ScalesDecode(conformed)
  BY <1>4 DEF ScalesDecode
<1>6. /\ Readable(after) /\ after.schema = conformed.schema
      /\ DOMAIN after.rows = DOMAIN conformed.rows
      /\ \A r \in DOMAIN conformed.rows :
            /\ Sts(after, r, "timescale_id") = TAI
            /\ EpochAt(after, r) = EpochAt(conformed, r)
            /\ \A name \in StsColumns \ {"timescale_id", "duration_centuries", "duration_ns"} :
                  Sts(after, r, name) = Sts(conformed, r, name)
            /\ \A i \in DOMAIN conformed.schema \ {At(conformed.schema)} :
                  after.rows[r][i] = conformed.rows[r][i]
  BY <1>3, <1>5, NormalizeKeeps
<1> HIDE DEF after
<1>7. /\ "units_pos" \in StsColumns /\ "timescale_id" \in StsColumns /\ "estimate_type" \in StsColumns
      /\ "frame_id" \in StsColumns
  BY DEF StsColumns
<1>8. ASSUME NEW r \in DOMAIN batch.rows
      PROVE  /\ Sts(after, r, "timescale_id") = TAI
             /\ EpochAt(after, r) = EpochAt(batch, r)
             /\ \A name \in StsColumns \ Rewritten : Sts(after, r, name) = Sts(batch, r, name)
             /\ \A i \in DOMAIN schema \ {At(schema)} : after.rows[r][i] = batch.rows[r][i]
             /\ Decodes(LengthUnit, Sts(batch, r, "units_pos"))
             /\ Decodes(TimeScaleCode, Sts(batch, r, "timescale_id"))
             /\ Decodes(EstimateType, Sts(batch, r, "estimate_type"))
             /\ Sts(batch, r, "frame_id") = "null" \/ NamesAFrame(Sts(batch, r, "frame_id"))
  <2>1. EpochAt(conformed, r) = EpochAt(batch, r)
    BY <1>2, EpochReads
  <2>2. r \in DOMAIN conformed.rows
    BY <1>2
  <2>3. /\ Decodes(LengthUnit, Sts(batch, r, "units_pos"))
        /\ Decodes(TimeScaleCode, Sts(batch, r, "timescale_id"))
        /\ Decodes(EstimateType, Sts(batch, r, "estimate_type"))
        /\ Sts(batch, r, "frame_id") = "null" \/ NamesAFrame(Sts(batch, r, "frame_id"))
    BY <1>2, <1>4, <1>7, <2>2
  <2>4. \A name \in StsColumns \ Rewritten : Sts(after, r, name) = Sts(batch, r, name)
    BY <1>2, <1>6, <2>2 DEF Rewritten
  <2>5. \A i \in DOMAIN schema \ {At(schema)} : after.rows[r][i] = batch.rows[r][i]
    BY <1>2, <1>6, <2>2
  <2> QED
    BY <1>6, <2>1, <2>2, <2>3, <2>4, <2>5
<1>9. Readable(after) /\ after.schema = schema /\ DOMAIN after.rows = DOMAIN batch.rows
  BY <1>2, <1>6
<1> QED
  BY <1>8, <1>9 DEF Arrived, after, conformed

LEMMA ArrivedSaysWhatWasMeasured ==
    ASSUME NEW ms, IsList(ms), \A r \in DOMAIN ms : IsMeasurement(ms[r]),
           NEW schema, Layout(schema), Accepted(Built(ms), schema), NEW r \in DOMAIN ms
    PROVE  SaysWhatWasMeasured(Arrived(Built(ms), schema), r, ms[r])
<1> DEFINE batch == Built(ms)
           after == Arrived(batch, schema)
           m == ms[r]
<1>1. /\ batch.schema = EntitySchema /\ DOMAIN batch.rows = DOMAIN ms
      /\ \A column \in EntityColumns : Value(batch, r, column) = m[column]
      /\ \A column \in StsColumns : Sts(batch, r, column) = StsValue(m, column)
  <2>1. \A q \in DOMAIN ms : IsMeasured(ms[q])
    BY MeasurementCodes
  <2>2. /\ batch.schema = EntitySchema /\ DOMAIN batch.rows = DOMAIN ms
        /\ \A column \in EntityColumns : Value(batch, r, column) = m[column]
        /\ \A column \in StsColumns : Sts(batch, r, column) = PoseValue(m, column)
    BY <2>1, BuiltRow
  <2> QED
    BY <2>2, MeasurementCodes
<1>2. FitsSchema(batch)
  BY BuiltFits
<1> HIDE DEF batch
<1>3. /\ after.schema = schema
      /\ EpochAt(after, r) = EpochAt(batch, r)
      /\ \A name \in StsColumns \ Rewritten : Sts(after, r, name) = Sts(batch, r, name)
      /\ \A i \in DOMAIN schema \ {At(schema)} : after.rows[r][i] = batch.rows[r][i]
  <2>1. Accepted(batch, schema) /\ r \in DOMAIN batch.rows
    BY <1>1 DEF batch
  <2> QED
    BY <1>2, <2>1, AcceptedKeeps
<1>4. Conforms(batch.schema, schema)
  BY DEF Accepted, ConformToSchema, batch
<1> HIDE DEF after
<1>5. ASSUME NEW column \in EntityColumns PROVE Value(after, r, column) = m[column]
  <2> DEFINE i == IndexOf(EntitySchema, column)
  <2>1. i \in 1..8 /\ i # 2 /\ Has(EntitySchema, column)
    <3>1. i \in {1, 3, 4, 5, 6, 7, 8}
      BY EntityPlaces DEF EntityColumns
    <3>2. Has(EntitySchema, column)
      <4>1. /\ 1 \in 1..8 /\ 3 \in 1..8 /\ 4 \in 1..8 /\ 5 \in 1..8 /\ 6 \in 1..8 /\ 7 \in 1..8 /\ 8 \in 1..8
        OBVIOUS
      <4>2. /\ EntitySchema[1].name = "entity_id" /\ EntitySchema[3].name = "velocity"
            /\ EntitySchema[4].name = "angular_velocity" /\ EntitySchema[5].name = "acceleration"
            /\ EntitySchema[6].name = "mass_kg" /\ EntitySchema[7].name = "state_covariance"
            /\ EntitySchema[8].name = "dimensions"
        BY DEF EntitySchema, IdField, Field
      <4> QED
        BY <4>1, <4>2, EntityPlaces DEF Has, EntityColumns
    <3> QED
      BY <3>1, <3>2
  <2>2. IsList(EntitySchema) /\ IsList(schema) /\ DOMAIN schema = DOMAIN EntitySchema
        /\ \A j \in DOMAIN schema : schema[j].name = EntitySchema[j].name
    <3>1. IsList(EntitySchema) /\ IsList(schema)
      BY EntityPlaces DEF Layout, IsSchema
    <3>2. Len(EntitySchema) = Len(schema)
          /\ \A j \in DOMAIN EntitySchema : EntitySchema[j].name = schema[j].name
      BY <1>1, <1>4 DEF Conforms, SameButMetadata
    <3>3. DOMAIN EntitySchema = DOMAIN schema
      BY <3>1, <3>2, ListIs
    <3> QED
      BY <3>1, <3>2, <3>3
  <2>3. IndexOf(schema, column) = i
    BY <2>1, <2>2, SameNamesSameIndex
  <2>4. At(schema) = 2
    <3>1. Has(EntitySchema, "spacetimestamp")
      BY EntityLayout, LayoutReads
    <3>2. IndexOf(schema, "spacetimestamp") = IndexOf(EntitySchema, "spacetimestamp")
      BY <2>2, <3>1, SameNamesSameIndex
    <3> QED
      BY <3>2, EntityPlaces DEF At
  <2> HIDE DEF i
  <2>5. after.rows[r][i] = batch.rows[r][i]
    BY <1>3, <2>1, <2>2, <2>4, EntityPlaces
  <2>6. Value(batch, r, column) = batch.rows[r][i] /\ Value(after, r, column) = after.rows[r][i]
    BY <1>1, <1>3, <2>3 DEF Value, i
  <2> QED
    BY <1>1, <2>5, <2>6
<1>6. /\ \A column \in StsColumns \ Rewritten : Sts(after, r, column) = StsValue(m, column)
      /\ {"frame_id", "source_id", "position", "quaternion", "units_pos", "estimate_type"}
            \subseteq StsColumns \ Rewritten
      /\ "timescale_id" \in StsColumns /\ "duration_centuries" \in StsColumns /\ "duration_ns" \in StsColumns
  BY <1>1, <1>3 DEF StsColumns, Rewritten
<1>7. \A column \in {"frame_id", "source_id", "position", "quaternion"} : StsValue(m, column) = m[column]
  BY DEF StsValue
<1>8. \A column \in {"frame_id", "source_id", "position", "quaternion"} : Sts(after, r, column) = m[column]
  BY <1>6, <1>7
<1>9. /\ LengthUnit[Sts(after, r, "units_pos") + 1] = m.units_pos
      /\ EstimateType[Sts(after, r, "estimate_type") + 1] = m.estimate_type
  <2>1. Sts(after, r, "units_pos") = StsValue(m, "units_pos")
        /\ Sts(after, r, "estimate_type") = StsValue(m, "estimate_type")
    BY <1>6
  <2> QED
    BY <2>1, MeasurementCodes
<1>10. EpochAt(after, r) = Clamp(J2000 + TaiOf(m.timescale_id, FromParts(m.duration_centuries, m.duration_ns)))
  <2>1. /\ Sts(batch, r, "duration_centuries") = m.duration_centuries
        /\ Sts(batch, r, "duration_ns") = m.duration_ns
        /\ Sts(batch, r, "timescale_id") = StsValue(m, "timescale_id")
    <3>1. StsValue(m, "duration_centuries") = m.duration_centuries /\ StsValue(m, "duration_ns") = m.duration_ns
      BY DEF StsValue
    <3> QED
      BY <1>1, <1>6, <3>1
  <2>2. HifitimeScale(StsValue(m, "timescale_id")) = m.timescale_id
    BY MeasurementCodes DEF HifitimeScale
  <2> QED
    BY <1>3, <2>1, <2>2 DEF EpochAt, EpochFromParts
<1>11. SaysWhatWasMeasured(after, r, m)
  BY <1>5, <1>8, <1>9, <1>10 DEF SaysWhatWasMeasured
<1> QED
  BY <1>11 DEF after, batch

LEMMA AcceptedIsFaithful ==
    ASSUME NEW batch, FitsSchema(batch), NEW schema, Layout(schema), Accepted(batch, schema),
           NEW measured, \/ measured = <<>>
                         \/ /\ IsList(measured) /\ \A r \in DOMAIN measured : IsMeasurement(measured[r])
                            /\ batch = Built(measured)
    PROVE  Faithful(Arrived(batch, schema), [batch |-> batch, loaded |-> FALSE, measured |-> measured])
<1> DEFINE after == Arrived(batch, schema)
           from == [batch |-> batch, loaded |-> FALSE, measured |-> measured]
<1>1. /\ DOMAIN after.rows = DOMAIN batch.rows
      /\ \A r \in DOMAIN batch.rows :
           /\ Sts(after, r, "timescale_id") = TAI
           /\ EpochAt(after, r) = EpochAt(batch, r)
           /\ \A name \in StsColumns \ Rewritten : Sts(after, r, name) = Sts(batch, r, name)
           /\ Decodes(LengthUnit, Sts(batch, r, "units_pos"))
           /\ Decodes(EstimateType, Sts(batch, r, "estimate_type"))
           /\ Sts(batch, r, "frame_id") = "null" \/ NamesAFrame(Sts(batch, r, "frame_id"))
  BY AcceptedKeeps
<1>2. TopologyReads(after)
  BY DEF Accepted
<1>3. from.batch = batch /\ from.loaded = FALSE /\ from.measured = measured
  OBVIOUS
<1>4. {"units_pos", "estimate_type", "frame_id"} \subseteq StsColumns \ Rewritten
  BY DEF StsColumns, Rewritten
<1>5. ASSUME measured # <<>>, NEW r \in DOMAIN measured
      PROVE  /\ SaysWhatWasMeasured(after, r, measured[r])
             /\ \A name \in StsColumns : Sts(BuiltSts(measured), r, name) = Sts(batch, r, name)
  <2>1. IsList(measured) /\ batch = Built(measured) /\ \A q \in DOMAIN measured : IsMeasurement(measured[q])
    BY <1>5
  <2>2. SaysWhatWasMeasured(after, r, measured[r])
    BY <1>5, <2>1, ArrivedSaysWhatWasMeasured
  <2>3. \A name \in StsColumns : Sts(batch, r, name) = PoseValue(measured[r], name)
    <3>1. \A q \in DOMAIN measured : IsMeasured(measured[q])
      BY <2>1, MeasurementCodes
    <3> QED
      BY <1>5, <2>1, <3>1, BuiltRow
  <2>4. \A name \in StsColumns : PoseValue(measured[r], name) = StsValue(measured[r], name)
    BY <1>5, <2>1, MeasurementCodes
  <2>5. \A name \in StsColumns : Sts(BuiltSts(measured), r, name) = StsValue(measured[r], name)
    BY <1>5, <2>1, BuiltStsReads
  <2> QED
    BY <2>2, <2>3, <2>4, <2>5
<1> HIDE DEF after, from
<1>6. ColumnsKept(after, from)
  BY <1>1, <1>3 DEF ColumnsKept
<1>7. MomentsKept(after, from)
  BY <1>1, <1>3 DEF MomentsKept
<1>8. RowsDecode(after, from)
  <2>1. SUFFICES ASSUME NEW r \in DOMAIN after.rows
                 PROVE  /\ Decodes(LengthUnit, Sts(after, r, "units_pos"))
                        /\ Decodes(TimeScaleCode, Sts(after, r, "timescale_id"))
                        /\ Decodes(EstimateType, Sts(after, r, "estimate_type"))
                        /\ \/ NamesAFrame(Sts(after, r, "frame_id"))
                           \/ IdColumn = "" /\ Sts(after, r, "frame_id") = "null"
    BY DEF RowsDecode
  <2>2. /\ Sts(after, r, "units_pos") = Sts(batch, r, "units_pos")
        /\ Sts(after, r, "estimate_type") = Sts(batch, r, "estimate_type")
        /\ Sts(after, r, "frame_id") = Sts(batch, r, "frame_id")
    BY <1>1, <1>4, <2>1
  <2>3. IdColumn = "" \/ NamesAFrame(Sts(after, r, "frame_id"))
    BY <1>2, <2>1 DEF TopologyReads
  <2>4. Decodes(TimeScaleCode, Sts(after, r, "timescale_id"))
    BY <1>1, <2>1, CodeOfTAI
  <2>5. /\ Decodes(LengthUnit, Sts(after, r, "units_pos"))
        /\ Decodes(EstimateType, Sts(after, r, "estimate_type"))
        /\ Sts(after, r, "frame_id") = "null" \/ NamesAFrame(Sts(after, r, "frame_id"))
    BY <1>1, <2>1, <2>2
  <2> QED
    BY <2>3, <2>4, <2>5
<1>9. MeasuredKept(after, from)
  <2>1. \A r \in DOMAIN measured : measured # <<>>
    OBVIOUS
  <2> QED
    BY <1>3, <1>5, <2>1 DEF MeasuredKept, BuildersAgree
<1>10. Faithful(after, from)
  BY <1>6, <1>7, <1>8, <1>9 DEF Faithful
<1> QED
  BY <1>10 DEF after, from

LEMMA LoadedIsFaithful ==
    ASSUME NEW batch, Readable(batch), Segment(batch) # Refused
    PROVE  LET s == Segment(batch)
           IN  /\ s.batch = batch /\ MeasuredSegment(s)
               /\ Faithful(batch, [batch |-> batch, loaded |-> TRUE, measured |-> <<>>])
<1> DEFINE from == [batch |-> batch, loaded |-> TRUE, measured |-> <<>>]
<1>1. from.batch = batch /\ from.loaded = TRUE /\ DOMAIN from.measured = {}
  OBVIOUS
<1> HIDE DEF from
<1>2. Faithful(batch, from)
  BY <1>1 DEF Faithful, ColumnsKept, MomentsKept, RowsDecode, MeasuredKept, BuildersAgree
<1>3. Segment(batch).batch = batch /\ MeasuredSegment(Segment(batch))
  BY SegmentMeasures
<1> QED
  BY <1>2, <1>3 DEF from

-----------------------------------------------------------------------------
(* The invariant: every segment is a batch of the ledger's schema, measured, and faithful *)
(* to the batch it came from.                                                             *)

Holds(schema, segments, origins) ==
    /\ Layout(schema)
    /\ IsList(segments) /\ IsList(origins) /\ Len(origins) = Len(segments)
    /\ \A k \in DOMAIN segments :
          /\ segments[k].batch.schema = schema
          /\ MeasuredSegment(segments[k])
          /\ Faithful(segments[k].batch, origins[k])

IntakeIInv == Holds(ledgerSchema, stored, origin)

LEMMA AppendList ==
    ASSUME NEW s, IsList(s), NEW e
    PROVE  /\ IsList(Append(s, e)) /\ Len(Append(s, e)) = Len(s) + 1
           /\ Append(s, e)[Len(s) + 1] = e /\ \A i \in 1..Len(s) : Append(s, e)[i] = s[i]
<1> DEFINE S == ToSet(s) \cup {e}
<1>1. s \in Seq(ToSet(s))
  BY ListIsSeq
<1>2. s \in Seq(S) /\ e \in S
  <2>1. Len(s) \in Nat /\ s = [i \in 1..Len(s) |-> s[i]] /\ \A i \in 1..Len(s) : s[i] \in S
    BY ListIs DEF ToSet
  <2> HIDE DEF S
  <2>2. s \in Seq(S)
    BY <2>1, TabulatedSeq
  <2> QED
    BY <2>2 DEF S
<1> HIDE DEF S
<1>3. /\ Append(s, e) \in Seq(S) /\ Len(Append(s, e)) = Len(s) + 1
      /\ Append(s, e)[Len(s) + 1] = e /\ \A i \in 1..Len(s) : Append(s, e)[i] = s[i]
  BY <1>2, AppendProperties
<1>4. IsList(Append(s, e))
  BY <1>3, ListOfSeq
<1> QED
  BY <1>3, <1>4

LEMMA HoldsAppend ==
    ASSUME NEW schema, NEW segments, NEW origins, Holds(schema, segments, origins),
           NEW s, s.batch.schema = schema, MeasuredSegment(s), NEW from, Faithful(s.batch, from)
    PROVE  Holds(schema, Append(segments, s), Append(origins, from))
<1> DEFINE n == Len(segments)
           more == Append(segments, s)
           others == Append(origins, from)
<1>1. /\ IsList(segments) /\ IsList(origins) /\ Len(origins) = n /\ Layout(schema)
      /\ n \in Nat /\ DOMAIN segments = 1..n
  BY ListIs DEF Holds
<1>2. IsList(more) /\ Len(more) = n + 1 /\ more[n + 1] = s /\ \A i \in 1..n : more[i] = segments[i]
  BY <1>1, AppendList
<1>3. IsList(others) /\ Len(others) = n + 1 /\ others[n + 1] = from /\ \A i \in 1..n : others[i] = origins[i]
  BY <1>1, AppendList
<1> HIDE DEF more, others, n
<1>4. DOMAIN more = 1..(n + 1)
  BY <1>2, ListIs
<1>5. ASSUME NEW k \in DOMAIN more
      PROVE  more[k].batch.schema = schema /\ MeasuredSegment(more[k]) /\ Faithful(more[k].batch, others[k])
  <2>1. CASE k \in 1..n
    <3>1. /\ segments[k].batch.schema = schema /\ MeasuredSegment(segments[k])
          /\ Faithful(segments[k].batch, origins[k])
      BY <1>1, <2>1 DEF Holds
    <3> QED
      BY <1>2, <1>3, <2>1, <3>1
  <2>2. CASE k = n + 1
    BY <1>2, <1>3, <2>2
  <2>3. k \in 1..n \/ k = n + 1
    BY <1>1, <1>4
  <2> QED
    BY <2>1, <2>2, <2>3
<1>6. Holds(schema, more, others)
  BY <1>1, <1>2, <1>3, <1>5 DEF Holds
<1> QED
  BY <1>6 DEF more, others

LEMMA HoldsLoad ==
    ASSUME NEW schema, Layout(schema), NEW batches, IsList(batches),
           \A i \in DOMAIN batches :
              /\ FitsSchema([schema |-> schema, rows |-> batches[i]])
              /\ Segment([schema |-> schema, rows |-> batches[i]]) # Refused
    PROVE  LET segments == [i \in DOMAIN batches |-> Segment([schema |-> schema, rows |-> batches[i]])]
           IN  Holds(schema, segments,
                     [i \in DOMAIN segments |-> [batch |-> segments[i].batch, loaded |-> TRUE, measured |-> <<>>]])
<1> DEFINE n == Len(batches)
           segments == [i \in DOMAIN batches |-> Segment([schema |-> schema, rows |-> batches[i]])]
           origins == [i \in DOMAIN segments |-> [batch |-> segments[i].batch, loaded |-> TRUE, measured |-> <<>>]]
<1>1. n \in Nat /\ DOMAIN batches = 1..n
  BY ListIs
<1>2. ASSUME NEW i \in DOMAIN batches
      PROVE  LET s == Segment([schema |-> schema, rows |-> batches[i]])
             IN  /\ s.batch.schema = schema /\ MeasuredSegment(s)
                 /\ Faithful(s.batch, [batch |-> s.batch, loaded |-> TRUE, measured |-> <<>>])
  <2> DEFINE b == [schema |-> schema, rows |-> batches[i]]
  <2>1. b.schema = schema /\ FitsSchema(b) /\ Segment(b) # Refused
    OBVIOUS
  <2> HIDE DEF b
  <2>2. Readable(b)
    BY <2>1 DEF Readable
  <2>3. Segment(b).batch = b /\ MeasuredSegment(Segment(b))
        /\ Faithful(b, [batch |-> b, loaded |-> TRUE, measured |-> <<>>])
    BY <2>1, <2>2, LoadedIsFaithful
  <2>4. /\ Segment(b).batch.schema = schema /\ MeasuredSegment(Segment(b))
        /\ Faithful(Segment(b).batch, [batch |-> Segment(b).batch, loaded |-> TRUE, measured |-> <<>>])
    BY <2>1, <2>3
  <2> QED
    BY <2>4 DEF b
<1>3. DOMAIN segments = 1..n /\ segments = [i \in 1..n |-> segments[i]]
  BY <1>1
<1>4. \A i \in 1..n :
          /\ segments[i].batch.schema = schema /\ MeasuredSegment(segments[i])
          /\ Faithful(segments[i].batch, [batch |-> segments[i].batch, loaded |-> TRUE, measured |-> <<>>])
  BY <1>1, <1>2
<1> HIDE DEF segments, n
<1>5. /\ origins = [i \in 1..n |-> origins[i]]
      /\ \A i \in 1..n : origins[i] = [batch |-> segments[i].batch, loaded |-> TRUE, measured |-> <<>>]
  BY <1>3
<1> HIDE DEF origins
<1>6. IsList(segments) /\ IsList(origins) /\ Len(segments) = n /\ Len(origins) = n
  BY <1>1, <1>3, <1>5, Tabulated
<1>7. Holds(schema, segments, origins)
  BY <1>3, <1>4, <1>5, <1>6 DEF Holds
<1> QED
  BY <1>7 DEF origins, segments

LEMMA IntakeIInvInit == IntakeInit => IntakeIInv
<1> SUFFICES ASSUME IntakeInit PROVE IntakeIInv
  OBVIOUS
<1>1. PICK file \in SchemaFiles : ledgerSchema = FreshSchema(file) /\ ValidateSchema(ledgerSchema)
  BY DEF IntakeInit
<1>2. IsSchema(ledgerSchema)
  <2>1. CASE LoadSchema(file) = Refused
    BY <1>1, <2>1, EntityLayout DEF FreshSchema, Layout
  <2>2. CASE LoadSchema(file) # Refused
    <3>1. file.state = "read"
      BY <2>2 DEF LoadSchema
    <3> QED
      BY <1>1, <2>2, <3>1, IntakeAssumption DEF FreshSchema
  <2> QED
    BY <2>1, <2>2
<1>3. Layout(ledgerSchema)
  BY <1>1, <1>2 DEF Layout, ValidateSchema
<1>4. stored = <<>> /\ origin = <<>> /\ DOMAIN stored = {}
  BY DEF IntakeInit
<1> QED
  BY <1>3, <1>4, EmptyIsList DEF IntakeIInv, Holds

LEMMA AppendBatchHolds ==
    ASSUME IntakeIInv, NEW batch, FitsSchema(batch), NEW measured, AppendBatch(batch, measured),
           \/ measured = <<>>
           \/ /\ IsList(measured) /\ \A r \in DOMAIN measured : IsMeasurement(measured[r])
              /\ batch = Built(measured)
    PROVE  IntakeIInv'
<1> DEFINE after == Arrived(batch, ledgerSchema)
           s == Segment(after)
           from == [batch |-> batch, loaded |-> FALSE, measured |-> measured]
<1>1. /\ ConformToSchema(batch, ledgerSchema) # Refused
      /\ ValidateBatch(ConformToSchema(batch, ledgerSchema))
      /\ s # Refused /\ TopologyReads(s.batch)
      /\ stored' = Append(stored, s) /\ origin' = Append(origin, from)
      /\ ledgerSchema' = ledgerSchema
  BY DEF AppendBatch, Arrived
<1>2. Holds(ledgerSchema, stored, origin)
  BY DEF IntakeIInv
<1>3. Layout(ledgerSchema)
  BY <1>2 DEF Holds
<1>4. s.batch = after
  <2>1. \A b : Segment(b) # Refused => Segment(b).batch = b
    <3>1. TAKE b
    <3> DEFINE lowest == CHOOSE m \in {MeasuredEpoch(b, r) : r \in DOMAIN b.rows} \cup {MaxDuration} :
                            \A e \in {MeasuredEpoch(b, r) : r \in DOMAIN b.rows} : m <= e
               highest == CHOOSE m \in {MeasuredEpoch(b, r) : r \in DOMAIN b.rows} \cup {MinDuration} :
                            \A e \in {MeasuredEpoch(b, r) : r \in DOMAIN b.rows} : m >= e
    <3>2. Segment(b) # Refused => Segment(b) = [batch |-> b, min |-> lowest, max |-> highest]
      BY DEF Segment
    <3> HIDE DEF lowest, highest
    <3> QED
      BY <3>2
  <2> QED
    BY <1>1, <2>1
<1> HIDE DEF s
<1>5. Accepted(batch, ledgerSchema)
  BY <1>1, <1>4 DEF Accepted, s
<1>6. Readable(after) /\ after.schema = ledgerSchema
  BY <1>3, <1>5, AcceptedKeeps
<1>7. Faithful(after, from)
  BY <1>3, <1>5, AcceptedIsFaithful
<1> HIDE DEF after, from
<1>8. MeasuredSegment(s)
  BY <1>1, <1>6, SegmentMeasures DEF s
<1>9. Holds(ledgerSchema, Append(stored, s), Append(origin, from))
  BY <1>2, <1>4, <1>6, <1>7, <1>8, HoldsAppend
<1> QED
  BY <1>1, <1>9 DEF IntakeIInv

LEMMA LoadFileHolds ==
    ASSUME NEW file, IsSchema(file.schema), IsList(file.batches),
           \A i \in DOMAIN file.batches : FitsSchema([schema |-> file.schema, rows |-> file.batches[i]]),
           LoadFile(file)
    PROVE  IntakeIInv'
<1> DEFINE schema == file.schema
           batches == file.batches
           segments == [i \in DOMAIN batches |-> Segment([schema |-> schema, rows |-> batches[i]])]
           origins == [i \in DOMAIN segments |-> [batch |-> segments[i].batch, loaded |-> TRUE, measured |-> <<>>]]
<1>1. /\ ValidateSchema(schema)
      /\ \A i \in DOMAIN segments : segments[i] # Refused
      /\ ledgerSchema' = schema /\ stored' = segments /\ origin' = origins
  BY DEF LoadFile
<1>2. Layout(schema)
  BY <1>1 DEF Layout, ValidateSchema
<1>3. \A i \in DOMAIN batches :
          /\ FitsSchema([schema |-> schema, rows |-> batches[i]])
          /\ Segment([schema |-> schema, rows |-> batches[i]]) # Refused
  BY <1>1
<1>4. Holds(schema, segments, origins)
  <2>1. IsList(batches)
    OBVIOUS
  <2> HIDE DEF schema, batches
  <2> QED
    BY <1>2, <1>3, <2>1, HoldsLoad
<1> QED
  BY <1>1, <1>4 DEF IntakeIInv

LEMMA IntakeIInvNext == IntakeIInv /\ [IntakeNext]_intakeVars => IntakeIInv'
<1> SUFFICES ASSUME IntakeIInv, [IntakeNext]_intakeVars PROVE IntakeIInv'
  OBVIOUS
<1>1. CASE UNCHANGED intakeVars
  BY <1>1 DEF IntakeIInv, intakeVars
<1>2. ASSUME NEW batch \in IntakeBatches, AppendBatch(batch, <<>>) PROVE IntakeIInv'
  BY <1>2, IntakeAssumption, AppendBatchHolds
<1>3. ASSUME NEW measured \in Measured, AppendBatch(Built(measured), measured) PROVE IntakeIInv'
  <2>1. IsList(measured) /\ \A r \in DOMAIN measured : IsMeasurement(measured[r])
    BY IntakeAssumption
  <2> DEFINE batch == Built(measured)
  <2>2. FitsSchema(batch)
    BY <2>1, BuiltFits
  <2>3. AppendBatch(batch, measured) /\ batch = Built(measured)
    BY <1>3
  <2> HIDE DEF batch
  <2> QED
    BY <2>1, <2>2, <2>3, AppendBatchHolds
<1>4. ASSUME NEW file \in Files, LoadFile(file) PROVE IntakeIInv'
  BY <1>4, IntakeAssumption, LoadFileHolds
<1>5. ASSUME LoadFile(SavedFile) PROVE IntakeIInv'
  <2> DEFINE file == SavedFile
  <2>1. Holds(ledgerSchema, stored, origin)
    BY DEF IntakeIInv
  <2>2. Layout(ledgerSchema) /\ IsList(stored) /\ Len(stored) \in Nat /\ DOMAIN stored = 1..Len(stored)
    BY <2>1, ListIs DEF Holds
  <2>3. /\ file.schema = ledgerSchema
        /\ file.batches = [i \in 1..Len(stored) |-> stored[i].batch.rows]
    BY <2>2 DEF SavedFile
  <2>4. /\ file.batches = [i \in 1..Len(stored) |-> file.batches[i]] /\ DOMAIN file.batches = DOMAIN stored
        /\ \A i \in DOMAIN stored : file.batches[i] = stored[i].batch.rows
    BY <2>2, <2>3
  <2>5. LoadFile(file)
    BY <1>5
  <2> HIDE DEF file
  <2>6. IsSchema(file.schema)
    BY <2>2, <2>3 DEF Layout
  <2>7. IsList(file.batches)
    <3> DEFINE batches == file.batches
               n == Len(stored)
    <3>1. n \in Nat /\ batches = [i \in 1..n |-> batches[i]]
      BY <2>2, <2>4
    <3> HIDE DEF batches, n
    <3>2. IsList(batches)
      BY <3>1, Tabulated
    <3> QED
      BY <3>2 DEF batches
  <2>8. ASSUME NEW i \in DOMAIN file.batches
        PROVE  FitsSchema([schema |-> file.schema, rows |-> file.batches[i]])
    <3> DEFINE b == stored[i].batch
    <3>1. b.schema = ledgerSchema /\ FitsSchema(b)
      BY <2>1, <2>4 DEF Holds, MeasuredSegment, Readable
    <3> HIDE DEF b
    <3>2. b = [schema |-> b.schema, rows |-> b.rows]
      BY <3>1 DEF FitsSchema
    <3>3. file.batches[i] = b.rows
      BY <2>4 DEF b
    <3> QED
      BY <2>3, <3>1, <3>2, <3>3
  <2> QED
    BY <2>5, <2>6, <2>7, <2>8, LoadFileHolds
<1> QED
  BY <1>1, <1>2, <1>3, <1>4, <1>5 DEF IntakeNext

LEMMA IntakeIInvHolds == IntakeSpec => []IntakeIInv
<1> QED
  BY IntakeIInvInit, IntakeIInvNext, PTL DEF IntakeSpec

LEMMA IntakeIInvIsFaithful == IntakeIInv => StoredIsWhatWasSent
<1> SUFFICES ASSUME IntakeIInv PROVE StoredIsWhatWasSent
  OBVIOUS
<1>1. ASSUME NEW k \in DOMAIN stored
      PROVE  /\ stored[k].batch.schema = ledgerSchema
             /\ ColumnsKept(stored[k].batch, origin[k]) /\ MomentsKept(stored[k].batch, origin[k])
             /\ RowsDecode(stored[k].batch, origin[k]) /\ MeasuredKept(stored[k].batch, origin[k])
  BY DEF IntakeIInv, Holds, Faithful
<1>2. StoredCarriesSchema
  BY <1>1 DEF StoredCarriesSchema
<1>3. \A i \in DOMAIN StsSchema : StsSchema[i].name \in StsColumns
  BY StsFields
<1>4. ColumnsKeepTheirMeaning
  BY <1>1, <1>3 DEF ColumnsKeepTheirMeaning, ColumnsKept, Rewritten
<1>5. StoredIsTheMomentSent
  BY <1>1 DEF StoredIsTheMomentSent, MomentsKept
<1>6. StoredDecodes
  BY <1>1 DEF StoredDecodes, RowsDecode
<1>7. MeasuredIsStored
  <2>1. SUFFICES ASSUME NEW k \in DOMAIN stored, NEW r \in DOMAIN origin[k].measured
                 PROVE  /\ SaysWhatWasMeasured(stored[k].batch, r, origin[k].measured[r])
                        /\ \A i \in DOMAIN StsSchema :
                              Sts(BuiltSts(origin[k].measured), r, StsSchema[i].name)
                                 = Sts(origin[k].batch, r, StsSchema[i].name)
    BY DEF MeasuredIsStored, SaysWhatWasMeasured
  <2> QED
    BY <1>1, <1>3, <2>1 DEF MeasuredKept, BuildersAgree
<1> QED
  BY <1>2, <1>4, <1>5, <1>6, <1>7 DEF StoredIsWhatWasSent

\* From the producer's values, through the builders, the wire, conformance, normalisation, save
\* and load, a stored row says what was measured, and can be read (Ledger::append, from_loaded,
\* EntityBuilder, normalize_batch_to_tai).
THEOREM StoredRowsSayWhatWasSent == IntakeSpec => []StoredIsWhatWasSent
<1> QED
  BY IntakeIInvHolds, IntakeIInvIsFaithful, PTL

-----------------------------------------------------------------------------
(* Queries: the rows a filter is about. *)

LEMMA MaskedKeeps ==
    ASSUME NEW seq, IsList(seq), NEW mask
    PROVE  /\ Masked(seq, mask) \in Seq(ToSet(seq))
           /\ (\A i \in DOMAIN seq : ~mask[i]) => Masked(seq, mask) = <<>>
<1> DEFINE n == Len(seq)
           S == ToSet(seq)
           m == [i \in DOMAIN seq |-> IF mask[i] THEN <<seq[i]>> ELSE <<>>]
<1>1. n \in Nat /\ DOMAIN seq = 1..n
  BY ListIs
<1>2. \A i \in 1..n : seq[i] \in S
  BY <1>1 DEF ToSet
<1>3. /\ m = [i \in 1..n |-> m[i]]
      /\ \A i \in 1..n : m[i] = <<seq[i]>> \/ m[i] = <<>>
      /\ (\A i \in DOMAIN seq : ~mask[i]) => \A i \in 1..n : m[i] = <<>>
  BY <1>1
<1>4. Masked(seq, mask) = FlattenSeq(m)
  BY DEF Masked
<1> HIDE DEF n, m, S
<1>5. \A i \in 1..n : m[i] \in Seq(S)
  <2>1. <<>> \in Seq(S) /\ \A x \in S : <<x>> \in Seq(S)
    BY EmptySeq
  <2> QED
    BY <1>2, <1>3, <2>1
<1>6. m \in Seq(Seq(S)) /\ Len(m) = n
  BY <1>1, <1>3, <1>5, TabulatedSeq
<1>7. FlattenSeq(m) \in Seq(S)
  BY <1>6, FlattenIsSeq
<1>8. ASSUME \A i \in DOMAIN seq : ~mask[i] PROVE FlattenSeq(m) = <<>>
  <2>1. ToSet(FlattenSeq(m)) = UNION {ToSet(s) : s \in ToSet(m)}
    BY <1>6, SetOfFlatten
  <2>2. \A s \in ToSet(m) : s = <<>>
    BY <1>1, <1>3, <1>6, <1>8 DEF ToSet
  <2>3. ToSet(<<>>) = {}
    BY DEF ToSet
  <2>4. ToSet(FlattenSeq(m)) = {}
    BY <2>1, <2>2, <2>3
  <2> DEFINE f == FlattenSeq(m)
  <2>5. f \in Seq(S) /\ ToSet(f) = {}
    BY <1>7, <2>4
  <2> HIDE DEF f
  <2>6. Len(f) \in Nat /\ DOMAIN f = 1..Len(f)
    BY <2>5, LenProperties
  <2>7. Len(f) = 0
    <3>1. Len(f) # 0 => 1 \in DOMAIN f
      BY <2>6
    <3> QED
      BY <2>5, <2>6, <3>1 DEF ToSet
  <2>8. f = <<>>
    BY <2>5, <2>7, EmptySeq
  <2> QED
    BY <2>8 DEF f
<1> QED
  BY <1>4, <1>7, <1>8 DEF S

LEMMA WantedRows ==
    ASSUME NEW batch, IsList(batch.rows), NEW filter
    PROVE  /\ Wanted(batch, filter) \in Seq(ToSet(batch.rows))
           /\ (\A r \in DOMAIN batch.rows : ~InRange(batch, r, filter)) => Wanted(batch, filter) = <<>>
           /\ FilterBatch(batch, filter) =
                 IF filter.origin # {} /\ ~UniformFrames(batch) THEN Refused
                 ELSE [refused |-> FALSE, rows |-> Wanted(batch, filter)]
<1> DEFINE rows == batch.rows
           mask == [r \in DOMAIN rows |-> InRange(batch, r, filter) /\ InSphere(batch, r, filter)]
<1>1. \A r \in DOMAIN rows : mask[r] <=> InRange(batch, r, filter) /\ InSphere(batch, r, filter)
  BY Zenon
<1> HIDE DEF mask
<1>2. [r \in DOMAIN rows |-> IF mask[r] THEN <<rows[r]>> ELSE <<>>]
        = [r \in DOMAIN rows |-> IF InRange(batch, r, filter) /\ InSphere(batch, r, filter) THEN <<rows[r]>> ELSE <<>>]
  BY <1>1
<1>3. Masked(rows, mask) = Wanted(batch, filter)
  BY <1>2 DEF Masked, Wanted
<1>4. FilterBatch(batch, filter) =
                 IF filter.origin # {} /\ ~UniformFrames(batch) THEN Refused
                 ELSE [refused |-> FALSE, rows |-> Masked(rows, mask)]
  BY DEF FilterBatch, mask
<1>5. /\ Masked(rows, mask) \in Seq(ToSet(rows))
      /\ (\A i \in DOMAIN rows : ~mask[i]) => Masked(rows, mask) = <<>>
  BY MaskedKeeps
<1> QED
  BY <1>1, <1>3, <1>4, <1>5

\* A spatial filter refuses where two frames differ or one is not an id.
LEMMA IncomparableIsNotUniform ==
    ASSUME NEW batch, IsList(batch.rows)
    PROVE  Incomparable(batch) <=> ~UniformFrames(batch)
<1> DEFINE S == FramesIn(batch)
<1>1. IsFiniteSet(S) /\ Cardinality(S) \in Nat
  <2>1. IsFiniteSet(DOMAIN batch.rows)
    <3>1. DOMAIN batch.rows = 1..Len(batch.rows) /\ Len(batch.rows) \in Nat
      BY ListIs
    <3>2. \A n \in Nat : IsFiniteSet(1..n)
      BY FS_Interval
    <3> QED
      BY <3>1, <3>2
  <2> DEFINE D == DOMAIN batch.rows
  <2>2. IsFiniteSet({Sts(batch, r, "frame_id") : r \in D})
    <3> DEFINE f == [r \in D |-> Sts(batch, r, "frame_id")]
    <3>1. f \in Surjection(D, {Sts(batch, r, "frame_id") : r \in D})
      BY DEF Surjection
    <3> HIDE DEF f
    <3> QED
      BY <2>1, <3>1, FS_Surjection
  <2>3. IsFiniteSet(S)
    BY <2>2, FS_Subset DEF FramesIn
  <2> QED
    BY <2>3, FS_CardinalityType
<1>2. Incomparable(batch) <=> Cardinality(S) > 1 \/ \E f \in S : IdAt(f) = {}
  BY DEF Incomparable
<1>3. UniformFrames(batch) <=> (\A f \in S : IdAt(f) # {}) /\ \A a, b \in S : a = b
  BY DEF UniformFrames
<1> HIDE DEF S
<1>4. ASSUME NEW a \in S, NEW b \in S, a # b PROVE Cardinality(S) > 1
  <2>1. Cardinality({a}) = 1 /\ IsFiniteSet({a})
    BY FS_Singleton
  <2>2. IsFiniteSet({a} \cup {b}) /\ Cardinality({a} \cup {b}) = 2
    BY <1>4, <2>1, FS_AddElement
  <2>3. Cardinality({a} \cup {b}) <= Cardinality(S)
    BY <1>1, FS_Subset
  <2> QED
    BY <1>1, <2>2, <2>3
<1>5. ASSUME \A a, b \in S : a = b PROVE ~(Cardinality(S) > 1)
  <2>1. CASE S = {}
    BY <2>1, FS_EmptySet
  <2>2. CASE S # {}
    <3>1. PICK a \in S : S = {a}
      BY <1>5, <2>2
    <3>2. Cardinality({a}) = 1
      BY FS_Singleton
    <3> QED
      BY <3>1, <3>2
  <2> QED
    BY <2>1, <2>2
<1> QED
  BY <1>2, <1>3, <1>4, <1>5

\* A segment is read wherever one of its rows is in a range that ends before time does.
LEMMA RangeFinds ==
    ASSUME NEW s, MeasuredSegment(s), NEW r \in DOMAIN s.batch.rows, NEW from \in Int, NEW to \in Int,
           to < MaxDuration, EpochAt(s.batch, r) >= from, EpochAt(s.batch, r) <= to
    PROVE  Overlaps(s, SinceJ2000(from), SinceJ2000(to))
<1> DEFINE e == EpochAt(s.batch, r)
           m == MeasuredEpoch(s.batch, r)
<1>1. s.min \in Int /\ s.max \in Int /\ s.min <= m /\ m <= s.max
  BY DEF MeasuredSegment
<1>2. e \in Durations /\ e \in Int /\ m \in Durations /\ (m = SinceJ2000(e) \/ e = Clamp(J2000 + m))
  BY EpochsOfBatch DEF MeasuredSegment
<1>3. e >= from /\ e <= to
  OBVIOUS
<1> HIDE DEF e, m
<1>4. m \in Int /\ Clamp(m) = m /\ J2000 \in Nat
  BY <1>2, ClampFits, IntakeAssumption
<1>5. SinceJ2000(from) <= m /\ m <= SinceJ2000(to)
  <2>1. CASE m = SinceJ2000(e)
    <3>1. from - J2000 \in Int /\ e - J2000 \in Int /\ to - J2000 \in Int
          /\ from - J2000 <= e - J2000 /\ e - J2000 <= to - J2000
      BY <1>2, <1>3, <1>4
    <3> QED
      BY <2>1, <3>1, ClampFits DEF SinceJ2000
  <2>2. CASE e = Clamp(J2000 + m)
    <3>1. e = J2000 + m
      BY <1>2, <1>3, <1>4, <2>2, DurationRange DEF Clamp, Durations
    <3>2. from - J2000 \in Int /\ to - J2000 \in Int /\ from - J2000 <= m /\ m <= to - J2000
      BY <1>3, <1>4, <3>1
    <3>3. Clamp(from - J2000) <= Clamp(m) /\ Clamp(m) <= Clamp(to - J2000)
      BY <1>4, <3>2, ClampFits
    <3> QED
      BY <1>4, <3>3 DEF SinceJ2000
  <2> QED
    BY <1>2, <2>1, <2>2
<1>6. SinceJ2000(from) \in Int /\ SinceJ2000(to) \in Int
  <2>1. from - J2000 \in Int /\ to - J2000 \in Int
    BY <1>4
  <2> QED
    BY <2>1, ClampFits DEF SinceJ2000
<1> QED
  BY <1>1, <1>4, <1>5, <1>6 DEF Overlaps

LEMMA SegmentRangeFinds ==
    ASSUME NEW s, MeasuredSegment(s), NEW filter,
           \A range \in filter.timeRange : range[1] \in Int /\ range[2] \in Int /\ range[2] < MaxDuration,
           ~MayHoldSome(s, filter)
    PROVE  Wanted(s.batch, filter) = <<>>
<1>1. PICK range \in filter.timeRange : ~Overlaps(s, SinceJ2000(range[1]), SinceJ2000(range[2]))
  BY DEF MayHoldSome
<1>2. ASSUME NEW r \in DOMAIN s.batch.rows PROVE ~InRange(s.batch, r, filter)
  <2> DEFINE from == range[1]
             to == range[2]
  <2>1. from \in Int /\ to \in Int /\ to < MaxDuration /\ ~Overlaps(s, SinceJ2000(from), SinceJ2000(to))
    BY <1>1
  <2>2. InRange(s.batch, r, filter) => EpochAt(s.batch, r) >= from /\ EpochAt(s.batch, r) <= to
    BY <1>1 DEF InRange
  <2> HIDE DEF from, to
  <2> QED
    BY <2>1, <2>2, RangeFinds
<1>3. IsList(s.batch.rows)
  BY DEF MeasuredSegment, Readable, FitsSchema
<1> DEFINE b == s.batch
<1>4. IsList(b.rows) /\ \A r \in DOMAIN b.rows : ~InRange(b, r, filter)
  BY <1>2, <1>3
<1> HIDE DEF b
<1>5. Wanted(b, filter) = <<>>
  BY <1>4, WantedRows
<1> QED
  BY <1>5 DEF b

\* The stored segments, and those of them a filter reads.
Segments == ToSet(stored)
MayHold(filter) == {x \in Segments : MayHoldSome(x, filter)}
Rows == UNION {ToSet(x.batch.rows) : x \in Segments}

\* What the invariant says of the segments.
LEMMA SegmentsAreMeasured ==
    ASSUME IntakeIInv
    PROVE  /\ stored \in Seq(Segments) /\ IsList(stored)
           /\ \A x \in Segments : MeasuredSegment(x) /\ IsList(x.batch.rows)
<1>1. /\ IsList(stored)
      /\ \A k \in DOMAIN stored : MeasuredSegment(stored[k])
  BY DEF IntakeIInv, Holds
<1>2. stored \in Seq(Segments)
  BY <1>1, ListIsSeq DEF Segments
<1>3. \A x \in Segments : MeasuredSegment(x)
  BY <1>1 DEF Segments, ToSet
<1>4. \A x \in Segments : IsList(x.batch.rows)
  BY <1>3 DEF MeasuredSegment, Readable, FitsSchema
<1> QED
  BY <1>1, <1>2, <1>3, <1>4

LEMMA BatchesAreChosen ==
    ASSUME IntakeIInv, NEW filter
    PROVE  BatchesFor(filter) = Chosen(stored, Segments, MayHold(filter))
<1> DEFINE mask == [k \in DOMAIN stored |-> MayHoldSome(stored[k], filter)]
           g == Choosing(Segments, MayHold(filter))
<1>1. \A k \in DOMAIN stored : mask[k] <=> MayHoldSome(stored[k], filter)
  BY Zenon
<1>2. \A k \in DOMAIN stored : stored[k] \in Segments
  BY DEF Segments, ToSet
<1>3. \A k \in DOMAIN stored : stored[k] \in MayHold(filter) <=> MayHoldSome(stored[k], filter)
  BY <1>2 DEF MayHold
<1>4. \A k \in DOMAIN stored :
          g[stored[k]] = IF MayHoldSome(stored[k], filter) THEN <<stored[k]>> ELSE <<>>
  BY <1>2, <1>3 DEF Choosing
<1> HIDE DEF mask, g
<1>5. [k \in DOMAIN stored |-> IF mask[k] THEN <<stored[k]>> ELSE <<>>] = [k \in DOMAIN stored |-> g[stored[k]]]
  BY <1>1, <1>4
<1>6. Masked(stored, mask) = FlattenSeq(Mapped(stored, g))
  BY <1>5 DEF Masked, Mapped
<1> QED
  BY <1>6 DEF BatchesFor, Chosen, mask, g

\* What the segments that are read answer is what all of them would.
LEMMA AnswersOfChosen ==
    ASSUME IntakeIInv, NEW filter, NEW f \in [Segments -> Seq(Rows)],
           \A x \in Segments : ~MayHoldSome(x, filter) => f[x] = <<>>
    PROVE  FlattenSeq([k \in DOMAIN BatchesFor(filter) |-> f[BatchesFor(filter)[k]]])
              = FlattenSeq([k \in DOMAIN stored |-> f[stored[k]]])
<1> DEFINE S == Segments
           M == MayHold(filter)
           D == Rows
<1>1. M \in SUBSET S /\ \A x \in S \ M : f[x] = <<>>
  BY DEF MayHold
<1>2. stored \in Seq(S) /\ f \in [S -> Seq(D)]
  BY SegmentsAreMeasured
<1> HIDE DEF S, M, D
<1>3. FlattenSeq(Mapped(Chosen(stored, S, M), f)) = FlattenSeq(Mapped(stored, f))
  BY <1>1, <1>2, FlattenChosen
<1>4. BatchesFor(filter) = Chosen(stored, S, M)
  BY BatchesAreChosen DEF S, M
<1> QED
  BY <1>3, <1>4 DEF Mapped

\* The batches read are stored ones, and all of those that may hold some rows.
LEMMA BatchesReadAreStored ==
    ASSUME IntakeIInv, NEW filter
    PROVE  /\ \A k \in DOMAIN BatchesFor(filter) : BatchesFor(filter)[k] \in MayHold(filter)
           /\ \A x \in MayHold(filter) : \E k \in DOMAIN BatchesFor(filter) : BatchesFor(filter)[k] = x
<1> DEFINE S == Segments
           M == MayHold(filter)
           c == Chosen(stored, S, M)
<1>1. M \in SUBSET S /\ stored \in Seq(S) /\ ToSet(stored) = S
  BY SegmentsAreMeasured DEF MayHold, Segments
<1> HIDE DEF S, M
<1>2. ToSet(c) = ToSet(stored) \cap M
  BY <1>1, SetOfChosen
<1>3. ToSet(c) = M
  BY <1>1, <1>2
<1> HIDE DEF c
<1>4. /\ \A k \in DOMAIN c : c[k] \in M
      /\ \A x \in M : \E k \in DOMAIN c : c[k] = x
  BY <1>3 DEF ToSet
<1>5. BatchesFor(filter) = c
  BY BatchesAreChosen DEF S, M, c
<1> QED
  BY <1>4, <1>5 DEF M

-----------------------------------------------------------------------------
(* Queries: what they answer. *)

WithinTime(filter) ==
    \A range \in filter.timeRange : range[1] \in Int /\ range[2] \in Int /\ range[2] < MaxDuration

LEMMA TicketFilter ==
    ASSUME NEW ticket \in TicketsWithinTime
    PROVE  LET filter == FilterOf(ticket)
               place == ticket.origin # {} /\ ticket.radius # {}
           IN  /\ WithinTime(filter)
               /\ place <=> filter.origin # {}
               /\ filter = IF place THEN ticket ELSE [ticket EXCEPT !.origin = {}, !.radius = {}]
<1> DEFINE filter == FilterOf(ticket)
           place == ticket.origin # {} /\ ticket.radius # {}
<1>1. /\ ticket = [timeRange |-> ticket.timeRange, origin |-> ticket.origin, radius |-> ticket.radius]
      /\ ticket.timeRange \in TimeRanges
      /\ \A range \in ticket.timeRange : range[2] < MaxDuration
  BY DEF TicketsWithinTime, GetTicket
<1>2. \A range \in ticket.timeRange : range[1] \in Int /\ range[2] \in Int
  BY <1>1, IntakeAssumption
<1>3. place => filter = ticket
  BY <1>1 DEF FilterOf, WithSpatial, WithTimeRange, NoFilter
<1>4. ~place => filter = [ticket EXCEPT !.origin = {}, !.radius = {}]
  <2>1. ~place => filter = [timeRange |-> ticket.timeRange, origin |-> {}, radius |-> {}]
    BY DEF FilterOf, WithTimeRange, NoFilter
  <2>2. [ticket EXCEPT !.origin = {}, !.radius = {}] = [timeRange |-> ticket.timeRange, origin |-> {}, radius |-> {}]
    <3> DEFINE a == ticket.timeRange
               b == ticket.origin
               d == ticket.radius
    <3>1. ticket = [timeRange |-> a, origin |-> b, radius |-> d]
      BY <1>1
    <3> HIDE DEF a, b, d
    <3> DEFINE once == [ticket EXCEPT !.origin = {}]
               twice == [once EXCEPT !.radius = {}]
    <3>2. once = [timeRange |-> a, origin |-> {}, radius |-> d]
      BY <3>1
    <3>3. twice = [ticket EXCEPT !.origin = {}, !.radius = {}]
      BY Zenon
    <3> HIDE DEF once
    <3>4. twice = [timeRange |-> a, origin |-> {}, radius |-> {}]
      BY <3>2
    <3> QED
      BY <3>3, <3>4 DEF a
  <2> QED
    BY <2>1, <2>2
<1>5. /\ ~place => filter.origin = {} /\ filter.timeRange = ticket.timeRange
      /\ place => filter.origin # {} /\ filter.timeRange = ticket.timeRange
  BY <1>1, <1>3, <1>4
<1> HIDE DEF filter
<1>6. WithinTime(filter)
  BY <1>1, <1>2, <1>5 DEF WithinTime
<1> HIDE DEF place
<1>7. (place <=> filter.origin # {}) /\ filter = IF place THEN ticket ELSE [ticket EXCEPT !.origin = {}, !.radius = {}]
  BY <1>3, <1>4, <1>5
<1> QED
  BY <1>6, <1>7 DEF filter, place

\* The rows of each segment that a filter is about; a segment that may hold none has none.
LEMMA WantedOfSegments ==
    ASSUME IntakeIInv, NEW filter, WithinTime(filter)
    PROVE  /\ \A x \in Segments : Wanted(x.batch, filter) \in Seq(Rows)
           /\ \A x \in Segments : ~MayHoldSome(x, filter) => Wanted(x.batch, filter) = <<>>
<1>1. ASSUME NEW x \in Segments
      PROVE  /\ Wanted(x.batch, filter) \in Seq(Rows)
             /\ ~MayHoldSome(x, filter) => Wanted(x.batch, filter) = <<>>
  <2> DEFINE b == x.batch
             w == Wanted(b, filter)
             S == ToSet(b.rows)
  <2>1. IsList(b.rows) /\ MeasuredSegment(x)
    BY SegmentsAreMeasured
  <2>2. S \subseteq Rows
    BY DEF Rows
  <2>3. ~MayHoldSome(x, filter) => w = <<>>
    BY <2>1, SegmentRangeFinds DEF WithinTime
  <2> HIDE DEF b
  <2>4. w \in Seq(S)
    BY <2>1, WantedRows
  <2> HIDE DEF w, S
  <2>5. w \in Seq(Rows)
    <3>1. Len(w) \in Nat /\ w \in [1..Len(w) -> S]
      BY <2>4, LenProperties
    <3>2. w = [i \in 1..Len(w) |-> w[i]] /\ \A i \in 1..Len(w) : w[i] \in Rows
      BY <2>2, <3>1
    <3> QED
      BY <3>1, <3>2, TabulatedSeq
  <2> QED
    BY <2>3, <2>5 DEF b, w
<1> QED
  BY <1>1

LEMMA AllWantedIsRead ==
    ASSUME IntakeIInv, NEW filter, WithinTime(filter)
    PROVE  FlattenSeq([k \in DOMAIN BatchesFor(filter) |-> Wanted(BatchesFor(filter)[k].batch, filter)])
              = AllWanted(filter)
<1> DEFINE f == [x \in Segments |-> Wanted(x.batch, filter)]
           c == BatchesFor(filter)
<1>1. f \in [Segments -> Seq(Rows)] /\ \A x \in Segments : ~MayHoldSome(x, filter) => f[x] = <<>>
  BY WantedOfSegments
<1>2. \A k \in DOMAIN c : c[k] \in Segments
  BY BatchesReadAreStored DEF MayHold
<1>3. \A k \in DOMAIN stored : stored[k] \in Segments
  BY DEF Segments, ToSet
<1>4. \A x \in Segments : f[x] = Wanted(x.batch, filter)
  OBVIOUS
<1> HIDE DEF f
<1>5. FlattenSeq([k \in DOMAIN c |-> f[c[k]]]) = FlattenSeq([k \in DOMAIN stored |-> f[stored[k]]])
  BY <1>1, AnswersOfChosen
<1> HIDE DEF c
<1>6. [k \in DOMAIN c |-> f[c[k]]] = [k \in DOMAIN c |-> Wanted(c[k].batch, filter)]
  BY <1>2, <1>4
<1>7. [k \in DOMAIN stored |-> f[stored[k]]] = [k \in DOMAIN stored |-> Wanted(stored[k].batch, filter)]
  BY <1>3, <1>4
<1>8. FlattenSeq([k \in DOMAIN c |-> Wanted(c[k].batch, filter)])
        = FlattenSeq([k \in DOMAIN stored |-> Wanted(stored[k].batch, filter)])
  BY <1>5, <1>6, <1>7
<1> QED
  BY <1>8 DEF c, AllWanted

\* What is read of a segment.
LEMMA PartOfStream ==
    ASSUME IntakeIInv, NEW filter, NEW k \in DOMAIN BatchesFor(filter)
    PROVE  LET batch == BatchesFor(filter)[k].batch
               part == StreamQuery(filter)[k]
           IN  /\ DOMAIN StreamQuery(filter) = DOMAIN BatchesFor(filter)
               /\ part.refused <=> filter.origin # {} /\ Incomparable(batch)
               /\ ~part.refused => part.rows = Wanted(batch, filter)
<1> DEFINE c == BatchesFor(filter)
           batch == c[k].batch
           part == StreamQuery(filter)[k]
<1>1. c[k] \in Segments
  BY BatchesReadAreStored DEF MayHold
<1>2. IsList(batch.rows)
  BY <1>1, SegmentsAreMeasured
<1>3. DOMAIN StreamQuery(filter) = DOMAIN c /\ part = FilterBatch(batch, filter)
  BY DEF StreamQuery
<1> HIDE DEF batch, part, c
<1>4. FilterBatch(batch, filter) = IF filter.origin # {} /\ ~UniformFrames(batch) THEN Refused
                                   ELSE [refused |-> FALSE, rows |-> Wanted(batch, filter)]
  BY <1>2, WantedRows
<1>5. Incomparable(batch) <=> ~UniformFrames(batch)
  BY <1>2, IncomparableIsNotUniform
<1>6. (part.refused <=> filter.origin # {} /\ Incomparable(batch)) /\ (~part.refused => part.rows = Wanted(batch, filter))
  BY <1>3, <1>4, <1>5 DEF Refused
<1> QED
  BY <1>3, <1>6 DEF batch, part, c

LEMMA QueryAnswers ==
    ASSUME IntakeIInv, NEW filter, WithinTime(filter)
    PROVE  LET answer == Query(filter)
           IN  /\ answer.refused => \/ stored = <<>>
                                    \/ filter.origin # {} /\ \E k \in DOMAIN stored : Incomparable(stored[k].batch)
               /\ ~answer.refused => answer.rows = AllWanted(filter)
               /\ ~answer.refused /\ filter.origin # {} =>
                     \A k \in DOMAIN stored :
                        Incomparable(stored[k].batch) => Wanted(stored[k].batch, filter) = <<>>
<1> DEFINE answer == Query(filter)
           parts == StreamQuery(filter)
           c == BatchesFor(filter)
           none == stored = <<>> \/ \E k \in DOMAIN parts : parts[k].refused
<1>1. ASSUME NEW k \in DOMAIN c
      PROVE  /\ DOMAIN parts = DOMAIN c
             /\ parts[k].refused <=> filter.origin # {} /\ Incomparable(c[k].batch)
             /\ ~parts[k].refused => parts[k].rows = Wanted(c[k].batch, filter)
  BY PartOfStream
<1>2. DOMAIN parts = DOMAIN c
  BY DEF StreamQuery
<1>3. /\ \A k \in DOMAIN c : c[k] \in Segments
      /\ \A x \in MayHold(filter) : \E k \in DOMAIN c : c[k] = x
  BY BatchesReadAreStored DEF MayHold
<1>4. FlattenSeq([k \in DOMAIN c |-> Wanted(c[k].batch, filter)]) = AllWanted(filter)
  BY AllWantedIsRead
<1>5. /\ none => answer = Refused
      /\ ~none => answer = [refused |-> FALSE, rows |-> FlattenSeq([k \in DOMAIN parts |-> parts[k].rows])]
  BY DEF Query
<1> HIDE DEF answer, parts, c
<1>6. answer.refused <=> none
  BY <1>5 DEF Refused
<1>7. ASSUME none
      PROVE  \/ stored = <<>>
             \/ filter.origin # {} /\ \E k \in DOMAIN stored : Incomparable(stored[k].batch)
  <2>1. SUFFICES ASSUME NEW k \in DOMAIN parts, parts[k].refused
                 PROVE  filter.origin # {} /\ \E j \in DOMAIN stored : Incomparable(stored[j].batch)
    BY <1>7
  <2>2. k \in DOMAIN c
    BY <1>2, <2>1
  <2>3. filter.origin # {} /\ Incomparable(c[k].batch) /\ c[k] \in Segments
    BY <1>1, <1>3, <2>1, <2>2
  <2>4. PICK j \in DOMAIN stored : stored[j] = c[k]
    BY <2>3 DEF Segments, ToSet
  <2> QED
    BY <2>3, <2>4
<1>8. ASSUME ~none PROVE answer.rows = AllWanted(filter)
  <2>1. \A k \in DOMAIN parts : parts[k].rows = Wanted(c[k].batch, filter)
    BY <1>1, <1>2, <1>8
  <2>2. [k \in DOMAIN parts |-> parts[k].rows] = [k \in DOMAIN c |-> Wanted(c[k].batch, filter)]
    BY <1>2, <2>1
  <2>3. answer.rows = FlattenSeq([k \in DOMAIN parts |-> parts[k].rows])
    BY <1>5, <1>8
  <2> QED
    BY <1>4, <2>2, <2>3
<1>9. ASSUME ~none, filter.origin # {}, NEW k \in DOMAIN stored, Incomparable(stored[k].batch)
      PROVE  Wanted(stored[k].batch, filter) = <<>>
  <2>1. stored[k] \in Segments
    BY DEF Segments, ToSet
  <2>2. stored[k] \notin MayHold(filter)
    <3>1. SUFFICES ASSUME stored[k] \in MayHold(filter) PROVE FALSE
      OBVIOUS
    <3>2. PICK j \in DOMAIN c : c[j] = stored[k]
      BY <1>3, <3>1
    <3> QED
      BY <1>1, <1>2, <1>9, <3>2
  <2>3. ~MayHoldSome(stored[k], filter)
    BY <2>1, <2>2 DEF MayHold
  <2> QED
    BY <2>1, <2>3, WantedOfSegments
<1> HIDE DEF none
<1>10. /\ answer.refused => \/ stored = <<>>
                            \/ filter.origin # {} /\ \E k \in DOMAIN stored : Incomparable(stored[k].batch)
       /\ ~answer.refused => answer.rows = AllWanted(filter)
       /\ ~answer.refused /\ filter.origin # {} =>
             \A k \in DOMAIN stored :
                Incomparable(stored[k].batch) => Wanted(stored[k].batch, filter) = <<>>
  BY <1>6, <1>7, <1>8, <1>9
<1> QED
  BY <1>10 DEF answer

LEMMA DoGetAnswers ==
    ASSUME IntakeIInv, NEW ticket, NEW filter, filter = FilterOf(ticket), WithinTime(filter)
    PROVE  DoGet(ticket) = FlattenSeq([k \in DOMAIN stored |->
              IF filter.origin # {} /\ Incomparable(stored[k].batch) THEN <<>> ELSE Wanted(stored[k].batch, filter)])
<1> DEFINE parts == StreamQuery(filter)
           c == BatchesFor(filter)
           missing(x) == filter.origin # {} /\ Incomparable(x.batch)
           f == [x \in Segments |-> IF missing(x) THEN <<>> ELSE Wanted(x.batch, filter)]
<1>1. ASSUME NEW k \in DOMAIN c
      PROVE  /\ parts[k].refused <=> filter.origin # {} /\ Incomparable(c[k].batch)
             /\ ~parts[k].refused => parts[k].rows = Wanted(c[k].batch, filter)
  BY PartOfStream
<1>2. DOMAIN parts = DOMAIN c
  BY DEF StreamQuery
<1>3. \A k \in DOMAIN c : c[k] \in Segments
  BY BatchesReadAreStored DEF MayHold
<1>4. \A k \in DOMAIN stored : stored[k] \in Segments
  BY DEF Segments, ToSet
<1>5. f \in [Segments -> Seq(Rows)] /\ \A x \in Segments : ~MayHoldSome(x, filter) => f[x] = <<>>
  BY WantedOfSegments, EmptySeq
<1>6. \A x \in Segments : f[x] = IF missing(x) THEN <<>> ELSE Wanted(x.batch, filter)
  OBVIOUS
<1>7. DoGet(ticket) = FlattenSeq([k \in DOMAIN parts |-> IF parts[k].refused THEN <<>> ELSE parts[k].rows])
  BY DEF DoGet
<1> HIDE DEF f, parts
<1>8. FlattenSeq([k \in DOMAIN c |-> f[c[k]]]) = FlattenSeq([k \in DOMAIN stored |-> f[stored[k]]])
  BY <1>5, AnswersOfChosen
<1> HIDE DEF c
<1>9. \A k \in DOMAIN c : (IF parts[k].refused THEN <<>> ELSE parts[k].rows) = f[c[k]]
  BY <1>1, <1>3, <1>6
<1>10. [k \in DOMAIN parts |-> IF parts[k].refused THEN <<>> ELSE parts[k].rows] = [k \in DOMAIN c |-> f[c[k]]]
  BY <1>2, <1>9
<1>11. [k \in DOMAIN stored |-> f[stored[k]]]
         = [k \in DOMAIN stored |-> IF missing(stored[k]) THEN <<>> ELSE Wanted(stored[k].batch, filter)]
  BY <1>4, <1>6
<1> QED
  BY <1>7, <1>8, <1>10, <1>11

LEMMA IntakeIInvAnswersExactly == IntakeIInv => QueriesAreExact
<1> SUFFICES ASSUME IntakeIInv PROVE QueriesAreExact
  OBVIOUS
<1>1. ASSUME NEW ticket \in TicketsWithinTime
      PROVE  LET filter == FilterOf(ticket)
                 answer == Query(filter)
             IN  /\ answer.refused => \/ stored = <<>>
                                      \/ filter.origin # {} /\ \E k \in DOMAIN stored : Incomparable(stored[k].batch)
                 /\ ~answer.refused => answer.rows = AllWanted(filter)
                 /\ ~answer.refused /\ filter.origin # {} =>
                       \A k \in DOMAIN stored :
                          Incomparable(stored[k].batch) => Wanted(stored[k].batch, filter) = <<>>
  <2> DEFINE filter == FilterOf(ticket)
  <2>1. WithinTime(filter)
    BY TicketFilter
  <2> HIDE DEF filter
  <2>2. LET answer == Query(filter)
        IN  /\ answer.refused => \/ stored = <<>>
                                 \/ filter.origin # {} /\ \E k \in DOMAIN stored : Incomparable(stored[k].batch)
            /\ ~answer.refused => answer.rows = AllWanted(filter)
            /\ ~answer.refused /\ filter.origin # {} =>
                  \A k \in DOMAIN stored :
                     Incomparable(stored[k].batch) => Wanted(stored[k].batch, filter) = <<>>
    BY <2>1, QueryAnswers
  <2> QED
    BY <2>2 DEF filter
<1>2. QueryIsExact
  BY <1>1 DEF QueryIsExact
<1>3. PlacesAreComparedInOneFrame
  BY <1>1 DEF PlacesAreComparedInOneFrame
<1>4. OnlyIncomparableGoMissing
  <2>1. SUFFICES ASSUME NEW ticket \in TicketsWithinTime
                 PROVE  LET place == ticket.origin # {} /\ ticket.radius # {}
                            filter == IF place THEN ticket ELSE [ticket EXCEPT !.origin = {}, !.radius = {}]
                        IN  DoGet(ticket) = FlattenSeq([k \in DOMAIN stored |->
                                IF place /\ Incomparable(stored[k].batch) THEN <<>>
                                ELSE Wanted(stored[k].batch, filter)])
    BY DEF OnlyIncomparableGoMissing
  <2> DEFINE place == ticket.origin # {} /\ ticket.radius # {}
             given == IF place THEN ticket ELSE [ticket EXCEPT !.origin = {}, !.radius = {}]
             filter == FilterOf(ticket)
  <2>2. WithinTime(filter) /\ (place <=> filter.origin # {}) /\ filter = given
    BY <2>1, TicketFilter
  <2> HIDE DEF filter, given, place
  <2>3. DoGet(ticket) = FlattenSeq([k \in DOMAIN stored |->
            IF filter.origin # {} /\ Incomparable(stored[k].batch) THEN <<>> ELSE Wanted(stored[k].batch, filter)])
    BY <2>2, DoGetAnswers DEF filter
  <2>4. DoGet(ticket) = FlattenSeq([k \in DOMAIN stored |->
            IF place /\ Incomparable(stored[k].batch) THEN <<>> ELSE Wanted(stored[k].batch, given)])
    BY <2>2, <2>3
  <2> QED
    BY <2>4 DEF place, given
<1> QED
  BY <1>2, <1>3, <1>4 DEF QueriesAreExact

\* A query for a range that ends before time does, by place or not, answers with the stored rows
\* it is about, in order and no others, and is refused by place, or silent in do_get, only on
\* segments that mix frames or name one that does not decode, with an id column or without
\* (Ledger::query, batches_for, filter_batch, do_get).
THEOREM QueriesFindTheRowsAskedFor == IntakeSpec => []QueriesAreExact
<1> QED
  BY IntakeIInvHolds, IntakeIInvAnswersExactly, PTL
=============================================================================
