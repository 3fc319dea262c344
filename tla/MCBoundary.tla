------------------------------ MODULE MCBoundary ------------------------------
(***************************************************************************)
(* The parts of the system that share no state with one another, checked   *)
(* in one run: a behavior picks one of them and stays with it, the others  *)
(* keep their initial state.                                               *)
(***************************************************************************)
EXTENDS Federation, Reproject, Intake, Startup, TLC

CONSTANTS a, b, earth, p, q, reg1, reg2

VARIABLE part

boundaryVars ==
    <<part, federationVars, namesVars, ephemerisVars, reprojectVars, intakeVars, startupVars>>

Some(set) == CHOOSE x \in set : TRUE

-----------------------------------------------------------------------------
(* Federation: two ledgers, two entities that may hang on each other. *)

MCByteOrder == (a :> 2) @@ (b :> 1) @@ (earth :> 3)
Write(child, frame, epoch) == <<[id |-> child, frame |-> frame, epoch |-> epoch]>>
MCWrites == {Write(a, b, 1), Write(a, earth, 1), Write(a, earth, 2), Write(a, b, 2), Write(b, a, 1)}

-----------------------------------------------------------------------------
(* Names: claims under two spellings of an authority, and what may be forged. *)

MCText == {"", "NORAD", "norad", "bot", "Earth", "IAU_EARTH", "anise", "almanac"}
MCLower == [t \in MCText |-> IF t = "NORAD" THEN "norad" ELSE t]
Binding(id, authority, name) == RegistryRow(id, authority, name, id.kind)
Robot == Some(Mint(KindSoloc, "norad", "bot"))
EarthId == Some(AstronomicalFromName("Earth"))
Good == Binding(Robot, "NORAD", "bot")
Filler == Binding([kind |-> KindAstro, body |-> [eph |-> 399, orient |-> 399, filler |-> 1]], "", "Earth")
MCForged == {
    << <<Good>>, <<Good>> >>,
    << <<Good>>, <<[Good EXCEPT !.name = "Earth"]>> >>,
    << <<Good>>, <<Filler>> >>,
    << <<[Good EXCEPT !.raw.wellFormed = FALSE]>> >>,
    << <<[Good EXCEPT !.kind = KindAbstract]>> >> }
Claim(id, authority, name) == [id |-> id, authority |-> authority, name |-> name]
MCClaims == {
    Claim(Robot, "NORAD", "bot"), Claim(Robot, "norad", "Earth"),
    Claim(EarthId, "norad", "Earth"), Claim(EarthId, "NORAD", "IAU_EARTH") }

-----------------------------------------------------------------------------
(* Ephemeris: a planetary kernel, one with a gap, masses, and one that is torn. *)

Covering(bodies) == bodies \X (0..14)
De440 == [positions |-> Covering({10, 399, 301}), orients |-> {}, gms |-> {}, readable |-> TRUE]
Jup365 == [positions |-> Covering({599}) \ {<<599, 6>>}, orients |-> {}, gms |-> {}, readable |-> TRUE]
Pck11 == [positions |-> {}, orients |-> {10, 399, 301, 599}, gms |-> {10, 399, 301, 599}, readable |-> TRUE]
Torn == [De440 EXCEPT !.readable = FALSE]
MCKernels == {De440, Jup365, Pck11, Torn}
Body(naif) == [form |-> "astronomical", pair |-> BodyFixed(naif)]
Named == [form |-> "named", authority |-> "NORAD", name |-> "bot"]
Hex(wellFormed) == [form |-> "hex", raw |-> [wellFormed |-> wellFormed, id |-> IcrfId]]
MCSnapshotBodies == {
    <<Body(399), Body(301)>>, <<Body(399), Body(599)>>, <<Body(10), Named>>,
    <<Hex(TRUE)>>, <<Hex(FALSE), Body(10)>>, <<>> }
About(body, centre) == [body |-> body, centre |-> centre]
MCOrbitRequests == {
    <<About(Body(301), {}), About(Body(399), {})>>, <<About(Body(301), {Body(10)})>>,
    <<About(Body(399), {Body(399)})>>, <<About(Body(599), {}), About(Body(301), {})>>,
    <<About(Body(10), {})>>, <<About(Body(10), {Body(399)})>>, <<About(Named, {})>>,
    <<About(Body(301), {Named})>>, <<>> }
MCPeriod == [naif \in {0, 10, 301, 399, 599} |-> 12]
MCUnbound == {<<10, 399>>}

-----------------------------------------------------------------------------
(* Reproject: an entity that moves to another root, one that is lost, a label. *)

Lost == Some(Mint(KindSoloc, "norad", "Earth"))
Label == Some(Mint(KindAbstract, "norad", "bot"))
Fixed(naif) == [kind |-> KindAstro, body |-> BodyFixed(naif)]
MCResolveToRoot(frame, t) ==
    IF frame = Robot THEN {[root |-> IF t < 7 THEN Fixed(399) ELSE Fixed(301), pose |-> <<"pose at", t>>]}
    ELSE {}
Sample(frame, t) ==
    [frame |-> frame, unit |-> 1, scale |-> 1, epoch |-> t, source |-> "s", estimate |-> 1]
Samples == {Sample(f, t) : f \in {Robot, Fixed(399), IcrfId}, t \in {6, 8}}
    \cup {Sample(Lost, 6), Sample(Label, 6), Sample(Fixed(599), 6)}
MCRowBatches == {<<>>} \cup {<<r, s>> : r, s \in Samples}
    \cup {<<r, s, Sample(Robot, 8)>> : r, s \in {x \in Samples : x.frame = Robot}}
MCCallKernels == {{De440, Pck11}, {De440}}

-----------------------------------------------------------------------------
(* Intake: batches of mixed timescales, and each way a batch can be wrong. *)

MCIdKind == ("rover" :> "soloc") @@ ("earth" :> "astro") @@ ("mars" :> "astro")
    @@ ("label" :> "abstract") @@ ("garbage" :> "broken") @@ ("null" :> "broken")
\* UTC with one leap second, GPS time behind TAI by a constant.
MCTaiOf(scale, d) ==
    Clamp(IF scale = "UTC" THEN (IF d < 2 THEN d + 1 ELSE d + 2) ELSE IF scale = "GPST" THEN d + 3 ELSE d)
Under(stsSchema) == [EntitySchema EXCEPT ![2].fields = stsSchema]
Pyarrow == Under([StsSchema EXCEPT ![1].meta = <<>>, ![4].meta = <<>>])
Swapped == Under([StsSchema EXCEPT ![2] = StsSchema[5], ![5] = StsSchema[2]])
Untyped == Under([StsSchema EXCEPT ![8].kind = "u64"])
Flat == <<EntitySchema[1]>> \o StsSchema
MCSchemaFiles ==
    {[state |-> "none"], [state |-> "torn"]}
    \cup {[state |-> "read", schema |-> schema] : schema \in {Swapped, Untyped, Flat}}
RowsUnder(schema, ms) ==
    [r \in DOMAIN ms |-> [i \in DOMAIN schema |->
        IF i = 2 THEN [f \in DOMAIN schema[2].fields |-> ms[r][schema[2].fields[f].name]]
        ELSE ms[r][schema[i].name]]]
BatchUnder(schema, ms) == [schema |-> schema, rows |-> RowsUnder(schema, ms)]
OnTime == [entity_id |-> "rover", frame_id |-> "earth", units_pos |-> 1, timescale_id |-> TAI,
    source_id |-> "label", estimate_type |-> 1, position |-> 1, quaternion |-> "q",
    duration_centuries |-> 0, duration_ns |-> 1, position_covariance |-> "null",
    orientation_covariance |-> "null", velocity |-> "v", angular_velocity |-> "w",
    acceleration |-> "a", mass_kg |-> "m", state_covariance |-> "null", dimensions |-> "d"]
OnUtc == [OnTime EXCEPT !.timescale_id = 5, !.duration_ns = 2]
OnGps == [OnTime EXCEPT !.timescale_id = 6, !.duration_centuries = -1, !.duration_ns = 3, !.position = 5]
AtTheEnd == [OnTime EXCEPT !.duration_centuries = 2, !.duration_ns = 3, !.timescale_id = 5]
Overfull == [OnTime EXCEPT !.duration_ns = 6]
OnMars == [OnTime EXCEPT !.frame_id = "mars", !.estimate_type = 2, !.duration_ns = 3]
MCIntakeBatches ==
    {BatchUnder(EntitySchema, ms) : ms \in {
        <<OnTime, OnUtc>>, <<OnUtc, OnGps, OnTime>>, <<AtTheEnd, Overfull>>, <<OnTime, OnMars, OnUtc>>, <<>>,
        <<[OnTime EXCEPT !.units_pos = 0], OnTime>>, <<[OnTime EXCEPT !.timescale_id = 14]>>,
        <<[OnTime EXCEPT !.estimate_type = -1], OnTime>>, <<[OnTime EXCEPT !.frame_id = "label"]>>,
        <<[OnTime EXCEPT !.frame_id = "null"]>>, <<[OnTime EXCEPT !.entity_id = "garbage"]>>}}
    \cup {BatchUnder(Pyarrow, <<OnUtc, OnMars>>), BatchUnder(Swapped, <<OnMars>>), BatchUnder(Untyped, <<OnTime>>)}
\* A ledger without an id column: from_loaded reads no topology, so any frame gets in.
PlainBatches == {BatchUnder(EntitySchema, <<OnTime, OnUtc>>), BatchUnder(EntitySchema, <<OnTime, OnMars>>)}
Plain == INSTANCE Intake WITH IdColumn <- "", IntakeBatches <- PlainBatches
Measurement == [OnTime EXCEPT !.units_pos = "m", !.timescale_id = "UTC", !.estimate_type = "SIMULATED"]
MCMeasured == {<<Measurement, [Measurement EXCEPT !.timescale_id = "GPST", !.frame_id = "mars", !.position = 5]>>}
MCFiles ==
    {[schema |-> schema, batches |-> <<RowsUnder(schema, <<OnUtc, OnGps>>),
                                       RowsUnder(schema, <<AtTheEnd, [OnTime EXCEPT !.units_pos = 0]>>)>>]
        : schema \in {EntitySchema, Swapped}}
    \cup {[schema |-> EntitySchema, batches |-> <<RowsUnder(EntitySchema, <<OnTime, OnGps>>),
               RowsUnder(EntitySchema, <<[OnUtc EXCEPT !.frame_id = "garbage"]>>)>>]}
\* A negative radius is as good as its square.
MCRadii == {{}, {-2}}
MCTimeRanges == {{}} \cup {{<<start, end>>} : start, end \in {-6, 4, 5, 6, 7, 11}}

-----------------------------------------------------------------------------
(* Startup: counts at the width's edge, units that exist and one that does not. *)

MCScales == ("" :> 1) @@ ("B" :> 1) @@ ("KB" :> 10) @@ ("KiB" :> 16)
MCTexts == [count : {-1, 0, 3, 16, 255, 256}, unit : {"", "KB", "KiB", "furlong"}]
MCConfigs ==
    [bind : {"127.0.0.1:1", "nonsense"}, ledger : {"file"}, idColumn : {"entity_id"},
     memoryLimit : {{}} \cup {{text} : text \in MCTexts}, kernels : {<<>>, <<"torn", "de440">>}]
MCEnvironments ==
    [file : {[state |-> state, config |-> DefaultConfig] : state \in {"absent", "unreadable", "no toml"}}
              \cup {[state |-> "parsed", config |-> c] : c \in MCConfigs},
     kernelPaths : {{}, {<<>>}, {<<"torn", "pck">>}}, online : BOOLEAN, readable : {{"de440", "pck"}}]
-----------------------------------------------------------------------------
(* One part at a time. *)

Only(name, next) == part = name /\ next /\ UNCHANGED part

Init ==
    /\ part \in {"federation", "names", "ephemeris", "reproject", "intake", "plain intake", "startup"}
    /\ FederationInit /\ NamesInit /\ EphemerisInit
    /\ \/ part = "reproject"
       \/ /\ part # "reproject"
          /\ call = [batch |-> <<>>, target |-> "ICRF", unit |-> 1, kernels |-> Some(CallKernels)]
    /\ ReprojectInit
    /\ \/ part \in {"intake", "plain intake"}
       \/ part \notin {"intake", "plain intake"} /\ ledgerSchema = EntitySchema
    /\ IF part = "plain intake" THEN Plain!IntakeInit ELSE IntakeInit
    /\ \/ part = "startup"
       \/ part # "startup" /\ environment = Some(Environments)
    /\ StartupInit

Next ==
    \/ Only("federation", FederationNext)
         /\ UNCHANGED <<namesVars, ephemerisVars, reprojectVars, intakeVars, startupVars>>
    \/ Only("names", NamesNext)
         /\ UNCHANGED <<federationVars, ephemerisVars, reprojectVars, intakeVars, startupVars>>
    \/ Only("ephemeris", EphemerisNext)
         /\ UNCHANGED <<federationVars, namesVars, reprojectVars, intakeVars, startupVars>>
    \/ Only("reproject", ReprojectNext)
         /\ UNCHANGED <<federationVars, namesVars, ephemerisVars, intakeVars, startupVars>>
    \/ Only("intake", IntakeNext)
         /\ UNCHANGED <<federationVars, namesVars, ephemerisVars, reprojectVars, startupVars>>
    \/ Only("plain intake", Plain!IntakeNext)
         /\ UNCHANGED <<federationVars, namesVars, ephemerisVars, reprojectVars, startupVars>>
    \/ Only("startup", StartupNext)
         /\ UNCHANGED <<federationVars, namesVars, ephemerisVars, reprojectVars, intakeVars>>

Spec == Init /\ [][Next]_boundaryVars /\ Resynced
=============================================================================
